--------------------------- MODULE MCAuthSessions ---------------------------
(***************************************************************************)
(* Small instances of AuthSessions.                                        *)
(***************************************************************************)
EXTENDS AuthSessions, TLC

CONSTANTS u0, alice, bob, pw1, pw2

\* One account exists when the server starts.
SeedUsers == {[id |-> u0, email |-> alice, password |-> pw1]}

\* The requests differ in nothing but their name.
Symmetry == Permutations(Req)

=============================================================================
