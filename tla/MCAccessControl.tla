-------------------------- MODULE MCAccessControl --------------------------
(***************************************************************************)
(* Small instances of AccessControl.                                       *)
(***************************************************************************)
EXTENDS AccessControl, TLC

CONSTANTS alice

\* An administrator and an account without that role.
SeedUsers == {[id |-> u, role |-> IF u = alice THEN "admin" ELSE "user"] :
                u \in Account}

\* The requests differ in nothing but their name.
Symmetry == Permutations(Req)

=============================================================================
