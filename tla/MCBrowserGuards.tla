-------------------------- MODULE MCBrowserGuards --------------------------
(***************************************************************************)
(* Small instances of BrowserGuards.                                       *)
(***************************************************************************)
EXTENDS BrowserGuards, TLC

\* The requests differ in nothing but their name, nor do the keys.
Symmetry == Permutations(Req) \cup Permutations(Key)

=============================================================================
