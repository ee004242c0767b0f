----------------------------- MODULE MCResumes -----------------------------
(* Resumes on small instances: one resume is there at the start.           *)
EXTENDS Resumes, TLC

CONSTANTS c0, alice

SeedResumes == {[id |-> c0, owner |-> alice]}

Symmetry == Permutations(Req)

=============================================================================
