------------------------------ MODULE MCAccess ------------------------------
(* Instances of Access: the seeded organisation, and one employee to come. *)
EXTENDS AccessProperties, TLC

CONSTANTS ann, max, eve, joe, r1, c1, c2

MCFounders == [admin |-> ann, manager |-> max, report |-> eve]

CallSymmetry == Permutations({c1, c2})
=============================================================================
