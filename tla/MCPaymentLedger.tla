-------------------------- MODULE MCPaymentLedger --------------------------
(* Small instances of PaymentLedger. *)
EXTENDS PaymentLedger, TLC

CONSTANTS u1, u2, c1, c2, b1, b2, o1, o2, o3, w1, w2, w3, p1

AllCourses == [b \in Bundles |-> Courses]

Symmetry == Permutations(Orders) \cup Permutations(Workers)
=============================================================================
