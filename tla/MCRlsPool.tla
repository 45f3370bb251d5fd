----------------------------- MODULE MCRlsPool -----------------------------
(* Small instances of RlsPool. *)
EXTENDS RlsPool, TLC

CONSTANTS t1, t2, k1, k2, r1, r2, x1, x2

Symmetry ==
  Permutations(Tenants) \cup Permutations(Conns) \cup Permutations(Requests) \cup Permutations(Rows)
=============================================================================
