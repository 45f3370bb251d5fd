----------------------------- MODULE MCChatHub -----------------------------
(* Small instances of ChatHub. *)
EXTENDS ChatHub, TLC

CONSTANTS c1, c2, p1, p2, s1, s2

Symmetry == Permutations(Clients) \cup Permutations(Streams)
=============================================================================
