---------------------------- MODULE MCRequestGuard ----------------------------
(* A small instance of RequestGuard for TLC: lengths that are missing, at the *)
(* limit and over it.                                                         *)
EXTENDS RequestGuard

MCLengths == {-1, 2, 3}
=============================================================================
