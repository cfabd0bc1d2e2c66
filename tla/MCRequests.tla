----------------------------- MODULE MCRequests -----------------------------
(* The requests of the runs of Requests. *)
EXTENDS Requests

CONSTANTS r1, r2, s1, s2, d1

TwoRpcs == {r1, r2}
TwoSalts == {s1, s2}
OneDropRequest == {d1}
=============================================================================
