----------------------------- MODULE MCSessions -----------------------------
(* Instances of Sessions for TLC.                                          *)
EXTENDS Sessions, TLC

(* Browsers and requests are interchangeable.                              *)
Symmetric == Permutations(Browsers) \cup Permutations(Requests)
=============================================================================
