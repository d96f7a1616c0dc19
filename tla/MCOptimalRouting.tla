-------------------------- MODULE MCOptimalRouting --------------------------
(***************************************************************************)
(* A small instance of OptimalRouting on its own.  Server loads are half   *)
(* the capacity, where the continuation has something to relieve.          *)
(***************************************************************************)
EXTENDS OptimalRouting

CONSTANTS s1, s2, b1, b2

To(p, q) == [j \in Brokers |-> IF j = b1 THEN p ELSE q]
From(a, b) == [i \in Sources |-> IF i = s1 THEN a ELSE b]

MCTopologies ==
  {[grid |-> 5, demand |-> From(5, 5), broker |-> To(10, 10), link |-> From(first, second)] :
     first \in {To(20, 1), To(20, 6), To(12, 12)}, second \in {To(1, 20), To(6, 20), To(12, 12)}}
=============================================================================
