-------------------------------- MODULE Tandem ------------------------------
(***************************************************************************)
(* What both backends promise of the traffic ("An arrival is one work      *)
(* unit: ...  Exp(mu_ij) at the access link, Exp(mu_j) at the broker",     *)
(* handler.py; docs/distributed.md, Queues and timing): a unit passes its  *)
(* access link, then its broker, each a FIFO queue with one server, and    *)
(* nothing loses, repeats or reorders units.  Units are numbered as they   *)
(* are generated.  Only a broker that dies takes units with it: those at   *)
(* it and those on their way.  The queues hold the unit in service too,    *)
(* at their head.                                                          *)
(***************************************************************************)
EXTENDS Naturals, Sequences

CONSTANTS
  Links,    \* the links (i, j) between sources and brokers
  Brokers,
  Mortal    \* brokers that may die

VARIABLES
  generated,  \* units generated so far
  access,     \* per link (i, j): the units at it
  wire,       \* per link: the units between the link and the broker
  broker,     \* per broker: the units at it
  completed   \* the units that have left their broker, in order

vars == <<generated, access, wire, broker, completed>>

Init ==
  /\ generated = 0
  /\ access = [l \in Links |-> << >>]
  /\ wire = [l \in Links |-> << >>]
  /\ broker = [j \in Brokers |-> << >>]
  /\ completed = << >>

\* source i generates a unit and routes it to broker j
Generate(l) ==
  /\ generated' = generated + 1
  /\ access' = [access EXCEPT ![l] = Append(@, generated')]
  /\ UNCHANGED <<wire, broker, completed>>

\* the access server completes the unit at the head of its queue
LeaveLink(l) ==
  /\ access[l] # << >>
  /\ access' = [access EXCEPT ![l] = Tail(@)]
  /\ wire' = [wire EXCEPT ![l] = Append(@, Head(access[l]))]
  /\ UNCHANGED <<generated, broker, completed>>

\* the unit reaches the broker
Deliver(l) ==
  /\ wire[l] # << >>
  /\ wire' = [wire EXCEPT ![l] = Tail(@)]
  /\ broker' = [broker EXCEPT ![l[2]] = Append(@, Head(wire[l]))]
  /\ UNCHANGED <<generated, access, completed>>

\* the broker completes the unit at the head of its queue
Complete(j) ==
  /\ broker[j] # << >>
  /\ broker' = [broker EXCEPT ![j] = Tail(@)]
  /\ completed' = Append(completed, Head(broker[j]))
  /\ UNCHANGED <<generated, access, wire>>

\* broker j dies
Die(j) ==
  /\ j \in Mortal
  /\ broker' = [broker EXCEPT ![j] = << >>]
  /\ wire' = [l \in Links |-> IF l[2] = j THEN << >> ELSE wire[l]]
  /\ UNCHANGED <<generated, access, completed>>

Next ==
  \/ \E l \in Links : Generate(l) \/ LeaveLink(l) \/ Deliver(l)
  \/ \E j \in Brokers : Complete(j) \/ Die(j)

Spec == Init /\ [][Next]_vars
=============================================================================
