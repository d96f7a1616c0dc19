-------------------------------- MODULE Windows ------------------------------
(***************************************************************************)
(* The windowed queues of the notebook WiOpt26JNSC_Extended.ipynb, cell    *)
(* 14: in each window every source splits its arrivals over its routes,    *)
(* the links serve, then the brokers.  This is the scheme that handler.py  *)
(* runs "over event-driven queues" (config.py), and EventSim implements    *)
(* it: one step is one window, as its telemetry record shows it.           *)
(*                                                                         *)
(* The Poisson counts are left open, and so is what prices decide: which   *)
(* routes a best response uses.  Of a split it matters which routes it     *)
(* gives flow to.  ROUTING_MODE is "random", as the notebook sets it.      *)
(***************************************************************************)
EXTENDS Integers, Functions

CONSTANTS
  Sources, Brokers,
  Links,   \* those with capacity
  Warmup   \* WARMUP_WINDOWS

VARIABLES
  window,    \* t_idx of the next window
  x,         \* per source, the brokers its row of x gives flow to
  qLink, qBroker,
  access,    \* A_ij of the last window
  arrivals,  \* arrivals_broker of the last window
  served,    \* how many units dep_broker holds, in the last window
  total      \* and in all of them

vars == <<window, x, qLink, qBroker, access, arrivals, served, total>>

Pairs == Sources \X Brokers

\* flow goes over links that exist
OnLinks(split) == \A i \in Sources : \A j \in split[i] : <<i, j>> \in Links

\* the split starts from L0, a feasible routing; a row of a source of rate 0 is empty
Init ==
  /\ window = 0
  /\ x \in [Sources -> SUBSET Brokers]
  /\ OnLinks(x)
  /\ qLink = [l \in Pairs |-> 0] /\ qBroker = [j \in Brokers |-> 0]
  /\ access = [l \in Pairs |-> 0] /\ arrivals = [j \in Brokers |-> 0]
  /\ served = 0 /\ total = 0

\* allocate_counts: the multinomial gives nothing to a route of probability 0; of a
\* row without any flow it says nothing
Allocated(counts) ==
  \A l \in Pairs : counts[l] > 0 => l[2] \in x[l[1]] \/ x[l[1]] = {}

\* a queue of q that is joined by a arrivals serves d of them
Serves(q, a, d) == d \in 0 .. q + a

\* arrivals are allocated, the links serve, then the brokers
Serve ==
  /\ window' = window + 1
  /\ Allocated(access')
  /\ LET linkServed == [l \in Pairs |-> qLink[l] + access'[l] - qLink'[l]]
         brokerServed == [j \in Brokers |-> qBroker[j] + arrivals'[j] - qBroker'[j]]
     IN  /\ \A l \in Pairs : Serves(qLink[l], access'[l], linkServed[l])
         /\ \A j \in Brokers :
              /\ arrivals'[j] = SumFunctionOnSet(linkServed, Sources \X {j})
              /\ Serves(qBroker[j], arrivals'[j], brokerServed[j])
         /\ served' = SumFunctionOnSet(brokerServed, Brokers)
  /\ total' = total + served'

\* once warm, part of each best response is added to the split
Update ==
  /\ IF window >= Warmup THEN \A i \in Sources : x[i] \subseteq x'[i] ELSE x' = x
  /\ OnLinks(x')

Next == Serve /\ Update

Spec == Init /\ [][Next]_vars
=============================================================================
