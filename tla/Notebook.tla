------------------------------ MODULE Notebook ------------------------------
(***************************************************************************)
(* The reference of Algorithm 1: distributed_flow_weighted of the notebook *)
(* WiOpt26JNSC_Extended.ipynb, with the feasibility LP, the best response  *)
(* and the random starts it is called with.  StaticRun implements it.      *)
(*                                                                         *)
(* Flows are integers, in 1/unit of a work unit per second.  What prices   *)
(* decide, the best response, is left open: the whole demand of a source,  *)
(* strictly within its links, on the grid of whole work units.             *)
(***************************************************************************)
EXTENDS Integers, FiniteSetsExt, Functions

CONSTANTS
  Sources, Brokers,
  Demand,      \* lambdas_total
  Capacities,  \* mu_links and mu_brokers of the calls
  Etas,        \* eta of the calls, as <<numerator, denominator>>
  Margin       \* eps

VARIABLES
  mu, eta,     \* arguments of the call
  l,           \* l_mat, times unit
  unit,
  iterations,
  at           \* "running", "done" or "raised"

vars == <<mu, eta, l, unit, iterations, at>>

Links == Sources \X Brokers
Whole == 0 .. Max({Demand[i] : i \in Sources})

Load(routing, j) == SumFunction([i \in Sources |-> routing[i, j]])

Conserves(routing, u) ==
  \A i \in Sources : SumFunction([j \in Brokers |-> routing[i, j]]) = Demand[i] * u

\* what is left of each link and broker
Headrooms(routing, u) ==
  {mu.link[k] * u - routing[k] : k \in Links}
    \cup {mu.broker[j] * u - Load(routing, j) : j \in Brokers}

\* transportation_feasibility: the LP keeps the margin at every link and broker
Transports(routing, u) ==
  Conserves(routing, u) /\ Min(Headrooms(routing, u)) >= Margin * u

\* an initial_l that passes the tests, which keep more than the margin
Accepts(routing, u) ==
  Conserves(routing, u) /\ Min(Headrooms(routing, u)) > Margin * u

\* random_feasible_initialization: seven tenths a random vertex of the LP
RandomStart(vertex, safe) == [k \in Links |-> 7 * vertex[k] + 3 * safe[k]]

Init ==
  /\ mu \in Capacities /\ eta \in Etas
  /\ iterations = 0 /\ at = "running"
  /\ \/ unit = 1 /\ l \in [Links -> Whole] /\ Transports(l, 1)
     \/ /\ unit = 10
        /\ \E vertex, safe \in {r \in [Links -> Whole] : Transports(r, 1)} :
             l = RandomStart(vertex, safe)
        /\ Accepts(l, 10)

\* best_response_mm1
BestResponses(i) ==
  {x \in [Brokers -> 0 .. Demand[i]] :
     /\ SumFunction(x) = Demand[i]
     /\ \A j \in Brokers : x[j] = 0 \/ x[j] < mu.link[i, j]}

AtMost(a, b) == a[1] * b[2] <= b[1] * a[2]
Smaller(a, b) == IF AtMost(a, b) THEN a ELSE b
Least(s) == CHOOSE a \in s : \A b \in s : AtMost(a, b)

\* safe_fraction, at least 0: growing brokers are not taken past the margin
SafeFraction(growth) ==
  LET headroom(j) == (mu.broker[j] - Margin) * unit - Load(l, j)
      growing == {j \in Brokers : growth[j] > 0}
      s == Least({Smaller(<<1, 1>>, <<headroom(j), growth[j]>>) : j \in growing} \cup {<<1, 1>>})
  IN  IF s[1] < 0 THEN <<0, 1>> ELSE s

Iterate ==
  /\ at = "running"
  /\ \E br \in [Sources -> UNION {BestResponses(i) : i \in Sources}] :
       /\ \A i \in Sources : br[i] \in BestResponses(i)
       /\ LET target == [k \in Links |-> unit * br[k[1]][k[2]]]
              s == SafeFraction([j \in Brokers |-> Load(target, j) - Load(l, j)])
          IN  /\ unit' = unit * eta[2] * s[2]
              /\ l' = [k \in Links |->
                        eta[2] * s[2] * l[k] + eta[1] * s[1] * (target[k] - l[k])]
  /\ iterations' = iterations + 1
  /\ UNCHANGED <<mu, eta, at>>

\* a best response raises: links that are missing or cannot carry the demand, or a
\* bisection that misses its tolerance
Raise == at = "running" /\ at' = "raised" /\ UNCHANGED <<mu, eta, l, unit, iterations>>

\* the tolerance or max_iter
Stop == at = "running" /\ at' = "done" /\ UNCHANGED <<mu, eta, l, unit, iterations>>

Next == Iterate \/ Raise \/ Stop

Spec == Init /\ [][Next]_vars
=============================================================================
