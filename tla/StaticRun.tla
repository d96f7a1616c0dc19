------------------------------ MODULE StaticRun ------------------------------
(***************************************************************************)
(* Algorithm 1 on the analytic model: iteration_step and run_algorithm1 of *)
(* src/controller/synchronous.py and run_static of src/cli.py, where the   *)
(* capacities may change before each iteration.                            *)
(*                                                                         *)
(* Flows are exact fractions: the routing holds integers, in 1/unit of a   *)
(* work unit per second.  Prices only select the best responses, so those  *)
(* are left open: any split of the demand that best_response_available may *)
(* return, on the grid of whole work units.                                *)
(***************************************************************************)
EXTENDS Integers, FiniteSets, FiniteSetsExt, Functions, Actors

CONSTANTS
  Demand,      \* lambdas_total
  Bases,       \* configured capacities
  Varied,      \* the capacities CapacityVariation may draw, with the links of each base
  Margin,      \* delta_s
  Etas,        \* step sizes eta, as <<numerator, denominator>>
  Iterations   \* BOUND: iterations

ASSUME StaticConstants ==
  /\ IsFiniteSet(Sources) /\ IsFiniteSet(Brokers)
  /\ Demand \in [Sources -> Nat]
  /\ \A t \in Bases \cup Varied : t \in [link : [Links -> Nat], broker : [Brokers -> Nat \ {0}]]
  /\ Margin \in Nat /\ Etas \subseteq (Nat \ {0}) \X (Nat \ {0}) /\ Iterations \in Nat

\* ASSUMPTION of some of the proofs, which nothing in the code requires: a step goes
\* at most the whole way to the best responses, and a margin is kept
ConvexSteps == \A e \in Etas : e[1] <= e[2]
MarginKept == Margin > 0

VARIABLES
  lambda,     \* state.lambda_ij, times unit
  unit,       \* the denominator of lambda
  base,       \* the configured capacities
  topology,   \* the capacities in effect
  iteration,  \* state.iteration
  failures,   \* state.br_failures
  params,     \* eta, safe_step_variant and the mode of the run
  status      \* "running", "done" or "raised"

\* a failed best response ends the run ("raise"), or is held, with the capacities
\* fixed ("hold", as the distributed controller does) or not ("varying")
FailureModes == {"raise", "hold", "varying"}

staticVars == <<lambda, unit, base, topology, iteration, failures, params, status>>

\* the topologies of the run, which has the same links in each
Topologies == {base} \cup {t \in Varied : \A l \in Links : t.link[l] = 0 <=> base.link[l] = 0}

Load(routing, j) == SumFunction([i \in Sources |-> routing[i, j]])
Sent(routing, i) == SumFunction([j \in Brokers |-> routing[i, j]])

StaticTypeOK ==
  /\ lambda \in [Links -> Nat] /\ unit \in Nat \ {0}
  /\ base \in Bases /\ topology \in Topologies
  /\ iteration \in 0 .. Iterations
  /\ failures \subseteq Sources /\ (failures # {} => params.mode # "raise")
  /\ params \in [eta : Etas, variant : {"paper", "notebook"}, mode : FailureModes]
  /\ status \in {"running", "done", "raised"}

\* the LP keeps half its margin at least over existing links and brokers
Feasible(routing) ==
  /\ \A i \in Sources : Sent(routing, i) = Demand[i]
  /\ \A l \in Links : IF base.link[l] = 0 THEN routing[l] = 0
                      ELSE 2 * (base.link[l] - routing[l]) >= Margin
  /\ \A j \in Brokers : 2 * (base.broker[j] - Load(routing, j)) >= Margin

StaticInit ==
  /\ base \in Bases
  /\ lambda \in {r \in [Links -> 0 .. Max({Demand[i] : i \in Sources})] : Feasible(r)}
  /\ unit = 1
  /\ topology = base
  /\ iteration = 0
  /\ failures = {}
  /\ params \in [eta : Etas, variant : {"paper", "notebook"}, mode : FailureModes]
  /\ status = "running"

-----------------------------------------------------------------------------
(***************************************************************************)
(* Best responses.                                                         *)
(***************************************************************************)

\* ValueError: the links of source i cannot carry its demand
Infeasible(i, t) == Demand[i] >= Sent(t.link, i)

\* What the bisection may return to source i: its whole demand, strictly within
\* the capacity of each link that exists.
BestResponses(i, t) ==
  {x \in [Brokers -> 0 .. Demand[i]] :
     /\ SumFunction(x) = Demand[i]
     /\ \A j \in Brokers : x[j] = 0 \/ x[j] < t.link[i, j]}

\* mutant: the row of a failed source stays at its initial zeros
ZeroTargets(failed, x) ==
  [l \in Links |-> IF l[1] \in failed THEN 0 ELSE unit * x[l[1]][l[2]]]

\* lambda_br, times unit: a failed source keeps its split
Targets(failed, x) ==
  [l \in Links |-> IF l[1] \in failed THEN lambda[l] ELSE unit * x[l[1]][l[2]]]

-----------------------------------------------------------------------------
(***************************************************************************)
(* The safe step.                                                          *)
(***************************************************************************)

AtMost(a, b) == a[1] * b[2] <= b[1] * a[2]
Smaller(a, b) == IF AtMost(a, b) THEN a ELSE b
Least(s) == CHOOSE a \in s : \A b \in s : AtMost(a, b)

\* mutant: the capacity itself may be used up
NoMargin(mu, load, growth) ==
  IF growth <= 0 THEN <<1, 1>>
  ELSE LET headroom == mu * unit - load
       IN  Smaller(<<1, 1>>, <<headroom * params.eta[2], growth * params.eta[1]>>)

\* s_j of safe_step_bounds for the capacity mu of one broker, its load and the
\* load it is to grow by
StepBound(mu, load, growth) ==
  IF growth <= 0 THEN <<1, 1>>
  ELSE LET headroom == (mu - Margin) * unit - load
       IN  Smaller(<<1, 1>>,
                   IF params.variant = "paper"
                   THEN <<headroom * params.eta[2], growth * params.eta[1]>>
                   ELSE <<headroom, growth>>)

\* mutant: no floor
UnclampedStep(bounds) == Least(bounds \cup {<<1, 1>>})

\* s_t: the smallest bound, none of which is above 1, but at least 0
SafeStep(bounds) ==
  LET s == Least(bounds \cup {<<1, 1>>})
  IN  IF s[1] < 0 THEN <<0, 1>> ELSE s

\* the capacities an iteration may be given
Capacities == IF params.mode = "varying" THEN Topologies ELSE {base}

\* mutant: under the capacities of the iteration before
StaleBounds(t, target) ==
  {StepBound(topology.broker[j], Load(lambda, j), Load(target, j) - Load(lambda, j)) :
     j \in Brokers}

\* s_j of every broker under the capacities t, for the target routing
Bounds(t, target) ==
  {StepBound(t.broker[j], Load(lambda, j), Load(target, j) - Load(lambda, j)) : j \in Brokers}

\* iteration_step, with the best responses of the sources in `failed' missing
Iterate(failed, x) ==
  LET target == Targets(failed, x)
      s == SafeStep(Bounds(topology', target))
      step == <<params.eta[1] * s[1], params.eta[2] * s[2]>>
  IN  /\ lambda' = [l \in Links |-> (step[2] - step[1]) * lambda[l] + step[1] * target[l]]
      /\ unit' = unit * step[2]
      /\ failures' = failed
      /\ iteration' = iteration + 1

\* the sources whose best response fails: those the links cannot carry, and any
\* whose bisection misses its tolerance
Failing(t) == {f \in SUBSET Sources : \A i \in Sources : Infeasible(i, t) => i \in f}

Responses(failed, t) ==
  LET best == [i \in Sources \ failed |-> BestResponses(i, t)]
  IN  {x \in [DOMAIN best -> UNION {best[i] : i \in DOMAIN best}] :
         \A i \in DOMAIN best : x[i] \in best[i]}

Step ==
  /\ status = "running" /\ iteration < Iterations
  /\ topology' \in Capacities
  /\ \E failed \in Failing(topology') :
       /\ failed # {} => params.mode # "raise"
       /\ \E x \in Responses(failed, topology') : Iterate(failed, x)
  /\ UNCHANGED <<base, params, status>>

\* on_best_response_failure = "raise"
Raise ==
  /\ status = "running" /\ iteration < Iterations /\ params.mode = "raise"
  /\ topology' \in Capacities
  /\ \E failed \in Failing(topology') : failed # {}
  /\ status' = "raised"
  /\ UNCHANGED <<lambda, unit, base, iteration, failures, params>>

\* the duration, the tolerance or a signal ends the loop
Stop ==
  /\ status = "running"
  /\ status' = "done"
  /\ UNCHANGED <<lambda, unit, base, topology, iteration, failures, params>>

StaticNext == Step \/ Raise \/ Stop

StaticSpec == StaticInit /\ [][StaticNext]_staticVars

-----------------------------------------------------------------------------
(***************************************************************************)
(* Properties.                                                             *)
(***************************************************************************)

\* Every source sends its whole demand, over links that exist and never a
\* negative flow, however many best responses were held and capacities changed.
\* With fixed capacities the planned flow stays strictly below the capacity of
\* every link and broker (test_binding_step_stays_feasible), also when the LP's
\* routing starts inside the margin delta_s.
RoutingFeasible ==
  /\ \A i \in Sources : Sent(lambda, i) = Demand[i] * unit
  /\ \A l \in Links : lambda[l] >= 0 /\ (base.link[l] = 0 => lambda[l] = 0)
  /\ params.mode # "varying" =>
       /\ \A j \in Brokers : Load(lambda, j) < base.broker[j] * unit
       /\ \A l \in Links : base.link[l] > 0 => lambda[l] < base.link[l] * unit

\* An iteration takes no broker past mu_j - delta_s and no link past mu_ij, for
\* the capacities now in effect; one a capacity drop left beyond gets no more.
NoStepOverloads ==
  [][iteration' # iteration =>
       /\ \A j \in Brokers :
            \/ Load(lambda', j) <= (topology'.broker[j] - Margin) * unit'
            \/ Load(lambda', j) * unit <= Load(lambda, j) * unit'
       /\ \A l \in Links :
            \/ lambda'[l] <= topology'.link[l] * unit'
            \/ lambda'[l] * unit <= lambda[l] * unit']_staticVars

N == INSTANCE Notebook WITH
  Capacities <- Bases, mu <- base, eta <- params.eta, l <- lambda,
  iterations <- iteration, at <- status

\* the notebook knows one safe step, fixed capacities and no missing link
Comparable ==
  /\ params.variant = "notebook" /\ params.mode # "varying"
  /\ \A l \in Links : base.link[l] > 0

\* What safe_step_bounds calls the notebook's form is the notebook's: with it a run is
\* one of the reference implementation, from each start that it would start from, as
\* long as no best response is held.
FollowsNotebook ==
  /\ Comparable /\ N!Transports(lambda, unit) => N!Init
  /\ [][Comparable /\ failures' = {} => N!Next]_N!vars
=============================================================================
