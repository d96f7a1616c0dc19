----------------------------- MODULE Experiments -----------------------------
(***************************************************************************)
(* static_experiment of src/runtime/experiments.py: Algorithm 1 until both *)
(* the tolerance and the certificate pass, then the centralized solver to  *)
(* compare with.                                                           *)
(*                                                                         *)
(* An iteration leads to any routing below the capacities, which StaticRun *)
(* shows of the safe step, and to the old prices or those of the loads,    *)
(* whatever lies between failing the certificate like the old ones.        *)
(***************************************************************************)
EXTENDS Certificate

CONSTANTS
  ExperimentTopologies,
  MaxIter     \* max_iter

VARIABLES
  topo,
  at,        \* "start", "iterates", "compares", "done" or "raised"
  state,     \* the routing, prices and iteration of Algorithm 1
  toTol,     \* iterations_to_tol, 0 for None
  central,   \* what solve_central returned
  stats      \* the statistics of the run that are looked at here

experimentVars == <<topo, at, state, toTol, central, stats>>

NoState == [routing |-> << >>]

ASSUME ExperimentConstants ==
  MaxIter \in Nat \ {0} /\ \A t \in ExperimentTopologies : IsTopology(t) /\ Exact(t)

ExperimentTypeOK ==
  /\ topo \in ExperimentTopologies
  /\ at \in {"start", "iterates", "compares", "done", "raised"}
  /\ state # NoState =>
       state.routing \in FeasibleRoutings(topo) /\ state.prices \in [Brokers -> Nat]
         /\ state.iteration \in 0 .. MaxIter
  /\ toTol \in 0 .. MaxIter

ExperimentInit ==
  /\ topo \in ExperimentTopologies
  /\ at = "start" /\ state = NoState /\ toTol = 0
  /\ central = NoState /\ stats = NoState

\* algorithm1_initial_state: the LP's routing and its prices, or ValueError
Start ==
  /\ at = "start"
  /\ IF FeasibleRoutings(topo) = {} THEN at' = "raised" /\ UNCHANGED state
     ELSE /\ at' = "iterates"
          /\ \E r \in FeasibleRoutings(topo) :
               state' = [routing |-> r, prices |-> Prices(topo, r), iteration |-> 0]
  /\ UNCHANGED <<topo, toTol, central, stats>>

\* the loop of static_experiment: below the tolerance nothing has moved, and the
\* loop goes on until the certificate too
IterateToTolerance ==
  /\ at = "iterates"
  /\ \E r \in FeasibleRoutings(topo), p \in {state.prices, Prices(topo, state.routing)} :
       LET still == r = state.routing /\ p = state.prices
           k == state.iteration + 1
       IN  /\ state' = [routing |-> r, prices |-> p, iteration |-> k]
           /\ toTol' = IF still /\ toTol = 0 THEN k ELSE toTol
           /\ at' = IF (still /\ Certified(topo, r, p)) \/ k = MaxIter THEN "compares" ELSE at
  /\ UNCHANGED <<topo, central, stats>>

\* iteration_step or solve_central raises: a best response that misses its
\* tolerance, SLSQP without success, or NaN for an idle source
ExperimentRaises ==
  /\ at \in {"iterates", "compares"}
  /\ at' = "raised"
  /\ UNCHANGED <<topo, state, toTol, central, stats>>

Compare ==
  /\ at = "compares" /\ ~HasIdle(topo)
  /\ \E c \in CentralSolutions(topo) :
       /\ central' = [routing |-> c]
       /\ stats' = [routing |-> state.routing,
                    certified |-> Certified(topo, state.routing, state.prices),
                    objective |-> SystemObjective(topo, state.routing),
                    central_objective |-> SystemObjective(topo, c),
                    failed |-> Failed(Residuals(topo, state.routing, state.prices))]
  /\ at' = "done"
  /\ UNCHANGED <<topo, state, toTol>>

ExperimentNext == Start \/ IterateToTolerance \/ ExperimentRaises \/ Compare

ExperimentSpec == ExperimentInit /\ [][ExperimentNext]_experimentVars

-----------------------------------------------------------------------------
(***************************************************************************)
(* Properties.                                                             *)
(***************************************************************************)

\* A run reported as certified has reached the optimum (Proposition 1): no feasible
\* routing on the grid has a smaller objective, and a symmetric instance has that of
\* the closed form.  What its gap is measured against is a routing of the whole demand
\* with a finite objective, also when SLSQP or its polish stops short of the optimum.
\* With every link the notebook's residuals, which compare with other prices and with
\* another route, certify the same states.
CertifiedIsOptimal ==
  /\ at = "done" /\ stats.certified =>
       /\ \A r \in FeasibleRoutings(topo) : stats.objective <= SystemObjective(topo, r)
       /\ IsSymmetric(topo) /\ Splits(topo) => stats.objective = SymmetricObjective(topo)
  /\ at = "done" => central.routing \in FeasibleRoutings(topo) /\ stats.central_objective # Infinite
  /\ state # NoState /\ (\A i \in Sources : Available(topo, i) = Brokers) =>
       (Certified(topo, state.routing, state.prices)
          <=> Failed(NotebookResiduals(topo, state.routing, state.prices)) = {})
=============================================================================
