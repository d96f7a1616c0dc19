----------------------------- MODULE Certificate -----------------------------
(***************************************************************************)
(* Optimality: the objective, the certificate, the centralized solver and  *)
(* the symmetric instance (src/controller/diagnostics.py and central.py,   *)
(* src/model/marginal_costs.py and symmetric.py), and the residuals of the *)
(* notebook's reference.                                                   *)
(*                                                                         *)
(* A topology t is a record of demands and capacities, and of the grid the *)
(* flows over it lie on.  Costs are exact, times Scale or its square: the  *)
(* tolerances are less than any difference there is.                       *)
(***************************************************************************)
EXTENDS Integers, FiniteSetsExt, Functions, Actors

CONSTANT Scale  \* a multiple of every headroom

ASSUME CertificateConstants ==
  IsFiniteSet(Sources) /\ IsFiniteSet(Brokers) /\ Scale \in Nat \ {0}

IsTopology(t) ==
  t \in [grid : Nat \ {0}, demand : [Sources -> Nat], broker : [Brokers -> Nat \ {0}],
         link : [Sources -> [Brokers -> Nat]]]

BrokerLoad(routing, j) == SumFunction([i \in Sources |-> routing[i][j]])
RowSum(row) == SumFunction([j \in Brokers |-> row[j]])

Available(t, i) == {j \in Brokers : t.link[i][j] > 0}

\* the splits of the demand of source i over its links, and the routings
Rows(t, i) ==
  {row \in [Brokers -> {x \in 0 .. t.demand[i] : x % t.grid = 0}] :
     RowSum(row) = t.demand[i] /\ \A j \in Brokers \ Available(t, i) : row[j] = 0}
RoutingsOf(t) ==
  {r \in [Sources -> UNION {Rows(t, i) : i \in Sources}] : \A i \in Sources : r[i] \in Rows(t, i)}

\* strictly below every capacity; a margin is less than the grid
BelowCapacities(t, r) ==
  /\ \A i \in Sources, j \in Brokers : r[i][j] > 0 => r[i][j] < t.link[i][j]
  /\ \A j \in Brokers : BrokerLoad(r, j) < t.broker[j]

\* transportation_feasibility raises when there is none
FeasibleRoutings(t) == {r \in RoutingsOf(t) : BelowCapacities(t, r)}

\* +inf, outside the domain
Infinite == -1

\* x / (mu - x), times Scale
WeightedDelay(mu, x) == IF x = 0 THEN 0 ELSE x * (Scale \div (mu - x))

\* system_objective (eq. 4), times Scale
SystemObjective(t, r) ==
  IF ~BelowCapacities(t, r) THEN Infinite
  ELSE SumFunction([i \in Sources |->
         SumFunction([j \in Brokers |-> WeightedDelay(t.link[i][j], r[i][j])])])
       + SumFunction([j \in Brokers |-> WeightedDelay(t.broker[j], BrokerLoad(r, j))])

\* Scale is enough to divide by whatever a feasible routing leaves of a capacity
Exact(t) ==
  \A r \in FeasibleRoutings(t) :
    /\ \A i \in Sources : \A j \in Available(t, i) : Scale % (t.link[i][j] - r[i][j]) = 0
    /\ \A j \in Brokers : Scale % (t.broker[j] - BrokerLoad(r, j)) = 0

-----------------------------------------------------------------------------
(***************************************************************************)
(* The certificate: compute_diagnostics.                                   *)
(***************************************************************************)

\* what is left of a capacity that is used up is floored at eps
Huge == 500000000

\* mutant: the delay is taken for the marginal cost
DelayAsCost(mu, x) == IF x >= mu THEN Huge ELSE Scale * (Scale \div (mu - x))

\* mu / (mu - x)^2, times Scale^2
Cost(mu, x) == IF x >= mu THEN Huge ELSE mu * (Scale \div (mu - x)) * (Scale \div (mu - x))

AccessCost(t, r, i, j) == Cost(t.link[i][j], r[i][j])
Prices(t, r) == [j \in Brokers |-> Cost(t.broker[j], BrokerLoad(r, j))]
Marginal(t, r, i, j) == AccessCost(t, r, i, j) + Prices(t, r)[j]

Used(t, r, i) == {j \in Available(t, i) : r[i][j] > 0}
Unused(t, r, i) == Available(t, i) \ Used(t, r, i)
LeastMarginal(t, r, i) == Min({Marginal(t, r, i, j) : j \in Available(t, i)})

\* the row is what best_response_available returns to source i at prices p, which
\* is known by the conditions (16) it solves: every route in use is a cheapest one
IsBestResponse(t, r, i, p) ==
  /\ r[i] \in Rows(t, i)
  /\ \A j \in Used(t, r, i), k \in Available(t, i) :
       AccessCost(t, r, i, j) + p[j] <= AccessCost(t, r, i, k) + p[k]

\* per residual, whether it is within its tolerance.  A source that sends nothing
\* has no used route, and its stationarity stays at inf.
Residuals(t, r, p) ==
  [r_conservation |-> \A i \in Sources : RowSum(r[i]) = t.demand[i],
   r_access_capacity |-> \A i \in Sources : \A j \in Available(t, i) : r[i][j] <= t.link[i][j],
   r_service_capacity |-> \A j \in Brokers : BrokerLoad(r, j) <= t.broker[j],
   r_price |-> p = Prices(t, r),
   r_fixed_point |-> \A i \in Sources : IsBestResponse(t, r, i, p),
   r_active_stationarity |->
     \A i \in Sources : Cardinality({Marginal(t, r, i, j) : j \in Used(t, r, i)}) = 1,
   r_inactive_complementarity |->
     \A i \in Sources : Used(t, r, i) # {} =>
       \A k \in Unused(t, r, i) :
         Marginal(t, r, i, k) >= Min({Marginal(t, r, i, j) : j \in Used(t, r, i)}),
   r_kkt_complementarity |->
     \A i \in Sources : \A j \in Used(t, r, i) : Marginal(t, r, i, j) = LeastMarginal(t, r, i),
   r_unavailable_routes |->
     \A i \in Sources, j \in Brokers : j \in Available(t, i) \/ r[i][j] = 0]

Failed(residuals) == {k \in DOMAIN residuals : ~residuals[k]}
Certified(t, r, p) == Failed(Residuals(t, r, p)) = {}

\* verification_residuals of the notebook, for topologies with every link: best
\* responses to the model's prices, unused routes against the mean of the used
NotebookResiduals(t, r, p) ==
  [Residuals(t, r, p) EXCEPT
     !.r_fixed_point = \A i \in Sources : IsBestResponse(t, r, i, Prices(t, r)),
     !.r_inactive_complementarity =
       \A i \in Sources : Used(t, r, i) # {} =>
         \A k \in Unused(t, r, i) :
           Cardinality(Used(t, r, i)) * Marginal(t, r, i, k)
             >= SumFunction([j \in Used(t, r, i) |-> Marginal(t, r, i, j)])]

-----------------------------------------------------------------------------
(***************************************************************************)
(* The centralized solver, and the symmetric instance.                     *)
(***************************************************************************)

\* What the polish may make of SLSQP's routing s: any flows on its active links.
Polishes(t, s) ==
  {z \in [Sources -> [Brokers -> 0 .. Max({t.demand[i] : i \in Sources})]] :
     \A i \in Sources, j \in Brokers :
       IF s[i][j] = 0 THEN z[i][j] = 0 ELSE z[i][j] % t.grid = 0 /\ z[i][j] < t.link[i][j]}

\* the polish is kept
Accepted(t, z) ==
  /\ \A i \in Sources : RowSum(z[i]) = t.demand[i]
  /\ \A j \in Brokers : BrokerLoad(z, j) < t.broker[j]

\* what solve_central may return: SLSQP is external and may stop anywhere
CentralSolutions(t) ==
  FeasibleRoutings(t) \cup
  UNION {{z \in Polishes(t, s) : Accepted(t, z)} : s \in FeasibleRoutings(t)}

\* a source that sends nothing has no active link, and the mean of none is NaN
HasIdle(t) == \E i \in Sources : t.demand[i] = 0

IsSymmetric(t) ==
  /\ Cardinality({t.demand[i] : i \in Sources}) = 1
  /\ Cardinality({t.broker[j] : j \in Brokers}) = 1
  /\ Cardinality({t.link[i][j] : i \in Sources, j \in Brokers}) = 1

\* symmetric_solution: the equal split, where it is on the grid
Split(t, i) == t.demand[i] \div Cardinality(Brokers)
Splits(t) ==
  \A i \in Sources : t.demand[i] = Split(t, i) * Cardinality(Brokers) /\ Split(t, i) % t.grid = 0

\* its objective: lambda times the delay of a route, over the sources
SymmetricObjective(t) ==
  LET i == CHOOSE i \in Sources : TRUE
      j == CHOOSE j \in Brokers : TRUE
      load == Cardinality(Sources) * Split(t, i)
  IN  Cardinality(Sources) * t.demand[i]
        * (Scale \div (t.link[i][j] - Split(t, i)) + Scale \div (t.broker[j] - load))
==============================================================================
