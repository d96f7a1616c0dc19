---------------------------- MODULE OptimalRouting ----------------------------
(***************************************************************************)
(* optimal_routing of src/model/generate.py: SLSQP on small instances, on  *)
(* large ones the fixed point of the broker prices, by continuation from   *)
(* lower server load where that fails, then SLSQP again.                   *)
(*                                                                         *)
(* Levenberg-Marquardt is external and may stop anywhere: a solve ends at  *)
(* any best response, which keeps its rows and links and may overload a    *)
(* broker.  The prices it starts from are left out.                        *)
(***************************************************************************)
EXTENDS Certificate, Sequences

CONSTANTS
  GeneratedTopologies,
  Sizes  \* of mu_links: "small", up to SLSQP_MAX_ROUTES; "medium", up to
         \* SLSQP_FALLBACK_ROUTES; "large"

ASSUME RoutingConstants ==
  \A t \in GeneratedTopologies : IsTopology(t) /\ Exact(t)

VARIABLES
  generated, size,
  phase,    \* "solve", "fallback", "central", "returned" or "RuntimeError"
  stage,    \* the relief of the solve, 0 for the first one, without
  solved    \* the routing, whether it is certified, and who found it

routingVars == <<generated, size, phase, stage, solved>>

NoSolution == [by |-> "nobody"]

\* the reliefs, in tenths
Reliefs == <<40, 20, 15, 12, 10>>
Relief == IF stage = 0 THEN 10 ELSE Reliefs[stage]

Relieved(t, relief) == [t EXCEPT !.broker = [j \in Brokers |-> (relief * @[j]) \div 10]]

RoutingTypeOK ==
  /\ generated \in GeneratedTopologies /\ size \in Sizes
  /\ phase \in {"solve", "fallback", "central", "returned", "RuntimeError"}
  /\ stage \in 0 .. Len(Reliefs)
  /\ solved # NoSolution => solved.routing \in RoutingsOf(generated)

\* a topology a routing fits
RoutingInit ==
  /\ generated \in {t \in GeneratedTopologies : FeasibleRoutings(t) # {}} /\ size \in Sizes
  /\ phase = IF size = "small" THEN "central" ELSE "solve"
  /\ stage = 0 /\ solved = NoSolution

BestResponseRoutings(t) ==
  {r \in RoutingsOf(t) : \A i \in Sources : \A j \in Available(t, i) : r[i][j] < t.link[i][j]}

Below(t, r) == \A j \in Brokers : BrokerLoad(r, j) < t.broker[j]

\* mutant: the certificate is not asked
CertifiesIfBelow(t, relief, r) == Below(Relieved(t, relief), r)

\* the last lines of solve: prices and loads are those of the relieved capacities,
\* the certificate is that of the topology
Certifies(t, relief, r) ==
  /\ Below(Relieved(t, relief), r)
  /\ Certified(t, r, Prices(Relieved(t, relief), r))

\* solve, for the topology itself and then for the reliefs one after the other, as
\* long as each is certified
Solve ==
  /\ phase = "solve"
  /\ \E r \in BestResponseRoutings(generated) :
       LET certified == Certifies(generated, Relief, r)
           last == stage \in {0, Len(Reliefs)}
       IN  /\ solved' = [by |-> "fixed point", routing |-> r, relief |-> Relief,
                         certified |-> certified]
           /\ phase' = IF certified THEN IF last THEN "returned" ELSE phase
                    ELSE IF stage = 0 THEN phase ELSE "fallback"
           /\ stage' = IF stage < Len(Reliefs) /\ phase' = "solve" THEN stage + 1 ELSE stage
  /\ UNCHANGED <<generated, size>>

Fallback ==
  /\ phase = "fallback"
  /\ phase' = IF size = "large" THEN "RuntimeError" ELSE "central"
  /\ UNCHANGED <<generated, size, stage, solved>>

\* central()
Central ==
  /\ phase = "central" /\ ~HasIdle(generated)
  /\ \E c \in CentralSolutions(generated) :
       solved' = [by |-> "SLSQP", routing |-> c, relief |-> 10, certified |-> FALSE]
  /\ phase' = "returned"
  /\ UNCHANGED <<generated, size, stage>>

\* SLSQP does not succeed
CentralRaises ==
  /\ phase = "central" /\ phase' = "RuntimeError"
  /\ UNCHANGED <<generated, size, stage, solved>>

RoutingNext == Solve \/ Fallback \/ Central \/ CentralRaises

RoutingSpec == RoutingInit /\ [][RoutingNext]_routingVars

-----------------------------------------------------------------------------
(***************************************************************************)
(* Properties.                                                             *)
(***************************************************************************)

\* What is returned is a routing of the topology itself and not of one with more
\* server capacity, and an optimal one where the fixed point gave it.
ReturnedIsOptimal ==
  phase = "returned" =>
    /\ solved.routing \in FeasibleRoutings(generated)
    /\ solved.by = "fixed point" =>
         \A r \in FeasibleRoutings(generated) :
           SystemObjective(generated, solved.routing) <= SystemObjective(generated, r)

\* "Heavily loaded instances are reached by continuation from lower server load": when
\* the solve with more server capacity has found the optimum of that instance, the
\* next one, with less, begins.
ContinuationProceeds ==
  solved.by = "fixed point" /\ stage > 0 /\ phase = "fallback" =>
    LET relieved == Relieved(generated, solved.relief)
    IN  ~Certified(relieved, solved.routing, Prices(relieved, solved.routing))
==============================================================================
