------------------------------ MODULE Algorithm1 ----------------------------
(***************************************************************************)
(* Algorithm 1 as src/controller/synchronous.py runs it in one process: an *)
(* iteration reads the whole state, prices every broker, asks every source *)
(* for its best response to the NEW prices, keeps the rows of the sources  *)
(* whose best response failed (on_best_response_failure = "hold"), and     *)
(* replaces plan and prices together.  The distributed controller promises *)
(* to be this ("a round equals iteration_step bit for bit").               *)
(***************************************************************************)
EXTENDS PlanData, Naturals

VARIABLES
  plan,       \* state.lambda_ij
  prices,     \* state.prices
  iteration   \* state.iteration

vars == <<plan, prices, iteration>>

Init ==
  /\ plan = InitialPlan
  /\ prices = InitialPrices
  /\ iteration = 0

\* update_prices on the loads of the plan the iteration starts from
NewPrices == [j \in Brokers |-> BrokerPrice(j, prices[j], BrokerLoad(plan, j))]

\* lambda_br: best responses to ps, and the present row of every held source
Responses(held, ps) ==
  [i \in Sources |-> IF i \in held THEN plan[i] ELSE BestResponse(i, ps)]

\* iteration_step with the sources of held failing
Iterate(held) ==
  /\ plan' = CommonStep(plan, Responses(held, NewPrices))
  /\ prices' = NewPrices
  /\ iteration' = iteration + 1

Next == \E held \in SUBSET Sources : Iterate(held)

Spec == Init /\ [][Next]_vars
=============================================================================
