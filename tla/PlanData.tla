------------------------------ MODULE PlanData ------------------------------
(***************************************************************************)
(* The data of Algorithm 1, uninterpreted.  A plan assigns every source    *)
(* its row of planned rates lambda_i (one element of Row), a price vector  *)
(* assigns every broker one element of Price.  The four operators stand    *)
(* for the numeric functions the distributed and the in-process backends   *)
(* share, src/controller/synchronous.py: what they compute is the subject  *)
(* of StaticRun, here only WHO calls them with WHICH arguments matters.    *)
(***************************************************************************)
CONSTANTS
  Sources,               \* logical sources 0 .. N-1
  Brokers,               \* logical brokers 0 .. M-1
  Row,                   \* the values of one row lambda_ij[i]
  Price,                 \* the values of one price
  Load,                  \* the values of one broker load
  BrokerLoad(_, _),      \* compute_broker_loads(plan)[j]
  BrokerPrice(_, _, _),  \* broker_price at broker j, of (price, load)
  BestResponse(_, _),    \* source_best_response of source i to a price vector
  CommonStep(_, _),      \* the plan apply_common_step computes from (plan, lambda_br)
  InitialPlan,           \* algorithm1_initial_state().lambda_ij
  InitialPrices          \* algorithm1_initial_state().prices

Plans == [Sources -> Row]
PriceVectors == [Brokers -> Price]

ASSUME ActorsDistinct == Sources \cap Brokers = {}

ASSUME PlanDataTyped ==
  /\ InitialPlan \in Plans
  /\ InitialPrices \in PriceVectors
  /\ \A plan \in Plans, j \in Brokers : BrokerLoad(plan, j) \in Load
  /\ \A j \in Brokers, p \in Price, l \in Load : BrokerPrice(j, p, l) \in Price
  /\ \A i \in Sources, ps \in PriceVectors : BestResponse(i, ps) \in Row
  /\ \A plan \in Plans, br \in Plans : CommonStep(plan, br) \in Plans
=============================================================================
