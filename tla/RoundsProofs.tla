---------------------------- MODULE RoundsProofs ----------------------------
(***************************************************************************)
(* What Rounds guarantees for every set of workers and connections, every  *)
(* number of rounds and every interpretation of the numeric functions.     *)
(***************************************************************************)
EXTENDS Rounds, Lemmas, SequenceTheorems, TLAPS

\* Sending on some connections keeps the queues of messages typed.
LEMMA SentTyped ==
  ASSUME toWorker \in [Conns -> Seq(ToBroker \cup ToSource)],
         \A c \in Conns : toWorker[c] \in Seq(ToWorker(Owner(c))),
         NEW cs, NEW msg,
         \A c \in Conns : c \in cs => msg[Owner(c)] \in ToWorker(Owner(c))
  PROVE  /\ Sent(cs, msg) \in [Conns -> Seq(ToBroker \cup ToSource)]
         /\ \A c \in Conns : Sent(cs, msg)[c] \in Seq(ToWorker(Owner(c)))
<1>1. \A w : ToWorker(w) \subseteq ToBroker \cup ToSource
  BY DEF ToWorker
<1>. QED
  BY <1>1 DEF Sent

\* What a gather does, without the choice of the sends that raise: ids moves
\* on, every worker of ws is asked or has failed, the others are left alone,
\* and only connections of asked workers get the new id and a message.
LEMMA GatherEffect ==
  ASSUME TypeOK, NEW ws \in SUBSET Workers, NEW msg, Gather(ws, msg)
  PROVE  \E asked \in SUBSET {w \in ws : chan[w] # NoConn}, via \in SUBSET Conns :
           /\ \A c \in via : Owner(c) \in asked /\ chan[Owner(c)] = c
           /\ \A w \in asked : chan[w] \in via
           /\ ids' = ids + 1
           /\ outcome' = [w \in Workers |-> IF w \in asked THEN "pending"
                                            ELSE IF w \in ws THEN "failed" ELSE outcome[w]]
           /\ pend' = [c \in Conns |-> IF c \in via THEN ids + 1 ELSE pend[c]]
           /\ toWorker' = Sent(via, msg)
<1> DEFINE connected == {w \in ws : chan[w] # NoConn}
<1>1. PICK broken \in SUBSET {w \in connected : MayRaise(chan[w])} :
        LET asked == connected \ broken
            via == {chan[w] : w \in asked}
        IN  /\ ids' = ids + 1
            /\ outcome' = [w \in Workers |-> IF w \in asked THEN "pending"
                                             ELSE IF w \in ws THEN "failed" ELSE outcome[w]]
            /\ pend' = [c \in Conns |-> IF c \in via THEN ids + 1 ELSE pend[c]]
            /\ toWorker' = Sent(via, msg)
  BY Zenon DEF Gather
<1> DEFINE asked == connected \ broken
           via == {chan[w] : w \in asked}
<1>2. asked \in SUBSET connected
  OBVIOUS
<1>3. via \in SUBSET Conns /\ \A w \in asked : chan[w] \in via /\ Owner(chan[w]) = w
  BY <1>2 DEF TypeOK
<1>4. \A c \in via : Owner(c) \in asked /\ chan[Owner(c)] = c
  BY <1>3
<1>. HIDE DEF asked, via
<1>5. /\ ids' = ids + 1
      /\ outcome' = [w \in Workers |-> IF w \in asked THEN "pending"
                                       ELSE IF w \in ws THEN "failed" ELSE outcome[w]]
      /\ pend' = [c \in Conns |-> IF c \in via THEN ids + 1 ELSE pend[c]]
      /\ toWorker' = Sent(via, msg)
  BY <1>1, Zenon DEF asked, via
<1>. QED
  BY <1>2, <1>3, <1>4, <1>5

\* A gather of well-typed requests keeps the typing of what it assigns.
LEMMA GatherTyped ==
  ASSUME TypeOK, NEW ws \in SUBSET Workers, NEW msg,
         \A w \in ws : msg[w] \in ToWorker(w),
         Gather(ws, msg)
  PROVE  /\ ids' \in Nat
         /\ outcome' \in [Workers -> Outcomes]
         /\ pend' \in [Conns -> Nat]
         /\ toWorker' \in [Conns -> Seq(ToBroker \cup ToSource)]
         /\ \A c \in Conns : toWorker'[c] \in Seq(ToWorker(Owner(c)))
<1>1. PICK asked \in SUBSET {w \in ws : chan[w] # NoConn}, via \in SUBSET Conns :
           /\ \A c \in via : Owner(c) \in asked /\ chan[Owner(c)] = c
           /\ \A w \in asked : chan[w] \in via
           /\ ids' = ids + 1
           /\ outcome' = [w \in Workers |-> IF w \in asked THEN "pending"
                                            ELSE IF w \in ws THEN "failed" ELSE outcome[w]]
           /\ pend' = [c \in Conns |-> IF c \in via THEN ids + 1 ELSE pend[c]]
           /\ toWorker' = Sent(via, msg)
  BY GatherEffect
<1>2. /\ Sent(via, msg) \in [Conns -> Seq(ToBroker \cup ToSource)]
      /\ \A c \in Conns : Sent(via, msg)[c] \in Seq(ToWorker(Owner(c)))
  BY <1>1, SentTyped DEF TypeOK
<1>. QED
  BY <1>1, <1>2 DEF TypeOK, Outcomes

\* The initial state is well typed.
LEMMA InitTyped == Init => TypeOK
<1> SUFFICES ASSUME Init PROVE TypeOK
  OBVIOUS
<1>1. \A w \in Workers : FirstConn(w) \in Conns /\ Owner(FirstConn(w)) = w
  BY ConnsTyped
<1>2. chan \in [Workers -> Conns \cup {NoConn}] /\ proc \in [Workers -> Conns]
  BY <1>1 DEF Init
<1>3. \A w \in Workers : Owner(proc[w]) = w /\ (chan[w] # NoConn => Owner(chan[w]) = w)
  BY <1>1 DEF Init
<1>4. /\ toWorker \in [Conns -> Seq(ToBroker \cup ToSource)]
      /\ toController \in [Conns -> Seq(FromBroker \cup FromSource)]
      /\ \A c \in Conns : /\ toWorker[c] \in Seq(ToWorker(Owner(c)))
                         /\ toController[c] \in Seq(FromWorker(Owner(c)))
      /\ telemetry \in Seq([iteration : Nat, held : SUBSET Sources])
  BY DEF Init
<1>5. /\ link \in [Conns -> Links] /\ handler \in [Conns -> Handlers]
      /\ pend \in [Conns -> Nat] /\ outcome \in [Workers -> Outcomes]
  BY DEF Init, Links, Handlers, Outcomes
<1>. QED
  BY <1>2, <1>3, <1>4, <1>5, PlanDataTyped DEF Init, TypeOK, Phases


\* What the read loop takes from a worker is a message of its role, and the
\* queues stay typed.
LEMMA ReadTyped ==
  ASSUME TypeOK, NEW c \in Conns, Take(c)
  PROVE  /\ Head(toController[c]) \in FromWorker(Owner(c))
         /\ toController' \in [Conns -> Seq(FromBroker \cup FromSource)]
         /\ \A d \in Conns : toController'[d] \in Seq(FromWorker(Owner(d)))
<1> DEFINE q == toController[c]
<1>1. q \in Seq(FromWorker(Owner(c))) /\ q \in Seq(FromBroker \cup FromSource) /\ q # << >>
  BY DEF TypeOK, Take
<1>2. /\ Head(q) \in FromWorker(Owner(c))
      /\ Tail(q) \in Seq(FromWorker(Owner(c)))
      /\ Tail(q) \in Seq(FromBroker \cup FromSource)
  BY <1>1
<1>3. toController' = [toController EXCEPT ![c] = Tail(q)]
  BY DEF Take
<1>. HIDE DEF q
<1>. QED
  BY <1>2, <1>3 DEF TypeOK, q

\* The same for what a worker takes from the controller.
LEMMA WorkerReadTyped ==
  ASSUME TypeOK, NEW c \in Conns, WorkerTakes(c)
  PROVE  /\ Head(toWorker[c]) \in ToWorker(Owner(c))
         /\ toWorker' \in [Conns -> Seq(ToBroker \cup ToSource)]
         /\ \A d \in Conns : toWorker'[d] \in Seq(ToWorker(Owner(d)))
<1> DEFINE q == toWorker[c]
<1>1. q \in Seq(ToWorker(Owner(c))) /\ q \in Seq(ToBroker \cup ToSource) /\ q # << >>
  BY DEF TypeOK, WorkerTakes
<1>2. /\ Head(q) \in ToWorker(Owner(c))
      /\ Tail(q) \in Seq(ToWorker(Owner(c)))
      /\ Tail(q) \in Seq(ToBroker \cup ToSource)
  BY <1>1
<1>3. toWorker' = [toWorker EXCEPT ![c] = Tail(q)]
  BY DEF WorkerTakes
<1>. HIDE DEF q
<1>. QED
  BY <1>2, <1>3 DEF TypeOK, q

\* A worker's reply of its role keeps the queues typed.
LEMMA ReplyTyped ==
  ASSUME TypeOK, NEW c \in Conns, NEW m \in FromWorker(Owner(c)), Replies(c, m)
  PROVE  /\ toController' \in [Conns -> Seq(FromBroker \cup FromSource)]
         /\ \A d \in Conns : toController'[d] \in Seq(FromWorker(Owner(d)))
<1> DEFINE q == toController[c]
<1>1. m \in FromBroker \cup FromSource
  BY DEF FromWorker
<1>2. q \in Seq(FromWorker(Owner(c))) /\ q \in Seq(FromBroker \cup FromSource)
  BY DEF TypeOK
<1>3. Append(q, m) \in Seq(FromWorker(Owner(c))) /\ Append(q, m) \in Seq(FromBroker \cup FromSource)
  BY <1>1, <1>2
<1>4. toController' = [toController EXCEPT ![c] = Append(q, m)]
  BY DEF Replies
<1>. HIDE DEF q
<1>. QED
  BY <1>3, <1>4 DEF TypeOK, q
\* Every step keeps the typing.
LEMMA NextTyped == TypeOK /\ [Next]_vars => TypeOK'
<1> SUFFICES ASSUME TypeOK, [Next]_vars PROVE TypeOK'
  OBVIOUS
<1> USE DEF state, roundVars, requests, network, registry, workers
<1>1. CASE AskBrokers
  <2>1. \A w \in Brokers : PriceRequest[w] \in ToWorker(w)
    BY PlanDataTyped DEF TypeOK, PriceRequest, ToWorker, ToBroker, PriceVectors
  <2>2. /\ ids' \in Nat
        /\ outcome' \in [Workers -> Outcomes]
        /\ pend' \in [Conns -> Nat]
        /\ toWorker' \in [Conns -> Seq(ToBroker \cup ToSource)]
        /\ \A c \in Conns : toWorker'[c] \in Seq(ToWorker(Owner(c)))
    BY <1>1, <2>1, GatherTyped DEF AskBrokers, Workers
  <2>. QED
    BY <1>1, <2>2 DEF AskBrokers, TypeOK, Phases
<1>2. CASE SkipRound
  BY <1>2 DEF SkipRound, EndOfPass, TypeOK, Phases
<1>3. CASE AskSources
  <2> DEFINE msg == [i \in Sources |-> [type |-> "best_response", req |-> ids + 1, prices |-> newPrices']]
  <2>1. newPrices' \in PriceVectors
    BY <1>3 DEF AskSources, TypeOK, PriceVectors
  <2>2. \A w \in Sources : msg[w] \in ToWorker(w)
    <3> SUFFICES ASSUME NEW w \in Sources PROVE msg[w] \in ToWorker(w)
      OBVIOUS
    <3>1. w \notin Brokers
      BY ActorsDistinct
    <3>2. msg[w] = [type |-> "best_response", req |-> ids + 1, prices |-> newPrices']
      OBVIOUS
    <3>3. ids + 1 \in Nat
      BY DEF TypeOK
    <3>. QED
      BY <2>1, <3>1, <3>2, <3>3 DEF ToWorker, ToSource
  <2>3. Gather(Sources, msg)
    BY <1>3 DEF AskSources
  <2>. HIDE DEF msg
  <2>4. /\ ids' \in Nat
        /\ outcome' \in [Workers -> Outcomes]
        /\ pend' \in [Conns -> Nat]
        /\ toWorker' \in [Conns -> Seq(ToBroker \cup ToSource)]
        /\ \A c \in Conns : toWorker'[c] \in Seq(ToWorker(Owner(c)))
    BY <2>2, <2>3, GatherTyped DEF Workers
  <2>. QED
    BY <1>3, <2>1, <2>4 DEF AskSources, TypeOK, Phases
<1>4. CASE ApplyStep
  <2>1. LambdaBR(Failed(Sources)) \in Plans
    BY DEF TypeOK, LambdaBR, Plans
  <2>2. plan' \in Plans /\ held' \subseteq Sources
    BY <1>4, <2>1, PlanDataTyped DEF ApplyStep, Failed, TypeOK
  <2>. QED
    BY <1>4, <2>2 DEF ApplyStep, TypeOK, Phases
<1>5. CASE RecordRound
  BY <1>5 DEF RecordRound, EndOfPass, TypeOK, Phases
<1>6. ASSUME NEW i \in Sources, SendRouting(i) PROVE TypeOK'
  <2> DEFINE msg == [w \in Workers |-> [type |-> "routing", row |-> plan[i]]]
  <2>1. \A c \in Conns : c \in {chan[i]} => msg[Owner(c)] \in ToWorker(Owner(c))
    <3>1. \A c \in Conns : c = chan[i] => Owner(c) = i
      BY ConnsTyped DEF TypeOK, Workers
    <3>2. msg[i] = [type |-> "routing", row |-> plan[i]] /\ plan[i] \in Row
      BY DEF TypeOK, Plans, Workers
    <3>3. msg[i] \in ToWorker(i)
      BY <3>2, ActorsDistinct DEF ToWorker, ToSource
    <3>. QED
      BY <3>1, <3>3
  <2>2. toWorker' = Sent({chan[i]}, msg)
    BY <1>6 DEF SendRouting
  <2>. HIDE DEF msg
  <2>3. /\ toWorker' \in [Conns -> Seq(ToBroker \cup ToSource)]
        /\ \A c \in Conns : toWorker'[c] \in Seq(ToWorker(Owner(c)))
    BY <2>1, <2>2, SentTyped DEF TypeOK
  <2>4. draining' \in Conns \cup {NoConn}
    BY <1>6 DEF SendRouting, TypeOK, Workers
  <2>. QED
    BY <1>6, <2>3, <2>4 DEF SendRouting, TypeOK
<1>7. CASE Drained \/ RoutingRaises
  BY <1>7 DEF Drained, RoutingRaises, TypeOK, Phases
<1>8. CASE ShutDown
  BY <1>8 DEF ShutDown, TypeOK, Phases
<1>9. ASSUME NEW w \in Workers, SendStop(w) PROVE TypeOK'
  <2> DEFINE msg == [v \in Workers |-> [type |-> "stop"]]
  <2>1. \A c \in Conns : c \in {chan[w]} => msg[Owner(c)] \in ToWorker(Owner(c))
    BY ConnsTyped DEF ToWorker, ToSource, ToBroker
  <2>2. toWorker' = Sent({chan[w]}, msg)
    BY <1>9 DEF SendStop
  <2>. HIDE DEF msg
  <2>3. /\ toWorker' \in [Conns -> Seq(ToBroker \cup ToSource)]
        /\ \A c \in Conns : toWorker'[c] \in Seq(ToWorker(Owner(c)))
    BY <2>1, <2>2, SentTyped DEF TypeOK
  <2>4. draining' \in Conns \cup {NoConn}
    BY <1>9 DEF SendStop, TypeOK
  <2>. QED
    BY <1>9, <2>3, <2>4 DEF SendStop, TypeOK
<1>10. CASE Exit
  BY <1>10 DEF Exit, TypeOK, Phases
<1>11. CASE RequestStop
  BY <1>11 DEF RequestStop, TypeOK
<1>12. ASSUME NEW c \in Conns, ReceiveReply(c) PROVE TypeOK'
  <2> DEFINE m == Head(toController[c])
             w == Owner(c)
  <2>1. /\ m \in FromWorker(w)
        /\ toController' \in [Conns -> Seq(FromBroker \cup FromSource)]
        /\ \A d \in Conns : toController'[d] \in Seq(FromWorker(Owner(d)))
    BY <1>12, ReadTyped DEF ReceiveReply
  <2>2. w \in Workers
    BY ConnsTyped
  <2>3. /\ pend' = [pend EXCEPT ![c] = 0]
        /\ outcome' = [outcome EXCEPT ![w] = IF m.type = "failed" THEN "failed" ELSE "ok"]
        /\ gotPrice' = IF m.type = "price" THEN [gotPrice EXCEPT ![w] = m.price] ELSE gotPrice
        /\ gotRow' = IF m.type = "best_response" THEN [gotRow EXCEPT ![w] = m.row] ELSE gotRow
    BY <1>12 DEF ReceiveReply
  <2>. HIDE DEF m, w
  <2>4. gotPrice' \in PriceVectors
    BY <2>1, <2>3 DEF TypeOK, PriceVectors, FromWorker, FromBroker, FromSource
  <2>5. gotRow' \in Plans
    BY <2>1, <2>3 DEF TypeOK, Plans, FromWorker, FromBroker, FromSource
  <2>6. pend' \in [Conns -> Nat] /\ outcome' \in [Workers -> Outcomes]
    BY <2>2, <2>3 DEF TypeOK, Outcomes
  <2>. QED
    BY <1>12, <2>1, <2>4, <2>5, <2>6 DEF ReceiveReply, TypeOK
<1>13. ASSUME NEW c \in Conns, ReceiveLateReply(c) PROVE TypeOK'
  BY <1>13, ReadTyped DEF ReceiveLateReply, TypeOK
<1>14. ASSUME NEW c \in Conns, ReceiveReady(c) PROVE TypeOK'
  BY <1>14, ReadTyped DEF ReceiveReady, TypeOK, Handlers
<1>15. ASSUME NEW c \in Conns, StartSent(c) PROVE TypeOK'
  BY <1>15 DEF StartSent, TypeOK, Handlers
<1>16. ASSUME NEW c \in Conns, ReadClosed(c) PROVE TypeOK'
  <2>1. /\ toController' \in [Conns -> Seq(FromBroker \cup FromSource)]
        /\ \A d \in Conns : toController'[d] \in Seq(FromWorker(Owner(d)))
    <3>1. \A S : << >> \in Seq(S)
      OBVIOUS
    <3>2. toController' = [toController EXCEPT ![c] = << >>]
      BY <1>16 DEF ReadClosed
    <3>. QED
      BY <3>1, <3>2 DEF TypeOK
  <2>2. link' \in [Conns -> Links] /\ pend' \in [Conns -> Nat] /\ outcome' \in [Workers -> Outcomes]
    BY <1>16, ConnsTyped DEF ReadClosed, TypeOK, Links, Outcomes
  <2>. QED
    BY <1>16, <2>1, <2>2 DEF ReadClosed, TypeOK
<1>17. ASSUME NEW c \in Conns, HandlerClosed(c) PROVE TypeOK'
  BY <1>17, ConnsTyped DEF HandlerClosed, ClearedChannel, TypeOK, Handlers
<1>18. ASSUME NEW c \in Conns, RequestTimeout(c) PROVE TypeOK'
  BY <1>18, ConnsTyped DEF RequestTimeout, TypeOK, Outcomes
<1>19. ASSUME NEW c \in Conns, BrokerAnswers(c) PROVE TypeOK'
  <2> DEFINE m == Head(toWorker[c])
             j == Owner(c)
             p == PriceAt(j, m)
  <2>1. /\ m \in ToWorker(j)
        /\ toWorker' \in [Conns -> Seq(ToBroker \cup ToSource)]
        /\ \A d \in Conns : toWorker'[d] \in Seq(ToWorker(Owner(d)))
    BY <1>19, WorkerReadTyped DEF BrokerAnswers
  <2>2. m.type = "price"
    BY <1>19 DEF BrokerAnswers
  <2>3. j \in Brokers /\ m.req \in Nat /\ m.price \in Price /\ m.load \in Load
    BY <2>1, <2>2 DEF ToWorker, ToBroker, ToSource
  <2>4. p \in Price
    BY <2>3, PlanDataTyped DEF PriceAt
  <2>5. /\ workerPrice' = [workerPrice EXCEPT ![j] = p]
        /\ Replies(c, [type |-> "price", req |-> m.req, price |-> p])
    BY <1>19 DEF BrokerAnswers
  <2>. HIDE DEF m, j, p
  <2>6. [type |-> "price", req |-> m.req, price |-> p] \in FromWorker(j)
    BY <2>3, <2>4 DEF FromWorker, FromBroker
  <2>7. workerPrice' \in PriceVectors
    BY <2>4, <2>5 DEF TypeOK, PriceVectors
  <2>8. /\ toController' \in [Conns -> Seq(FromBroker \cup FromSource)]
        /\ \A d \in Conns : toController'[d] \in Seq(FromWorker(Owner(d)))
    BY <2>5, <2>6, ReplyTyped DEF j
  <2>. QED
    BY <1>19, <2>1, <2>7, <2>8 DEF BrokerAnswers, TypeOK
<1>20. ASSUME NEW c \in Conns, SourceAnswers(c) PROVE TypeOK'
  <2> DEFINE m == Head(toWorker[c])
             i == Owner(c)
             ok == [type |-> "best_response", req |-> m.req, row |-> BestResponse(i, m.prices)]
             no == [type |-> "failed", req |-> m.req]
  <2>1. /\ m \in ToWorker(i)
        /\ toWorker' \in [Conns -> Seq(ToBroker \cup ToSource)]
        /\ \A d \in Conns : toWorker'[d] \in Seq(ToWorker(Owner(d)))
    BY <1>20, WorkerReadTyped DEF SourceAnswers
  <2>2. m.type = "best_response"
    BY <1>20 DEF SourceAnswers
  <2>3. i \in Sources /\ i \notin Brokers /\ m.req \in Nat /\ m.prices \in PriceVectors
    BY <2>1, <2>2, ConnsTyped DEF ToWorker, ToBroker, ToSource, Workers
  <2>4. BestResponse(i, m.prices) \in Row
    BY <2>3, PlanDataTyped
  <2>5. Replies(c, ok) \/ Replies(c, no)
    BY <1>20 DEF SourceAnswers
  <2>6. ok \in FromWorker(i) /\ no \in FromWorker(i)
    BY <2>3, <2>4 DEF FromWorker, FromSource
  <2>. HIDE DEF ok, no, m, i
  <2>7. /\ toController' \in [Conns -> Seq(FromBroker \cup FromSource)]
        /\ \A d \in Conns : toController'[d] \in Seq(FromWorker(Owner(d)))
    BY <2>5, <2>6, ReplyTyped DEF i
  <2>. QED
    BY <1>20, <2>1, <2>7 DEF SourceAnswers, TypeOK
<1>21. ASSUME NEW c \in Conns, SourceReroutes(c) PROVE TypeOK'
  <2>1. /\ Head(toWorker[c]) \in ToWorker(Owner(c))
        /\ toWorker' \in [Conns -> Seq(ToBroker \cup ToSource)]
        /\ \A d \in Conns : toWorker'[d] \in Seq(ToWorker(Owner(d)))
    BY <1>21, WorkerReadTyped DEF SourceReroutes
  <2>2. Head(toWorker[c]).type = "routing"
    BY <1>21 DEF SourceReroutes
  <2>3. Head(toWorker[c]).row \in Row
    BY <2>1, <2>2 DEF ToWorker, ToBroker, ToSource
  <2>4. workerRow' \in Plans
    BY <1>21, <2>3 DEF SourceReroutes, TypeOK, Plans
  <2>. QED
    BY <1>21, <2>1, <2>4 DEF SourceReroutes, TypeOK
<1>22. ASSUME NEW c \in Conns, BrokerAssigned(c) PROVE TypeOK'
  <2>1. /\ Head(toWorker[c]) \in ToWorker(Owner(c))
        /\ toWorker' \in [Conns -> Seq(ToBroker \cup ToSource)]
        /\ \A d \in Conns : toWorker'[d] \in Seq(ToWorker(Owner(d)))
    BY <1>22, WorkerReadTyped DEF BrokerAssigned
  <2>2. Head(toWorker[c]).type = "assignment" /\ Owner(c) \in Brokers
    BY <1>22 DEF BrokerAssigned
  <2>3. Head(toWorker[c]).price \in Price
    BY <2>1, <2>2 DEF ToWorker, ToBroker
  <2>4. workerPrice' \in PriceVectors
    BY <1>22, <2>3 DEF BrokerAssigned, TypeOK, PriceVectors
  <2>. QED
    BY <1>22, <2>1, <2>4 DEF BrokerAssigned, TypeOK
<1>23. ASSUME NEW c \in Conns, SourceAssigned(c) PROVE TypeOK'
  <2>1. /\ Head(toWorker[c]) \in ToWorker(Owner(c))
        /\ toWorker' \in [Conns -> Seq(ToBroker \cup ToSource)]
        /\ \A d \in Conns : toWorker'[d] \in Seq(ToWorker(Owner(d)))
    BY <1>23, WorkerReadTyped DEF SourceAssigned
  <2>2. Head(toWorker[c]).type = "assignment" /\ Owner(c) \in Sources \ Brokers
    BY <1>23, ActorsDistinct DEF SourceAssigned
  <2>3. Head(toWorker[c]).row \in Row
    BY <2>1, <2>2 DEF ToWorker, ToSource
  <2>4. workerRow' \in Plans
    BY <1>23, <2>3 DEF SourceAssigned, TypeOK, Plans
  <2>5. [type |-> "ready"] \in FromWorker(Owner(c)) /\ Replies(c, [type |-> "ready"])
    BY <1>23, <2>2 DEF SourceAssigned, FromWorker, FromSource
  <2>6. /\ toController' \in [Conns -> Seq(FromBroker \cup FromSource)]
        /\ \A d \in Conns : toController'[d] \in Seq(FromWorker(Owner(d)))
    BY <2>5, ReplyTyped
  <2>. QED
    BY <1>23, <2>1, <2>4, <2>6 DEF SourceAssigned, TypeOK
<1>24. ASSUME NEW c \in Conns, Ends(c) PROVE TypeOK'
  BY <1>24 DEF Ends, TypeOK, Links
<1>25. ASSUME NEW c \in Conns, Restart(c) PROVE TypeOK'
  <2> DEFINE w == Owner(c)
  <2>1. w \in Workers
    BY ConnsTyped
  <2>2. Assignment(w) \in ToWorker(w)
    BY <2>1 DEF Assignment, ToWorker, ToBroker, ToSource, TypeOK, PriceVectors, Plans, Workers
  <2>3. /\ toWorker' \in [Conns -> Seq(ToBroker \cup ToSource)]
        /\ \A d \in Conns : toWorker'[d] \in Seq(ToWorker(Owner(d)))
    <3>1. <<Assignment(w)>> \in Seq(ToWorker(w)) /\ <<Assignment(w)>> \in Seq(ToBroker \cup ToSource)
      <4>1. \A x, S : x \in S => <<x>> \in Seq(S)
        OBVIOUS
      <4>2. Assignment(w) \in ToBroker \cup ToSource
        BY <2>2 DEF ToWorker
      <4>. QED
        BY <2>2, <4>1, <4>2
    <3>2. toWorker' = [toWorker EXCEPT ![c] = <<Assignment(w)>>]
      BY <1>25 DEF Restart
    <3>. QED
      BY <3>1, <3>2 DEF TypeOK
  <2>4. /\ link' \in [Conns -> Links] /\ handler' \in [Conns -> Handlers]
        /\ chan' \in [Workers -> Conns \cup {NoConn}] /\ proc' \in [Workers -> Conns]
    BY <1>25, <2>1 DEF Restart, TypeOK, Links, Handlers
  <2>5. \A v \in Workers : Owner(proc'[v]) = v /\ (chan'[v] # NoConn => Owner(chan'[v]) = v)
    BY <1>25, <2>1 DEF Restart, TypeOK
  <2>. QED
    BY <1>25, <2>3, <2>4, <2>5 DEF Restart, TypeOK
<1>26. CASE UNCHANGED vars
  BY <1>26 DEF vars, TypeOK
<1>. QED
  BY <1>1, <1>2, <1>3, <1>4, <1>5, <1>6, <1>7, <1>8, <1>9, <1>10, <1>11, <1>12, <1>13, <1>14,
     <1>15, <1>16, <1>17, <1>18, <1>19, <1>20, <1>21, <1>22, <1>23, <1>24, <1>25, <1>26
  DEF Next, Controller, Reading, Worker, WorkerStops, WorkerSeesEof, WorkerCrashes

\* Rounds is typed.
THEOREM Typing == Spec => []TypeOK
BY InitTyped, NextTyped, PTL DEF Spec

\* Taking the first message off a queue leaves the others in it.
LEMMA TailElements ==
  ASSUME NEW S, NEW q \in Seq(S), q # << >>
  PROVE  /\ 1 \in 1 .. Len(q) /\ Head(q) = q[1]
         /\ \A n \in 1 .. Len(Tail(q)) : n + 1 \in 1 .. Len(q) /\ Tail(q)[n] = q[n + 1]
  OBVIOUS

\* What is in a queue after a message is put at its end.
LEMMA AppendElements ==
  ASSUME NEW S, NEW q \in Seq(S), NEW m
  PROVE  \A n \in 1 .. Len(Append(q, m)) :
           \/ n \in 1 .. Len(q) /\ Append(q, m)[n] = q[n]
           \/ Append(q, m)[n] = m
  OBVIOUS

\* What is under way after a message was taken: nothing new.
LEMMA TakeElements ==
  ASSUME TypeOK, NEW c \in Conns, Take(c)
  PROVE  /\ 1 \in 1 .. Len(toController[c]) /\ Head(toController[c]) = toController[c][1]
         /\ \A d \in Conns : \A n \in 1 .. Len(toController'[d]) :
              \E k \in 1 .. Len(toController[d]) : toController'[d][n] = toController[d][k]
<1> DEFINE q == toController[c]
<1>1. q \in Seq(FromBroker \cup FromSource) /\ q # << >>
  BY DEF Take, TypeOK
<1>2. /\ 1 \in 1 .. Len(q) /\ Head(q) = q[1]
      /\ \A n \in 1 .. Len(Tail(q)) : n + 1 \in 1 .. Len(q) /\ Tail(q)[n] = q[n + 1]
  BY <1>1, TailElements
<1>3. toController' = [toController EXCEPT ![c] = Tail(q)]
  BY DEF Take
<1>. QED
  BY ZenonT(40), <1>2, <1>3 DEF TypeOK

\* The same for what a worker takes.
LEMMA WorkerTakesElements ==
  ASSUME TypeOK, NEW c \in Conns, WorkerTakes(c)
  PROVE  /\ 1 \in 1 .. Len(toWorker[c]) /\ Head(toWorker[c]) = toWorker[c][1]
         /\ \A d \in Conns : \A n \in 1 .. Len(toWorker'[d]) :
              \E k \in 1 .. Len(toWorker[d]) : toWorker'[d][n] = toWorker[d][k]
<1> DEFINE q == toWorker[c]
<1>1. q \in Seq(ToBroker \cup ToSource) /\ q # << >>
  BY DEF WorkerTakes, TypeOK
<1>2. /\ 1 \in 1 .. Len(q) /\ Head(q) = q[1]
      /\ \A n \in 1 .. Len(Tail(q)) : n + 1 \in 1 .. Len(q) /\ Tail(q)[n] = q[n + 1]
  BY <1>1, TailElements
<1>3. toWorker' = [toWorker EXCEPT ![c] = Tail(q)]
  BY DEF WorkerTakes
<1>. QED
  BY <1>2, <1>3 DEF TypeOK

\* What is under way to the workers after a send.
LEMMA SentElements ==
  ASSUME TypeOK, NEW cs, NEW msg
  PROVE  \A d \in Conns : \A n \in 1 .. Len(Sent(cs, msg)[d]) :
           \/ \E k \in 1 .. Len(toWorker[d]) : Sent(cs, msg)[d][n] = toWorker[d][k]
           \/ d \in cs /\ Sent(cs, msg)[d][n] = msg[Owner(d)]
<1> SUFFICES ASSUME NEW d \in Conns, NEW n \in 1 .. Len(Sent(cs, msg)[d])
             PROVE  \/ \E k \in 1 .. Len(toWorker[d]) : Sent(cs, msg)[d][n] = toWorker[d][k]
                    \/ d \in cs /\ Sent(cs, msg)[d][n] = msg[Owner(d)]
  OBVIOUS
<1>1. toWorker[d] \in Seq(ToBroker \cup ToSource)
  BY DEF TypeOK
<1>2. CASE d \in cs /\ link[d] = "up"
  <2>1. Sent(cs, msg)[d] = Append(toWorker[d], msg[Owner(d)])
    BY <1>2 DEF Sent
  <2>. QED
    BY <1>1, <1>2, <2>1, AppendElements
<1>3. CASE ~(d \in cs /\ link[d] = "up")
  BY <1>3 DEF Sent
<1>. QED
  BY <1>2, <1>3

\* What is under way to the controller after a reply.
LEMMA ReplyElements ==
  ASSUME TypeOK, NEW c \in Conns, NEW m, Replies(c, m)
  PROVE  \A d \in Conns : \A n \in 1 .. Len(toController'[d]) :
           \/ \E k \in 1 .. Len(toController[d]) : toController'[d][n] = toController[d][k]
           \/ d = c /\ toController'[d][n] = m
<1> SUFFICES ASSUME NEW d \in Conns, NEW n \in 1 .. Len(toController'[d])
             PROVE  \/ \E k \in 1 .. Len(toController[d]) : toController'[d][n] = toController[d][k]
                    \/ d = c /\ toController'[d][n] = m
  OBVIOUS
<1>1. toController[d] \in Seq(FromBroker \cup FromSource)
  BY DEF TypeOK
<1>2. CASE d = c
  <2>1. toController'[d] = Append(toController[d], m)
    BY <1>2 DEF Replies, TypeOK
  <2>. QED
    BY <1>1, <1>2, <2>1, AppendElements
<1>3. CASE d # c
  BY <1>3 DEF Replies, TypeOK
<1>. QED
  BY <1>2, <1>3

\* A step that leaves the controller's round alone, brings in no new outcome
\* and no message that is not a routing, an assignment, a stop or a ready,
\* keeps the invariant.
LEMMA QuietStep ==
  ASSUME RoundInv, TypeOK',
         UNCHANGED <<state, newPrices, pc, ids, gotPrice, gotRow, outcome, pend>>,
         \A d \in Conns : \A n \in 1 .. Len(toWorker'[d]) :
           \/ \E k \in 1 .. Len(toWorker[d]) : toWorker'[d][n] = toWorker[d][k]
           \/ toWorker'[d][n].type \notin {"price", "best_response"},
         \A d \in Conns : \A n \in 1 .. Len(toController'[d]) :
           \/ \E k \in 1 .. Len(toController[d]) : toController'[d][n] = toController[d][k]
           \/ toController'[d][n].type = "ready"
  PROVE  RoundInv'
<1>1. PendingIsCurrent' /\ EveryoneAsked' /\ NewPricesRight' /\ FreshReplies'
  BY DEF RoundInv, PendingIsCurrent, EveryoneAsked, NewPricesRight, FreshReplies, state
<1>2. \A d \in Conns : \A n \in 1 .. Len(toWorker'[d]) : CurrentRequest(d, toWorker[d][n])'
  <2> SUFFICES ASSUME NEW d \in Conns, NEW n \in 1 .. Len(toWorker'[d])
               PROVE  CurrentRequest(d, toWorker[d][n])'
    OBVIOUS
  <2>1. CASE \E k \in 1 .. Len(toWorker[d]) : toWorker'[d][n] = toWorker[d][k]
    <3>1. PICK k \in 1 .. Len(toWorker[d]) : toWorker'[d][n] = toWorker[d][k]
      BY <2>1
    <3>2. CurrentRequest(d, toWorker[d][k])
      BY <3>1 DEF RoundInv, UnderwayIsCurrent
    <3>. QED
      BY <3>1, <3>2 DEF CurrentRequest, state
  <2>2. CASE toWorker'[d][n].type \notin {"price", "best_response"}
    BY <2>2 DEF CurrentRequest
  <2>. QED
    BY <2>1, <2>2
<1>3. \A d \in Conns : \A n \in 1 .. Len(toController'[d]) : CurrentReply(d, toController[d][n])'
  <2> SUFFICES ASSUME NEW d \in Conns, NEW n \in 1 .. Len(toController'[d])
               PROVE  CurrentReply(d, toController[d][n])'
    OBVIOUS
  <2>1. CASE \E k \in 1 .. Len(toController[d]) : toController'[d][n] = toController[d][k]
    <3>1. PICK k \in 1 .. Len(toController[d]) : toController'[d][n] = toController[d][k]
      BY <2>1
    <3>2. CurrentReply(d, toController[d][k])
      BY <3>1 DEF RoundInv, UnderwayIsCurrent
    <3>. QED
      BY <3>1, <3>2 DEF CurrentReply, state
  <2>2. CASE toController'[d][n].type = "ready"
    BY <2>2 DEF CurrentReply
  <2>. QED
    BY <2>1, <2>2
<1>. QED
  BY <1>1, <1>2, <1>3 DEF RoundInv, UnderwayIsCurrent

\* A step to a phase in which no request is outstanding keeps the invariant.
LEMMA StepOutsideGather ==
  ASSUME RoundInv, TypeOK', pc' \notin {"prices", "responses"}, UNCHANGED <<ids, pend, toController>>,
         \A c \in Conns : pend[c] = 0,
         \A d \in Conns : \A n \in 1 .. Len(toWorker'[d]) :
           \/ \E k \in 1 .. Len(toWorker[d]) : toWorker'[d][n] = toWorker[d][k]
           \/ toWorker'[d][n].type \notin {"price", "best_response"}
  PROVE  RoundInv'
<1>1. PendingIsCurrent' /\ EveryoneAsked' /\ NewPricesRight' /\ FreshReplies'
  BY DEF PendingIsCurrent, EveryoneAsked, NewPricesRight, FreshReplies
<1>2. \A d \in Conns : \A n \in 1 .. Len(toWorker'[d]) : CurrentRequest(d, toWorker[d][n])'
  <2> SUFFICES ASSUME NEW d \in Conns, NEW n \in 1 .. Len(toWorker'[d])
               PROVE  CurrentRequest(d, toWorker[d][n])'
    OBVIOUS
  <2>1. CASE \E k \in 1 .. Len(toWorker[d]) : toWorker'[d][n] = toWorker[d][k]
    <3>1. PICK k \in 1 .. Len(toWorker[d]) : toWorker'[d][n] = toWorker[d][k]
      BY <2>1
    <3>2. CurrentRequest(d, toWorker[d][k])
      BY <3>1 DEF RoundInv, UnderwayIsCurrent
    <3>. QED
      BY <3>1, <3>2 DEF CurrentRequest
  <2>2. CASE toWorker'[d][n].type \notin {"price", "best_response"}
    BY <2>2 DEF CurrentRequest
  <2>. QED
    BY <2>1, <2>2
<1>3. \A d \in Conns : \A n \in 1 .. Len(toController'[d]) : CurrentReply(d, toController[d][n])'
  BY DEF RoundInv, UnderwayIsCurrent, CurrentReply
<1>. QED
  BY <1>1, <1>2, <1>3 DEF RoundInv, UnderwayIsCurrent

\* When no request of the gather has to be waited for, none is pending.
LEMMA NothingPending ==
  ASSUME RoundInv,
         \/ pc = "prices" /\ Gathered(Brokers)
         \/ pc = "responses" /\ Gathered(Sources)
         \/ pc \notin {"prices", "responses"}
  PROVE  \A c \in Conns : pend[c] = 0
  BY DEF RoundInv, PendingIsCurrent, Gathered

\* A gather under a new id keeps the invariant when its requests are those of
\* the phase it opens.
LEMMA GatherStep ==
  ASSUME RoundInv, TypeOK', NEW ws \in SUBSET Workers, NEW msg, Gather(ws, msg),
         \A c \in Conns : pend[c] = 0,
         UNCHANGED toController,
         \/ pc' = "prices" /\ ws = Brokers
         \/ pc' = "responses" /\ ws = Sources,
         NewPricesRight',
         \A c \in Conns : Owner(c) \in ws => \A m : m = msg[Owner(c)] => CurrentRequest(c, m)'
  PROVE  RoundInv'
<1>1. PICK asked \in SUBSET {w \in ws : chan[w] # NoConn}, via \in SUBSET Conns :
           /\ \A c \in via : Owner(c) \in asked /\ chan[Owner(c)] = c
           /\ \A w \in asked : chan[w] \in via
           /\ ids' = ids + 1
           /\ outcome' = [w \in Workers |-> IF w \in asked THEN "pending"
                                            ELSE IF w \in ws THEN "failed" ELSE outcome[w]]
           /\ pend' = [c \in Conns |-> IF c \in via THEN ids + 1 ELSE pend[c]]
           /\ toWorker' = Sent(via, msg)
  BY GatherEffect DEF RoundInv
<1>2. ids \in Nat /\ ids' = ids + 1
  BY <1>1 DEF RoundInv, TypeOK
<1>3. \A w \in ws : outcome'[w] \in {"pending", "failed"}
  BY <1>1
<1>4. PendingIsCurrent'
  BY <1>1, ConnsTyped DEF PendingIsCurrent
<1>5. EveryoneAsked' /\ FreshReplies'
  BY <1>3, ActorsDistinct DEF EveryoneAsked, FreshReplies
<1>6. \A d \in Conns : \A n \in 1 .. Len(toWorker'[d]) : CurrentRequest(d, toWorker[d][n])'
  <2> SUFFICES ASSUME NEW d \in Conns, NEW n \in 1 .. Len(toWorker'[d])
               PROVE  CurrentRequest(d, toWorker[d][n])'
    OBVIOUS
  <2>1. \/ \E k \in 1 .. Len(toWorker[d]) : toWorker'[d][n] = toWorker[d][k]
        \/ d \in via /\ toWorker'[d][n] = msg[Owner(d)]
    BY <1>1, SentElements DEF RoundInv
  <2>2. CASE \E k \in 1 .. Len(toWorker[d]) : toWorker'[d][n] = toWorker[d][k]
    <3>1. PICK k \in 1 .. Len(toWorker[d]) : toWorker'[d][n] = toWorker[d][k]
      BY <2>2
    <3>2. CurrentRequest(d, toWorker[d][k])
      BY <3>1 DEF RoundInv, UnderwayIsCurrent
    <3>3. toWorker[d][k].type \in {"price", "best_response"} => toWorker[d][k].req \in Nat
      <4>1. toWorker[d][k] \in ToBroker \cup ToSource
        BY <3>1 DEF RoundInv, TypeOK
      <4>. QED
        BY <4>1 DEF ToBroker, ToSource
    <3>. QED
      BY <1>2, <3>1, <3>2, <3>3 DEF CurrentRequest
  <2>3. CASE d \in via /\ toWorker'[d][n] = msg[Owner(d)]
    <3>1. \A m : m = msg[Owner(d)] => CurrentRequest(d, m)'
      BY <1>1, <2>3
    <3>. QED
      BY <2>3, <3>1 DEF CurrentRequest
  <2>. QED
    BY <2>1, <2>2, <2>3
<1>7. \A d \in Conns : \A n \in 1 .. Len(toController'[d]) : CurrentReply(d, toController[d][n])'
  <2> SUFFICES ASSUME NEW d \in Conns, NEW n \in 1 .. Len(toController[d])
               PROVE  CurrentReply(d, toController[d][n])'
    OBVIOUS
  <2>1. CurrentReply(d, toController[d][n])
    BY DEF RoundInv, UnderwayIsCurrent
  <2>2. toController[d][n].type # "ready" => toController[d][n].req \in Nat
    BY DEF RoundInv, TypeOK, FromBroker, FromSource
  <2>. QED
    BY <1>2, <2>1, <2>2 DEF CurrentReply
<1>. QED
  BY <1>4, <1>5, <1>6, <1>7 DEF RoundInv, UnderwayIsCurrent

\* A request that fails, because the connection ended or the timer went off,
\* keeps the invariant.
LEMMA FailStep ==
  ASSUME RoundInv, TypeOK', NEW c \in Conns,
         pend' = [pend EXCEPT ![c] = 0],
         outcome' = IF pend[c] = 0 THEN outcome ELSE [outcome EXCEPT ![Owner(c)] = "failed"],
         UNCHANGED <<state, newPrices, pc, ids, gotPrice, gotRow, toWorker>>,
         \A d \in Conns : toController'[d] = toController[d] \/ toController'[d] = << >>
  PROVE  RoundInv'
<1>1. Owner(c) \in Workers /\ pend \in [Conns -> Nat] /\ outcome \in [Workers -> Outcomes]
  BY ConnsTyped DEF RoundInv, TypeOK
<1>2. PendingIsCurrent'
  BY <1>1 DEF RoundInv, PendingIsCurrent
<1>3. EveryoneAsked' /\ NewPricesRight' /\ FreshReplies'
  BY <1>1 DEF RoundInv, EveryoneAsked, NewPricesRight, FreshReplies, state, Workers
<1>4. \A d \in Conns : \A n \in 1 .. Len(toWorker'[d]) : CurrentRequest(d, toWorker[d][n])'
  BY DEF RoundInv, UnderwayIsCurrent, CurrentRequest, state
<1>5. \A d \in Conns : \A n \in 1 .. Len(toController'[d]) : CurrentReply(d, toController[d][n])'
  BY DEF RoundInv, UnderwayIsCurrent, CurrentReply, state
<1>. QED
  BY <1>2, <1>3, <1>4, <1>5 DEF RoundInv, UnderwayIsCurrent

\* A worker that answers a request with what the request asks for keeps the
\* invariant.
LEMMA AnswerStep ==
  ASSUME RoundInv, TypeOK', NEW c \in Conns, NEW r, CurrentReply(c, r), Replies(c, r),
         UNCHANGED <<state, newPrices, pc, ids, gotPrice, gotRow, outcome, pend>>,
         \A d \in Conns : \A n \in 1 .. Len(toWorker'[d]) :
           \E k \in 1 .. Len(toWorker[d]) : toWorker'[d][n] = toWorker[d][k]
  PROVE  RoundInv'
<1>1. PendingIsCurrent' /\ EveryoneAsked' /\ NewPricesRight' /\ FreshReplies'
  BY DEF RoundInv, PendingIsCurrent, EveryoneAsked, NewPricesRight, FreshReplies, state
<1>2. \A d \in Conns : \A n \in 1 .. Len(toWorker'[d]) : CurrentRequest(d, toWorker[d][n])'
  <2> SUFFICES ASSUME NEW d \in Conns, NEW n \in 1 .. Len(toWorker'[d])
               PROVE  CurrentRequest(d, toWorker[d][n])'
    OBVIOUS
  <2>1. PICK k \in 1 .. Len(toWorker[d]) : toWorker'[d][n] = toWorker[d][k]
    OBVIOUS
  <2>2. CurrentRequest(d, toWorker[d][k])
    BY DEF RoundInv, UnderwayIsCurrent
  <2>. QED
    BY <2>1, <2>2 DEF CurrentRequest, state
<1>3. \A d \in Conns : \A n \in 1 .. Len(toController'[d]) : CurrentReply(d, toController[d][n])'
  <2> SUFFICES ASSUME NEW d \in Conns, NEW n \in 1 .. Len(toController'[d])
               PROVE  CurrentReply(d, toController[d][n])'
    OBVIOUS
  <2>1. \/ \E k \in 1 .. Len(toController[d]) : toController'[d][n] = toController[d][k]
        \/ d = c /\ toController'[d][n] = r
    BY ReplyElements DEF RoundInv
  <2>2. CASE \E k \in 1 .. Len(toController[d]) : toController'[d][n] = toController[d][k]
    <3>1. PICK k \in 1 .. Len(toController[d]) : toController'[d][n] = toController[d][k]
      BY <2>2
    <3>2. CurrentReply(d, toController[d][k])
      BY <3>1 DEF RoundInv, UnderwayIsCurrent
    <3>. QED
      BY <3>1, <3>2 DEF CurrentReply, state
  <2>3. CASE d = c /\ toController'[d][n] = r
    BY <2>3 DEF CurrentReply, state
  <2>. QED
    BY <2>1, <2>2, <2>3
<1>. QED
  BY <1>1, <1>2, <1>3 DEF RoundInv, UnderwayIsCurrent

\* Every step keeps the invariant.
LEMMA RoundInvStep == RoundInv /\ [Next]_vars => RoundInv'
<1> SUFFICES ASSUME RoundInv, [Next]_vars PROVE RoundInv'
  OBVIOUS
<1>0. TypeOK /\ TypeOK'
  BY NextTyped DEF RoundInv
<1> USE DEF roundVars, requests, network, registry, workers
<1>1. CASE AskBrokers
  <2>1. \A c \in Conns : Owner(c) \in Brokers =>
          \A m : m = PriceRequest[Owner(c)] => CurrentRequest(c, m)'
    <3>1. ids \in Nat /\ ids' = ids + 1 /\ UNCHANGED <<plan, prices>>
      BY <1>1, <1>0 DEF AskBrokers, Gather, TypeOK, state
    <3>. QED
      BY <3>1 DEF PriceRequest, CurrentRequest
  <2>2. NewPricesRight'
    BY <1>1 DEF AskBrokers, NewPricesRight
  <2>3. \A c \in Conns : pend[c] = 0
    BY <1>1, NothingPending DEF AskBrokers
  <2>. QED
    BY <1>1, <1>0, <2>1, <2>2, <2>3, GatherStep DEF AskBrokers, Workers
<1>2. CASE SkipRound
  <2>1. \A c \in Conns : pend[c] = 0
    BY <1>2, NothingPending DEF SkipRound
  <2>. QED
    BY <1>2, <1>0, <2>1, StepOutsideGather DEF SkipRound, EndOfPass
<1>3. CASE AskSources
  <2> DEFINE msg == [i \in Sources |-> [type |-> "best_response", req |-> ids + 1, prices |-> newPrices']]
  <2>1. \A c \in Conns : pend[c] = 0
    BY <1>3, NothingPending DEF AskSources
  <2>2. Gather(Sources, msg) /\ pc' = "responses" /\ UNCHANGED toController
    BY <1>3 DEF AskSources
  <2>3. ids \in Nat /\ ids' = ids + 1
    BY <2>2, <1>0 DEF Gather, TypeOK
  <2>4. \A c \in Conns : Owner(c) \in Sources => \A m : m = msg[Owner(c)] => CurrentRequest(c, m)'
    BY <2>2, <2>3 DEF CurrentRequest
  <2>5. NewPricesRight'
    <3>1. \A j \in Brokers : outcome[j] = "ok"
      BY <1>3, <1>0 DEF AskSources, Gathered, Failed, RoundInv, EveryoneAsked, TypeOK, Outcomes, Workers
    <3>2. \A j \in Brokers : gotPrice[j] = BrokerPrice(j, prices[j], BrokerLoad(plan, j))
      BY <1>3, <3>1 DEF AskSources, RoundInv, FreshReplies
    <3>3. newPrices' = [j \in Brokers |-> gotPrice[j]] /\ UNCHANGED <<plan, prices>>
      BY <1>3 DEF AskSources, state
    <3>4. newPrices' = [j \in Brokers |-> BrokerPrice(j, prices[j], BrokerLoad(plan, j))]
      BY <3>2, <3>3
    <3>. QED
      BY <3>3, <3>4 DEF NewPricesRight
  <2>. HIDE DEF msg
  <2>. QED
    BY <1>0, <2>1, <2>2, <2>4, <2>5, GatherStep DEF Workers
<1>4. CASE ApplyStep
  <2>1. \A c \in Conns : pend[c] = 0
    BY <1>4, NothingPending DEF ApplyStep
  <2>. QED
    BY <1>4, <1>0, <2>1, StepOutsideGather DEF ApplyStep
<1>5. CASE RecordRound
  <2>1. \A c \in Conns : pend[c] = 0
    BY <1>5, NothingPending DEF RecordRound
  <2>. QED
    BY <1>5, <1>0, <2>1, StepOutsideGather DEF RecordRound, EndOfPass
<1>6. ASSUME NEW i \in Sources, SendRouting(i) PROVE RoundInv'
  <2> DEFINE msg == [w \in Workers |-> [type |-> "routing", row |-> plan[i]]]
  <2>1. /\ UNCHANGED <<state, newPrices, pc, ids, gotPrice, gotRow, outcome, pend, toController>>
        /\ toWorker' = Sent({chan[i]}, msg)
    BY <1>6 DEF SendRouting
  <2>2. \A d \in Conns : msg[Owner(d)].type = "routing"
    BY ConnsTyped
  <2>. HIDE DEF msg
  <2>3. \A d \in Conns : \A n \in 1 .. Len(toWorker'[d]) :
           \/ \E k \in 1 .. Len(toWorker[d]) : toWorker'[d][n] = toWorker[d][k]
           \/ toWorker'[d][n].type \notin {"price", "best_response"}
    BY <1>0, <2>1, <2>2, SentElements
  <2>. QED
    BY <1>0, <2>1, <2>3, QuietStep
<1>7. CASE Drained
  BY <1>7, <1>0, QuietStep DEF Drained
<1>8. CASE RoutingRaises
  <2>1. \A c \in Conns : pend[c] = 0
    BY <1>8, NothingPending DEF RoutingRaises
  <2>. QED
    BY <1>8, <1>0, <2>1, StepOutsideGather DEF RoutingRaises
<1>9. CASE ShutDown
  <2>1. \A c \in Conns : pend[c] = 0
    BY <1>9, NothingPending DEF ShutDown
  <2>. QED
    BY <1>9, <1>0, <2>1, StepOutsideGather DEF ShutDown
<1>10. ASSUME NEW w \in Workers, SendStop(w) PROVE RoundInv'
  <2> DEFINE msg == [v \in Workers |-> [type |-> "stop"]]
  <2>1. /\ UNCHANGED <<state, newPrices, pc, ids, gotPrice, gotRow, outcome, pend, toController>>
        /\ toWorker' = Sent({chan[w]}, msg)
    BY <1>10 DEF SendStop
  <2>2. \A d \in Conns : msg[Owner(d)].type = "stop"
    BY ConnsTyped
  <2>. HIDE DEF msg
  <2>3. \A d \in Conns : \A n \in 1 .. Len(toWorker'[d]) :
           \/ \E k \in 1 .. Len(toWorker[d]) : toWorker'[d][n] = toWorker[d][k]
           \/ toWorker'[d][n].type \notin {"price", "best_response"}
    BY <1>0, <2>1, <2>2, SentElements
  <2>. QED
    BY <1>0, <2>1, <2>3, QuietStep
<1>11. CASE Exit
  <2>1. \A c \in Conns : pend[c] = 0
    BY <1>11, NothingPending DEF Exit
  <2>. QED
    BY <1>11, <1>0, <2>1, StepOutsideGather DEF Exit
<1>12. CASE RequestStop
  BY <1>12, <1>0, QuietStep DEF RequestStop
<1>13. ASSUME NEW c \in Conns, ReceiveReply(c) PROVE RoundInv'
  <2> DEFINE m == Head(toController[c])
             w == Owner(c)
  <2>1. /\ m = toController[c][1] /\ 1 \in 1 .. Len(toController[c])
        /\ \A d \in Conns : \A n \in 1 .. Len(toController'[d]) :
             \E k \in 1 .. Len(toController[d]) : toController'[d][n] = toController[d][k]
    BY <1>13, <1>0, TakeElements DEF ReceiveReply
  <2>2. m \in FromWorker(w)
    BY <1>13, <1>0, ReadTyped DEF ReceiveReply
  <2>3. CurrentReply(c, m)
    BY <2>1 DEF RoundInv, UnderwayIsCurrent
  <2>4. /\ pend[c] # 0 /\ pend[c] = m.req /\ m.type # "ready"
        /\ pend' = [pend EXCEPT ![c] = 0]
        /\ outcome' = [outcome EXCEPT ![w] = IF m.type = "failed" THEN "failed" ELSE "ok"]
        /\ gotPrice' = IF m.type = "price" THEN [gotPrice EXCEPT ![w] = m.price] ELSE gotPrice
        /\ gotRow' = IF m.type = "best_response" THEN [gotRow EXCEPT ![w] = m.row] ELSE gotRow
        /\ UNCHANGED <<state, newPrices, pc, ids, toWorker>>
    BY <1>13 DEF ReceiveReply, Matches
  <2>5. /\ m.req = ids
        /\ \/ pc = "prices" /\ w \in Brokers
           \/ pc = "responses" /\ w \in Sources
    BY <2>4 DEF RoundInv, PendingIsCurrent
  <2>6. \A d \in Conns : d # c /\ pend[d] # 0 => Owner(d) # w
    BY <2>4 DEF RoundInv, PendingIsCurrent
  <2>7. w \in Workers
    BY ConnsTyped
  <2>8. m.type = "price" /\ pc = "prices" =>
          m.price = BrokerPrice(w, prices[w], BrokerLoad(plan, w))
    BY <2>3, <2>5 DEF CurrentReply
  <2>9. m.type = "best_response" /\ pc = "responses" => m.row = BestResponse(w, newPrices)
    BY <2>3, <2>5 DEF CurrentReply
  <2>10. /\ w \in Brokers => m.type = "price"
         /\ w \in Sources => m.type \in {"best_response", "failed"}
    BY <2>2, <2>4, ActorsDistinct DEF FromWorker, FromBroker, FromSource
  <2>. HIDE DEF m, w
  <2>11. PendingIsCurrent'
    <3>1. /\ UNCHANGED <<pc, ids>>
          /\ \A d \in Conns : pend'[d] # 0 => d # c /\ pend'[d] = pend[d]
      BY <2>4, <1>0 DEF TypeOK
    <3>2. \A d \in Conns : pend'[d] # 0 => outcome'[Owner(d)] = outcome[Owner(d)]
      BY <2>4, <2>6, <3>1, <1>0, ConnsTyped DEF TypeOK
    <3>. QED
      BY <3>1, <3>2, <1>0 DEF RoundInv, PendingIsCurrent
  <2>12. EveryoneAsked' /\ NewPricesRight'
    BY <2>4, <1>0 DEF RoundInv, EveryoneAsked, NewPricesRight, TypeOK, state, Workers
  <2>13. FreshReplies'
    <3>1. CASE pc = "prices" /\ w \in Brokers
      BY <3>1, <2>4, <2>8, <2>10, <1>0
      DEF RoundInv, FreshReplies, TypeOK, state, PriceVectors, Workers
    <3>2. CASE pc = "responses" /\ w \in Sources
      BY <3>2, <2>4, <2>9, <2>10, <1>0 DEF RoundInv, FreshReplies, TypeOK, state, Plans, Workers
    <3>. QED
      BY <2>5, <3>1, <3>2
  <2>14. \A d \in Conns : \A n \in 1 .. Len(toWorker'[d]) : CurrentRequest(d, toWorker[d][n])'
    BY <2>4 DEF RoundInv, UnderwayIsCurrent, CurrentRequest, state
  <2>15. \A d \in Conns : \A n \in 1 .. Len(toController'[d]) : CurrentReply(d, toController[d][n])'
    <3> SUFFICES ASSUME NEW d \in Conns, NEW n \in 1 .. Len(toController'[d])
                 PROVE  CurrentReply(d, toController[d][n])'
      OBVIOUS
    <3>1. PICK k \in 1 .. Len(toController[d]) : toController'[d][n] = toController[d][k]
      BY <2>1
    <3>2. CurrentReply(d, toController[d][k])
      BY <3>1 DEF RoundInv, UnderwayIsCurrent
    <3>. QED
      BY <2>4, <3>1, <3>2 DEF CurrentReply, state
  <2>. QED
    BY <1>0, <2>11, <2>12, <2>13, <2>14, <2>15 DEF RoundInv, UnderwayIsCurrent
<1>14. ASSUME NEW c \in Conns, ReceiveLateReply(c) PROVE RoundInv'
  BY <1>14, <1>0, TakeElements, QuietStep DEF ReceiveLateReply
<1>15. ASSUME NEW c \in Conns, ReceiveReady(c) PROVE RoundInv'
  BY <1>15, <1>0, TakeElements, QuietStep DEF ReceiveReady
<1>16. ASSUME NEW c \in Conns, StartSent(c) PROVE RoundInv'
  BY <1>16, <1>0, QuietStep DEF StartSent
<1>17. ASSUME NEW c \in Conns, ReadClosed(c) PROVE RoundInv'
  <2>1. /\ pend' = [pend EXCEPT ![c] = 0]
        /\ outcome' = IF pend[c] = 0 THEN outcome ELSE [outcome EXCEPT ![Owner(c)] = "failed"]
        /\ UNCHANGED <<state, newPrices, pc, ids, gotPrice, gotRow, toWorker>>
    BY <1>17 DEF ReadClosed
  <2>2. \A d \in Conns : toController'[d] = toController[d] \/ toController'[d] = << >>
    BY <1>17, <1>0 DEF ReadClosed, TypeOK
  <2>. QED
    BY <1>0, <2>1, <2>2, FailStep
<1>18. ASSUME NEW c \in Conns, HandlerClosed(c) PROVE RoundInv'
  BY <1>18, <1>0, QuietStep DEF HandlerClosed
<1>19. ASSUME NEW c \in Conns, RequestTimeout(c) PROVE RoundInv'
  <2>1. /\ pend' = [pend EXCEPT ![c] = 0]
        /\ outcome' = IF pend[c] = 0 THEN outcome ELSE [outcome EXCEPT ![Owner(c)] = "failed"]
        /\ UNCHANGED <<state, newPrices, pc, ids, gotPrice, gotRow, toWorker, toController>>
    BY <1>19 DEF RequestTimeout
  <2>. QED
    BY <1>0, <2>1, FailStep
<1>20. ASSUME NEW c \in Conns, BrokerAnswers(c) PROVE RoundInv'
  <2> DEFINE m == Head(toWorker[c])
             j == Owner(c)
             r == [type |-> "price", req |-> m.req, price |-> PriceAt(j, m)]
  <2>1. /\ m = toWorker[c][1] /\ 1 \in 1 .. Len(toWorker[c])
        /\ \A d \in Conns : \A n \in 1 .. Len(toWorker'[d]) :
             \E k \in 1 .. Len(toWorker[d]) : toWorker'[d][n] = toWorker[d][k]
    BY <1>20, <1>0, WorkerTakesElements DEF BrokerAnswers
  <2>2. CurrentRequest(c, m) /\ m.type = "price"
    BY <1>20, <2>1 DEF RoundInv, UnderwayIsCurrent, BrokerAnswers
  <2>3. CurrentReply(c, r)
    BY <2>2 DEF CurrentRequest, CurrentReply, PriceAt
  <2>4. /\ UNCHANGED <<state, newPrices, pc, ids, gotPrice, gotRow, outcome, pend>>
        /\ Replies(c, r)
    BY <1>20 DEF BrokerAnswers
  <2>. HIDE DEF m, j, r
  <2>. QED
    BY <1>0, <2>1, <2>3, <2>4, AnswerStep
<1>21. ASSUME NEW c \in Conns, SourceAnswers(c) PROVE RoundInv'
  <2> DEFINE m == Head(toWorker[c])
             i == Owner(c)
             ok == [type |-> "best_response", req |-> m.req, row |-> BestResponse(i, m.prices)]
             no == [type |-> "failed", req |-> m.req]
  <2>1. /\ m = toWorker[c][1] /\ 1 \in 1 .. Len(toWorker[c])
        /\ \A d \in Conns : \A n \in 1 .. Len(toWorker'[d]) :
             \E k \in 1 .. Len(toWorker[d]) : toWorker'[d][n] = toWorker[d][k]
    BY <1>21, <1>0, WorkerTakesElements DEF SourceAnswers
  <2>2. CurrentRequest(c, m) /\ m.type = "best_response"
    BY <1>21, <2>1 DEF RoundInv, UnderwayIsCurrent, SourceAnswers
  <2>3. CurrentReply(c, ok) /\ CurrentReply(c, no)
    BY <2>2 DEF CurrentRequest, CurrentReply
  <2>4. /\ UNCHANGED <<state, newPrices, pc, ids, gotPrice, gotRow, outcome, pend>>
        /\ Replies(c, ok) \/ Replies(c, no)
    BY <1>21 DEF SourceAnswers
  <2>. HIDE DEF m, i, ok, no
  <2>. QED
    BY <1>0, <2>1, <2>3, <2>4, AnswerStep
<1>22. ASSUME NEW c \in Conns, SourceReroutes(c) PROVE RoundInv'
  BY <1>22, <1>0, WorkerTakesElements, QuietStep DEF SourceReroutes
<1>23. ASSUME NEW c \in Conns, BrokerAssigned(c) PROVE RoundInv'
  BY <1>23, <1>0, WorkerTakesElements, QuietStep DEF BrokerAssigned
<1>24. ASSUME NEW c \in Conns, SourceAssigned(c) PROVE RoundInv'
  <2>1. \A d \in Conns : \A n \in 1 .. Len(toController'[d]) :
           \/ \E k \in 1 .. Len(toController[d]) : toController'[d][n] = toController[d][k]
           \/ toController'[d][n].type = "ready"
    <3>1. Replies(c, [type |-> "ready"])
      BY <1>24 DEF SourceAssigned
    <3>. QED
      BY <1>0, <3>1, ReplyElements
  <2>. QED
    BY <1>24, <1>0, <2>1, WorkerTakesElements, QuietStep DEF SourceAssigned
<1>25. ASSUME NEW c \in Conns, Ends(c) PROVE RoundInv'
  <2>1. \A d \in Conns : toWorker'[d] = toWorker[d] \/ toWorker'[d] = << >>
    BY <1>25, <1>0 DEF Ends, TypeOK
  <2>. QED
    BY <1>25, <1>0, <2>1, QuietStep DEF Ends
<1>26. ASSUME NEW c \in Conns, Restart(c) PROVE RoundInv'
  <2>1. \A d \in Conns : \A n \in 1 .. Len(toWorker'[d]) :
           \/ \E k \in 1 .. Len(toWorker[d]) : toWorker'[d][n] = toWorker[d][k]
           \/ toWorker'[d][n].type \notin {"price", "best_response"}
    <3>1. toWorker' = [toWorker EXCEPT ![c] = <<Assignment(Owner(c))>>]
      BY <1>26 DEF Restart
    <3>2. Assignment(Owner(c)).type = "assignment"
      BY DEF Assignment
    <3>. QED
      BY <1>0, <3>1, <3>2 DEF TypeOK
  <2>. QED
    BY <1>26, <1>0, <2>1, QuietStep DEF Restart
<1>27. CASE UNCHANGED vars
  BY <1>27, <1>0, QuietStep DEF vars
<1>. QED
  BY <1>1, <1>2, <1>3, <1>4, <1>5, <1>6, <1>7, <1>8, <1>9, <1>10, <1>11, <1>12, <1>13, <1>14,
     <1>15, <1>16, <1>17, <1>18, <1>19, <1>20, <1>21, <1>22, <1>23, <1>24, <1>25, <1>26,
     <1>27
  DEF Next, Controller, Reading, Worker, WorkerStops, WorkerSeesEof, WorkerCrashes

\* The invariant of the rounds holds before the first of them.
LEMMA InitRoundInv == Init => RoundInv
  BY InitTyped
  DEF Init, RoundInv, PendingIsCurrent, EveryoneAsked, UnderwayIsCurrent, NewPricesRight, FreshReplies

\* The invariant holds in every reachable state, for any number of workers,
\* connections and rounds.
THEOREM RoundInvariant == Spec => []RoundInv
BY InitRoundInv, RoundInvStep, PTL DEF Spec

\* What a late, duplicate or stale answer could break: a reply the controller
\* uses was computed from the plan and the prices it is about to replace.
THEOREM Freshness == Spec => []FreshReplies
<1>1. RoundInv => FreshReplies
  BY DEF RoundInv
<1>. QED
  BY <1>1, RoundInvariant, PTL

\* A step of the distributed rounds is an iteration of Algorithm 1, with the
\* sources that failed held, or leaves plan, prices and iteration alone.
LEMMA RoundsStepIterates == RoundInv /\ [Next]_vars => [A1!Next]_(A1!vars)
<1> SUFFICES ASSUME RoundInv, [Next]_vars PROVE [A1!Next]_(A1!vars)
  OBVIOUS
<1>1. CASE ApplyStep
  <2> DEFINE H == Failed(Sources)
  <2>1. /\ plan' = CommonStep(plan, LambdaBR(H)) /\ prices' = newPrices
        /\ iteration' = iteration + 1 /\ pc = "responses" /\ Gathered(Sources)
    BY <1>1 DEF ApplyStep
  <2>2. newPrices = A1!NewPrices
    BY <2>1 DEF RoundInv, NewPricesRight, A1!NewPrices
  <2>3. H \in SUBSET Sources
    BY DEF Failed
  <2>4. \A i \in Sources \ H : gotRow[i] = BestResponse(i, newPrices)
    BY <2>1 DEF RoundInv, FreshReplies, EveryoneAsked, Gathered, Failed, TypeOK, Outcomes, Workers
  <2>5. LambdaBR(H) = A1!Responses(H, A1!NewPrices)
    <3>. HIDE DEF H
    <3>. QED
      BY <2>2, <2>4 DEF LambdaBR, A1!Responses
  <2>6. A1!Iterate(H)
    BY <2>1, <2>2, <2>5 DEF A1!Iterate
  <2>. QED
    BY <2>3, <2>6 DEF A1!Next
<1>2. CASE ~ApplyStep
  <2>1. UNCHANGED state
    BY <1>2 DEF Next, Controller, Reading, Worker, vars, AskBrokers, SkipRound, AskSources, RecordRound,
      SendRouting, Drained, RoutingRaises, ShutDown, SendStop, Exit, RequestStop, ReceiveReply,
      ReceiveLateReply, ReceiveReady, StartSent, ReadClosed, HandlerClosed, RequestTimeout, BrokerAnswers, SourceAnswers,
      SourceReroutes, BrokerAssigned, SourceAssigned, WorkerStops, WorkerSeesEof, WorkerCrashes,
      Ends, Restart
  <2>. QED
    BY <2>1 DEF state, A1!vars
<1>. QED
  BY <1>1, <1>2

\* The distributed rounds implement Algorithm 1.
THEOREM Refinement == Spec => RoundsAreIterations
<1>1. Init => A1!Init
  BY DEF Init, A1!Init
<1>. QED
  BY <1>1, RoundsStepIterates, RoundInvariant, PTL DEF Spec, RoundsAreIterations, A1!Spec

-----------------------------------------------------------------------------
(***************************************************************************)
(* Why every live source ends up routing by the controller's plan, for any *)
(* number of workers, connections, restarts and rounds.                    *)
(*                                                                         *)
(* SourcesFollowPlan needs LiveWorkersReachable: the routing loop sends a  *)
(* row to the channel of a source, which must be that of its live process. *)
(* Together with the typing they are inductive.                            *)
(***************************************************************************)

DeliveryInv == TypeOK /\ LiveWorkersReachable /\ SourcesFollowPlan

-----------------------------------------------------------------------------
(***************************************************************************)
(* What a source ends up with as its queue grows and is read.              *)
(***************************************************************************)

\* A message without a row does not change what a source ends up with.
LEMMA OtherMessage ==
  ASSUME NEW S, NEW q \in Seq(S), NEW m, ~IsRow(m), NEW own, NEW row, EndsUpWith(q, own, row)
  PROVE  EndsUpWith(Append(q, m), own, row)
<1> DEFINE r == Append(q, m)
<1>1. /\ Len(q) \in Nat /\ Len(r) = Len(q) + 1 /\ r[Len(q) + 1] = m
      /\ \A n \in 1 .. Len(q) : r[n] = q[n]
  OBVIOUS
<1> HIDE DEF r
<1>2. ASSUME \A n \in 1 .. Len(r) : ~IsRow(r[n]) PROVE own = row
  <2>1. \A n \in 1 .. Len(q) : ~IsRow(q[n])
    BY <1>1, <1>2
  <2> QED
    BY <2>1 DEF EndsUpWith
<1>3. ASSUME NEW n \in 1 .. Len(r), IsRow(r[n]), \A k \in n + 1 .. Len(r) : ~IsRow(r[k])
      PROVE  r[n].row = row
  <2>1. n \in 1 .. Len(q) /\ r[n] = q[n]
    BY <1>1, <1>3
  <2>2. \A k \in n + 1 .. Len(q) : ~IsRow(q[k])
    BY <1>1, <1>3, <2>1
  <2> QED
    BY <1>3, <2>1, <2>2 DEF EndsUpWith
<1> QED
  BY <1>2, <1>3 DEF EndsUpWith, r

\* Whatever is under way, a message with the row decides.
LEMMA RowMessage ==
  ASSUME NEW S, NEW q \in Seq(S), NEW m, IsRow(m), NEW own
  PROVE  EndsUpWith(Append(q, m), own, m.row)
<1> DEFINE r == Append(q, m)
<1>1. /\ Len(q) \in Nat /\ Len(r) = Len(q) + 1 /\ r[Len(q) + 1] = m
  OBVIOUS
<1> HIDE DEF r
<1>2. Len(r) \in 1 .. Len(r) /\ IsRow(r[Len(r)])
  BY <1>1
<1>3. ASSUME NEW n \in 1 .. Len(r), \A k \in n + 1 .. Len(r) : ~IsRow(r[k]) PROVE r[n].row = m.row
  <2>1. n = Len(r)
    BY <1>1, <1>2, <1>3
  <2> QED
    BY <1>1, <2>1
<1> QED
  BY <1>2, <1>3 DEF EndsUpWith, r

\* A source that reads the first message ends up with the same row.
LEMMA ReadMessage ==
  ASSUME NEW S, NEW q \in Seq(S), q # << >>, NEW own, NEW row, EndsUpWith(q, own, row)
  PROVE  EndsUpWith(Tail(q), IF IsRow(Head(q)) THEN Head(q).row ELSE own, row)
<1> DEFINE r == Tail(q)
           now == IF IsRow(Head(q)) THEN Head(q).row ELSE own
<1>1. /\ Len(q) \in Nat \ {0} /\ Len(r) = Len(q) - 1 /\ Head(q) = q[1]
      /\ \A n \in 1 .. Len(r) : r[n] = q[n + 1]
  OBVIOUS
<1> HIDE DEF r
<1>2. ASSUME \A n \in 1 .. Len(r) : ~IsRow(r[n]) PROVE now = row
  <2>1. \A n \in 2 .. Len(q) : ~IsRow(q[n])
    <3> TAKE n \in 2 .. Len(q)
    <3>1. n - 1 \in 1 .. Len(r) /\ r[n - 1] = q[n]
      BY <1>1
    <3> QED
      BY <1>2, <3>1
  <2>2. CASE IsRow(q[1])
    BY <1>1, <2>1, <2>2 DEF EndsUpWith
  <2>3. CASE ~IsRow(q[1])
    <3>1. \A n \in 1 .. Len(q) : ~IsRow(q[n])
      BY <1>1, <2>1, <2>3
    <3> QED
      BY <1>1, <2>3, <3>1 DEF EndsUpWith
  <2> QED
    BY <2>2, <2>3
<1>3. ASSUME NEW n \in 1 .. Len(r), IsRow(r[n]), \A k \in n + 1 .. Len(r) : ~IsRow(r[k])
      PROVE  r[n].row = row
  <2>1. n + 1 \in 1 .. Len(q) /\ r[n] = q[n + 1]
    BY <1>1
  <2>2. \A k \in n + 2 .. Len(q) : ~IsRow(q[k])
    <3> TAKE k \in n + 2 .. Len(q)
    <3>1. k - 1 \in n + 1 .. Len(r) /\ r[k - 1] = q[k]
      BY <1>1
    <3> QED
      BY <1>3, <3>1
  <2>3. (n + 1) + 1 = n + 2
    OBVIOUS
  <2> QED
    BY <1>3, <2>1, <2>2, <2>3 DEF EndsUpWith
<1> HIDE DEF now
<1>4. EndsUpWith(r, now, row)
  BY <1>2, <1>3 DEF EndsUpWith
<1> QED
  BY <1>4 DEF r, now

-----------------------------------------------------------------------------
(***************************************************************************)
(* Steps.                                                                  *)
(***************************************************************************)

\* What the controller sends that carries no row leaves every source as it was.
LEMMA SentOther ==
  ASSUME TypeOK, NEW cs, NEW msg, NEW c \in Conns, c \in cs => ~IsRow(msg[Owner(c)]),
         NEW own, NEW row, EndsUpWith(toWorker[c], own, row)
  PROVE  EndsUpWith(Sent(cs, msg)[c], own, row)
<1>1. toWorker[c] \in Seq(ToBroker \cup ToSource)
  BY DEF TypeOK
<1>2. CASE c \in cs /\ link[c] = "up"
  <2>1. Sent(cs, msg)[c] = Append(toWorker[c], msg[Owner(c)])
    BY <1>2 DEF Sent
  <2> QED
    BY <1>1, <1>2, <2>1, OtherMessage
<1>3. CASE ~(c \in cs /\ link[c] = "up")
  BY <1>3 DEF Sent
<1> QED
  BY <1>2, <1>3

\* A step that starts no process and leaves the plan alone: no live process loses
\* its channel, and no source that has its row is led astray.
LEMMA DeliveryStep ==
  ASSUME DeliveryInv, TypeOK', UNCHANGED <<plan, proc>>,
         \A c \in Conns : link'[c] = "up" => link[c] = "up",
         \A w \in Workers : link'[proc[w]] = "up" /\ chan[w] = proc[w] => chan'[w] = proc[w],
         \A i \in Sources \ unsent' :
           link'[proc[i]] = "up"
             /\ (i \notin unsent => EndsUpWith(toWorker[proc[i]], workerRow[i], plan[i]))
           => EndsUpWith(toWorker'[proc[i]], workerRow'[i], plan[i])
  PROVE  DeliveryInv'
<1>1. \A w \in Workers : proc[w] \in Conns
  BY DEF DeliveryInv, TypeOK
<1>2. LiveWorkersReachable'
  BY <1>1 DEF DeliveryInv, LiveWorkersReachable
<1>3. SourcesFollowPlan'
  BY <1>1 DEF DeliveryInv, SourcesFollowPlan, Workers
<1> QED
  BY <1>2, <1>3 DEF DeliveryInv

\* ... and one that sends nothing with a row.
LEMMA SendingStep ==
  ASSUME DeliveryInv, TypeOK', NEW cs, NEW msg, \A c \in cs : ~IsRow(msg[Owner(c)]),
         UNCHANGED <<plan, unsent, link, chan, proc, workerRow>>, toWorker' = Sent(cs, msg)
  PROVE  DeliveryInv'
<1>1. \A i \in Sources : proc[i] \in Conns
  BY DEF DeliveryInv, TypeOK, Workers
<1>2. \A i \in Sources : EndsUpWith(toWorker[proc[i]], workerRow[i], plan[i])
        => EndsUpWith(toWorker'[proc[i]], workerRow'[i], plan[i])
  BY <1>1, SentOther DEF DeliveryInv
<1> QED
  BY <1>2, DeliveryStep

\* A worker that reads a message keeps its row, or takes the one it has read.
LEMMA ReadingStep ==
  ASSUME DeliveryInv, TypeOK', NEW c \in Conns, WorkerTakes(c),
         UNCHANGED <<plan, unsent, link, chan, proc>>,
         LET m == Head(toWorker[c])
         IN  \/ ~IsRow(m) /\ workerRow' = workerRow
             \/ Owner(c) \in Brokers /\ workerRow' = workerRow
             \/ IsRow(m) /\ workerRow' = [workerRow EXCEPT ![Owner(c)] = m.row]
  PROVE  DeliveryInv'
<1> DEFINE m == Head(toWorker[c])
<1>1. /\ \A i \in Sources : proc[i] \in Conns /\ Owner(proc[i]) = i
      /\ \A d \in Conns : toWorker[d] \in Seq(ToBroker \cup ToSource)
      /\ workerRow \in [Sources -> Row]
  BY DEF DeliveryInv, TypeOK, Workers, Plans
<1>2. /\ toWorker[c] # << >>
      /\ \A d \in Conns : toWorker'[d] = IF d = c THEN Tail(toWorker[c]) ELSE toWorker[d]
  BY DEF WorkerTakes, DeliveryInv, TypeOK
<1>3. ASSUME NEW i \in Sources, EndsUpWith(toWorker[proc[i]], workerRow[i], plan[i])
      PROVE  EndsUpWith(toWorker'[proc[i]], workerRow'[i], plan[i])
  <2>1. CASE proc[i] = c
    <3>1. i = Owner(c) /\ i \notin Brokers
      BY <1>1, <2>1, ActorsDistinct
    <3>2. workerRow'[i] = IF IsRow(m) THEN m.row ELSE workerRow[i]
      BY <1>1, <3>1
    <3> HIDE DEF m
    <3>3. EndsUpWith(Tail(toWorker[c]), IF IsRow(m) THEN m.row ELSE workerRow[i], plan[i])
      BY <1>1, <1>2, <1>3, <2>1, ReadMessage DEF m
    <3> QED
      BY <1>2, <2>1, <3>2, <3>3
  <2>2. CASE proc[i] # c
    <3>1. i # Owner(c) \/ ~IsRow(m) \/ Owner(c) \in Brokers
      BY <1>1, <2>2 DEF DeliveryInv, WorkerTakes
    <3>2. workerRow'[i] = workerRow[i]
      BY <1>1, <3>1, ActorsDistinct
    <3> QED
      BY <1>1, <1>2, <1>3, <2>2, <3>2
  <2> QED
    BY <2>1, <2>2
<1> QED
  BY <1>3, DeliveryStep

\* One step per action; those that send, and those of the workers, by the lemmas.
LEMMA DeliveryNext == DeliveryInv /\ [Next]_vars => DeliveryInv'
<1> SUFFICES ASSUME DeliveryInv, [Next]_vars PROVE DeliveryInv'
  OBVIOUS
<1>0. TypeOK /\ TypeOK'
  BY NextTyped DEF DeliveryInv
<1> USE DEF state, roundVars, network, registry, workers
<1>1. CASE AskBrokers
  <2>1. Gather(Brokers, PriceRequest)
    BY <1>1 DEF AskBrokers
  <2>2. PICK asked \in SUBSET {w \in Brokers : chan[w] # NoConn}, via \in SUBSET Conns :
          (\A c \in via : Owner(c) \in asked) /\ toWorker' = Sent(via, PriceRequest)
    <3>1. Brokers \in SUBSET Workers
      BY DEF Workers
    <3> QED
      BY <1>0, <2>1, <3>1, GatherEffect
  <2>3. \A c \in via : ~IsRow(PriceRequest[Owner(c)])
    BY <2>2 DEF PriceRequest, IsRow
  <2>4. UNCHANGED <<plan, unsent, link, chan, proc, workerRow>>
    BY <1>1 DEF AskBrokers
  <2> QED
    BY <1>0, <2>2, <2>3, <2>4, SendingStep
<1>2. CASE AskSources
  <2> DEFINE msg == [i \in Sources |-> [type |-> "best_response", req |-> ids + 1,
                                       prices |-> newPrices']]
  <2>1. Gather(Sources, msg)
    BY <1>2 DEF AskSources
  <2>2. PICK asked \in SUBSET {w \in Sources : chan[w] # NoConn}, via \in SUBSET Conns :
          (\A c \in via : Owner(c) \in asked) /\ toWorker' = Sent(via, msg)
    <3> HIDE DEF msg
    <3>1. Sources \in SUBSET Workers
      BY DEF Workers
    <3> QED
      BY <1>0, <2>1, <3>1, GatherEffect
  <2>3. \A c \in via : ~IsRow(msg[Owner(c)])
    BY <2>2 DEF IsRow
  <2>4. UNCHANGED <<plan, unsent, link, chan, proc, workerRow>>
    BY <1>2 DEF AskSources
  <2> HIDE DEF msg
  <2> QED
    BY <1>0, <2>2, <2>3, <2>4, SendingStep
<1>3. CASE ApplyStep
  BY <1>0, <1>3 DEF ApplyStep, DeliveryInv, LiveWorkersReachable, SourcesFollowPlan
<1>4. ASSUME NEW i \in Sources, SendRouting(i) PROVE DeliveryInv'
  <2> DEFINE msg == [w \in Workers |-> [type |-> "routing", row |-> plan[i]]]
  <2>1. /\ UNCHANGED <<plan, link, chan, proc, workerRow>> /\ unsent' = unsent \ {i}
        /\ toWorker' = Sent({chan[i]}, msg)
    BY <1>4 DEF SendRouting
  <2>2. \A k \in Sources : proc[k] \in Conns /\ Owner(proc[k]) = k /\ proc[k] # NoConn
    BY <1>0, ConnsTyped DEF TypeOK, Workers
  <2>3. ASSUME link[proc[i]] = "up"
        PROVE  EndsUpWith(toWorker'[proc[i]], workerRow'[i], plan[i])
    <3>1. chan[i] = proc[i]
      BY <2>3 DEF DeliveryInv, LiveWorkersReachable, Workers
    <3>2. msg[i] = [type |-> "routing", row |-> plan[i]]
      BY DEF Workers
    <3>3. toWorker'[proc[i]] = Append(toWorker[proc[i]], msg[i])
      <4> HIDE DEF msg
      <4> QED
        BY <2>1, <2>2, <2>3, <3>1 DEF Sent
    <3>4. toWorker[proc[i]] \in Seq(ToBroker \cup ToSource)
      BY <1>0, <2>2 DEF TypeOK
    <3>5. IsRow(msg[i]) /\ msg[i].row = plan[i]
      BY <3>2 DEF IsRow
    <3> HIDE DEF msg
    <3> QED
      BY <3>3, <3>4, <3>5, RowMessage
  <2>4. ASSUME NEW k \in Sources \ {i}, EndsUpWith(toWorker[proc[k]], workerRow[k], plan[k])
        PROVE  EndsUpWith(toWorker'[proc[k]], workerRow'[k], plan[k])
    <3>1. chan[i] # proc[k]
      BY <1>0, <2>2 DEF TypeOK, Workers
    <3>2. toWorker'[proc[k]] = toWorker[proc[k]]
      <4> HIDE DEF msg
      <4> QED
        BY <2>1, <2>2, <3>1 DEF Sent
    <3> QED
      BY <2>1, <2>4, <3>2
  <2> HIDE DEF msg
  <2> QED
    BY <1>0, <2>1, <2>3, <2>4, DeliveryStep
<1>5. ASSUME NEW w \in Workers, SendStop(w) PROVE DeliveryInv'
  <2> DEFINE msg == [v \in Workers |-> [type |-> "stop"]]
             cs == {chan[w]} \ {NoConn}
  <2>1. toWorker' = Sent({chan[w]}, msg) /\ UNCHANGED <<plan, unsent, link, chan, proc, workerRow>>
    BY <1>5 DEF SendStop
  <2>2. Sent({chan[w]}, msg) = Sent(cs, msg)
    BY ConnsTyped, Zenon DEF Sent
  <2>3. \A c \in cs : Owner(c) \in Workers
    BY <1>0 DEF TypeOK
  <2>4. \A c \in cs : ~IsRow(msg[Owner(c)])
    BY <2>3 DEF IsRow
  <2> HIDE DEF msg, cs
  <2> QED
    BY <1>0, <2>1, <2>2, <2>4, SendingStep
<1>6. CASE SkipRound \/ RecordRound \/ Drained \/ ShutDown \/ Exit \/ RequestStop
  BY <1>0, <1>6, DeliveryStep
  DEF SkipRound, RecordRound, Drained, ShutDown, Exit, RequestStop, DeliveryInv
<1>7. CASE RoutingRaises
  BY <1>0, <1>7, DeliveryStep DEF RoutingRaises, DeliveryInv
<1>8. ASSUME NEW c \in Conns,
             \/ ReceiveReply(c) \/ ReceiveLateReply(c) \/ RequestTimeout(c)
             \/ ReceiveReady(c) \/ StartSent(c)
      PROVE  DeliveryInv'
  <2>1. UNCHANGED <<plan, unsent, link, chan, proc, workerRow, toWorker>>
    BY <1>8 DEF ReceiveReply, ReceiveLateReply, ReceiveReady, StartSent, RequestTimeout
  <2> QED
    BY <1>0, <2>1, DeliveryStep
<1>9. ASSUME NEW c \in Conns, ReadClosed(c) PROVE DeliveryInv'
  <2>1. \A d \in Conns : link'[d] = "up" => link[d] = "up"
    BY <1>0, <1>9 DEF ReadClosed, TypeOK
  <2>2. UNCHANGED <<plan, unsent, chan, proc, workerRow, toWorker>>
    BY <1>9 DEF ReadClosed
  <2> QED
    BY <1>0, <2>1, <2>2, DeliveryStep
<1>10. ASSUME NEW c \in Conns, HandlerClosed(c) PROVE DeliveryInv'
  <2>1. /\ UNCHANGED <<plan, unsent, link, proc, workerRow, toWorker>>
        /\ link[c] = "closed" /\ chan' = ClearedChannel(c)
    BY <1>10 DEF HandlerClosed
  <2>2. \A w \in Workers : link[proc[w]] = "up" /\ chan[w] = proc[w] => chan'[w] = proc[w]
    BY <1>0, <2>1 DEF ClearedChannel, TypeOK
  <2> QED
    BY <1>0, <2>1, <2>2, DeliveryStep
<1>11. ASSUME NEW c \in Conns, BrokerAnswers(c) PROVE DeliveryInv'
  <2>1. WorkerTakes(c) /\ UNCHANGED <<plan, unsent, link, chan, proc, workerRow>>
        /\ ~IsRow(Head(toWorker[c]))
    BY <1>11 DEF BrokerAnswers, IsRow
  <2> QED
    BY <1>0, <2>1, ReadingStep
<1>12. ASSUME NEW c \in Conns, SourceAnswers(c) PROVE DeliveryInv'
  <2>1. WorkerTakes(c) /\ UNCHANGED <<plan, unsent, link, chan, proc, workerRow>>
        /\ ~IsRow(Head(toWorker[c]))
    BY <1>12 DEF SourceAnswers, IsRow
  <2> QED
    BY <1>0, <2>1, ReadingStep
<1>13. ASSUME NEW c \in Conns, SourceReroutes(c) \/ SourceAssigned(c) PROVE DeliveryInv'
  <2>1. /\ WorkerTakes(c) /\ UNCHANGED <<plan, unsent, link, chan, proc>>
        /\ IsRow(Head(toWorker[c]))
        /\ workerRow' = [workerRow EXCEPT ![Owner(c)] = Head(toWorker[c]).row]
    BY <1>13 DEF SourceReroutes, SourceAssigned, IsRow
  <2> QED
    BY <1>0, <2>1, ReadingStep
<1>14. ASSUME NEW c \in Conns, BrokerAssigned(c) PROVE DeliveryInv'
  <2>1. WorkerTakes(c) /\ UNCHANGED <<plan, unsent, link, chan, proc, workerRow>>
        /\ Owner(c) \in Brokers
    BY <1>14 DEF BrokerAssigned
  <2> QED
    BY <1>0, <2>1, ReadingStep
<1>15. ASSUME NEW c \in Conns, Ends(c) PROVE DeliveryInv'
  <2>1. /\ UNCHANGED <<plan, unsent, chan, proc, workerRow>>
        /\ link' = [link EXCEPT ![c] = "cut"] /\ toWorker' = [toWorker EXCEPT ![c] = << >>]
    BY <1>15 DEF Ends
  <2>2. \A d \in Conns : link'[d] = "up" => link[d] = "up" /\ toWorker'[d] = toWorker[d]
    BY <1>0, <2>1 DEF TypeOK
  <2>3. \A i \in Sources : proc[i] \in Conns
    BY <1>0 DEF TypeOK, Workers
  <2> QED
    BY <1>0, <2>1, <2>2, <2>3, DeliveryStep
<1>16. ASSUME NEW c \in Conns, Restart(c) PROVE DeliveryInv'
  <2> DEFINE w == Owner(c)
  <2>1. /\ UNCHANGED <<plan, unsent, workerRow>>
        /\ link' = [link EXCEPT ![c] = "up"] /\ chan' = [chan EXCEPT ![w] = c]
        /\ proc' = [proc EXCEPT ![w] = c]
        /\ toWorker' = [toWorker EXCEPT ![c] = <<Assignment(w)>>]
    BY <1>16 DEF Restart
  <2>2. /\ w \in Workers
        /\ \A v \in Workers : proc[v] \in Conns /\ Owner(proc[v]) = v
    BY <1>0, ConnsTyped DEF TypeOK
  <2>3. LiveWorkersReachable'
    <3> HIDE DEF w
    <3>1. ASSUME NEW v \in Workers, link'[proc'[v]] = "up" PROVE chan'[v] = proc'[v]
      <4>1. CASE v = w
        BY <1>0, <2>1, <2>2, <4>1 DEF TypeOK
      <4>2. CASE v # w
        <5>1. proc'[v] = proc[v] /\ chan'[v] = chan[v] /\ proc[v] # c
          BY <1>0, <2>1, <2>2, <4>2 DEF TypeOK, w
        <5> QED
          BY <1>0, <2>1, <2>2, <3>1, <5>1 DEF TypeOK, DeliveryInv, LiveWorkersReachable
      <4> QED
        BY <4>1, <4>2
    <3> QED
      BY <3>1 DEF LiveWorkersReachable
  <2>4. ASSUME NEW i \in Sources \ unsent', link'[proc'[i]] = "up"
        PROVE  EndsUpWith(toWorker'[proc'[i]], workerRow'[i], plan'[i])
    <3>1. CASE i = w
      <4>1. proc'[i] = c /\ toWorker'[c] = <<Assignment(w)>>
        BY <1>0, <2>1, <2>2, <3>1 DEF TypeOK
      <4>2. Assignment(w) = [type |-> "assignment", row |-> plan[i]]
        BY <3>1, ActorsDistinct DEF Assignment
      <4>3. IsRow(Assignment(w)) /\ Assignment(w).row = plan[i]
        BY <4>2 DEF IsRow
      <4>4. << >> \in Seq(ToSource) /\ <<Assignment(w)>> = Append(<< >>, Assignment(w))
        OBVIOUS
      <4> HIDE DEF w
      <4>5. EndsUpWith(<<Assignment(w)>>, workerRow[i], plan[i])
        BY <4>3, <4>4, RowMessage
      <4> QED
        BY <2>1, <4>1, <4>5
    <3>2. CASE i # w
      <4>1. proc'[i] = proc[i] /\ proc[i] # c
        BY <1>0, <2>1, <2>2, <3>2 DEF TypeOK, Workers
      <4>2. link[proc[i]] = "up" /\ toWorker'[proc[i]] = toWorker[proc[i]]
        BY <1>0, <2>1, <2>2, <2>4, <4>1 DEF TypeOK, Workers
      <4> QED
        BY <2>1, <2>4, <4>1, <4>2 DEF DeliveryInv, SourcesFollowPlan
    <3> QED
      BY <3>1, <3>2
  <2> QED
    BY <1>0, <2>3, <2>4 DEF DeliveryInv, SourcesFollowPlan
<1>17. CASE UNCHANGED vars
  BY <1>0, <1>17, DeliveryStep DEF vars, DeliveryInv
<1> QED
  BY <1>1, <1>2, <1>3, <1>4, <1>5, <1>6, <1>7, <1>8, <1>9, <1>10, <1>11, <1>12, <1>13, <1>14,
     <1>15, <1>16, <1>17
  DEF Next, Controller, Reading, Worker, WorkerStops, WorkerSeesEof, WorkerCrashes

\* Everyone starts with the initial plan, over the connection it registered with.
LEMMA DeliveryInit == Init => DeliveryInv
<1> SUFFICES ASSUME Init PROVE DeliveryInv
  OBVIOUS
<1>1. \A w \in Workers : proc[w] = FirstConn(w) /\ FirstConn(w) \in Conns /\ chan[w] = proc[w]
  BY ConnsTyped DEF Init
<1>2. LiveWorkersReachable
  BY <1>1 DEF LiveWorkersReachable
<1>3. \A i \in Sources : toWorker[proc[i]] = << >> /\ workerRow[i] = plan[i]
  BY <1>1 DEF Init, Workers
<1>4. SourcesFollowPlan
  BY <1>3 DEF SourcesFollowPlan, EndsUpWith
<1> QED
  BY <1>2, <1>4, InitTyped DEF DeliveryInv

\* The clean-up of an old connection (_on_actor after closed.wait) never unregisters
\* the process that has replaced it, however late it comes.
THEOREM Reachability == Spec => []LiveWorkersReachable
<1>1. DeliveryInv => LiveWorkersReachable
  BY DEF DeliveryInv
<1> QED
  BY <1>1, DeliveryInit, DeliveryNext, PTL DEF Spec

\* No round and no restart, not even one between the step and the routing loop of
\* _round, leaves a live source with a row other than the plan's.
THEOREM Delivery == Spec => []SourcesFollowPlan
<1>1. DeliveryInv => SourcesFollowPlan
  BY DEF DeliveryInv
<1> QED
  BY <1>1, DeliveryInit, DeliveryNext, PTL DEF Spec
-----------------------------------------------------------------------------
(***************************************************************************)
(* Why the telemetry is enough to recompute the run.                       *)
(*                                                                         *)
(* Replay is the value of a recursive function over a log, CHOOSEn to      *)
(* satisfy its recursion: ReplaysExist and ReplaysSame show that one does, *)
(* ReplayAppend what a further record adds.  Between the step and its      *)
(* record the telemetry lacks the record of the step (ReplayInv).          *)
(***************************************************************************)

Start == [plan |-> InitialPlan, prices |-> InitialPrices]

\* the recursion Replay(log) is defined by
Replays(g, log) ==
  g = [n \in 0 .. Len(log) |-> IF n = 0 THEN Start ELSE Replayed(g[n - 1], log[n])]

\* What the recursion says of one position.
LEMMA ReplaysAt ==
  ASSUME NEW log, Len(log) \in Nat, NEW g, Replays(g, log)
  PROVE  g[0] = Start /\ \A n \in 1 .. Len(log) : g[n] = Replayed(g[n - 1], log[n])
<1>1. \A n \in 1 .. Len(log) : n \in 0 .. Len(log) /\ n # 0 OBVIOUS
<1>2. 0 \in 0 .. Len(log) OBVIOUS
<1> QED BY <1>1, <1>2 DEF Replays

\* The recursion has one solution.
LEMMA ReplaysSame ==
  ASSUME NEW log, Len(log) \in Nat, NEW g, NEW h, Replays(g, log), Replays(h, log)
  PROVE  g = h
<1> DEFINE N == {n \in Nat : n <= Len(log) => g[n] = h[n]}
<1>1. 0 \in N BY ReplaysAt
<1>2. ASSUME NEW n \in N PROVE n + 1 \in N
  <2>1. SUFFICES ASSUME n + 1 <= Len(log) PROVE g[n + 1] = h[n + 1] OBVIOUS
  <2>2. g[n] = h[n] /\ n + 1 \in 1 .. Len(log) /\ (n + 1) - 1 = n BY <2>1
  <2> HIDE DEF N
  <2>3. g[n + 1] = Replayed(g[n], log[n + 1]) BY <2>2, ReplaysAt
  <2>4. h[n + 1] = Replayed(h[n], log[n + 1]) BY <2>2, ReplaysAt
  <2> QED BY <2>2, <2>3, <2>4
<1> HIDE DEF N
<1>3. N \in SUBSET Nat BY DEF N
<1>4. N = Nat BY <1>1, <1>2, <1>3, Induction
<1>5. \A n \in 0 .. Len(log) : g[n] = h[n] BY <1>4 DEF N
<1>6. g = [n \in 0 .. Len(log) |-> g[n]] /\ h = [n \in 0 .. Len(log) |-> h[n]] BY DEF Replays
<1> QED BY <1>5, <1>6

\* A solution goes on over one more record.
LEMMA ReplaysExtended ==
  ASSUME NEW S, NEW log \in Seq(S), NEW r \in S, NEW g, Replays(g, log)
  PROVE  \E h : Replays(h, Append(log, r)) /\ h[Len(log) + 1] = Replayed(g[Len(log)], r)
<1> DEFINE t == Append(log, r)
           last == Replayed(g[Len(log)], r)
           h == [n \in 0 .. Len(log) + 1 |-> IF n = Len(log) + 1 THEN last ELSE g[n]]
<1>1. Len(log) \in Nat /\ Len(t) = Len(log) + 1 /\ t[Len(log) + 1] = r BY AppendProperties
<1>2. \A n \in 1 .. Len(log) : t[n] = log[n] BY AppendProperties
<1> HIDE DEF t, last
<1>3. \A n \in 0 .. Len(log) : h[n] = g[n] BY <1>1
<1>4. h[Len(log) + 1] = last BY <1>1
<1>5. h = [n \in 0 .. Len(log) + 1 |-> h[n]] OBVIOUS
<1> HIDE DEF h
<1>6. h[0] = Start BY <1>1, <1>3, ReplaysAt
<1>7. ASSUME NEW n \in 1 .. Len(log) + 1 PROVE h[n] = Replayed(h[n - 1], t[n])
  <2>1. n - 1 \in 0 .. Len(log) BY <1>1
  <2>2. h[n - 1] = g[n - 1] BY <1>3, <2>1
  <2>3. CASE n = Len(log) + 1
    <3>1. n - 1 = Len(log) BY <1>1, <2>3
    <3> QED BY <1>1, <1>4, <2>2, <2>3, <3>1 DEF last
  <2>4. CASE n # Len(log) + 1
    <3>1. n \in 1 .. Len(log) /\ n \in 0 .. Len(log) BY <1>1, <2>4
    <3>2. g[n] = Replayed(g[n - 1], log[n]) BY <1>1, <3>1, ReplaysAt
    <3> QED BY <1>2, <1>3, <2>2, <3>1, <3>2
  <2> QED BY <2>3, <2>4
<1>8. Replays(h, t)
  <2>1. ASSUME NEW n \in 0 .. Len(log) + 1
        PROVE  h[n] = IF n = 0 THEN Start ELSE Replayed(h[n - 1], t[n])
    <3>1. n = 0 \/ n \in 1 .. Len(log) + 1 BY <1>1
    <3> QED BY <1>6, <1>7, <3>1
  <2> QED BY <1>1, <1>5, <2>1 DEF Replays
<1> QED BY <1>4, <1>8 DEF t, last

\* Every log has one.
LEMMA ReplaysExist ==
  ASSUME NEW S
  PROVE  \A log \in Seq(S) : \E g : Replays(g, log)
<1> DEFINE C == {log \in Seq(S) : \E g : Replays(g, log)}
<1>1. << >> \in C
  <2>1. Len(<< >>) = 0 /\ << >> \in Seq(S) BY EmptySeq
  <2>2. Replays([n \in 0 .. 0 |-> Start], << >>) BY <2>1 DEF Replays
  <2> QED BY <2>1, <2>2
<1>2. ASSUME NEW log \in Seq(S), NEW r \in S, log \in C PROVE Append(log, r) \in C
  <2>1. PICK g : Replays(g, log) BY <1>2
  <2>2. \E h : Replays(h, Append(log, r)) BY <2>1, ReplaysExtended
  <2> QED BY <2>2, AppendProperties
<1> HIDE DEF C
<1>3. \A log \in Seq(S) : log \in C BY <1>1, <1>2, SequenceInduction
<1> QED BY <1>3 DEF C

\* Replay is its value at the end.
LEMMA ReplayIs ==
  ASSUME NEW S, NEW log \in Seq(S), NEW g, Replays(g, log)
  PROVE  Replay(log) = g[Len(log)]
<1>1. Len(log) \in Nat BY LenProperties
<1>2. \A h : Replays(h, log) => h = g BY <1>1, ReplaysSame
<1> QED BY <1>2 DEF Replay, Replays, Start

\* An empty log leads to the initial state.
LEMMA ReplayNone == Replay(<< >>) = Start
<1>1. << >> \in Seq({}) /\ Len(<< >>) = 0 BY EmptySeq
<1>2. PICK g : Replays(g, << >>) BY <1>1, ReplaysExist
<1>3. Replay(<< >>) = g[0] BY <1>1, <1>2, ReplayIs
<1>4. g[0] = Start BY <1>1, <1>2, ReplaysAt
<1> QED BY <1>3, <1>4

\* One more record is one more iteration.
LEMMA ReplayAppend ==
  ASSUME NEW S, NEW log \in Seq(S), NEW r \in S
  PROVE  Replay(Append(log, r)) = Replayed(Replay(log), r)
<1>1. PICK g : Replays(g, log) BY ReplaysExist
<1>2. PICK h : Replays(h, Append(log, r)) /\ h[Len(log) + 1] = Replayed(g[Len(log)], r)
  BY <1>1, ReplaysExtended
<1>3. Replay(log) = g[Len(log)] BY <1>1, ReplayIs
<1>4. Append(log, r) \in Seq(S) /\ Len(Append(log, r)) = Len(log) + 1 BY AppendProperties
<1>5. Replay(Append(log, r)) = h[Len(log) + 1] BY <1>2, <1>4, ReplayIs
<1> QED BY <1>2, <1>3, <1>5

\* the record RecordRound is going to write
NextRecord == [iteration |-> iteration, held |-> held]

\* The telemetry is complete until the step, and after it but for one record.
ReplayInv ==
  /\ pc \in {"idle", "prices", "responses"} => Complete(telemetry)
  /\ pc = "routing" => Complete(Append(telemetry, NextRecord))

\* The step computes what the replay of its record does.
LEMMA StepIsReplayed ==
  ASSUME RoundInv, ReplayInv, ApplyStep
  PROVE  Complete(Append(telemetry, NextRecord))'
<1> DEFINE S == [iteration : Nat, held : SUBSET Sources]
           H == Failed(Sources)
           r == NextRecord'
<1>1. /\ pc = "responses" /\ Gathered(Sources) /\ held' = H
      /\ plan' = CommonStep(plan, LambdaBR(H)) /\ prices' = newPrices
      /\ iteration' = iteration + 1 /\ telemetry' = telemetry
  BY DEF ApplyStep
<1>2. telemetry \in Seq(S) /\ iteration \in Nat BY DEF RoundInv, TypeOK
<1>3. H \in SUBSET Sources BY DEF Failed
<1>4. Complete(telemetry) BY <1>1 DEF ReplayInv
<1>5. r = [iteration |-> iteration + 1, held |-> H] BY <1>1 DEF NextRecord
<1>6. r \in S BY <1>2, <1>3, <1>5
<1>7. newPrices = [j \in Brokers |-> BrokerPrice(j, prices[j], BrokerLoad(plan, j))]
  BY <1>1 DEF RoundInv, NewPricesRight
<1>8. \A i \in Sources \ H : gotRow[i] = BestResponse(i, newPrices)
  BY <1>1 DEF RoundInv, FreshReplies, EveryoneAsked, Gathered, Failed, TypeOK, Outcomes, Workers
<1>9. LambdaBR(H) = [i \in Sources |-> IF i \in H THEN plan[i] ELSE BestResponse(i, newPrices)]
  <2> HIDE DEF H
  <2> QED BY <1>8 DEF LambdaBR
<1> DEFINE s == [plan |-> plan, prices |-> prices]
<1>10. Replayed(s, r) = [plan |-> plan', prices |-> prices']
  <2> HIDE DEF H, r
  <2>1. r.held = H /\ s.plan = plan /\ s.prices = prices BY <1>5
  <2> HIDE DEF s
  <2> QED BY <1>1, <1>7, <1>9, <2>1 DEF Replayed
<1> HIDE DEF S, r, H
<1>11. Replay(Append(telemetry, r)) = [plan |-> plan', prices |-> prices']
  BY <1>2, <1>4, <1>6, <1>10, ReplayAppend DEF Complete
<1>12. /\ Len(Append(telemetry, r)) = Len(telemetry) + 1
       /\ Append(telemetry, r)[Len(telemetry) + 1] = r
       /\ \A n \in 1 .. Len(telemetry) : Append(telemetry, r)[n] = telemetry[n]
       /\ Len(telemetry) \in Nat
  BY <1>2, <1>6, AppendProperties
<1>13. Len(telemetry) = iteration /\ \A n \in 1 .. Len(telemetry) : telemetry[n].iteration = n
  BY <1>4 DEF Complete
<1>14. \A n \in 1 .. Len(Append(telemetry, r)) : Append(telemetry, r)[n].iteration = n
  BY <1>5, <1>12, <1>13
<1> QED BY <1>1, <1>11, <1>12, <1>13, <1>14 DEF Complete, r

\* Steps: the step, its record, and those that leave both plan and telemetry alone.
LEMMA ReplayStep == RoundInv /\ ReplayInv /\ [Next]_vars => ReplayInv'
<1> SUFFICES ASSUME RoundInv, ReplayInv, [Next]_vars PROVE ReplayInv' OBVIOUS
<1>1. CASE ApplyStep
  <2>1. pc' = "routing" BY <1>1 DEF ApplyStep
  <2> QED BY <1>1, <2>1, StepIsReplayed DEF ReplayInv
<1>2. CASE RecordRound
  <2>1. /\ pc = "routing" /\ pc' \in {"idle", "shutdown"} /\ UNCHANGED state
        /\ telemetry' = Append(telemetry, NextRecord)
    BY <1>2 DEF RecordRound, EndOfPass, NextRecord
  <2>2. Complete(Append(telemetry, NextRecord)) BY <2>1 DEF ReplayInv
  <2>3. Complete(telemetry)' BY <2>1, <2>2 DEF Complete, state
  <2> QED BY <2>1, <2>3 DEF ReplayInv
<1>3. CASE ~ApplyStep /\ ~RecordRound
  <2>1. CASE Controller \/ RequestStop
    <3>1. UNCHANGED <<state, telemetry>>
      BY <1>3, <2>1 DEF Controller, roundVars, AskBrokers, SkipRound, AskSources, SendRouting,
        Drained, RoutingRaises, ShutDown, SendStop, Exit, RequestStop
    <3>2. \/ UNCHANGED <<pc, held>>
          \/ pc \in {"idle", "prices", "responses"} /\ pc' # "routing"
          \/ pc' \in {"shutdown", "stopping", "stopped"}
      BY <1>3, <2>1 DEF Controller, roundVars, AskBrokers, SkipRound, AskSources, SendRouting,
        Drained, RoutingRaises, ShutDown, SendStop, Exit, RequestStop, EndOfPass
    <3> QED BY <3>1, <3>2 DEF ReplayInv, Complete, NextRecord, state
  <2>2. CASE ~(Controller \/ RequestStop)
    <3>1. UNCHANGED <<state, roundVars, pc>>
      BY <2>2 DEF Next, vars, Reading, Worker, ReceiveReply, ReceiveLateReply,
        ReceiveReady, StartSent, ReadClosed, HandlerClosed, RequestTimeout, BrokerAnswers, SourceAnswers,
        SourceReroutes, BrokerAssigned, SourceAssigned, WorkerStops, WorkerSeesEof, WorkerCrashes,
        Ends, Restart
    <3> QED BY <3>1 DEF ReplayInv, Complete, NextRecord, state, roundVars
  <2> QED BY <2>1, <2>2
<1> QED BY <1>1, <1>2, <1>3

\* The records of the applied rounds, with the sources they say were held, are enough
\* to recompute the controller's plan and prices, whatever was skipped in between.
THEOREM Replayable == Spec => []TelemetryReplays
<1>1. Init => RoundInv /\ ReplayInv
  <2>1. Init => Complete(telemetry)
    <3>1. Len(<< >>) = 0 BY EmptySeq
    <3> QED BY <3>1, ReplayNone DEF Init, Complete, Start
  <2> QED BY <2>1, InitRoundInv DEF Init, ReplayInv
<1>2. ReplayInv => TelemetryReplays BY DEF ReplayInv, TelemetryReplays
<1> QED BY <1>1, <1>2, RoundInvStep, ReplayStep, PTL DEF Spec
=============================================================================
