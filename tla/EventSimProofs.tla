---------------------------- MODULE EventSimProofs ---------------------------
(***************************************************************************)
(* Why the event loop and its handlers make up the tandem queues, and its  *)
(* telemetry the windows of the notebook, for any numbers of sources,      *)
(* brokers, units and windows.                                             *)
(*                                                                         *)
(* Nothing in a handler says that a server has one unit at a time: it      *)
(* starts the unit of the event it is given.  That holds of the heap: an   *)
(* idle server has at most the start of one unit on it, and the handlers   *)
(* that could add a second, the arrivals, never run between that start     *)
(* being scheduled and handled (NoneBetween).  Each handler is then one    *)
(* step of a tandem queue, or none, and each tick one window (WindowInv).  *)
(***************************************************************************)
EXTENDS EventSim, Lemmas

-----------------------------------------------------------------------------
(***************************************************************************)
(* The inductive invariant.                                                *)
(***************************************************************************)

\* the events of the heap
Scheduled == due \cup later

ServerEvents == {"BROKER_SERVICE_START", "BROKER_SERVICE_COMPLETE"}

\* what is known of the place of an event
Known(e) ==
  \/ \E i \in Sources : e = Arrival(i)
  \/ e = Tick
  \/ \E t \in LinkEvents, l \in Links, u \in Nat : e = OnLink(t, l, u)
  \/ \E t \in BrokerEvents, j \in Brokers, u \in Nat : e = AtBroker(t, j, u)

Untimed == {"ACCESS_SERVICE_START", "BROKER_ARRIVAL", "BROKER_SERVICE_START"}

HeapTyped ==
  /\ \A e \in Scheduled : Known(e)
  /\ due \cap later = {}
  /\ \A e \in later : e.type \notin Untimed

QueuesTyped ==
  /\ requests \in Seq(Sources)
  /\ linkQueue \in [Links -> Seq(Nat)] /\ linkBusy \in [Links -> BOOLEAN]
  /\ brokerQueue \in [Brokers -> Seq(Nat)] /\ brokerBusy \in [Brokers -> BOOLEAN]
  /\ completed \in Seq(Nat)
  /\ \A i \in Sources : routes[i] \subseteq Brokers

AtLink(e, l) == e.type \in LinkEvents /\ e.link = l
AtServer(e, j) == e.type \in ServerEvents /\ e.broker = j

\* a server has one event
OneEach ==
  /\ \A l \in Links : \A e, f \in Scheduled : AtLink(e, l) /\ AtLink(f, l) => e = f
  /\ \A j \in Brokers : \A e, f \in Scheduled : AtServer(e, j) /\ AtServer(f, j) => e = f

\* an idle server has nothing waiting, and its event is a start
IdleIsEmpty ==
  /\ \A l \in Links : ~linkBusy[l] =>
       linkQueue[l] = << >> /\ \A e \in Scheduled : AtLink(e, l) => e.type = "ACCESS_SERVICE_START"
  /\ \A j \in Brokers : ~brokerBusy[j] =>
       brokerQueue[j] = << >> /\ \A e \in Scheduled : AtServer(e, j) => e.type = "BROKER_SERVICE_START"

\* no arrival between a start and its event
NoneBetween ==
  /\ \A e \in due : e.type \in {"ACCESS_SERVICE_COMPLETE", "BROKER_SERVICE_COMPLETE", "CONTROLLER_TICK"} =>
       due = {e}
  /\ \A e, f \in due : e.type \in BrokerEvents /\ f.type \in BrokerEvents => e = f
  /\ \A i \in Sources : Arrival(i) \in due =>
       \A e \in due : e.type \in LinkEvents => e.link[1] # i

\* a unit between its source and its broker has the source that requests says
OfItsSource ==
  /\ \A l \in Links : \A k \in DOMAIN linkQueue[l] :
       linkQueue[l][k] \in DOMAIN requests /\ requests[linkQueue[l][k]] = l[1]
  /\ \A e \in Scheduled : e.type \in LinkEvents =>
       e.unit \in DOMAIN requests /\ requests[e.unit] = e.link[1]
  /\ \A e \in due : e.type = "BROKER_ARRIVAL" => e.unit \in DOMAIN requests

SimInv ==
  HeapTyped /\ QueuesTyped /\ OneEach /\ IdleIsEmpty /\ NoneBetween /\ OfItsSource

-----------------------------------------------------------------------------
(***************************************************************************)
(* Events and sequences.                                                   *)
(***************************************************************************)

\* What the fields of an event say of it.
LEMMA EventKinds ==
  /\ \A i : Arrival(i).type = "SOURCE_ARRIVAL" /\ Arrival(i).source = i
  /\ Tick.type = "CONTROLLER_TICK"
  /\ \A t, l, u : OnLink(t, l, u).type = t /\ OnLink(t, l, u).link = l /\ OnLink(t, l, u).unit = u
  /\ \A t, j, u : AtBroker(t, j, u).type = t /\ AtBroker(t, j, u).broker = j /\ AtBroker(t, j, u).unit = u
BY DEF Arrival, Tick, OnLink, AtBroker

\* An event is known by its type, its place and its unit.
LEMMA EventIs ==
  ASSUME NEW e, Known(e)
  PROVE  /\ e.type \in LinkEvents =>
              e = OnLink(e.type, e.link, e.unit) /\ e.link \in Links /\ e.unit \in Nat
         /\ e.type \in BrokerEvents =>
              e = AtBroker(e.type, e.broker, e.unit) /\ e.broker \in Brokers /\ e.unit \in Nat
         /\ e.type = "SOURCE_ARRIVAL" => \E i \in Sources : e = Arrival(i)
         /\ e.type = "CONTROLLER_TICK" => e = Tick
         /\ e.type \in LinkEvents \cup BrokerEvents \cup {"SOURCE_ARRIVAL", "CONTROLLER_TICK"}
<1>1. CASE \E i \in Sources : e = Arrival(i)
  BY <1>1, EventKinds DEF LinkEvents, BrokerEvents
<1>2. CASE e = Tick
  BY <1>2, EventKinds DEF LinkEvents, BrokerEvents
<1>3. CASE \E t \in LinkEvents, l \in Links, u \in Nat : e = OnLink(t, l, u)
  BY <1>3, EventKinds DEF LinkEvents, BrokerEvents
<1>4. CASE \E t \in BrokerEvents, j \in Brokers, u \in Nat : e = AtBroker(t, j, u)
  BY <1>4, EventKinds DEF LinkEvents, BrokerEvents
<1> QED BY <1>1, <1>2, <1>3, <1>4 DEF Known

\* The sequence of no unit and of one.
LEMMA SetToSeqOf ==
  /\ SetToSeq({}) = << >>
  /\ \A u : SetToSeq({u}) = <<u>>
<1>1. SetToSeq({}) = << >>
  <2> DEFINE F == {f \in [1 .. Cardinality({}) -> {}] : IsInjective(f)}
  <2>1. Cardinality({}) = 0 BY FS_EmptySet
  <2>2. << >> \in [1 .. 0 -> {}] /\ \A f \in [1 .. 0 -> {}] : f = << >> OBVIOUS
  <2>3. IsInjective(<< >>) BY DEF IsInjective
  <2> QED BY <2>1, <2>2, <2>3 DEF SetToSeq
<1>2. ASSUME NEW u PROVE SetToSeq({u}) = <<u>>
  <2>1. Cardinality({u}) = 1 BY FS_Singleton
  <2>2. <<u>> \in [1 .. 1 -> {u}] /\ \A f \in [1 .. 1 -> {u}] : f = <<u>> OBVIOUS
  <2>3. IsInjective(<<u>>) BY DEF IsInjective
  <2> QED BY <2>1, <2>2, <2>3 DEF SetToSeq
<1> QED BY <1>1, <1>2

\* The units of the heap, by the events they belong to, before and after a step.
LEMMA UnitsOf ==
  /\ \A l, u : u \in Serving(l) <=> \E f \in Scheduled : AtLink(f, l) /\ f.unit = u
  /\ \A l, u : u \in Serving(l)' <=> \E f \in Scheduled' : AtLink(f, l) /\ f.unit = u
  /\ \A j, u : u \in ServingAt(j) <=> \E f \in Scheduled : AtServer(f, j) /\ f.unit = u
  /\ \A j, u : u \in ServingAt(j)' <=> \E f \in Scheduled' : AtServer(f, j) /\ f.unit = u
  /\ \A j, u : u \in InTransfer(j) <=> \E f \in due : f.type = "BROKER_ARRIVAL" /\ f.broker = j /\ f.unit = u
  /\ \A j, u : u \in InTransfer(j)'
          <=> \E f \in due' : f.type = "BROKER_ARRIVAL" /\ f.broker = j /\ f.unit = u
<1>1. BrokerEvents \ {"BROKER_ARRIVAL"} = ServerEvents BY DEF BrokerEvents, ServerEvents
<1> QED BY <1>1 DEF Serving, ServingAt, InTransfer, Scheduled, AtLink, AtServer

-----------------------------------------------------------------------------
(***************************************************************************)
(* Each handler keeps the invariant.                                       *)
(***************************************************************************)

\* what a step keeps: the units in service, and those that are about to reach a broker
LinksKept == \A l \in Links : Serving(l)' = Serving(l)
BrokersKept == \A j \in Brokers : ServingAt(j)' = ServingAt(j)
TransfersKept == \A j \in Brokers : InTransfer(j)' = InTransfer(j)

\* What handling an event makes of the heap.
LEMMA HandledHeap ==
  ASSUME HeapTyped, NEW e, NEW now, NEW after, Handles(e, now, after),
         \A f \in now : Known(f) /\ f.type \in Untimed,
         \A f \in after : Known(f) /\ f.type \notin Untimed /\ f \notin due \ {e}
  PROVE  /\ HeapTyped'
         /\ Scheduled' = (Scheduled \ {e}) \cup now \cup after
         /\ due' = (due \ {e}) \cup now
         /\ e \in due
<1>1. e \in due /\ due' = (due \ {e}) \cup now /\ later' = later \cup after BY DEF Handles
<1>2. e \notin later BY <1>1 DEF HeapTyped
<1>3. Scheduled' = (Scheduled \ {e}) \cup now \cup after BY <1>1, <1>2 DEF Scheduled
<1>4. due' \cap later' = {} BY <1>1 DEF HeapTyped
<1>5. \A f \in later' : f.type \notin Untimed BY <1>1 DEF HeapTyped
<1>6. \A f \in Scheduled' : Known(f) BY <1>3 DEF HeapTyped
<1>7. (\A f \in Scheduled : Known(f))' BY <1>6 DEF Known, Arrival, Tick, OnLink, AtBroker, Links
<1> QED BY <1>1, <1>3, <1>4, <1>5, <1>7 DEF HeapTyped

\* A source generates a unit for a link: it starts or waits, with no other start of
\* the link on the heap.
Arrives(i, l, u, start, now) ==
  /\ l \in Links /\ l[1] = i /\ u = Len(requests) + 1
  /\ start = OnLink("ACCESS_SERVICE_START", l, u) /\ Known(start)
  /\ now = (IF linkBusy[l] THEN {} ELSE {start})
  /\ Arrival(i) \in due /\ due' = (due \ {Arrival(i)}) \cup now
  /\ HeapTyped' /\ Scheduled' = Scheduled \cup now
  /\ requests' = Append(requests, i)
  /\ linkQueue' = [linkQueue EXCEPT ![l] = Waits(linkBusy[l], @, u)]
  /\ l[2] \in Drawn(i) /\ windowAccess' = [windowAccess EXCEPT ![l] = @ + 1]
  /\ UNCHANGED <<linkBusy, brokerQueue, brokerBusy, completed, mode, routes, windowArrivals,
                 windowLatencies, records>>
  /\ ~linkBusy[l] => \A f \in Scheduled : ~AtLink(f, l)

\* An arrival finds an idle link without an event: its event would be a start, that is
\* due, and no arrival of its source is due beside one (NoneBetween).
LEMMA ArrivalHeap ==
  ASSUME SimInv, NEW i \in Sources, SourceArrival(i)
  PROVE  \E l, u, start, now : Arrives(i, l, u, start, now)
<1> USE DEF SimInv
<1>1. PICK j \in Brokers :
        LET l == <<i, j>>
            u == Len(requests) + 1
        IN  /\ Handles(Arrival(i),
                       IF linkBusy[l] THEN {} ELSE {OnLink("ACCESS_SERVICE_START", l, u)},
                       {Arrival(i)})
            /\ requests' = Append(requests, i)
            /\ linkQueue' = [linkQueue EXCEPT ![l] = Waits(linkBusy[l], @, u)]
            /\ j \in Drawn(i) /\ windowAccess' = [windowAccess EXCEPT ![l] = @ + 1]
            /\ UNCHANGED <<linkBusy, brokerQueue, brokerBusy, completed, plan, windowArrivals,
                           windowLatencies, records>>
  BY DEF SourceArrival, Drawn, QueuesTyped
<1> DEFINE l == <<i, j>>
           u == Len(requests) + 1
           start == OnLink("ACCESS_SERVICE_START", l, u)
           now == IF linkBusy[l] THEN {} ELSE {start}
<1>2. l \in Links /\ l[1] = i /\ l[2] \in Drawn(i) /\ u \in Nat BY <1>1 DEF Links, QueuesTyped
<1>3. /\ Handles(Arrival(i), now, {Arrival(i)})
      /\ requests' = Append(requests, i)
      /\ linkQueue' = [linkQueue EXCEPT ![l] = Waits(linkBusy[l], @, u)]
      /\ windowAccess' = [windowAccess EXCEPT ![l] = @ + 1]
      /\ UNCHANGED <<linkBusy, brokerQueue, brokerBusy, completed, mode, routes, windowArrivals,
                     windowLatencies, records>>
  BY <1>1 DEF plan
<1>4. start.type = "ACCESS_SERVICE_START" /\ Known(start)
  BY <1>2, EventKinds DEF Known, LinkEvents
<1>5. Arrival(i).type = "SOURCE_ARRIVAL" /\ Known(Arrival(i)) BY EventKinds DEF Known
<1>6. /\ HeapTyped' /\ Scheduled' = (Scheduled \ {Arrival(i)}) \cup now \cup {Arrival(i)}
      /\ due' = (due \ {Arrival(i)}) \cup now /\ Arrival(i) \in due
  <2>1. \A f \in now : Known(f) /\ f.type \in Untimed BY <1>4 DEF Untimed
  <2>2. \A f \in {Arrival(i)} : Known(f) /\ f.type \notin Untimed /\ f \notin due \ {Arrival(i)}
    BY <1>5 DEF Untimed
  <2> HIDE DEF now
  <2> QED BY <1>3, <2>1, <2>2, HandledHeap
<1>7. Scheduled' = Scheduled \cup now BY <1>6 DEF Scheduled
\* an idle link of the source has no event: one would be a start, and due
<1>8. ~linkBusy[l] => \A f \in Scheduled : ~AtLink(f, l)
  <2>1. SUFFICES ASSUME ~linkBusy[l], NEW f \in Scheduled, AtLink(f, l) PROVE FALSE OBVIOUS
  <2>2. f.type = "ACCESS_SERVICE_START" BY <1>2, <2>1 DEF IdleIsEmpty
  <2>3. f \in due BY <2>2 DEF HeapTyped, Untimed, Scheduled
  <2>4. f.link[1] # i BY <1>6, <2>1, <2>3 DEF NoneBetween, AtLink
  <2> QED BY <1>2, <2>1, <2>4 DEF AtLink
<1>9. Arrives(i, l, u, start, now)
  <2> HIDE DEF l, u
  <2> QED BY <1>2, <1>3, <1>4, <1>6, <1>7, <1>8 DEF Arrives, u
<1> QED BY <1>9

\* _handle_source_arrival keeps the invariant, and the units in service elsewhere.
LEMMA ArrivalKeeps ==
  ASSUME SimInv, NEW i \in Sources, SourceArrival(i)
  PROVE  SimInv' /\ BrokersKept /\ TransfersKept
<1> USE DEF SimInv
<1>1. PICK l, u, start, now : Arrives(i, l, u, start, now) BY ArrivalHeap
<1>2. /\ l \in Links /\ l[1] = i /\ u \in Nat /\ u \in DOMAIN requests' /\ requests'[u] = i
      /\ requests' \in Seq(Sources)
      /\ \A v \in DOMAIN requests : v \in DOMAIN requests' /\ requests'[v] = requests[v]
  BY <1>1 DEF Arrives, QueuesTyped
<1>3. /\ linkQueue' = [linkQueue EXCEPT ![l] = Waits(linkBusy[l], @, u)]
      /\ linkBusy' = linkBusy /\ brokerQueue' = brokerQueue /\ brokerBusy' = brokerBusy
      /\ completed' = completed /\ routes' = routes
  BY <1>1 DEF Arrives
<1>4. start.type = "ACCESS_SERVICE_START" /\ start.link = l /\ start.unit = u /\ Known(start)
  BY <1>1, EventKinds DEF Arrives
<1>5. Arrival(i).type = "SOURCE_ARRIVAL" BY EventKinds
<1>6. HeapTyped' /\ due' = (due \ {Arrival(i)}) \cup now /\ Arrival(i) \in due BY <1>1 DEF Arrives
<1>7. Scheduled' = Scheduled \cup now BY <1>1 DEF Arrives
<1>8. QueuesTyped'
  <2>1. Waits(linkBusy[l], linkQueue[l], u) \in Seq(Nat) BY <1>2 DEF Waits, QueuesTyped
  <2>2. linkQueue' \in [Links -> Seq(Nat)] BY <1>2, <1>3, <2>1 DEF QueuesTyped
  <2> QED BY <1>2, <1>3, <2>2 DEF QueuesTyped
<1>9. ~linkBusy[l] => \A f \in Scheduled : ~AtLink(f, l) BY <1>1 DEF Arrives
<1>10. \A f \in now : ~linkBusy[l] /\ f = start BY <1>1 DEF Arrives
<1>11. \A k \in Links : AtLink(start, k) => k = l BY <1>4 DEF AtLink
<1>12. \A k \in Brokers : ~AtServer(start, k) BY <1>4 DEF AtServer, ServerEvents
<1>13. OneEach'
  <2>1. \A k \in Links : \A e, f \in Scheduled' : AtLink(e, k) /\ AtLink(f, k) => e = f
    BY <1>7, <1>9, <1>10, <1>11 DEF OneEach
  <2>2. \A k \in Brokers : \A e, f \in Scheduled' : AtServer(e, k) /\ AtServer(f, k) => e = f
    BY <1>7, <1>10, <1>12 DEF OneEach
  <2> QED BY <2>1, <2>2 DEF OneEach, AtLink, AtServer
<1>14. IdleIsEmpty'
  <2>1. ASSUME NEW k \in Links, ~linkBusy[k]
        PROVE  linkQueue'[k] = << >> /\ \A e \in Scheduled' : AtLink(e, k) => e.type = "ACCESS_SERVICE_START"
    <3>1. linkQueue'[k] = linkQueue[k] BY <1>3, <2>1 DEF Waits, QueuesTyped
    <3>2. linkQueue[k] = << >> /\ \A e \in Scheduled : AtLink(e, k) => e.type = "ACCESS_SERVICE_START"
      BY <2>1 DEF IdleIsEmpty
    <3> QED BY <1>4, <1>7, <1>10, <3>1, <3>2
  <2>2. ASSUME NEW k \in Brokers, ~brokerBusy[k]
        PROVE  /\ brokerQueue[k] = << >>
               /\ \A e \in Scheduled' : AtServer(e, k) => e.type = "BROKER_SERVICE_START"
    BY <1>7, <1>10, <1>12, <2>2 DEF IdleIsEmpty
  <2> QED BY <1>3, <2>1, <2>2 DEF IdleIsEmpty, AtLink, AtServer
<1>15. NoneBetween'
  <2>1. \A e \in due : e.type \notin {"ACCESS_SERVICE_COMPLETE", "BROKER_SERVICE_COMPLETE", "CONTROLLER_TICK"}
    BY <1>5, <1>6 DEF NoneBetween
  <2>2. \A e \in due' : e \in due \/ e = start BY <1>6, <1>10
  <2>3. start.type \notin {"ACCESS_SERVICE_COMPLETE", "BROKER_SERVICE_COMPLETE", "CONTROLLER_TICK"}
        /\ start.type \notin BrokerEvents
    BY <1>4 DEF BrokerEvents
  <2>4. \A e, f \in due' : e.type \in BrokerEvents /\ f.type \in BrokerEvents => e = f
    BY <2>2, <2>3 DEF NoneBetween
  <2>5. ASSUME NEW k \in Sources, Arrival(k) \in due', NEW e \in due', e.type \in LinkEvents
        PROVE  e.link[1] # k
    <3>1. Arrival(k).type = "SOURCE_ARRIVAL" /\ Arrival(k).source = k /\ Arrival(i).source = i BY EventKinds
    <3>2. Arrival(k) # start BY <1>4, <3>1
    <3>3. Arrival(k) \in due /\ k # i BY <1>6, <1>10, <2>5, <3>1, <3>2
    <3>4. CASE e \in due BY <2>5, <3>3, <3>4 DEF NoneBetween
    <3>5. CASE e = start BY <1>2, <1>4, <3>3, <3>5
    <3> QED BY <2>2, <3>4, <3>5
  <2> QED BY <2>1, <2>2, <2>3, <2>4, <2>5 DEF NoneBetween, Arrival
<1>16. OfItsSource'
  <2>1. ASSUME NEW k \in Links, NEW n \in DOMAIN linkQueue'[k]
        PROVE  linkQueue'[k][n] \in DOMAIN requests' /\ requests'[linkQueue'[k][n]] = k[1]
    <3>1. linkQueue[k] \in Seq(Nat) BY DEF QueuesTyped
    <3>2. \A m \in DOMAIN linkQueue[k] :
            linkQueue[k][m] \in DOMAIN requests' /\ requests'[linkQueue[k][m]] = k[1]
      BY <1>2 DEF OfItsSource
    <3>3. linkQueue'[k] = linkQueue[k] \/ (k = l /\ linkQueue'[k] = Append(linkQueue[k], u))
      BY <1>2, <1>3 DEF Waits, QueuesTyped
    <3>4. CASE linkQueue'[k] = linkQueue[k] BY <2>1, <3>2, <3>4
    <3>5. CASE k = l /\ linkQueue'[k] = Append(linkQueue[k], u)
      <4>1. (n \in DOMAIN linkQueue[k] /\ linkQueue'[k][n] = linkQueue[k][n]) \/ linkQueue'[k][n] = u
        BY <1>2, <2>1, <3>1, <3>5
      <4> QED BY <1>2, <3>2, <3>5, <4>1
    <3> QED BY <3>3, <3>4, <3>5
  <2>2. \A e \in Scheduled' : e.type \in LinkEvents =>
          e.unit \in DOMAIN requests' /\ requests'[e.unit] = e.link[1]
    BY <1>2, <1>4, <1>7, <1>10 DEF OfItsSource
  <2>3. \A e \in due' : e.type = "BROKER_ARRIVAL" => e.unit \in DOMAIN requests'
    BY <1>2, <1>4, <1>6, <1>10 DEF OfItsSource
  <2> QED BY <2>1, <2>2, <2>3 DEF OfItsSource
<1>17. BrokersKept
  <2>1. \A k \in Brokers : \A v : v \in ServingAt(k)' <=> v \in ServingAt(k) BY <1>7, <1>10, <1>12, UnitsOf
  <2> QED BY <2>1 DEF BrokersKept
<1>18. TransfersKept
  <2>1. \A k \in Brokers : \A v : v \in InTransfer(k)' <=> v \in InTransfer(k)
    BY <1>4, <1>5, <1>6, <1>10, UnitsOf
  <2> QED BY <2>1 DEF TransfersKept
<1> QED BY <1>6, <1>8, <1>13, <1>14, <1>15, <1>16, <1>17, <1>18

\* The unit first in a queue, and what is left of it.
LEMMA FirstOf ==
  ASSUME NEW q \in Seq(Nat)
  PROVE  /\ q = << >> => First(q) = {} /\ ~StillBusy(q)
         /\ q # << >> => /\ First(q) = {Head(q)} /\ StillBusy(q) /\ Head(q) \in Nat /\ Head(q) = q[1]
                         /\ 1 \in DOMAIN q /\ Tail(q) \in Seq(Nat)
                         /\ \A k \in DOMAIN Tail(q) : k + 1 \in DOMAIN q /\ Tail(q)[k] = q[k + 1]
<1>1. CASE q = << >> BY <1>1 DEF First, StillBusy
<1>2. CASE q # << >>
  <2>1. 1 \in DOMAIN q /\ Head(q) = q[1] /\ q[1] \in Nat BY <1>2
  <2>2. First(q) = {q[1]} BY <2>1 DEF First
  <2>3. /\ Tail(q) \in Seq(Nat)
        /\ \A k \in DOMAIN Tail(q) : k + 1 \in DOMAIN q /\ Tail(q)[k] = q[k + 1]
    BY <1>2
  <2> QED BY <1>2, <2>1, <2>2, <2>3 DEF StillBusy
<1> QED BY <1>1, <1>2

\* _handle_access_start keeps the invariant: the unit of the start is that of its
\* completion.
LEMMA AccessStartKeeps ==
  ASSUME SimInv, NEW l, NEW u, AccessStart(l, u)
  PROVE  SimInv' /\ LinksKept /\ BrokersKept /\ TransfersKept
<1> USE DEF SimInv
<1> DEFINE e == OnLink("ACCESS_SERVICE_START", l, u)
           c == OnLink("ACCESS_SERVICE_COMPLETE", l, u)
<1>1. /\ Handles(e, {}, {c}) /\ linkBusy' = [linkBusy EXCEPT ![l] = TRUE]
      /\ UNCHANGED <<requests, linkQueue, brokerQueue, brokerBusy, completed, routes>>
  BY DEF AccessStart, plan
<1>2. /\ e.type = "ACCESS_SERVICE_START" /\ e.link = l /\ e.unit = u
      /\ c.type = "ACCESS_SERVICE_COMPLETE" /\ c.link = l /\ c.unit = u
  BY EventKinds
<1>3. e \in due BY <1>1 DEF Handles
<1>4. Known(e) /\ e \in Scheduled BY <1>3 DEF HeapTyped, Scheduled
<1> HIDE DEF e
<1>5. l \in Links /\ u \in Nat BY <1>2, <1>4, EventIs DEF LinkEvents
<1>6. Known(c) BY <1>5 DEF Known, LinkEvents
<1> HIDE DEF c
<1>7. c \notin Scheduled
  <2>1. AtLink(e, l) /\ AtLink(c, l) /\ e # c BY <1>2 DEF AtLink, LinkEvents
  <2> QED BY <1>4, <1>5, <2>1 DEF OneEach
<1>8. /\ HeapTyped' /\ Scheduled' = (Scheduled \ {e}) \cup {c} /\ due' = due \ {e}
  <2>1. \A f \in {c} : Known(f) /\ f.type \notin Untimed /\ f \notin due \ {e}
    BY <1>2, <1>6, <1>7 DEF Untimed, Scheduled
  <2>2. /\ HeapTyped' /\ Scheduled' = (Scheduled \ {e}) \cup {} \cup {c}
        /\ due' = (due \ {e}) \cup {}
    BY <1>1, <2>1, HandledHeap
  <2> QED BY <2>2
<1>9. QueuesTyped' BY <1>1, <1>5 DEF QueuesTyped
<1>10. \A k \in Links : AtLink(c, k) => AtLink(e, k) /\ k = l BY <1>2 DEF AtLink, LinkEvents
<1>11. \A k \in Brokers : ~AtServer(c, k) BY <1>2 DEF AtServer, ServerEvents
<1>12. OneEach'
  <2>1. \A k \in Links : \A f, g \in Scheduled' : AtLink(f, k) /\ AtLink(g, k) => f = g
    BY <1>4, <1>8, <1>10 DEF OneEach
  <2>2. \A k \in Brokers : \A f, g \in Scheduled' : AtServer(f, k) /\ AtServer(g, k) => f = g
    BY <1>8, <1>11 DEF OneEach
  <2> QED BY <2>1, <2>2 DEF OneEach, AtLink, AtServer
<1>13. IdleIsEmpty'
  <2>1. \A k \in Links : ~linkBusy'[k] => k # l /\ ~linkBusy[k] BY <1>1 DEF QueuesTyped
  <2>2. \A k \in Links : ~linkBusy'[k] =>
          linkQueue[k] = << >> /\ \A f \in Scheduled' : AtLink(f, k) => f.type = "ACCESS_SERVICE_START"
    BY <1>8, <1>10, <2>1 DEF IdleIsEmpty
  <2>3. \A k \in Brokers : ~brokerBusy[k] =>
          brokerQueue[k] = << >> /\ \A f \in Scheduled' : AtServer(f, k) => f.type = "BROKER_SERVICE_START"
    BY <1>8, <1>11 DEF IdleIsEmpty
  <2> QED BY <1>1, <2>2, <2>3 DEF IdleIsEmpty, AtLink, AtServer
<1>14. NoneBetween'
  <2>1. \A f \in due' : f.type \notin
            {"ACCESS_SERVICE_COMPLETE", "BROKER_SERVICE_COMPLETE", "CONTROLLER_TICK"}
    BY <1>3, <1>8 DEF NoneBetween
  <2> QED BY <1>8, <2>1 DEF NoneBetween, Arrival
<1>15. OfItsSource'
  <2>1. u \in DOMAIN requests /\ requests[u] = l[1] BY <1>2, <1>4 DEF OfItsSource, LinkEvents
  <2> QED BY <1>1, <1>2, <1>8, <2>1 DEF OfItsSource
<1>16. LinksKept
  <2>1. \A k \in Links : AtLink(e, k) <=> AtLink(c, k) BY <1>2 DEF AtLink, LinkEvents
  <2>2. \A k \in Links : \A v : v \in Serving(k)' <=> v \in Serving(k) BY <1>2, <1>4, <1>8, <2>1, UnitsOf
  <2> QED BY <2>2 DEF LinksKept
<1>17. BrokersKept
  <2>1. \A k \in Brokers : ~AtServer(e, k) BY <1>2 DEF AtServer, ServerEvents
  <2>2. \A k \in Brokers : \A v : v \in ServingAt(k)' <=> v \in ServingAt(k) BY <1>8, <1>11, <2>1, UnitsOf
  <2> QED BY <2>2 DEF BrokersKept
<1>18. TransfersKept
  <2>1. \A k \in Brokers : \A v : v \in InTransfer(k)' <=> v \in InTransfer(k) BY <1>2, <1>8, UnitsOf
  <2> QED BY <2>1 DEF TransfersKept
<1> QED BY <1>8, <1>9, <1>12, <1>13, <1>14, <1>15, <1>16, <1>17, <1>18

\* _handle_access_complete keeps the invariant: the unit goes on its way alone, and the
\* link serves the first that waits.
LEMMA AccessCompleteKeeps ==
  ASSUME SimInv, NEW l, NEW u, AccessComplete(l, u)
  PROVE  /\ SimInv'
         /\ l \in Links /\ Serving(l) = {u} /\ u \in Nat /\ requests[u] = l[1]
         /\ Serving(l)' = First(linkQueue[l])
         /\ \A k \in Links \ {l} : Serving(k)' = Serving(k)
         /\ BrokersKept
         /\ \A k \in Brokers : InTransfer(k) = {} /\ InTransfer(k)' = IF k = l[2] THEN {u} ELSE {}
<1> USE DEF SimInv
<1> DEFINE e == OnLink("ACCESS_SERVICE_COMPLETE", l, u)
           q == linkQueue[l]
           starts == {OnLink("ACCESS_SERVICE_START", l, v) : v \in First(q)}
           a == AtBroker("BROKER_ARRIVAL", l[2], u)
<1>1. /\ Handles(e, starts \cup {a}, {})
      /\ linkBusy' = [linkBusy EXCEPT ![l] = StillBusy(q)]
      /\ linkQueue' = [linkQueue EXCEPT ![l] = IF @ = << >> THEN @ ELSE Tail(@)]
      /\ UNCHANGED <<requests, brokerQueue, brokerBusy, completed, routes>>
  BY DEF AccessComplete, plan
<1>2. /\ e.type = "ACCESS_SERVICE_COMPLETE" /\ e.link = l /\ e.unit = u
      /\ a.type = "BROKER_ARRIVAL" /\ a.unit = u
      /\ \A f \in starts : f.type = "ACCESS_SERVICE_START" /\ f.link = l /\ f.unit \in First(q)
  BY EventKinds
<1>3. e \in due /\ due = {e} BY <1>1, <1>2 DEF Handles, NoneBetween
<1>4. Known(e) /\ e \in Scheduled BY <1>3 DEF HeapTyped, Scheduled
<1> HIDE DEF e
<1>5. l \in Links /\ u \in Nat /\ l[2] \in Brokers BY <1>2, <1>4, EventIs DEF LinkEvents, Links
<1>6. q \in Seq(Nat) BY <1>5 DEF QueuesTyped
<1>7. Known(a) /\ \A f \in starts : Known(f)
  <2>1. Known(a) BY <1>5 DEF Known, BrokerEvents
  <2>2. First(q) \subseteq Nat BY <1>6, FirstOf
  <2>3. \A v \in Nat : Known(OnLink("ACCESS_SERVICE_START", l, v)) BY <1>5 DEF Known, LinkEvents
  <2> QED BY <2>1, <2>2, <2>3
<1>8. q = << >> => starts = {} BY <1>6, FirstOf
<1>9. \A f, g \in starts : f = g
  <2>1. \A v, w \in First(q) : v = w BY <1>6, FirstOf
  <2> QED BY <2>1
<1> HIDE DEF a, starts, q
<1>10. /\ HeapTyped' /\ Scheduled' = (Scheduled \ {e}) \cup starts \cup {a}
       /\ due' = starts \cup {a}
  <2>1. \A f \in starts \cup {a} : Known(f) /\ f.type \in Untimed BY <1>2, <1>7 DEF Untimed
  <2>2. /\ HeapTyped' /\ Scheduled' = (Scheduled \ {e}) \cup (starts \cup {a}) \cup {}
        /\ due' = (due \ {e}) \cup (starts \cup {a})
    BY <1>1, <2>1, HandledHeap
  <2> QED BY <1>3, <2>2
<1>11. QueuesTyped'
  <2>1. linkQueue' \in [Links -> Seq(Nat)]
    <3>1. (IF q = << >> THEN q ELSE Tail(q)) \in Seq(Nat) BY <1>6, FirstOf
    <3> QED BY <1>1, <1>5, <3>1 DEF QueuesTyped, q
  <2>2. linkBusy' \in [Links -> BOOLEAN] BY <1>1, <1>5 DEF QueuesTyped, StillBusy
  <2> QED BY <1>1, <2>1, <2>2 DEF QueuesTyped
<1>12. \A f \in Scheduled \ {e} : ~AtLink(f, l)
  <2>1. AtLink(e, l) BY <1>2 DEF AtLink, LinkEvents
  <2> QED BY <1>4, <1>5, <2>1 DEF OneEach
<1>13. /\ \A k : ~AtLink(a, k) /\ ~AtServer(a, k)
       /\ \A f \in starts, k \in Links : AtLink(f, k) => k = l
       /\ \A f \in starts, k \in Brokers : ~AtServer(f, k)
  BY <1>2 DEF AtLink, AtServer, LinkEvents, ServerEvents
<1>14. OneEach'
  <2>1. \A k \in Links : \A f, g \in Scheduled' : AtLink(f, k) /\ AtLink(g, k) => f = g
    BY <1>9, <1>10, <1>12, <1>13 DEF OneEach
  <2>2. \A k \in Brokers : \A f, g \in Scheduled' : AtServer(f, k) /\ AtServer(g, k) => f = g
    BY <1>10, <1>13 DEF OneEach
  <2> QED BY <2>1, <2>2 DEF OneEach, AtLink, AtServer
<1>15. IdleIsEmpty'
  <2>1. ASSUME NEW k \in Links, ~linkBusy'[k]
        PROVE  linkQueue'[k] = << >> /\ \A f \in Scheduled' : AtLink(f, k) => f.type = "ACCESS_SERVICE_START"
    <3>1. CASE k = l
      <4>1. q = << >> BY <1>1, <1>5, <1>6, <2>1, <3>1, FirstOf DEF QueuesTyped
      <4>2. linkQueue'[k] = << >> BY <1>1, <1>5, <3>1, <4>1 DEF QueuesTyped, q
      <4> QED BY <1>2, <1>10, <1>12, <1>13, <3>1, <4>2
    <3>2. CASE k # l
      <4>1. ~linkBusy[k] /\ linkQueue'[k] = linkQueue[k] BY <1>1, <2>1, <3>2 DEF QueuesTyped
      <4> QED BY <1>10, <1>13, <3>2, <4>1 DEF IdleIsEmpty
    <3> QED BY <3>1, <3>2
  <2>2. \A k \in Brokers : ~brokerBusy[k] =>
          brokerQueue[k] = << >> /\ \A f \in Scheduled' : AtServer(f, k) => f.type = "BROKER_SERVICE_START"
    BY <1>10, <1>13 DEF IdleIsEmpty
  <2> QED BY <1>1, <2>1, <2>2 DEF IdleIsEmpty, AtLink, AtServer
<1>16. NoneBetween'
  <2>1. \A f \in due' : f = a \/ f \in starts BY <1>10
  <2>2. \A f \in starts : f.type \notin BrokerEvents BY <1>2 DEF BrokerEvents
  <2>3. \A i : Arrival(i) \notin due' BY <1>2, <2>1, EventKinds
  <2>4. \A f \in due' : f.type \notin
            {"ACCESS_SERVICE_COMPLETE", "BROKER_SERVICE_COMPLETE", "CONTROLLER_TICK"}
    BY <1>2, <2>1
  <2> QED BY <2>1, <2>2, <2>3, <2>4 DEF NoneBetween, Arrival
<1>17. OfItsSource'
  <2>1. u \in DOMAIN requests /\ requests[u] = l[1] BY <1>2, <1>4 DEF OfItsSource, LinkEvents
  <2>2. \A n \in DOMAIN q : q[n] \in DOMAIN requests /\ requests[q[n]] = l[1]
    BY <1>5 DEF OfItsSource, q
  <2>3. \A f \in starts : f.unit \in DOMAIN requests /\ requests[f.unit] = l[1]
    <3>1. \A v \in First(q) : \E n \in DOMAIN q : v = q[n] BY <1>6, FirstOf
    <3> QED BY <1>2, <2>2, <3>1
  <2>4. ASSUME NEW k \in Links, NEW n \in DOMAIN linkQueue'[k]
        PROVE  linkQueue'[k][n] \in DOMAIN requests /\ requests[linkQueue'[k][n]] = k[1]
    <3>1. CASE k = l /\ q # << >>
      <4>1. linkQueue'[k] = Tail(q) BY <1>1, <1>5, <3>1 DEF QueuesTyped, q
      <4>2. n + 1 \in DOMAIN q /\ linkQueue'[k][n] = q[n + 1] BY <1>6, <2>4, <3>1, <4>1, FirstOf
      <4> QED BY <2>2, <3>1, <4>2
    <3>2. CASE ~(k = l /\ q # << >>)
      <4>1. linkQueue'[k] = linkQueue[k] BY <1>1, <1>5, <3>2 DEF QueuesTyped, q
      <4> QED BY <2>4, <4>1 DEF OfItsSource
    <3> QED BY <3>1, <3>2
  <2>5. \A f \in Scheduled' : f.type \in LinkEvents =>
          f.unit \in DOMAIN requests /\ requests[f.unit] = f.link[1]
    BY <1>2, <1>10, <2>3 DEF OfItsSource, LinkEvents
  <2>6. \A f \in due' : f.type = "BROKER_ARRIVAL" => f.unit \in DOMAIN requests
    BY <1>2, <1>10, <2>1
  <2> QED BY <1>1, <2>4, <2>5, <2>6 DEF OfItsSource
<1>18. Serving(l) = {u}
  <2>1. AtLink(e, l) BY <1>2 DEF AtLink, LinkEvents
  <2>2. \A v : v \in Serving(l) <=> v = u BY <1>2, <1>4, <1>12, <2>1, UnitsOf
  <2> QED BY <2>2
<1>19. Serving(l)' = First(linkQueue[l])
  <2>1. \A f \in starts : AtLink(f, l) BY <1>2 DEF AtLink, LinkEvents
  <2>2. \A v \in First(q) : \E f \in starts : f.unit = v
    <3>1. \A v \in First(q) : OnLink("ACCESS_SERVICE_START", l, v) \in starts BY DEF starts
    <3> QED BY <3>1, EventKinds
  <2>3. \A v : v \in Serving(l)' <=> v \in First(q) BY <1>2, <1>10, <1>12, <1>13, <2>1, <2>2, UnitsOf
  <2> QED BY <2>3 DEF q
<1>20. \A k \in Links \ {l} : Serving(k)' = Serving(k)
  <2>1. \A k \in Links \ {l} : ~AtLink(e, k) BY <1>2 DEF AtLink
  <2>2. \A k \in Links \ {l} : \A v : v \in Serving(k)' <=> v \in Serving(k) BY <1>10, <1>13, <2>1, UnitsOf
  <2> QED BY <2>2
<1>21. BrokersKept
  <2>1. \A k \in Brokers : ~AtServer(e, k) BY <1>2 DEF AtServer, ServerEvents
  <2>2. \A k \in Brokers : \A v : v \in ServingAt(k)' <=> v \in ServingAt(k) BY <1>10, <1>13, <2>1, UnitsOf
  <2> QED BY <2>2 DEF BrokersKept
<1>22. \A k \in Brokers : InTransfer(k) = {} /\ InTransfer(k)' = IF k = l[2] THEN {u} ELSE {}
  <2>1. a.broker = l[2] BY EventKinds DEF a
  <2>2. \A k \in Brokers : \A v : v \notin InTransfer(k) BY <1>2, <1>3, UnitsOf
  <2>3. \A k \in Brokers : \A v : v \in InTransfer(k)' <=> (k = l[2] /\ v = u)
    BY <1>2, <1>10, <2>1, UnitsOf
  <2> QED BY <2>2, <2>3
<1>23. requests[u] = l[1] BY <1>2, <1>4 DEF OfItsSource, LinkEvents
<1> QED BY <1>10, <1>11, <1>14, <1>15, <1>16, <1>17,
            <1>5, <1>18, <1>19, <1>20, <1>21, <1>22, <1>23

\* _handle_broker_arrival keeps the invariant: an idle broker has no event, since the
\* arrival is the one event due at a broker (NoneBetween).
LEMMA BrokerArrivalKeeps ==
  ASSUME SimInv, NEW j, NEW u, BrokerArrival(j, u)
  PROVE  /\ SimInv'
         /\ j \in Brokers /\ u \in Nat /\ <<requests[u], j>> \in Links
         /\ \A k \in Brokers : InTransfer(k) = (IF k = j THEN {u} ELSE {}) /\ InTransfer(k)' = {}
         /\ LinksKept
         /\ \A k \in Brokers : ServingAt(k)' = IF k = j /\ ~brokerBusy[j] THEN {u} ELSE ServingAt(k)
         /\ ~brokerBusy[j] => ServingAt(j) = {} /\ brokerQueue[j] = << >>
<1> USE DEF SimInv
<1> DEFINE e == AtBroker("BROKER_ARRIVAL", j, u)
           start == AtBroker("BROKER_SERVICE_START", j, u)
           now == IF brokerBusy[j] THEN {} ELSE {start}
<1>1. /\ Handles(e, now, {})
      /\ brokerQueue' = [brokerQueue EXCEPT ![j] = Waits(brokerBusy[j], @, u)]
      /\ UNCHANGED <<requests, linkQueue, linkBusy, brokerBusy, completed, routes>>
  BY DEF BrokerArrival, plan
<1>2. /\ e.type = "BROKER_ARRIVAL" /\ e.broker = j /\ e.unit = u
      /\ start.type = "BROKER_SERVICE_START" /\ start.broker = j /\ start.unit = u
  BY EventKinds
<1>3. e \in due BY <1>1 DEF Handles
<1>4. Known(e) /\ e \in Scheduled BY <1>3 DEF HeapTyped, Scheduled
<1> HIDE DEF e
<1>5. j \in Brokers /\ u \in Nat BY <1>2, <1>4, EventIs DEF BrokerEvents
<1>6. Known(start) BY <1>5 DEF Known, BrokerEvents
<1> HIDE DEF start
<1>7. \A f \in now : ~brokerBusy[j] /\ f = start BY DEF now
<1> HIDE DEF now
<1>8. /\ HeapTyped' /\ Scheduled' = (Scheduled \ {e}) \cup now /\ due' = (due \ {e}) \cup now
  <2>1. \A f \in now : Known(f) /\ f.type \in Untimed BY <1>2, <1>6, <1>7 DEF Untimed
  <2>2. /\ HeapTyped' /\ Scheduled' = (Scheduled \ {e}) \cup now \cup {}
        /\ due' = (due \ {e}) \cup now
    BY <1>1, <2>1, HandledHeap
  <2> QED BY <2>2
<1>9. QueuesTyped'
  <2>1. Waits(brokerBusy[j], brokerQueue[j], u) \in Seq(Nat) BY <1>5 DEF Waits, QueuesTyped
  <2>2. brokerQueue' \in [Brokers -> Seq(Nat)] BY <1>1, <1>5, <2>1 DEF QueuesTyped
  <2> QED BY <1>1, <2>2 DEF QueuesTyped
\* the one event due at a broker is this one
<1>10. \A f \in due \ {e} : f.type \notin BrokerEvents
  BY <1>2, <1>3 DEF NoneBetween, BrokerEvents
<1>11. ~brokerBusy[j] => \A f \in Scheduled : ~AtServer(f, j)
  <2>1. SUFFICES ASSUME ~brokerBusy[j], NEW f \in Scheduled, AtServer(f, j) PROVE FALSE OBVIOUS
  <2>2. f.type = "BROKER_SERVICE_START" BY <1>5, <2>1 DEF IdleIsEmpty
  <2>3. f \in due BY <2>2 DEF HeapTyped, Untimed, Scheduled
  <2> QED BY <1>2, <1>10, <2>2, <2>3 DEF BrokerEvents
<1>12. /\ \A k \in Brokers : AtServer(start, k) => k = j
       /\ \A k \in Links : ~AtLink(start, k)
  BY <1>2 DEF AtLink, AtServer, LinkEvents
<1>13. OneEach'
  <2>1. \A k \in Links : \A f, g \in Scheduled' : AtLink(f, k) /\ AtLink(g, k) => f = g
    BY <1>7, <1>8, <1>12 DEF OneEach
  <2>2. \A k \in Brokers : \A f, g \in Scheduled' : AtServer(f, k) /\ AtServer(g, k) => f = g
    BY <1>7, <1>8, <1>11, <1>12 DEF OneEach
  <2> QED BY <2>1, <2>2 DEF OneEach, AtLink, AtServer
<1>14. IdleIsEmpty'
  <2>1. \A k \in Links : ~linkBusy[k] =>
          linkQueue[k] = << >> /\ \A f \in Scheduled' : AtLink(f, k) => f.type = "ACCESS_SERVICE_START"
    BY <1>7, <1>8, <1>12 DEF IdleIsEmpty
  <2>2. ASSUME NEW k \in Brokers, ~brokerBusy[k]
        PROVE  /\ brokerQueue'[k] = << >>
               /\ \A f \in Scheduled' : AtServer(f, k) => f.type = "BROKER_SERVICE_START"
    <3>1. brokerQueue'[k] = brokerQueue[k] BY <1>1, <2>2 DEF Waits, QueuesTyped
    <3>2. brokerQueue[k] = << >> /\ \A f \in Scheduled : AtServer(f, k) => f.type = "BROKER_SERVICE_START"
      BY <2>2 DEF IdleIsEmpty
    <3> QED BY <1>2, <1>7, <1>8, <3>1, <3>2
  <2> QED BY <1>1, <2>1, <2>2 DEF IdleIsEmpty, AtLink, AtServer
<1>15. NoneBetween'
  <2>1. \A f \in due : f.type \notin {"ACCESS_SERVICE_COMPLETE", "BROKER_SERVICE_COMPLETE", "CONTROLLER_TICK"}
    BY <1>2, <1>3 DEF NoneBetween
  <2>2. \A f \in due' : f \in due \ {e} \/ f = start BY <1>7, <1>8
  <2>3. \A f \in due' : f.type \notin
            {"ACCESS_SERVICE_COMPLETE", "BROKER_SERVICE_COMPLETE", "CONTROLLER_TICK"}
    BY <1>2, <2>1, <2>2
  <2>4. \A f, g \in due' : f.type \in BrokerEvents /\ g.type \in BrokerEvents => f = g
    BY <1>10, <2>2
  <2>5. ASSUME NEW k \in Sources, Arrival(k) \in due', NEW f \in due', f.type \in LinkEvents
        PROVE  f.link[1] # k
    <3>1. Arrival(k).type = "SOURCE_ARRIVAL" BY EventKinds
    <3>2. start.type \notin LinkEvents BY <1>2 DEF LinkEvents
    <3>3. Arrival(k) \in due /\ f \in due BY <1>2, <2>2, <2>5, <3>1, <3>2
    <3> QED BY <2>5, <3>3 DEF NoneBetween
  <2> QED BY <2>3, <2>4, <2>5 DEF NoneBetween, Arrival
<1>16. OfItsSource'
  <2>1. \A f \in Scheduled' : f.type \in LinkEvents => f \in Scheduled
    BY <1>2, <1>7, <1>8 DEF LinkEvents
  <2>2. \A f \in due' : f.type = "BROKER_ARRIVAL" => f \in due BY <1>2, <1>7, <1>8
  <2> QED BY <1>1, <2>1, <2>2 DEF OfItsSource
<1>17. <<requests[u], j>> \in Links
  <2>1. u \in DOMAIN requests BY <1>2, <1>3 DEF OfItsSource
  <2>2. requests[u] \in Sources BY <2>1 DEF QueuesTyped
  <2> QED BY <1>5, <2>2 DEF Links
<1>18. \A k \in Brokers : InTransfer(k) = (IF k = j THEN {u} ELSE {}) /\ InTransfer(k)' = {}
  <2>1. \A f \in due : f.type = "BROKER_ARRIVAL" => f = e BY <1>10 DEF BrokerEvents
  <2>2. \A k \in Brokers : \A v : v \in InTransfer(k) <=> (k = j /\ v = u) BY <1>2, <1>3, <2>1, UnitsOf
  <2>3. \A k \in Brokers : \A v : v \notin InTransfer(k)' BY <1>2, <1>7, <1>8, <2>1, UnitsOf
  <2> QED BY <2>2, <2>3
<1>19. LinksKept
  <2>1. \A k \in Links : ~AtLink(e, k) BY <1>2 DEF AtLink, LinkEvents
  <2>2. \A k \in Links : \A v : v \in Serving(k)' <=> v \in Serving(k) BY <1>7, <1>8, <1>12, <2>1, UnitsOf
  <2> QED BY <2>2 DEF LinksKept
<1>20. \A k \in Brokers : ServingAt(k)' = IF k = j /\ ~brokerBusy[j] THEN {u} ELSE ServingAt(k)
  <2>1. \A k \in Brokers : ~AtServer(e, k) BY <1>2 DEF AtServer, ServerEvents
  <2>2. ~brokerBusy[j] => start \in now /\ AtServer(start, j)
    BY <1>2 DEF now, AtServer, ServerEvents
  <2>3. ASSUME NEW k \in Brokers
        PROVE  \A v : v \in ServingAt(k)' <=> (IF k = j /\ ~brokerBusy[j] THEN v = u ELSE v \in ServingAt(k))
    <3>1. CASE k = j /\ ~brokerBusy[j] BY <1>2, <1>7, <1>8, <1>11, <2>2, <3>1, UnitsOf
    <3>2. CASE ~(k = j /\ ~brokerBusy[j]) BY <1>7, <1>8, <1>12, <2>1, <3>2, UnitsOf
    <3> QED BY <3>1, <3>2
  <2> QED BY <2>3
<1>21. ~brokerBusy[j] => ServingAt(j) = {} /\ brokerQueue[j] = << >>
  <2>1. ~brokerBusy[j] => \A v : v \notin ServingAt(j) BY <1>11, UnitsOf
  <2> QED BY <1>5, <2>1 DEF IdleIsEmpty
<1> QED BY <1>8, <1>9, <1>13, <1>14, <1>15, <1>16,
            <1>5, <1>17, <1>18, <1>19, <1>20, <1>21

\* _handle_broker_start keeps the invariant: the unit of the start is that of its
\* completion.
LEMMA BrokerStartKeeps ==
  ASSUME SimInv, NEW j, NEW u, BrokerStart(j, u)
  PROVE  SimInv' /\ LinksKept /\ BrokersKept /\ TransfersKept
<1> USE DEF SimInv
<1> DEFINE e == AtBroker("BROKER_SERVICE_START", j, u)
           c == AtBroker("BROKER_SERVICE_COMPLETE", j, u)
<1>1. /\ Handles(e, {}, {c}) /\ brokerBusy' = [brokerBusy EXCEPT ![j] = TRUE]
      /\ UNCHANGED <<requests, linkQueue, linkBusy, brokerQueue, completed, routes>>
  BY DEF BrokerStart, plan
<1>2. /\ e.type = "BROKER_SERVICE_START" /\ e.broker = j /\ e.unit = u
      /\ c.type = "BROKER_SERVICE_COMPLETE" /\ c.broker = j /\ c.unit = u
  BY EventKinds
<1>3. e \in due BY <1>1 DEF Handles
<1>4. Known(e) /\ e \in Scheduled BY <1>3 DEF HeapTyped, Scheduled
<1> HIDE DEF e
<1>5. j \in Brokers /\ u \in Nat BY <1>2, <1>4, EventIs DEF BrokerEvents
<1>6. Known(c) BY <1>5 DEF Known, BrokerEvents
<1> HIDE DEF c
<1>7. c \notin Scheduled
  <2>1. AtServer(e, j) /\ AtServer(c, j) /\ e # c BY <1>2 DEF AtServer, ServerEvents
  <2> QED BY <1>4, <1>5, <2>1 DEF OneEach
<1>8. /\ HeapTyped' /\ Scheduled' = (Scheduled \ {e}) \cup {c} /\ due' = due \ {e}
  <2>1. \A f \in {c} : Known(f) /\ f.type \notin Untimed /\ f \notin due \ {e}
    BY <1>2, <1>6, <1>7 DEF Untimed, Scheduled
  <2>2. /\ HeapTyped' /\ Scheduled' = (Scheduled \ {e}) \cup {} \cup {c}
        /\ due' = (due \ {e}) \cup {}
    BY <1>1, <2>1, HandledHeap
  <2> QED BY <2>2
<1>9. QueuesTyped' BY <1>1, <1>5 DEF QueuesTyped
<1>10. \A k \in Brokers : AtServer(c, k) => AtServer(e, k) /\ k = j BY <1>2 DEF AtServer, ServerEvents
<1>11. \A k \in Links : ~AtLink(c, k) BY <1>2 DEF AtLink, LinkEvents
<1>12. OneEach'
  <2>1. \A k \in Brokers : \A f, g \in Scheduled' : AtServer(f, k) /\ AtServer(g, k) => f = g
    BY <1>4, <1>8, <1>10 DEF OneEach
  <2>2. \A k \in Links : \A f, g \in Scheduled' : AtLink(f, k) /\ AtLink(g, k) => f = g
    BY <1>8, <1>11 DEF OneEach
  <2> QED BY <2>1, <2>2 DEF OneEach, AtLink, AtServer
<1>13. IdleIsEmpty'
  <2>1. \A k \in Brokers : ~brokerBusy'[k] => k # j /\ ~brokerBusy[k] BY <1>1 DEF QueuesTyped
  <2>2. \A k \in Brokers : ~brokerBusy'[k] =>
          brokerQueue[k] = << >> /\ \A f \in Scheduled' : AtServer(f, k) => f.type = "BROKER_SERVICE_START"
    BY <1>8, <1>10, <2>1 DEF IdleIsEmpty
  <2>3. \A k \in Links : ~linkBusy[k] =>
          linkQueue[k] = << >> /\ \A f \in Scheduled' : AtLink(f, k) => f.type = "ACCESS_SERVICE_START"
    BY <1>8, <1>11 DEF IdleIsEmpty
  <2> QED BY <1>1, <2>2, <2>3 DEF IdleIsEmpty, AtLink, AtServer
<1>14. NoneBetween'
  <2>1. \A f \in due' : f.type \notin
            {"ACCESS_SERVICE_COMPLETE", "BROKER_SERVICE_COMPLETE", "CONTROLLER_TICK"}
    BY <1>3, <1>8 DEF NoneBetween
  <2> QED BY <1>8, <2>1 DEF NoneBetween, Arrival
<1>15. OfItsSource'
  <2>1. c.type \notin LinkEvents BY <1>2 DEF LinkEvents
  <2> QED BY <1>1, <1>8, <2>1 DEF OfItsSource
<1>16. BrokersKept
  <2>1. \A k \in Brokers : AtServer(e, k) <=> AtServer(c, k) BY <1>2 DEF AtServer, ServerEvents
  <2>2. \A k \in Brokers : \A v : v \in ServingAt(k)' <=> v \in ServingAt(k)
    BY <1>2, <1>4, <1>8, <2>1, UnitsOf
  <2> QED BY <2>2 DEF BrokersKept
<1>17. LinksKept
  <2>1. \A k \in Links : ~AtLink(e, k) BY <1>2 DEF AtLink, LinkEvents
  <2>2. \A k \in Links : \A v : v \in Serving(k)' <=> v \in Serving(k) BY <1>8, <1>11, <2>1, UnitsOf
  <2> QED BY <2>2 DEF LinksKept
<1>18. TransfersKept
  <2>1. \A k \in Brokers : \A v : v \in InTransfer(k)' <=> v \in InTransfer(k) BY <1>2, <1>8, UnitsOf
  <2> QED BY <2>1 DEF TransfersKept
<1> QED BY <1>8, <1>9, <1>12, <1>13, <1>14, <1>15, <1>16, <1>17, <1>18

\* _handle_broker_complete keeps the invariant: the broker serves the first that waits.
LEMMA BrokerCompleteKeeps ==
  ASSUME SimInv, NEW j, NEW u, BrokerComplete(j, u)
  PROVE  /\ SimInv'
         /\ j \in Brokers /\ u \in Nat /\ ServingAt(j) = {u}
         /\ ServingAt(j)' = First(brokerQueue[j])
         /\ \A k \in Brokers \ {j} : ServingAt(k)' = ServingAt(k)
         /\ LinksKept /\ TransfersKept
<1> USE DEF SimInv
<1> DEFINE e == AtBroker("BROKER_SERVICE_COMPLETE", j, u)
           q == brokerQueue[j]
           starts == {AtBroker("BROKER_SERVICE_START", j, v) : v \in First(q)}
<1>1. /\ Handles(e, starts, {})
      /\ completed' = Append(completed, u)
      /\ brokerBusy' = [brokerBusy EXCEPT ![j] = StillBusy(q)]
      /\ brokerQueue' = [brokerQueue EXCEPT ![j] = IF @ = << >> THEN @ ELSE Tail(@)]
      /\ UNCHANGED <<requests, linkQueue, linkBusy, routes>>
  BY DEF BrokerComplete, plan
<1>2. /\ e.type = "BROKER_SERVICE_COMPLETE" /\ e.broker = j /\ e.unit = u
      /\ \A f \in starts : f.type = "BROKER_SERVICE_START" /\ f.broker = j /\ f.unit \in First(q)
  BY EventKinds
<1>3. e \in due /\ due = {e} BY <1>1, <1>2 DEF Handles, NoneBetween
<1>4. Known(e) /\ e \in Scheduled BY <1>3 DEF HeapTyped, Scheduled
<1> HIDE DEF e
<1>5. j \in Brokers /\ u \in Nat BY <1>2, <1>4, EventIs DEF BrokerEvents
<1>6. q \in Seq(Nat) BY <1>5 DEF QueuesTyped
<1>7. \A f \in starts : Known(f)
  <2>1. First(q) \subseteq Nat BY <1>6, FirstOf
  <2>2. \A v \in Nat : Known(AtBroker("BROKER_SERVICE_START", j, v)) BY <1>5 DEF Known, BrokerEvents
  <2> QED BY <2>1, <2>2
<1>8. q = << >> => starts = {} BY <1>6, FirstOf
<1>9. \A f, g \in starts : f = g
  <2>1. \A v, w \in First(q) : v = w BY <1>6, FirstOf
  <2> QED BY <2>1
<1> HIDE DEF starts, q
<1>10. HeapTyped' /\ Scheduled' = (Scheduled \ {e}) \cup starts /\ due' = starts
  <2>1. \A f \in starts : Known(f) /\ f.type \in Untimed BY <1>2, <1>7 DEF Untimed
  <2>2. HeapTyped' /\ Scheduled' = (Scheduled \ {e}) \cup starts \cup {} /\ due' = (due \ {e}) \cup starts
    BY <1>1, <2>1, HandledHeap
  <2> QED BY <1>3, <2>2
<1>11. QueuesTyped'
  <2>1. brokerQueue' \in [Brokers -> Seq(Nat)]
    <3>1. (IF q = << >> THEN q ELSE Tail(q)) \in Seq(Nat) BY <1>6, FirstOf
    <3> QED BY <1>1, <1>5, <3>1 DEF QueuesTyped, q
  <2>2. brokerBusy' \in [Brokers -> BOOLEAN] BY <1>1, <1>5 DEF QueuesTyped, StillBusy
  <2>3. completed' \in Seq(Nat) BY <1>1, <1>5 DEF QueuesTyped
  <2> QED BY <1>1, <2>1, <2>2, <2>3 DEF QueuesTyped
<1>12. \A f \in Scheduled \ {e} : ~AtServer(f, j)
  <2>1. AtServer(e, j) BY <1>2 DEF AtServer, ServerEvents
  <2> QED BY <1>4, <1>5, <2>1 DEF OneEach
<1>13. /\ \A f \in starts, k \in Brokers : AtServer(f, k) => k = j
       /\ \A f \in starts, k \in Links : ~AtLink(f, k)
  BY <1>2 DEF AtLink, AtServer, LinkEvents
<1>14. OneEach'
  <2>1. \A k \in Brokers : \A f, g \in Scheduled' : AtServer(f, k) /\ AtServer(g, k) => f = g
    BY <1>9, <1>10, <1>12, <1>13 DEF OneEach
  <2>2. \A k \in Links : \A f, g \in Scheduled' : AtLink(f, k) /\ AtLink(g, k) => f = g
    BY <1>10, <1>13 DEF OneEach
  <2> QED BY <2>1, <2>2 DEF OneEach, AtLink, AtServer
<1>15. IdleIsEmpty'
  <2>1. ASSUME NEW k \in Brokers, ~brokerBusy'[k]
        PROVE  /\ brokerQueue'[k] = << >>
               /\ \A f \in Scheduled' : AtServer(f, k) => f.type = "BROKER_SERVICE_START"
    <3>1. CASE k = j
      <4>1. q = << >> BY <1>1, <1>5, <1>6, <2>1, <3>1, FirstOf DEF QueuesTyped
      <4>2. brokerQueue'[k] = << >> BY <1>1, <1>5, <3>1, <4>1 DEF QueuesTyped, q
      <4> QED BY <1>2, <1>10, <1>12, <3>1, <4>2
    <3>2. CASE k # j
      <4>1. ~brokerBusy[k] /\ brokerQueue'[k] = brokerQueue[k] BY <1>1, <2>1, <3>2 DEF QueuesTyped
      <4> QED BY <1>10, <1>13, <3>2, <4>1 DEF IdleIsEmpty
    <3> QED BY <3>1, <3>2
  <2>2. \A k \in Links : ~linkBusy[k] =>
          linkQueue[k] = << >> /\ \A f \in Scheduled' : AtLink(f, k) => f.type = "ACCESS_SERVICE_START"
    BY <1>10, <1>13 DEF IdleIsEmpty
  <2> QED BY <1>1, <2>1, <2>2 DEF IdleIsEmpty, AtLink, AtServer
<1>16. NoneBetween'
  <2>1. \A i : Arrival(i) \notin due' BY <1>2, <1>10, EventKinds
  <2>2. \A f \in due' : f.type \notin
            {"ACCESS_SERVICE_COMPLETE", "BROKER_SERVICE_COMPLETE", "CONTROLLER_TICK"}
    BY <1>2, <1>10
  <2> QED BY <1>9, <1>10, <2>1, <2>2 DEF NoneBetween, Arrival
<1>17. OfItsSource'
  <2>1. \A f \in Scheduled' : f.type \in LinkEvents => f \in Scheduled BY <1>2, <1>10 DEF LinkEvents
  <2>2. \A f \in due' : f.type # "BROKER_ARRIVAL" BY <1>2, <1>10
  <2> QED BY <1>1, <2>1, <2>2 DEF OfItsSource
<1>18. ServingAt(j) = {u}
  <2>1. AtServer(e, j) BY <1>2 DEF AtServer, ServerEvents
  <2>2. \A v : v \in ServingAt(j) <=> v = u BY <1>2, <1>4, <1>12, <2>1, UnitsOf
  <2> QED BY <2>2
<1>19. ServingAt(j)' = First(brokerQueue[j])
  <2>1. \A f \in starts : AtServer(f, j) BY <1>2 DEF AtServer, ServerEvents
  <2>2. \A v \in First(q) : \E f \in starts : f.unit = v
    <3>1. \A v \in First(q) : AtBroker("BROKER_SERVICE_START", j, v) \in starts BY DEF starts
    <3> QED BY <3>1, EventKinds
  <2>3. \A v : v \in ServingAt(j)' <=> v \in First(q) BY <1>2, <1>10, <1>12, <1>13, <2>1, <2>2, UnitsOf
  <2> QED BY <2>3 DEF q
<1>20. \A k \in Brokers \ {j} : ServingAt(k)' = ServingAt(k)
  <2>1. \A k \in Brokers \ {j} : ~AtServer(e, k) BY <1>2 DEF AtServer
  <2>2. \A k \in Brokers \ {j} : \A v : v \in ServingAt(k)' <=> v \in ServingAt(k)
    BY <1>10, <1>13, <2>1, UnitsOf
  <2> QED BY <2>2
<1>21. LinksKept
  <2>1. \A k \in Links : ~AtLink(e, k) BY <1>2 DEF AtLink, LinkEvents
  <2>2. \A k \in Links : \A v : v \in Serving(k)' <=> v \in Serving(k) BY <1>10, <1>13, <2>1, UnitsOf
  <2> QED BY <2>2 DEF LinksKept
<1>22. TransfersKept
  <2>1. \A k \in Brokers : \A v : v \notin InTransfer(k) /\ v \notin InTransfer(k)'
    BY <1>2, <1>3, <1>10, UnitsOf
  <2> QED BY <2>1 DEF TransfersKept
<1> QED BY <1>10, <1>11, <1>14, <1>15, <1>16, <1>17,
            <1>5, <1>18, <1>19, <1>20, <1>21, <1>22

\* The tick and the clock move events, and what the sources draw from.
LEMMA ClockKeeps ==
  ASSUME SimInv, ControllerTick \/ Advance
  PROVE  SimInv' /\ LinksKept /\ BrokersKept /\ TransfersKept
<1> USE DEF SimInv
<1>1. Scheduled' = Scheduled /\ UNCHANGED <<requests, queues, completed>> /\ HeapTyped'
      /\ (due' = {} \/ \E e \in later : due' = {e})
  <2>1. CASE ControllerTick
    <3>1. Handles(Tick, {}, {Tick}) BY <2>1 DEF ControllerTick
    <3>2. Tick.type = "CONTROLLER_TICK" /\ Known(Tick) BY EventKinds DEF Known
    <3>3. Tick \in due /\ due = {Tick} BY <3>1, <3>2 DEF Handles, NoneBetween
    <3>4. \A f \in {Tick} : Known(f) /\ f.type \notin Untimed /\ f \notin due \ {Tick}
      BY <3>2 DEF Untimed
    <3>5. HeapTyped' /\ Scheduled' = (Scheduled \ {Tick}) \cup {} \cup {Tick} /\ due' = (due \ {Tick}) \cup {}
      BY <3>1, <3>4, HandledHeap
    <3>6. due' = {} /\ Scheduled' = Scheduled BY <3>3, <3>5 DEF Scheduled
    <3> QED BY <2>1, <3>5, <3>6 DEF ControllerTick
  <2>2. CASE Advance
    <3>1. PICK e \in later : due' = {e} /\ later' = later \ {e} BY <2>2 DEF Advance
    <3>2. due = {} BY <2>2 DEF Advance
    <3>3. Scheduled' = Scheduled BY <3>1, <3>2 DEF Scheduled
    <3>4. (\A f \in Scheduled : Known(f))'
      BY <3>3 DEF HeapTyped, Known, Arrival, Tick, OnLink, AtBroker, Links
    <3>5. HeapTyped' BY <3>1, <3>2, <3>4 DEF HeapTyped
    <3> QED BY <2>2, <3>1, <3>3, <3>5 DEF Advance
  <2> QED BY <2>1, <2>2
<1>2. QueuesTyped'
  <2>1. \A i \in Sources : routes'[i] \subseteq Brokers
    <3>1. CASE Advance BY <3>1 DEF Advance, plan, QueuesTyped
    <3>2. CASE ControllerTick
      <4>1. routes' = routes \/ routes' \in Routings BY <3>2 DEF ControllerTick, WindowedUpdates
      <4>2. \A f \in Routings : \A i \in Sources : f[i] \subseteq Brokers BY DEF Routings, MayRoute
      <4> QED BY <4>1, <4>2 DEF QueuesTyped
    <3> QED BY <3>1, <3>2
  <2> QED BY <1>1, <2>1 DEF QueuesTyped, queues
<1>3. OneEach' BY <1>1 DEF OneEach, AtLink, AtServer
<1>4. IdleIsEmpty' BY <1>1 DEF IdleIsEmpty, AtLink, AtServer, queues
<1>5. \A e \in due' : due' = {e} /\ e \in later /\ e.type \notin Untimed
  <2>1. \A e \in due' : due' = {e} /\ e \in later BY <1>1
  <2> QED BY <2>1 DEF HeapTyped
<1>6. NoneBetween'
  <2>1. \A i \in Sources : Arrival(i).type \notin LinkEvents BY EventKinds DEF LinkEvents
  <2> QED BY <1>5, <2>1 DEF NoneBetween, Arrival
<1>7. OfItsSource' BY <1>1, <1>5 DEF OfItsSource, queues, Untimed
<1>8. LinksKept
  <2>1. \A k \in Links : \A v : v \in Serving(k)' <=> v \in Serving(k) BY <1>1, UnitsOf
  <2> QED BY <2>1 DEF LinksKept
<1>9. BrokersKept
  <2>1. \A k \in Brokers : \A v : v \in ServingAt(k)' <=> v \in ServingAt(k) BY <1>1, UnitsOf
  <2> QED BY <2>1 DEF BrokersKept
<1>10. TransfersKept
  <2>1. \A e \in due : e.type # "BROKER_ARRIVAL"
    <3>1. CASE Advance BY <3>1 DEF Advance
    <3>2. CASE ControllerTick
      <4>1. Tick \in due /\ Tick.type = "CONTROLLER_TICK" BY <3>2, EventKinds DEF ControllerTick, Handles
      <4>2. due = {Tick} BY <4>1 DEF NoneBetween
      <4> QED BY <4>1, <4>2
    <3> QED BY <3>1, <3>2
  <2>2. \A k \in Brokers : \A v : v \notin InTransfer(k) /\ v \notin InTransfer(k)'
    BY <1>5, <2>1, UnitsOf DEF Untimed
  <2> QED BY <2>2 DEF TransfersKept
<1> QED BY <1>1, <1>2, <1>3, <1>4, <1>6, <1>7, <1>8, <1>9, <1>10

\* The invariant holds of the heap that the sources and the handler's constructor fill.
LEMMA SimInit == Init => SimInv
<1> SUFFICES ASSUME Init PROVE SimInv OBVIOUS
<1>1. due = {Arrival(i) : i \in Sources} /\ later = {Tick} BY DEF Init
<1>2. \A e \in Scheduled : e = Tick \/ \E i \in Sources : e = Arrival(i) BY <1>1 DEF Scheduled
<1>3. \A e \in due : e.type = "SOURCE_ARRIVAL" BY <1>1, EventKinds
<1>4. \A e \in Scheduled : e.type \in {"SOURCE_ARRIVAL", "CONTROLLER_TICK"} BY <1>2, EventKinds
<1>5. \A e \in Scheduled : e.type \notin LinkEvents /\ e.type \notin ServerEvents
                             /\ e.type \notin BrokerEvents
  BY <1>4 DEF LinkEvents, ServerEvents, BrokerEvents
<1>6. HeapTyped
  <2>1. \A e \in later : e \notin due /\ e.type \notin Untimed BY <1>1, <1>3, EventKinds DEF Untimed
  <2> QED BY <1>2, <2>1 DEF HeapTyped, Known
<1>7. QueuesTyped
  <2>1. \A f \in Routings : \A i \in Sources : f[i] \subseteq Brokers BY DEF Routings, MayRoute
  <2> QED BY <2>1 DEF Init, QueuesTyped
<1>8. OneEach BY <1>5 DEF OneEach, AtLink, AtServer
<1>9. IdleIsEmpty BY <1>5 DEF IdleIsEmpty, AtLink, AtServer, Init
<1>10. NoneBetween BY <1>3, <1>5 DEF NoneBetween, Scheduled
<1>11. OfItsSource
  <2>1. \A l \in Links : linkQueue[l] = << >> BY DEF Init
  <2>2. \A l \in Links : DOMAIN linkQueue[l] = {} BY <2>1
  <2> QED BY <1>3, <1>5, <2>2 DEF OfItsSource
<1> QED BY <1>6, <1>7, <1>8, <1>9, <1>10, <1>11 DEF SimInv

\* The handlers, by their events.
LEMMA StepIs ==
  ASSUME Next
  PROVE  \/ Advance \/ ControllerTick
         \/ \E i \in Sources : SourceArrival(i)
         \/ \E l, u : AccessStart(l, u) \/ AccessComplete(l, u)
         \/ \E j, u : BrokerArrival(j, u) \/ BrokerStart(j, u) \/ BrokerComplete(j, u)
BY DEF Next, Handle

\* Every event that is handled, and the clock, keep the invariant.
LEMMA SimStep ==
  ASSUME SimInv, [Next]_vars
  PROVE  SimInv'
<1>1. CASE UNCHANGED vars
  <2>1. UNCHANGED <<due, later, requests, linkQueue, linkBusy, brokerQueue, brokerBusy, completed, routes>>
    BY <1>1 DEF vars, heap, queues, plan
  <2> QED BY <2>1 DEF SimInv, HeapTyped, Known, Arrival, Tick, OnLink, AtBroker, Links, QueuesTyped,
                      OneEach, IdleIsEmpty, NoneBetween, OfItsSource, Scheduled, AtLink, AtServer
<1>2. CASE Next
  BY <1>2, StepIs, ClockKeeps, ArrivalKeeps, AccessStartKeeps, AccessCompleteKeeps, BrokerArrivalKeeps,
     BrokerStartKeeps, BrokerCompleteKeeps
<1> QED BY <1>1, <1>2

\* The invariant holds throughout a simulation.
LEMMA SimAlways == Spec => []SimInv
<1> QED BY SimInit, SimStep, PTL DEF Spec
-----------------------------------------------------------------------------
(***************************************************************************)
(* The tandem queues.                                                      *)
(***************************************************************************)

\* what the mapping to the tandem makes of the heap and the queues
Line(S, q) == SetToSeq(S) \o q
AccessLine(l) == Line(Serving(l), linkQueue[l])
Wire(l) == {u \in InTransfer(l[2]) : requests[u] = l[1]}
BrokerLine(j) == Line(ServingAt(j), brokerQueue[j])

\* A line of the unit in service and those that wait: a unit that joins it, and one
\* that leaves it.
LEMMA LineOf ==
  ASSUME NEW q \in Seq(Nat)
  PROVE  /\ Line({}, q) = q
         /\ \A u \in Nat : Line({u}, q) # << >> /\ Head(Line({u}, q)) = u /\ Tail(Line({u}, q)) = q
         /\ \A v \in Nat : Line({}, Append(q, v)) = Append(Line({}, q), v)
         /\ \A u, v \in Nat : Line({u}, Append(q, v)) = Append(Line({u}, q), v)
         /\ Line(First(q), IF q = << >> THEN q ELSE Tail(q)) = q
<1>1. ASSUME NEW p \in Seq(Nat) PROVE Line({}, p) = p BY SetToSeqOf DEF Line
<1>2. ASSUME NEW u \in Nat, NEW p \in Seq(Nat)
      PROVE  Line({u}, p) = <<u>> \o p
  BY SetToSeqOf DEF Line
<1>3. ASSUME NEW u \in Nat, NEW p \in Seq(Nat)
      PROVE  <<u>> \o p # << >> /\ Head(<<u>> \o p) = u /\ Tail(<<u>> \o p) = p
  OBVIOUS
<1>4. ASSUME NEW u \in Nat, NEW v \in Nat PROVE <<u>> \o Append(q, v) = Append(<<u>> \o q, v)
  OBVIOUS
<1>5. Line(First(q), IF q = << >> THEN q ELSE Tail(q)) = q
  <2>1. CASE q = << >> BY <1>1, <2>1, FirstOf
  <2>2. CASE q # << >>
    <3>1. First(q) = {Head(q)} /\ Head(q) \in Nat /\ Tail(q) \in Seq(Nat) BY <2>2, FirstOf
    <3>2. <<Head(q)>> \o Tail(q) = q BY <2>2
    <3> QED BY <1>2, <2>2, <3>1, <3>2
  <2> QED BY <2>1, <2>2
<1>6. \A v \in Nat : Append(q, v) \in Seq(Nat) OBVIOUS
<1>7. \A v \in Nat : Line({}, Append(q, v)) = Append(Line({}, q), v) BY <1>1, <1>6
<1>8. ASSUME NEW u \in Nat
      PROVE  /\ Line({u}, q) # << >> /\ Head(Line({u}, q)) = u /\ Tail(Line({u}, q)) = q
             /\ \A v \in Nat : Line({u}, Append(q, v)) = Append(Line({u}, q), v)
  <2>1. Line({u}, q) = <<u>> \o q BY <1>2
  <2>2. ASSUME NEW v \in Nat PROVE Line({u}, Append(q, v)) = Append(Line({u}, q), v)
    <3>1. Line({u}, Append(q, v)) = <<u>> \o Append(q, v) BY <1>2, <1>6
    <3>2. <<u>> \o Append(q, v) = Append(<<u>> \o q, v) BY <1>4
    <3> QED BY <2>1, <3>1, <3>2
  <2>3. <<u>> \o q # << >> /\ Head(<<u>> \o q) = u /\ Tail(<<u>> \o q) = q BY <1>3
  <2> HIDE DEF Line
  <2> QED BY <2>1, <2>2, <2>3, Zenon
<1> QED BY <1>1, <1>5, <1>7, <1>8

\* A link and a broker have at most one unit in service.
LEMMA ServesOne ==
  ASSUME SimInv
  PROVE  /\ \A l \in Links : Serving(l) = {} \/ \E u \in Nat : Serving(l) = {u}
         /\ \A j \in Brokers : ServingAt(j) = {} \/ \E u \in Nat : ServingAt(j) = {u}
<1>1. ASSUME NEW l \in Links PROVE Serving(l) = {} \/ \E u \in Nat : Serving(l) = {u}
  <2>1. CASE \E f \in Scheduled : AtLink(f, l)
    <3>1. PICK f \in Scheduled : AtLink(f, l) BY <2>1
    <3>2. f.unit \in Nat BY <3>1, EventIs DEF SimInv, HeapTyped, AtLink
    <3>3. \A v : v \in Serving(l) <=> v = f.unit BY <3>1, UnitsOf DEF SimInv, OneEach
    <3> QED BY <3>2, <3>3
  <2>2. CASE ~\E f \in Scheduled : AtLink(f, l)
    <3>1. \A v : v \notin Serving(l) BY <2>2, UnitsOf
    <3> QED BY <3>1
  <2> QED BY <2>1, <2>2
<1>2. ASSUME NEW j \in Brokers PROVE ServingAt(j) = {} \/ \E u \in Nat : ServingAt(j) = {u}
  <2>1. CASE \E f \in Scheduled : AtServer(f, j)
    <3>1. PICK f \in Scheduled : AtServer(f, j) BY <2>1
    <3>2. f.unit \in Nat BY <3>1, EventIs DEF SimInv, HeapTyped, AtServer, ServerEvents, BrokerEvents
    <3>3. \A v : v \in ServingAt(j) <=> v = f.unit BY <3>1, UnitsOf DEF SimInv, OneEach
    <3> QED BY <3>2, <3>3
  <2>2. CASE ~\E f \in Scheduled : AtServer(f, j)
    <3>1. \A v : v \notin ServingAt(j) BY <2>2, UnitsOf
    <3> QED BY <3>1
  <2> QED BY <2>1, <2>2
<1> QED BY <1>1, <1>2

\* The steps between a start and its event, the tick and the clock: nothing moves.
LEMMA Stutters ==
  ASSUME LinksKept, BrokersKept, TransfersKept,
         UNCHANGED <<requests, linkQueue, brokerQueue, completed>>
  PROVE  UNCHANGED T!vars
<1>1. [l \in Links |-> SetToSeq(Serving(l)) \o linkQueue[l]]'
        = [l \in Links |-> SetToSeq(Serving(l)) \o linkQueue[l]]
  BY DEF LinksKept, Links
<1>2. [j \in Brokers |-> SetToSeq(ServingAt(j)) \o brokerQueue[j]]'
        = [j \in Brokers |-> SetToSeq(ServingAt(j)) \o brokerQueue[j]]
  BY DEF BrokersKept
<1>3. [l \in Links |-> SetToSeq({u \in InTransfer(l[2]) : requests[u] = l[1]})]'
        = [l \in Links |-> SetToSeq({u \in InTransfer(l[2]) : requests[u] = l[1]})]
  <2>1. \A l \in Links : l[2] \in Brokers BY DEF Links
  <2>2. \A l \in Links : InTransfer(l[2])' = InTransfer(l[2]) BY <2>1 DEF TransfersKept
  <2> QED BY <2>2 DEF Links
<1> QED BY <1>1, <1>2, <1>3 DEF T!vars

\* The lines, as functions: what a step makes of them, pointwise.
LEMMA Mapped ==
  /\ UNCHANGED requests /\ TransfersKept =>
       [l \in Links |-> SetToSeq({u \in InTransfer(l[2]) : requests[u] = l[1]})]'
         = [l \in Links |-> SetToSeq({u \in InTransfer(l[2]) : requests[u] = l[1]})]
  /\ BrokersKept /\ UNCHANGED brokerQueue =>
       [j \in Brokers |-> SetToSeq(ServingAt(j)) \o brokerQueue[j]]'
         = [j \in Brokers |-> SetToSeq(ServingAt(j)) \o brokerQueue[j]]
  /\ LinksKept /\ UNCHANGED linkQueue =>
       [l \in Links |-> SetToSeq(Serving(l)) \o linkQueue[l]]'
         = [l \in Links |-> SetToSeq(Serving(l)) \o linkQueue[l]]
<1>1. ASSUME UNCHANGED requests, TransfersKept
      PROVE  [l \in Links |-> SetToSeq({u \in InTransfer(l[2]) : requests[u] = l[1]})]'
               = [l \in Links |-> SetToSeq({u \in InTransfer(l[2]) : requests[u] = l[1]})]
  <2>1. \A l \in Links : l[2] \in Brokers BY DEF Links
  <2>2. \A l \in Links : InTransfer(l[2])' = InTransfer(l[2]) BY <1>1, <2>1 DEF TransfersKept
  <2> QED BY <1>1, <2>2 DEF Links
<1> QED BY <1>1 DEF BrokersKept, LinksKept, Links

\* A source's unit joins the line of its link.
LEMMA LinkJoined ==
  ASSUME SimInv, NEW i \in Sources, NEW l, NEW u, NEW start, NEW now, Arrives(i, l, u, start, now)
  PROVE  /\ \A k \in Links \ {l} : Serving(k)' = Serving(k) /\ linkQueue'[k] = linkQueue[k]
         /\ Line(Serving(l)', linkQueue'[l]) = Append(Line(Serving(l), linkQueue[l]), u)
<1> USE DEF SimInv
<1>1. l \in Links /\ u = Len(requests) + 1 /\ u \in Nat /\ requests \in Seq(Sources)
  BY DEF Arrives, QueuesTyped
<1>2. AtLink(start, l) /\ start.unit = u /\ \A k \in Links \ {l} : ~AtLink(start, k)
  BY EventKinds DEF Arrives, AtLink, LinkEvents
<1>3. Scheduled' = Scheduled \cup now /\ now = IF linkBusy[l] THEN {} ELSE {start}
  BY DEF Arrives
<1>4. \A k \in Links \ {l} : Serving(k)' = Serving(k) /\ linkQueue'[k] = linkQueue[k]
  <2>1. \A k \in Links \ {l} : \A v : v \in Serving(k)' <=> v \in Serving(k) BY <1>2, <1>3, UnitsOf
  <2>2. \A k \in Links \ {l} : linkQueue'[k] = linkQueue[k] BY DEF Arrives, QueuesTyped
  <2> QED BY <2>1, <2>2
<1>5. Line(Serving(l)', linkQueue'[l]) = Append(Line(Serving(l), linkQueue[l]), u)
  <2>1. linkQueue[l] \in Seq(Nat) /\ linkQueue'[l] = Waits(linkBusy[l], linkQueue[l], u)
    BY <1>1 DEF Arrives, QueuesTyped
  <2>2. CASE linkBusy[l]
    <3>1. \A v : v \in Serving(l)' <=> v \in Serving(l) BY <1>3, <2>2, UnitsOf
    <3>2. Serving(l)' = Serving(l) BY <3>1
    <3>3. linkQueue'[l] = Append(linkQueue[l], u) BY <2>1, <2>2 DEF Waits
    <3>4. Serving(l) = {} \/ \E v \in Nat : Serving(l) = {v} BY <1>1, ServesOne
    <3>5. \A v \in Nat : Line({v}, Append(linkQueue[l], u)) = Append(Line({v}, linkQueue[l]), u)
      BY ZenonT(40), <1>1, <2>1, LineOf
    <3>6. Line({}, Append(linkQueue[l], u)) = Append(Line({}, linkQueue[l]), u) BY <1>1, <2>1, LineOf
    <3> QED BY <3>2, <3>3, <3>4, <3>5, <3>6
  <2>3. CASE ~linkBusy[l]
    <3>1. \A f \in Scheduled : ~AtLink(f, l) BY <2>3 DEF Arrives
    <3>2. \A v : v \notin Serving(l) BY <3>1, UnitsOf
    <3>3. \A v : v \in Serving(l)' <=> v = u BY <1>2, <1>3, <2>3, <3>1, UnitsOf
    <3>4. Serving(l) = {} /\ Serving(l)' = {u} BY <3>2, <3>3
    <3>5. linkQueue[l] = << >> /\ linkQueue'[l] = << >> BY <1>1, <2>1, <2>3 DEF IdleIsEmpty, Waits
    <3>6. Line({}, << >>) = << >> \o << >> /\ Line({u}, << >>) = <<u>> \o << >> BY SetToSeqOf DEF Line
    <3>7. << >> \o << >> = << >> /\ <<u>> \o << >> = <<u>> /\ Append(<< >>, u) = <<u>> BY <1>1
    <3> QED BY <3>4, <3>5, <3>6, <3>7
  <2> QED BY <2>2, <2>3
<1> QED BY <1>4, <1>5

\* A source generates a unit.
LEMMA Generates ==
  ASSUME SimInv, NEW i \in Sources, SourceArrival(i)
  PROVE  T!Next
<1> USE DEF SimInv
<1>1. PICK l, u, start, now : Arrives(i, l, u, start, now) BY ArrivalHeap
<1>2. l \in Links /\ u = Len(requests) + 1 /\ u \in Nat /\ requests' = Append(requests, i)
      /\ requests \in Seq(Sources)
  BY <1>1 DEF Arrives, QueuesTyped
<1>3. Len(requests)' = u BY <1>2
<1>4. BrokersKept /\ TransfersKept /\ UNCHANGED <<brokerQueue, completed>>
  BY <1>1, ArrivalKeeps DEF Arrives
<1>5. /\ \A k \in Links \ {l} : Serving(k)' = Serving(k) /\ linkQueue'[k] = linkQueue[k]
      /\ Line(Serving(l)', linkQueue'[l]) = Append(Line(Serving(l), linkQueue[l]), u)
  BY <1>1, LinkJoined
<1>6. [k \in Links |-> SetToSeq(Serving(k)) \o linkQueue[k]]'
        = [[k \in Links |-> SetToSeq(Serving(k)) \o linkQueue[k]] EXCEPT ![l] = Append(@, Len(requests)')]
  BY <1>2, <1>3, <1>5 DEF Line, Links
\* a unit on its way was generated before
<1>7. [k \in Links |-> SetToSeq({v \in InTransfer(k[2]) : requests[v] = k[1]})]'
        = [k \in Links |-> SetToSeq({v \in InTransfer(k[2]) : requests[v] = k[1]})]
  <2>1. \A k \in Links : k[2] \in Brokers BY DEF Links
  <2>2. \A k \in Links : InTransfer(k[2])' = InTransfer(k[2]) BY <1>4, <2>1 DEF TransfersKept
  <2>3. \A j \in Brokers : \A v \in InTransfer(j) : v \in DOMAIN requests BY UnitsOf DEF OfItsSource
  <2>4. \A v \in DOMAIN requests : requests'[v] = requests[v] BY <1>2
  <2>5. ASSUME NEW k \in Links
        PROVE  {v \in InTransfer(k[2])' : requests'[v] = k[1]} = {v \in InTransfer(k[2]) : requests[v] = k[1]}
    BY <2>1, <2>2, <2>3, <2>4
  <2> QED BY <2>5 DEF Links
<1>8. T!Generate(l) BY <1>2, <1>3, <1>4, <1>6, <1>7, Mapped DEF T!Generate
<1> QED BY <1>2, <1>8 DEF T!Next

\* The access server completes the unit it serves.
LEMMA Leaves ==
  ASSUME SimInv, NEW l, NEW u, AccessComplete(l, u)
  PROVE  T!Next
<1>1. /\ l \in Links /\ Serving(l) = {u} /\ u \in Nat /\ requests[u] = l[1]
      /\ Serving(l)' = First(linkQueue[l])
      /\ \A k \in Links \ {l} : Serving(k)' = Serving(k)
      /\ BrokersKept
      /\ \A k \in Brokers : InTransfer(k) = {} /\ InTransfer(k)' = IF k = l[2] THEN {u} ELSE {}
  BY AccessCompleteKeeps
<1>2. /\ linkQueue' = [linkQueue EXCEPT ![l] = IF @ = << >> THEN @ ELSE Tail(@)]
      /\ UNCHANGED <<requests, brokerQueue, completed>>
  BY DEF AccessComplete
<1>3. linkQueue \in [Links -> Seq(Nat)] BY DEF SimInv, QueuesTyped
<1> DEFINE q == linkQueue[l]
<1>4. q \in Seq(Nat) BY <1>1, <1>3
<1>5. Line({u}, q) # << >> /\ Head(Line({u}, q)) = u /\ Tail(Line({u}, q)) = q BY <1>1, <1>4, LineOf
<1>6. Line(Serving(l)', linkQueue'[l]) = q
  <2>1. linkQueue'[l] = IF q = << >> THEN q ELSE Tail(q) BY <1>1, <1>2, <1>3
  <2> QED BY <1>1, <1>4, <2>1, LineOf
<1>7. \A k \in Links \ {l} : linkQueue'[k] = linkQueue[k] BY <1>2, <1>3
<1> DEFINE lines == [k \in Links |-> SetToSeq(Serving(k)) \o linkQueue[k]]
           wires == [k \in Links |-> SetToSeq({v \in InTransfer(k[2]) : requests[v] = k[1]})]
<1>8. lines[l] = Line({u}, q) BY <1>1 DEF Line
<1>9. lines' = [lines EXCEPT ![l] = Tail(@)]
  BY ZenonT(40), <1>1, <1>5, <1>6, <1>7, <1>8 DEF Line, Links
<1>10. wires' = [wires EXCEPT ![l] = Append(@, u)]
  <2>1. \A k \in Links : k[2] \in Brokers /\ (k[1] = l[1] /\ k[2] = l[2] => k = l) BY <1>1 DEF Links
  <2>2. \A k \in Links : {v \in InTransfer(k[2]) : requests[v] = k[1]} = {} BY <1>1, <2>1
  <2>3. \A k \in Links \ {l} : {v \in InTransfer(k[2])' : requests'[v] = k[1]} = {} BY <1>1, <1>2, <2>1
  <2>4. {v \in InTransfer(l[2])' : requests'[v] = l[1]} = {u} BY <1>1, <1>2, <2>1
  <2>5. SetToSeq({}) = << >> /\ SetToSeq({u}) = <<u>> BY SetToSeqOf
  <2>6. wires[l] = << >> /\ \A k \in Links : wires[k] = << >> BY <1>1, <2>2, <2>5
  <2>7. SetToSeq({v \in InTransfer(l[2])' : requests'[v] = l[1]}) = Append(wires[l], u)
    <3>1. Append(<< >>, u) = <<u>> BY <1>1
    <3> QED BY <2>4, <2>5, <2>6, <3>1
  <2>8. \A k \in Links \ {l} : SetToSeq({v \in InTransfer(k[2])' : requests'[v] = k[1]}) = wires[k]
    BY <2>3, <2>5, <2>6
  <2>9. wires' = [k \in Links |-> SetToSeq({v \in InTransfer(k[2])' : requests'[v] = k[1]})] BY DEF Links
  <2>10. wires = [k \in Links |-> wires[k]] OBVIOUS
  <2> HIDE DEF wires
  <2>11. wires' = [k \in Links |-> IF k = l THEN Append(wires[l], u) ELSE wires[k]]
    BY <2>7, <2>8, <2>9
  <2>12. [wires EXCEPT ![l] = Append(@, u)]
          = [k \in Links |-> IF k = l THEN Append(wires[l], u) ELSE wires[k]]
    BY <2>10
  <2> QED BY <2>11, <2>12
<1>11. T!LeaveLink(l) BY <1>1, <1>2, <1>5, <1>8, <1>9, <1>10, Mapped DEF T!LeaveLink
<1> QED BY <1>1, <1>11 DEF T!Next

\* The unit on its way joins the line of its broker.
LEMMA BrokerJoined ==
  ASSUME SimInv, NEW j, NEW u, BrokerArrival(j, u)
  PROVE  /\ \A k \in Brokers \ {j} : ServingAt(k)' = ServingAt(k) /\ brokerQueue'[k] = brokerQueue[k]
         /\ Line(ServingAt(j)', brokerQueue'[j]) = Append(Line(ServingAt(j), brokerQueue[j]), u)
<1> DEFINE q == brokerQueue[j]
<1>1. /\ j \in Brokers /\ u \in Nat
      /\ \A k \in Brokers : ServingAt(k)' = IF k = j /\ ~brokerBusy[j] THEN {u} ELSE ServingAt(k)
      /\ ~brokerBusy[j] => ServingAt(j) = {} /\ q = << >>
  BY BrokerArrivalKeeps
<1>2. brokerQueue' = [brokerQueue EXCEPT ![j] = Waits(brokerBusy[j], @, u)] BY DEF BrokerArrival
<1>3. brokerQueue \in [Brokers -> Seq(Nat)] BY DEF SimInv, QueuesTyped
<1>4. \A k \in Brokers \ {j} : ServingAt(k)' = ServingAt(k) /\ brokerQueue'[k] = brokerQueue[k]
  BY <1>1, <1>2, <1>3
<1>5. Line(ServingAt(j)', brokerQueue'[j]) = Append(Line(ServingAt(j), q), u)
  <2>1. q \in Seq(Nat) /\ brokerQueue'[j] = Waits(brokerBusy[j], q, u) BY <1>1, <1>2, <1>3
  <2>2. CASE brokerBusy[j]
    <3>1. ServingAt(j)' = ServingAt(j) /\ brokerQueue'[j] = Append(q, u) BY <1>1, <2>1, <2>2 DEF Waits
    <3>2. ServingAt(j) = {} \/ \E v \in Nat : ServingAt(j) = {v} BY <1>1, ServesOne
    <3>3. \A v \in Nat : Line({v}, Append(q, u)) = Append(Line({v}, q), u)
      <4>1. u \in Nat /\ q \in Seq(Nat) BY <1>1, <2>1
      <4> HIDE DEF q
      <4> QED BY <4>1, LineOf
    <3>4. Line({}, Append(q, u)) = Append(Line({}, q), u) BY <1>1, <2>1, LineOf
    <3> QED BY <3>1, <3>2, <3>3, <3>4
  <2>3. CASE ~brokerBusy[j]
    <3>1. ServingAt(j) = {} /\ ServingAt(j)' = {u} /\ q = << >> /\ brokerQueue'[j] = << >>
      BY <1>1, <2>1, <2>3 DEF Waits
    <3>2. Line({}, << >>) = << >> \o << >> /\ Line({u}, << >>) = <<u>> \o << >> BY SetToSeqOf DEF Line
    <3>3. << >> \o << >> = << >> /\ <<u>> \o << >> = <<u>> /\ Append(<< >>, u) = <<u>> BY <1>1
    <3> QED BY <3>1, <3>2, <3>3
  <2> QED BY <2>2, <2>3
<1> QED BY <1>4, <1>5

\* The unit on its way reaches its broker.
LEMMA Delivers ==
  ASSUME SimInv, NEW j, NEW u, BrokerArrival(j, u)
  PROVE  T!Next
<1>0. PICK i \in Sources : i = requests[u]
  <2>1. <<requests[u], j>> \in Links BY BrokerArrivalKeeps
  <2> QED BY <2>1 DEF Links
<1> DEFINE l == <<i, j>>
           q == brokerQueue[j]
<1>1. /\ j \in Brokers /\ u \in Nat /\ l \in Links
      /\ \A k \in Brokers : InTransfer(k) = (IF k = j THEN {u} ELSE {}) /\ InTransfer(k)' = {}
      /\ LinksKept
  BY <1>0, BrokerArrivalKeeps
<1>2. /\ brokerQueue' = [brokerQueue EXCEPT ![j] = Waits(brokerBusy[j], @, u)]
      /\ UNCHANGED <<requests, linkQueue, completed>>
  BY DEF BrokerArrival
<1>3. brokerQueue \in [Brokers -> Seq(Nat)] BY DEF SimInv, QueuesTyped
<1>4. l[1] = requests[u] /\ l[2] = j BY <1>0
<1>5. /\ \A k \in Brokers \ {j} : ServingAt(k)' = ServingAt(k) /\ brokerQueue'[k] = brokerQueue[k]
      /\ Line(ServingAt(j)', brokerQueue'[j]) = Append(Line(ServingAt(j), q), u)
  BY BrokerJoined
<1> DEFINE lines == [k \in Brokers |-> SetToSeq(ServingAt(k)) \o brokerQueue[k]]
           wires == [k \in Links |-> SetToSeq({v \in InTransfer(k[2]) : requests[v] = k[1]})]
<1>6. wires[l] = <<u>> /\ \A k \in Links \ {l} : wires[k] = << >>
  <2>1. \A k \in Links : k[2] \in Brokers /\ (k[1] = l[1] /\ k[2] = l[2] => k = l) BY <1>1 DEF Links
  <2>2. {v \in InTransfer(l[2]) : requests[v] = l[1]} = {u} BY <1>1, <1>4
  <2>3. \A k \in Links \ {l} : {v \in InTransfer(k[2]) : requests[v] = k[1]} = {} BY <1>1, <1>4, <2>1
  <2>4. SetToSeq({}) = << >> /\ SetToSeq({u}) = <<u>> BY SetToSeqOf
  <2> QED BY <1>1, <2>2, <2>3, <2>4
<1>7. wires' = [k \in Links |-> << >>]
  <2>1. \A k \in Links : k[2] \in Brokers BY DEF Links
  <2>2. \A k \in Links : {v \in InTransfer(k[2])' : requests'[v] = k[1]} = {} BY <1>1, <2>1
  <2>3. wires' = [k \in Links |-> SetToSeq({v \in InTransfer(k[2])' : requests'[v] = k[1]})] BY DEF Links
  <2>4. SetToSeq({}) = << >> BY SetToSeqOf
  <2> HIDE DEF wires
  <2> QED BY <2>2, <2>3, <2>4
<1>8. lines' = [lines EXCEPT ![j] = Append(@, u)] BY <1>1, <1>5 DEF Line
<1>9. T!Deliver(l)
  <2>1. wires[l] # << >> /\ Head(wires[l]) = u /\ Tail(wires[l]) = << >>
    <3>1. <<u>> # << >> /\ Head(<<u>>) = u /\ Tail(<<u>>) = << >> OBVIOUS
    <3>2. wires[l] = <<u>> BY <1>6
    <3> HIDE DEF wires, l
    <3> QED BY <3>1, <3>2
  <2>2. wires' = [wires EXCEPT ![l] = Tail(@)]
    <3>1. wires = [k \in Links |-> wires[k]] OBVIOUS
    <3> HIDE DEF wires, l
    <3> QED BY <1>1, <1>6, <1>7, <2>1, <3>1
  <2>3. lines' = [lines EXCEPT ![l[2]] = Append(@, Head(wires[l]))] BY <1>4, <1>8, <2>1
  <2> HIDE DEF l
  <2> QED BY <1>1, <1>2, <2>1, <2>2, <2>3, Mapped DEF T!Deliver
<1> QED BY <1>1, <1>9 DEF T!Next

\* The broker completes the unit it serves.
LEMMA Completes ==
  ASSUME SimInv, NEW j, NEW u, BrokerComplete(j, u)
  PROVE  T!Next
<1> DEFINE q == brokerQueue[j]
<1>1. /\ j \in Brokers /\ u \in Nat /\ ServingAt(j) = {u}
      /\ ServingAt(j)' = First(q)
      /\ \A k \in Brokers \ {j} : ServingAt(k)' = ServingAt(k)
      /\ LinksKept /\ TransfersKept
  BY BrokerCompleteKeeps
<1>2. /\ brokerQueue' = [brokerQueue EXCEPT ![j] = IF @ = << >> THEN @ ELSE Tail(@)]
      /\ completed' = Append(completed, u)
      /\ UNCHANGED <<requests, linkQueue>>
  BY DEF BrokerComplete
<1>3. brokerQueue \in [Brokers -> Seq(Nat)] BY DEF SimInv, QueuesTyped
<1>4. q \in Seq(Nat) BY <1>1, <1>3
<1>5. Line({u}, q) # << >> /\ Head(Line({u}, q)) = u /\ Tail(Line({u}, q)) = q BY <1>1, <1>4, LineOf
<1>6. Line(ServingAt(j)', brokerQueue'[j]) = q
  <2>1. brokerQueue'[j] = IF q = << >> THEN q ELSE Tail(q) BY <1>1, <1>2, <1>3
  <2> QED BY <1>1, <1>4, <2>1, LineOf
<1>7. \A k \in Brokers \ {j} : brokerQueue'[k] = brokerQueue[k] BY <1>2, <1>3
<1> DEFINE lines == [k \in Brokers |-> SetToSeq(ServingAt(k)) \o brokerQueue[k]]
<1>8. lines[j] = Line({u}, q) BY <1>1 DEF Line
<1>9. lines' = [lines EXCEPT ![j] = Tail(@)] BY <1>1, <1>5, <1>6, <1>7, <1>8 DEF Line
<1>10. T!Complete(j) BY <1>1, <1>2, <1>5, <1>8, <1>9, Mapped DEF T!Complete
<1> QED BY <1>1, <1>10 DEF T!Next

\* The first state: no unit anywhere.
LEMMA TandemInit == Init => T!Init
<1> SUFFICES ASSUME Init PROVE T!Init OBVIOUS
<1>1. \A e \in Scheduled : e.type \in {"SOURCE_ARRIVAL", "CONTROLLER_TICK"}
  BY EventKinds DEF Init, Scheduled
<1>2. /\ \A l : Serving(l) = {}
      /\ \A j : ServingAt(j) = {} /\ InTransfer(j) = {}
  <2>1. \A l, u : u \notin Serving(l) BY <1>1, UnitsOf DEF AtLink, LinkEvents
  <2>2. \A j, u : u \notin ServingAt(j) BY <1>1, UnitsOf DEF AtServer, ServerEvents
  <2>3. \A j, u : u \notin InTransfer(j) BY <1>1, UnitsOf DEF Scheduled
  <2> QED BY <2>1, <2>2, <2>3
<1>3. << >> \o << >> = << >> OBVIOUS
<1>4. SetToSeq({}) = << >> BY SetToSeqOf
<1>5. [l \in Links |-> SetToSeq(Serving(l)) \o linkQueue[l]] = [l \in Links |-> << >>]
  BY <1>2, <1>3, <1>4 DEF Init
<1>6. [j \in Brokers |-> SetToSeq(ServingAt(j)) \o brokerQueue[j]] = [j \in Brokers |-> << >>]
  BY <1>2, <1>3, <1>4 DEF Init
<1>7. [l \in Links |-> SetToSeq({u \in InTransfer(l[2]) : requests[u] = l[1]})] = [l \in Links |-> << >>]
  <2>1. \A l \in Links : {u \in InTransfer(l[2]) : requests[u] = l[1]} = {} BY <1>2
  <2> QED BY <1>4, <2>1
<1>8. Len(requests) = 0 /\ completed = << >> BY DEF Init
<1> QED BY <1>5, <1>6, <1>7, <1>8 DEF T!Init

\* Every step of the simulation is a step of the tandem, or none.
LEMMA TandemStep ==
  ASSUME SimInv, [Next]_vars
  PROVE  [T!Next]_T!vars
<1>1. CASE UNCHANGED vars
  <2>1. LinksKept /\ BrokersKept /\ TransfersKept
    BY <1>1 DEF vars, heap, LinksKept, BrokersKept, TransfersKept, Serving, ServingAt, InTransfer
  <2> QED BY <1>1, <2>1, Stutters DEF vars, queues
<1>2. CASE Advance \/ ControllerTick
  BY <1>2, ClockKeeps, Stutters DEF Advance, ControllerTick, queues
<1>3. CASE \E l, u : AccessStart(l, u) BY <1>3, AccessStartKeeps, Stutters DEF AccessStart
<1>4. CASE \E j, u : BrokerStart(j, u) BY <1>4, BrokerStartKeeps, Stutters DEF BrokerStart
<1> QED BY <1>1, <1>2, <1>3, <1>4, StepIs, Generates, Leaves, Delivers, Completes

\* The event loop and its handlers make up the tandem queues (property IsTandem): one
\* server per link and broker, first in first out, no unit lost, repeated or overtaken,
\* however events due at the same moment are ordered and whatever the splits.
THEOREM SimulationIsTandem == Spec => IsTandem
<1> QED BY SimAlways, TandemInit, TandemStep, PTL DEF Spec, IsTandem, T!Spec

-----------------------------------------------------------------------------
(***************************************************************************)
(* The windows.                                                            *)
(*                                                                         *)
(* A record of the telemetry is taken at a tick, alone on the heap, and    *)
(* says what a window of the notebook did only if the counters, the        *)
(* queues, the busy servers and the units on their way fit together: what  *)
(* a link was to serve and does not hold has reached its broker, what a    *)
(* broker was to serve and does not hold was completed (Accounted).        *)
(***************************************************************************)

\* the units at a link and at a broker, in service or waiting
AtAccess(l) == Len(AccessLine(l))
AtBrokers(j) == Len(BrokerLine(j))

\* the units served in this window: those of the last record and of the window's
\* arrivals that are gone
LinkServed == [l \in Links |-> Shown.queueAccess[l] + windowAccess[l] - AtAccess(l)]
BrokerServed == [j \in Brokers |-> Shown.queueBroker[j] + windowArrivals[j] - AtBrokers(j)]

\* how many units are between a link and the broker
OnItsWay(j) == IF InTransfer(j) = {} THEN 0 ELSE 1

CountsTyped ==
  /\ windowAccess \in [Links -> Nat] /\ windowArrivals \in [Brokers -> Nat]
  /\ windowLatencies \in Nat
  /\ records \in Seq(Record)

\* a busy server has a unit
BusyServes ==
  /\ \A l \in Links : linkBusy[l] => Serving(l) # {}
  /\ \A j \in Brokers : brokerBusy[j] => ServingAt(j) # {}

\* the window's units went where the split of the window gives flow
Routed ==
  /\ routes \in Routings
  /\ \A l \in Links : windowAccess[l] > 0 => l[2] \in routes[l[1]] \/ routes[l[1]] = {}

Accounted ==
  /\ \A l \in Links : LinkServed[l] \in Nat
  /\ \A j \in Brokers : BrokerServed[j] \in Nat
  /\ \A j \in Brokers :
       SumFunctionOnSet(LinkServed, Sources \X {j}) = windowArrivals[j] + OnItsWay(j)
  /\ SumFunctionOnSet(BrokerServed, Brokers) = windowLatencies
  /\ Len(completed) = Shown.completedTotal + windowLatencies

WindowInv == CountsTyped /\ BusyServes /\ Routed /\ Accounted

\* The units of a line, with and without one in service.
LEMMA LevelsAre ==
  ASSUME SimInv
  PROVE  /\ \A l \in Links :
              /\ AccessLine(l) \in Seq(Nat) /\ AtAccess(l) \in Nat
              /\ AtAccess(l) = Len(linkQueue[l]) + IF Serving(l) = {} THEN 0 ELSE 1
         /\ \A j \in Brokers :
              /\ BrokerLine(j) \in Seq(Nat) /\ AtBrokers(j) \in Nat
              /\ AtBrokers(j) = Len(brokerQueue[j]) + IF ServingAt(j) = {} THEN 0 ELSE 1
<1>1. ASSUME NEW q \in Seq(Nat), NEW S, S = {} \/ \E u \in Nat : S = {u}
      PROVE  /\ Line(S, q) \in Seq(Nat) /\ Len(Line(S, q)) \in Nat
             /\ Len(Line(S, q)) = Len(q) + IF S = {} THEN 0 ELSE 1
  <2>1. CASE S = {}
    <3>1. Line(S, q) = q BY <2>1, LineOf
    <3> QED BY <2>1, <3>1
  <2>2. CASE \E u \in Nat : S = {u}
    <3>1. PICK u \in Nat : S = {u} BY <2>2
    <3>2. Line(S, q) = <<u>> \o q BY <3>1, SetToSeqOf DEF Line
    <3>3. <<u>> \o q \in Seq(Nat) /\ Len(<<u>> \o q) = Len(q) + 1 /\ Len(q) \in Nat OBVIOUS
    <3>4. S # {} BY <3>1
    <3> QED BY <3>2, <3>3, <3>4
  <2> QED BY <1>1, <2>1, <2>2
<1>2. linkQueue \in [Links -> Seq(Nat)] /\ brokerQueue \in [Brokers -> Seq(Nat)]
  BY DEF SimInv, QueuesTyped
<1>3. ASSUME NEW l \in Links
      PROVE  /\ AccessLine(l) \in Seq(Nat) /\ AtAccess(l) \in Nat
             /\ AtAccess(l) = Len(linkQueue[l]) + IF Serving(l) = {} THEN 0 ELSE 1
  <2>1. Serving(l) = {} \/ \E u \in Nat : Serving(l) = {u} BY ServesOne
  <2>2. linkQueue[l] \in Seq(Nat) BY <1>2
  <2> QED BY <1>1, <2>1, <2>2 DEF AtAccess, AccessLine
<1>4. ASSUME NEW j \in Brokers
      PROVE  /\ BrokerLine(j) \in Seq(Nat) /\ AtBrokers(j) \in Nat
             /\ AtBrokers(j) = Len(brokerQueue[j]) + IF ServingAt(j) = {} THEN 0 ELSE 1
  <2>1. ServingAt(j) = {} \/ \E u \in Nat : ServingAt(j) = {u} BY ServesOne
  <2>2. brokerQueue[j] \in Seq(Nat) BY <1>2
  <2> QED BY <1>1, <2>1, <2>2 DEF AtBrokers, BrokerLine
<1> QED BY <1>3, <1>4

\* The last record is a record.
LEMMA ShownTyped ==
  ASSUME CountsTyped
  PROVE  /\ Shown.queueAccess \in [Links -> Nat] /\ Shown.queueBroker \in [Brokers -> Nat]
         /\ Shown.completedTotal \in Nat
<1>1. Shown \in Record
  <2>1. CASE records = << >> BY <2>1 DEF Shown, Record
  <2>2. CASE records # << >>
    <3>1. records[Len(records)] \in Record BY <2>2 DEF CountsTyped
    <3> QED BY <2>2, <3>1 DEF Shown
  <2> QED BY <2>1, <2>2
<1> HIDE DEF Shown
<1> QED BY <1>1 DEF Record

\* What a step that leaves a side of the network alone leaves of its counts.
LEMMA SidesKept ==
  ASSUME UNCHANGED records
  PROVE  /\ Shown' = Shown
         /\ LinksKept /\ UNCHANGED <<linkQueue, windowAccess>> => LinkServed' = LinkServed
         /\ BrokersKept /\ UNCHANGED <<brokerQueue, windowArrivals>> => BrokerServed' = BrokerServed
         /\ TransfersKept => \A j \in Brokers : OnItsWay(j)' = OnItsWay(j)
<1>1. Shown' = Shown BY DEF Shown
<1>2. ASSUME LinksKept, UNCHANGED <<linkQueue, windowAccess>> PROVE LinkServed' = LinkServed
  <2>1. \A l \in Links : AtAccess(l)' = AtAccess(l) BY <1>2 DEF AtAccess, AccessLine, LinksKept
  <2> HIDE DEF Shown
  <2> QED BY <1>1, <1>2, <2>1 DEF LinkServed, Links
<1>3. ASSUME BrokersKept, UNCHANGED <<brokerQueue, windowArrivals>> PROVE BrokerServed' = BrokerServed
  <2>1. \A j \in Brokers : AtBrokers(j)' = AtBrokers(j) BY <1>3 DEF AtBrokers, BrokerLine, BrokersKept
  <2> HIDE DEF Shown
  <2> QED BY <1>1, <1>3, <2>1 DEF BrokerServed
<1>4. ASSUME TransfersKept PROVE \A j \in Brokers : OnItsWay(j)' = OnItsWay(j)
  BY <1>4 DEF TransfersKept, OnItsWay
<1> QED BY <1>1, <1>2, <1>3, <1>4

\* The links to a broker.
LEMMA LinksTo ==
  ASSUME NEW j \in Brokers
  PROVE  /\ IsFiniteSet(Sources \X {j}) /\ Sources \X {j} \subseteq Links
         /\ \A l \in Links : l \in Sources \X {j} <=> l[2] = j
<1>1. IsFiniteSet(Sources \X {j}) BY ConstantsTyped, FS_Singleton, FS_Product
<1> QED BY <1>1 DEF Links

\* A step that moves no unit keeps the account.
LEMMA MovesNone ==
  ASSUME WindowInv, LinksKept, BrokersKept, TransfersKept,
         UNCHANGED <<linkQueue, brokerQueue, completed, routes, window, records>>
  PROVE  CountsTyped' /\ Routed' /\ Accounted'
<1>1. UNCHANGED <<windowAccess, windowArrivals, windowLatencies>> BY DEF window
<1>2. /\ Shown' = Shown /\ LinkServed' = LinkServed /\ BrokerServed' = BrokerServed
      /\ \A j \in Brokers : OnItsWay(j)' = OnItsWay(j)
  BY <1>1, SidesKept
<1>3. CountsTyped' BY <1>1 DEF WindowInv, CountsTyped, Links
<1>4. Routed' BY <1>1 DEF WindowInv, Routed, Links
<1> HIDE DEF Shown, LinkServed, BrokerServed
<1>5. Accounted' BY <1>1, <1>2 DEF WindowInv, Accounted, Links
<1> QED BY <1>3, <1>4, <1>5

\* A unit that a source generates is counted and at its link.
LEMMA ArrivalCounted ==
  ASSUME SimInv, WindowInv, NEW i \in Sources, SourceArrival(i)
  PROVE  WindowInv'
<1>1. PICK l, u, start, now : Arrives(i, l, u, start, now) BY ArrivalHeap
<1>2. /\ l \in Links /\ l[1] = i /\ l[2] \in Drawn(i)
      /\ windowAccess' = [windowAccess EXCEPT ![l] = @ + 1]
      /\ UNCHANGED <<linkBusy, brokerQueue, brokerBusy, completed, routes, windowArrivals,
                     windowLatencies, records>>
  BY <1>1 DEF Arrives
<1>3. SimInv' /\ BrokersKept /\ TransfersKept BY ArrivalKeeps
<1>4. /\ \A k \in Links \ {l} : Serving(k)' = Serving(k) /\ linkQueue'[k] = linkQueue[k]
      /\ Line(Serving(l)', linkQueue'[l]) = Append(Line(Serving(l), linkQueue[l]), u)
  BY <1>1, LinkJoined
<1>5. /\ Shown' = Shown /\ BrokerServed' = BrokerServed
      /\ \A j \in Brokers : OnItsWay(j)' = OnItsWay(j)
  BY <1>2, <1>3, SidesKept
<1>6. LinkServed' = LinkServed
  <2>1. \A k \in Links \ {l} : AtAccess(k)' = AtAccess(k) BY <1>4 DEF AtAccess, AccessLine
  <2>2. AtAccess(l)' = AtAccess(l) + 1 /\ AtAccess(l) \in Nat
    <3>1. AccessLine(l) \in Seq(Nat) BY <1>2, LevelsAre
    <3>2. AccessLine(l)' = Append(AccessLine(l), u) BY <1>4 DEF AccessLine
    <3>3. Len(Append(AccessLine(l), u)) = Len(AccessLine(l)) + 1 /\ Len(AccessLine(l)) \in Nat BY <3>1
    <3> QED BY <3>2, <3>3 DEF AtAccess
  <2>3. Shown.queueAccess[l] \in Nat /\ windowAccess[l] \in Nat /\ windowAccess'[l] = windowAccess[l] + 1
        /\ \A k \in Links \ {l} : windowAccess'[k] = windowAccess[k]
    BY <1>2, ShownTyped DEF WindowInv, CountsTyped
  <2>4. \A n, m, k \in Nat : n + (m + 1) - (k + 1) = n + m - k OBVIOUS
  <2>5. ASSUME NEW k \in Links
        PROVE  Shown'.queueAccess[k] + windowAccess'[k] - AtAccess(k)'
                 = Shown.queueAccess[k] + windowAccess[k] - AtAccess(k)
    <3>1. CASE k = l BY <1>5, <2>2, <2>3, <2>4, <3>1
    <3>2. CASE k # l BY <1>5, <2>1, <2>3, <3>2
    <3> QED BY <3>1, <3>2
  <2> HIDE DEF Shown, AtAccess
  <2> QED BY <2>5 DEF LinkServed, Links
<1>7. CountsTyped' BY <1>2 DEF WindowInv, CountsTyped, Links
<1>8. BusyServes'
  <2>1. Scheduled' = Scheduled \cup now BY <1>1 DEF Arrives
  <2>2. \A k \in Links : Serving(k) # {} => Serving(k)' # {}
    <3>1. \A k \in Links : \A v : v \in Serving(k) => v \in Serving(k)' BY <2>1, UnitsOf
    <3> QED BY <3>1
  <2>3. \A j \in Brokers : ServingAt(j)' = ServingAt(j) BY <1>3 DEF BrokersKept
  <2> QED BY <1>2, <2>2, <2>3 DEF WindowInv, BusyServes, Links
<1>9. Routed'
  <2>1. ASSUME NEW k \in Links, windowAccess'[k] > 0
        PROVE  k[2] \in routes[k[1]] \/ routes[k[1]] = {}
    <3>1. CASE k = l BY <1>2, <3>1 DEF Drawn
    <3>2. CASE k # l
      <4>1. windowAccess'[k] = windowAccess[k] BY <1>2, <3>2 DEF WindowInv, CountsTyped
      <4> QED BY <2>1, <4>1 DEF WindowInv, Routed
    <3> QED BY <3>1, <3>2
  <2> QED BY <1>2, <2>1 DEF WindowInv, Routed, Links
<1> HIDE DEF Shown, LinkServed, BrokerServed
<1>10. Accounted' BY <1>2, <1>5, <1>6 DEF WindowInv, Accounted, Links
<1> QED BY <1>7, <1>8, <1>9, <1>10 DEF WindowInv

\* A unit that leaves its link is on its way, and one more that the link has served.
LEMMA LeavingCounted ==
  ASSUME SimInv, WindowInv, NEW l, NEW u, AccessComplete(l, u)
  PROVE  WindowInv'
<1>1. /\ l \in Links /\ Serving(l) = {u} /\ u \in Nat
      /\ Serving(l)' = First(linkQueue[l])
      /\ \A k \in Links \ {l} : Serving(k)' = Serving(k)
      /\ BrokersKept
      /\ \A k \in Brokers : InTransfer(k) = {} /\ InTransfer(k)' = IF k = l[2] THEN {u} ELSE {}
  BY AccessCompleteKeeps
<1>2. /\ linkQueue' = [linkQueue EXCEPT ![l] = IF @ = << >> THEN @ ELSE Tail(@)]
      /\ linkBusy' = [linkBusy EXCEPT ![l] = StillBusy(linkQueue[l])]
      /\ UNCHANGED <<requests, brokerQueue, brokerBusy, completed, routes, window, windowAccess,
                     windowArrivals, windowLatencies, records>>
  BY DEF AccessComplete, plan, window
<1>3. linkQueue \in [Links -> Seq(Nat)] /\ linkBusy \in [Links -> BOOLEAN]
  BY DEF SimInv, QueuesTyped
<1>4. Shown' = Shown /\ BrokerServed' = BrokerServed BY <1>1, <1>2, SidesKept
<1>5. \A k \in Links \ {l} : AtAccess(k)' = AtAccess(k)
  BY <1>1, <1>2, <1>3 DEF AtAccess, AccessLine
<1>6. AtAccess(l) \in Nat /\ AtAccess(l)' \in Nat /\ AtAccess(l) = AtAccess(l)' + 1
  <2> DEFINE q == linkQueue[l]
  <2>1. q \in Seq(Nat) BY <1>1, <1>3
  <2>2. AccessLine(l)' = q
    <3>1. linkQueue'[l] = IF q = << >> THEN q ELSE Tail(q) BY <1>1, <1>2, <1>3
    <3> QED BY <1>1, <2>1, <3>1, LineOf DEF AccessLine
  <2>3. AtAccess(l) = Len(q) + 1 /\ Len(q) \in Nat
    <3>1. Serving(l) # {} /\ Len(q) \in Nat BY <1>1, <2>1
    <3>2. AtAccess(l) = Len(q) + IF Serving(l) = {} THEN 0 ELSE 1 BY <1>1, LevelsAre
    <3> HIDE DEF q
    <3> QED BY <3>1, <3>2
  <2> QED BY <2>2, <2>3 DEF AtAccess
<1>7. /\ \A k \in Links : LinkServed[k] \in Nat
      /\ LinkServed'[l] = LinkServed[l] + 1
      /\ \A k \in Links \ {l} : LinkServed'[k] = LinkServed[k]
  <2>1. \A k \in Links : LinkServed[k] \in Nat BY DEF WindowInv, Accounted
  <2>2. \A k \in Links : LinkServed[k] = Shown.queueAccess[k] + windowAccess[k] - AtAccess(k)
    BY DEF LinkServed
  <2>3. \A k \in Links : LinkServed'[k] = Shown.queueAccess[k] + windowAccess[k] - AtAccess(k)'
    <3> HIDE DEF Shown
    <3> QED BY <1>2, <1>4 DEF LinkServed, Links
  <2>4. Shown.queueAccess[l] \in Nat /\ windowAccess[l] \in Nat
    BY <1>1, ShownTyped DEF WindowInv, CountsTyped
  <2>5. \A n, m, k \in Nat : n + m - k = n + m - (k + 1) + 1 OBVIOUS
  <2> HIDE DEF Shown
  <2>6. LinkServed'[l] = LinkServed[l] + 1 BY <1>1, <1>6, <2>2, <2>3, <2>4, <2>5
  <2> QED BY <1>5, <2>1, <2>2, <2>3, <2>6
<1>8. CountsTyped' BY <1>2 DEF WindowInv, CountsTyped, Links
<1>9. BusyServes'
  <2>1. linkBusy'[l] => Serving(l)' # {}
    <3>1. linkQueue[l] \in Seq(Nat) /\ linkBusy'[l] = StillBusy(linkQueue[l]) BY <1>1, <1>2, <1>3
    <3>2. StillBusy(linkQueue[l]) => First(linkQueue[l]) = {Head(linkQueue[l])} BY <3>1, FirstOf
    <3>3. linkBusy'[l] => Serving(l)' = {Head(linkQueue[l])} BY <1>1, <3>1, <3>2
    <3> QED BY <3>3
  <2>2. \A k \in Links \ {l} : linkBusy'[k] = linkBusy[k] BY <1>2, <1>3
  <2>3. \A j \in Brokers : ServingAt(j)' = ServingAt(j) BY <1>1 DEF BrokersKept
  <2> QED BY <1>1, <1>2, <2>1, <2>2, <2>3 DEF WindowInv, BusyServes, Links
<1>10. Routed' BY <1>2 DEF WindowInv, Routed, Links
<1>11. ASSUME NEW j \in Brokers
       PROVE  SumFunctionOnSet(LinkServed', Sources \X {j}) = windowArrivals[j] + OnItsWay(j)'
  <2> DEFINE S == Sources \X {j}
  <2>1. IsFiniteSet(S) /\ S \subseteq Links /\ \A k \in Links : k \in S <=> k[2] = j BY LinksTo
  <2>2. SumFunctionOnSet(LinkServed, S) = windowArrivals[j] + OnItsWay(j) BY DEF WindowInv, Accounted
  <2>3. OnItsWay(j) = 0 /\ OnItsWay(j)' = IF j = l[2] THEN 1 ELSE 0 BY <1>1 DEF OnItsWay
  <2>4. windowArrivals[j] \in Nat BY DEF WindowInv, CountsTyped
  <2> HIDE DEF S, LinkServed
  <2>5. \A k \in S : LinkServed[k] \in Int BY <1>7, <2>1
  <2>6. CASE j = l[2]
    <3>1. l \in S /\ \A k \in S \ {l} : LinkServed'[k] = LinkServed[k] BY <1>1, <1>7, <2>1, <2>6
    <3>2. SumFunctionOnSet(LinkServed', S) = SumFunctionOnSet(LinkServed, S) + 1
      BY <1>7, <2>1, <2>5, <3>1, SumChanged
    <3> QED BY <2>2, <2>3, <2>4, <2>6, <3>2 DEF S
  <2>7. CASE j # l[2]
    <3>1. \A k \in S : LinkServed'[k] = LinkServed[k] BY <1>1, <1>7, <2>1, <2>7
    <3>2. SumFunctionOnSet(LinkServed', S) = SumFunctionOnSet(LinkServed, S)
      BY <2>1, <2>5, <3>1, SumSame
    <3> QED BY <2>2, <2>3, <2>7, <3>2 DEF S
  <2> QED BY <2>6, <2>7
<1>12. \A k \in Links : LinkServed'[k] \in Nat BY <1>1, <1>7
<1> HIDE DEF Shown, LinkServed, BrokerServed
<1>13. Accounted'
  <2>1. \A j \in Brokers : BrokerServed'[j] \in Nat BY <1>4 DEF WindowInv, Accounted
  <2>2. SumFunctionOnSet(BrokerServed', Brokers) = windowLatencies BY <1>4 DEF WindowInv, Accounted
  <2>3. Len(completed) = Shown'.completedTotal + windowLatencies BY <1>4 DEF WindowInv, Accounted
  <2> QED BY <1>2, <1>11, <1>12, <2>1, <2>2, <2>3 DEF Accounted, Links
<1> QED BY <1>8, <1>9, <1>10, <1>13 DEF WindowInv

\* A unit that reaches its broker is counted and at it.
LEMMA DeliveryCounted ==
  ASSUME SimInv, WindowInv, NEW j, NEW u, BrokerArrival(j, u)
  PROVE  WindowInv'
<1>1. /\ j \in Brokers /\ u \in Nat
      /\ \A k \in Brokers : InTransfer(k) = (IF k = j THEN {u} ELSE {}) /\ InTransfer(k)' = {}
      /\ LinksKept
      /\ \A k \in Brokers : ServingAt(k)' = IF k = j /\ ~brokerBusy[j] THEN {u} ELSE ServingAt(k)
  BY BrokerArrivalKeeps
<1>2. /\ windowArrivals' = [windowArrivals EXCEPT ![j] = @ + 1]
      /\ UNCHANGED <<linkQueue, linkBusy, brokerBusy, completed, routes, windowAccess,
                     windowLatencies, records>>
  BY DEF BrokerArrival, plan
<1>3. Shown' = Shown /\ LinkServed' = LinkServed BY <1>1, <1>2, SidesKept
<1>4. /\ \A k \in Brokers \ {j} : ServingAt(k)' = ServingAt(k) /\ brokerQueue'[k] = brokerQueue[k]
      /\ Line(ServingAt(j)', brokerQueue'[j]) = Append(Line(ServingAt(j), brokerQueue[j]), u)
  BY BrokerJoined
<1>5. /\ windowArrivals[j] \in Nat /\ windowArrivals'[j] = windowArrivals[j] + 1
      /\ \A k \in Brokers \ {j} : windowArrivals'[k] = windowArrivals[k]
  BY <1>1, <1>2 DEF WindowInv, CountsTyped
<1>6. BrokerServed' = BrokerServed
  <2>1. \A k \in Brokers \ {j} : AtBrokers(k)' = AtBrokers(k) BY <1>4 DEF AtBrokers, BrokerLine
  <2>2. AtBrokers(j)' = AtBrokers(j) + 1 /\ AtBrokers(j) \in Nat
    <3>1. BrokerLine(j) \in Seq(Nat) BY <1>1, LevelsAre
    <3>2. BrokerLine(j)' = Append(BrokerLine(j), u) BY <1>4 DEF BrokerLine
    <3>3. Len(Append(BrokerLine(j), u)) = Len(BrokerLine(j)) + 1 /\ Len(BrokerLine(j)) \in Nat BY <3>1
    <3> QED BY <3>2, <3>3 DEF AtBrokers
  <2>3. Shown.queueBroker[j] \in Nat BY <1>1, ShownTyped DEF WindowInv
  <2>4. \A n, m, k \in Nat : n + (m + 1) - (k + 1) = n + m - k OBVIOUS
  <2>5. ASSUME NEW k \in Brokers
        PROVE  Shown'.queueBroker[k] + windowArrivals'[k] - AtBrokers(k)'
                 = Shown.queueBroker[k] + windowArrivals[k] - AtBrokers(k)
    <3>1. CASE k = j BY <1>3, <1>5, <2>2, <2>3, <2>4, <3>1
    <3>2. CASE k # j BY <1>3, <1>5, <2>1, <3>2
    <3> QED BY <3>1, <3>2
  <2> HIDE DEF Shown, AtBrokers
  <2> QED BY <2>5 DEF BrokerServed
<1>7. CountsTyped'
  <2>1. windowArrivals' \in [Brokers -> Nat] BY <1>1, <1>2 DEF WindowInv, CountsTyped
  <2> QED BY <1>2, <2>1 DEF WindowInv, CountsTyped, Links
<1>8. BusyServes'
  <2>1. \A k \in Brokers : brokerBusy[k] => ServingAt(k)' # {} BY <1>1 DEF WindowInv, BusyServes
  <2>2. \A k \in Links : Serving(k)' = Serving(k) BY <1>1 DEF LinksKept
  <2> QED BY <1>2, <2>1, <2>2 DEF WindowInv, BusyServes, Links
<1>9. Routed' BY <1>2 DEF WindowInv, Routed, Links
<1>10. ASSUME NEW k \in Brokers
       PROVE  windowArrivals'[k] + OnItsWay(k)' = windowArrivals[k] + OnItsWay(k)
  <2>1. OnItsWay(k)' = 0 /\ OnItsWay(k) = IF k = j THEN 1 ELSE 0 BY <1>1 DEF OnItsWay
  <2>2. CASE k = j BY <1>5, <2>1, <2>2
  <2>3. CASE k # j BY <1>5, <2>1, <2>3
  <2> QED BY <2>2, <2>3
<1> HIDE DEF Shown, LinkServed, BrokerServed
<1>11. Accounted'
  <2>1. \A k \in Brokers :
          SumFunctionOnSet(LinkServed', Sources \X {k}) = windowArrivals'[k] + OnItsWay(k)'
    BY <1>3, <1>10 DEF WindowInv, Accounted
  <2> QED BY <1>2, <1>3, <1>6, <2>1 DEF WindowInv, Accounted, Links
<1> QED BY <1>7, <1>8, <1>9, <1>11 DEF WindowInv

\* A unit that leaves its broker is one more that the broker has served, and completed.
LEMMA CompletionCounted ==
  ASSUME SimInv, WindowInv, NEW j, NEW u, BrokerComplete(j, u)
  PROVE  WindowInv'
<1>1. /\ j \in Brokers /\ u \in Nat /\ ServingAt(j) = {u}
      /\ ServingAt(j)' = First(brokerQueue[j])
      /\ \A k \in Brokers \ {j} : ServingAt(k)' = ServingAt(k)
      /\ LinksKept /\ TransfersKept
  BY BrokerCompleteKeeps
<1>2. /\ brokerQueue' = [brokerQueue EXCEPT ![j] = IF @ = << >> THEN @ ELSE Tail(@)]
      /\ brokerBusy' = [brokerBusy EXCEPT ![j] = StillBusy(brokerQueue[j])]
      /\ completed' = Append(completed, u) /\ windowLatencies' = windowLatencies + 1
      /\ UNCHANGED <<linkQueue, linkBusy, routes, windowAccess, windowArrivals, records>>
  BY DEF BrokerComplete, plan
<1>3. /\ brokerQueue \in [Brokers -> Seq(Nat)] /\ brokerBusy \in [Brokers -> BOOLEAN]
      /\ completed \in Seq(Nat)
  BY DEF SimInv, QueuesTyped
<1>4. /\ Shown' = Shown /\ LinkServed' = LinkServed
      /\ \A k \in Brokers : OnItsWay(k)' = OnItsWay(k)
  BY <1>1, <1>2, SidesKept
<1>5. \A k \in Brokers \ {j} : AtBrokers(k)' = AtBrokers(k)
  BY <1>1, <1>2, <1>3 DEF AtBrokers, BrokerLine
<1>6. AtBrokers(j) \in Nat /\ AtBrokers(j)' \in Nat /\ AtBrokers(j) = AtBrokers(j)' + 1
  <2> DEFINE q == brokerQueue[j]
  <2>1. q \in Seq(Nat) BY <1>1, <1>3
  <2>2. BrokerLine(j)' = q
    <3>1. brokerQueue'[j] = IF q = << >> THEN q ELSE Tail(q) BY <1>1, <1>2, <1>3
    <3> QED BY <1>1, <2>1, <3>1, LineOf DEF BrokerLine
  <2>3. AtBrokers(j) = Len(q) + 1 /\ Len(q) \in Nat
    <3>1. ServingAt(j) # {} /\ Len(q) \in Nat BY <1>1, <2>1
    <3>2. AtBrokers(j) = Len(q) + IF ServingAt(j) = {} THEN 0 ELSE 1 BY <1>1, LevelsAre
    <3> HIDE DEF q
    <3> QED BY <3>1, <3>2
  <2> QED BY <2>2, <2>3 DEF AtBrokers
<1>7. /\ \A k \in Brokers : BrokerServed[k] \in Nat
      /\ BrokerServed'[j] = BrokerServed[j] + 1
      /\ \A k \in Brokers \ {j} : BrokerServed'[k] = BrokerServed[k]
  <2>1. \A k \in Brokers : BrokerServed[k] \in Nat BY DEF WindowInv, Accounted
  <2>2. \A k \in Brokers : BrokerServed[k] = Shown.queueBroker[k] + windowArrivals[k] - AtBrokers(k)
    BY DEF BrokerServed
  <2>3. \A k \in Brokers : BrokerServed'[k] = Shown.queueBroker[k] + windowArrivals[k] - AtBrokers(k)'
    <3> HIDE DEF Shown
    <3> QED BY <1>2, <1>4 DEF BrokerServed
  <2>4. Shown.queueBroker[j] \in Nat /\ windowArrivals[j] \in Nat
    BY <1>1, ShownTyped DEF WindowInv, CountsTyped
  <2>5. \A n, m, k \in Nat : n + m - k = n + m - (k + 1) + 1 OBVIOUS
  <2> HIDE DEF Shown
  <2>6. BrokerServed'[j] = BrokerServed[j] + 1 BY <1>1, <1>6, <2>2, <2>3, <2>4, <2>5
  <2> QED BY <1>5, <2>1, <2>2, <2>3, <2>6
<1>8. CountsTyped' BY <1>2 DEF WindowInv, CountsTyped, Links
<1>9. BusyServes'
  <2>1. brokerBusy'[j] => ServingAt(j)' # {}
    <3>1. brokerQueue[j] \in Seq(Nat) /\ brokerBusy'[j] = StillBusy(brokerQueue[j]) BY <1>1, <1>2, <1>3
    <3>2. StillBusy(brokerQueue[j]) => First(brokerQueue[j]) = {Head(brokerQueue[j])} BY <3>1, FirstOf
    <3>3. brokerBusy'[j] => ServingAt(j)' = {Head(brokerQueue[j])} BY <1>1, <3>1, <3>2
    <3> QED BY <3>3
  <2>2. \A k \in Brokers \ {j} : brokerBusy'[k] = brokerBusy[k] BY <1>2, <1>3
  <2>3. \A l \in Links : Serving(l)' = Serving(l) BY <1>1 DEF LinksKept
  <2> QED BY <1>1, <1>2, <2>1, <2>2, <2>3 DEF WindowInv, BusyServes, Links
<1>10. Routed' BY <1>2 DEF WindowInv, Routed, Links
<1> HIDE DEF Shown, LinkServed, BrokerServed
<1>11. SumFunctionOnSet(BrokerServed', Brokers) = windowLatencies'
  <2>1. SumFunctionOnSet(BrokerServed', Brokers) = SumFunctionOnSet(BrokerServed, Brokers) + 1
    <3>1. IsFiniteSet(Brokers) /\ \A k \in Brokers : BrokerServed[k] \in Int BY <1>7, ConstantsTyped
    <3> QED BY <1>1, <1>7, <3>1, SumChanged
  <2> QED BY <1>2, <2>1 DEF WindowInv, Accounted
<1>12. Len(completed') = Shown'.completedTotal + windowLatencies'
  <2>1. Len(completed') = Len(completed) + 1 /\ Len(completed) \in Nat BY <1>2, <1>3
  <2>2. Len(completed) = Shown.completedTotal + windowLatencies BY DEF WindowInv, Accounted
  <2>3. Shown.completedTotal \in Nat /\ windowLatencies \in Nat BY ShownTyped DEF WindowInv, CountsTyped
  <2>4. \A m, n \in Nat : (m + n) + 1 = m + (n + 1) OBVIOUS
  <2>5. Len(completed') = Shown.completedTotal + (windowLatencies + 1) BY <2>1, <2>2, <2>3, <2>4
  <2> QED BY <1>2, <1>4, <2>5
<1>13. Accounted'
  <2>1. \A k \in Brokers : BrokerServed'[k] \in Nat BY <1>1, <1>7
  <2>2. \A l \in Links : LinkServed'[l] \in Nat BY <1>4 DEF WindowInv, Accounted
  <2>3. \A k \in Brokers :
          SumFunctionOnSet(LinkServed', Sources \X {k}) = windowArrivals'[k] + OnItsWay(k)'
    BY <1>2, <1>4 DEF WindowInv, Accounted
  <2> QED BY <1>11, <1>12, <2>1, <2>2, <2>3 DEF Accounted, Links
<1> QED BY <1>8, <1>9, <1>10, <1>13 DEF WindowInv

\* The starts of a service, and the clock, move no unit.
LEMMA StartsCounted ==
  ASSUME SimInv, WindowInv,
         Advance \/ \E p, u : AccessStart(p, u) \/ BrokerStart(p, u)
  PROVE  WindowInv'
<1>1. LinksKept /\ BrokersKept /\ TransfersKept BY ClockKeeps, AccessStartKeeps, BrokerStartKeeps
<1>2. UNCHANGED <<linkQueue, brokerQueue, completed, routes, window, records>>
  BY DEF Advance, AccessStart, BrokerStart, queues, plan
<1>3. CountsTyped' /\ Routed' /\ Accounted' BY <1>1, <1>2, MovesNone
<1>4. BusyServes'
  <2>1. /\ \A l \in Links : Serving(l)' = Serving(l)
        /\ \A j \in Brokers : ServingAt(j)' = ServingAt(j)
    BY <1>1 DEF LinksKept, BrokersKept
  <2>2. linkBusy \in [Links -> BOOLEAN] /\ brokerBusy \in [Brokers -> BOOLEAN]
    BY DEF SimInv, QueuesTyped
  <2>3. CASE Advance BY <2>1, <2>3 DEF Advance, queues, WindowInv, BusyServes, Links
  <2>4. ASSUME NEW l, NEW u, AccessStart(l, u) PROVE BusyServes'
    <3> DEFINE e == OnLink("ACCESS_SERVICE_START", l, u)
    <3>1. e \in Scheduled /\ AtLink(e, l) /\ e.unit = u
      BY <2>4, EventKinds DEF AccessStart, Handles, Scheduled, AtLink, LinkEvents
    <3>2. u \in Serving(l) BY <3>1, UnitsOf
    <3>3. \A k \in Links : linkBusy'[k] => linkBusy[k] \/ k = l BY <2>2, <2>4 DEF AccessStart
    <3>4. brokerBusy' = brokerBusy BY <2>4 DEF AccessStart
    <3> QED BY <2>1, <3>2, <3>3, <3>4 DEF WindowInv, BusyServes, Links
  <2>5. ASSUME NEW j, NEW u, BrokerStart(j, u) PROVE BusyServes'
    <3> DEFINE e == AtBroker("BROKER_SERVICE_START", j, u)
    <3>1. e \in Scheduled /\ AtServer(e, j) /\ e.unit = u
      BY <2>5, EventKinds DEF BrokerStart, Handles, Scheduled, AtServer, ServerEvents
    <3>2. u \in ServingAt(j) BY <3>1, UnitsOf
    <3>3. \A k \in Brokers : brokerBusy'[k] => brokerBusy[k] \/ k = j BY <2>2, <2>5 DEF BrokerStart
    <3>4. linkBusy' = linkBusy BY <2>5 DEF BrokerStart
    <3> QED BY <2>1, <3>2, <3>3, <3>4 DEF WindowInv, BusyServes, Links
  <2> QED BY <2>3, <2>4, <2>5
<1> QED BY <1>3, <1>4 DEF WindowInv

\* the record that a tick adds
Taken ==
  [access |-> windowAccess, arrivals |-> windowArrivals,
   completedWindow |-> windowLatencies, completedTotal |-> Len(completed),
   queueAccess |-> [l \in Links |-> AtAccess(l)], queueBroker |-> [j \in Brokers |-> AtBrokers(j)]]

\* At a tick nothing is about to start or on its way, so that what is in the system is
\* what waits and what the busy servers have.
LEMMA TickRecords ==
  ASSUME SimInv, WindowInv, ControllerTick
  PROVE  /\ Shown' = Taken /\ Taken \in Record /\ Len(records') = Len(records) + 1 /\ Len(records) \in Nat
         /\ CountsTyped'
         /\ \A j \in Brokers : OnItsWay(j) = 0
<1>1. due = {Tick}
  <2>1. Tick \in due /\ Tick.type = "CONTROLLER_TICK" BY EventKinds DEF ControllerTick, Handles
  <2> QED BY <2>1 DEF SimInv, NoneBetween
<1>2. \A e \in Scheduled : e.type \notin Untimed
  BY <1>1, EventKinds DEF Scheduled, SimInv, HeapTyped, Untimed
<1>3. linkBusy \in [Links -> BOOLEAN] /\ brokerBusy \in [Brokers -> BOOLEAN]
  BY DEF SimInv, QueuesTyped
<1>4. ASSUME NEW l \in Links PROVE InSystem(linkQueue[l], linkBusy[l]) = AtAccess(l)
  <2>1. AtAccess(l) = Len(linkQueue[l]) + IF Serving(l) = {} THEN 0 ELSE 1 BY LevelsAre
  <2>2. linkBusy[l] => Serving(l) # {} BY DEF WindowInv, BusyServes
  <2>3. ~linkBusy[l] => Serving(l) = {}
    <3>1. SUFFICES ASSUME ~linkBusy[l], NEW u, u \in Serving(l) PROVE FALSE OBVIOUS
    <3>2. PICK f \in Scheduled : AtLink(f, l) BY <3>1, UnitsOf
    <3>3. f.type = "ACCESS_SERVICE_START" BY <3>1, <3>2 DEF SimInv, IdleIsEmpty
    <3> QED BY <1>2, <3>3 DEF Untimed
  <2> QED BY <2>1, <2>2, <2>3 DEF InSystem
<1>5. ASSUME NEW j \in Brokers PROVE InSystem(brokerQueue[j], brokerBusy[j]) = AtBrokers(j)
  <2>1. AtBrokers(j) = Len(brokerQueue[j]) + IF ServingAt(j) = {} THEN 0 ELSE 1 BY LevelsAre
  <2>2. brokerBusy[j] => ServingAt(j) # {} BY DEF WindowInv, BusyServes
  <2>3. ~brokerBusy[j] => ServingAt(j) = {}
    <3>1. SUFFICES ASSUME ~brokerBusy[j], NEW u, u \in ServingAt(j) PROVE FALSE OBVIOUS
    <3>2. PICK f \in Scheduled : AtServer(f, j) BY <3>1, UnitsOf
    <3>3. f.type = "BROKER_SERVICE_START" BY <3>1, <3>2 DEF SimInv, IdleIsEmpty
    <3> QED BY <1>2, <3>3 DEF Untimed
  <2> QED BY <2>1, <2>2, <2>3 DEF InSystem
<1>6. records' = Append(records, Taken)
  <2>1. [l \in Links |-> InSystem(linkQueue[l], linkBusy[l])] = [l \in Links |-> AtAccess(l)] BY <1>4
  <2>2. [j \in Brokers |-> InSystem(brokerQueue[j], brokerBusy[j])] = [j \in Brokers |-> AtBrokers(j)]
    BY <1>5
  <2> QED BY <2>1, <2>2 DEF ControllerTick, Taken
<1>7. Taken \in Record
  <2>1. [l \in Links |-> AtAccess(l)] \in [Links -> Nat] BY LevelsAre
  <2>2. [j \in Brokers |-> AtBrokers(j)] \in [Brokers -> Nat] BY LevelsAre
  <2>3. Len(completed) \in Nat BY DEF SimInv, QueuesTyped
  <2> QED BY <2>1, <2>2, <2>3 DEF Taken, Record, WindowInv, CountsTyped
<1> HIDE DEF Taken
<1>8. records \in Seq(Record) BY DEF WindowInv, CountsTyped
<1>9. /\ records' \in Seq(Record) /\ records' # << >> /\ records'[Len(records')] = Taken
      /\ Len(records') = Len(records) + 1 /\ Len(records) \in Nat
  BY <1>6, <1>7, <1>8
<1>10. Shown' = Taken BY <1>9 DEF Shown
<1>11. CountsTyped'
  <2>1. /\ windowAccess' = [l \in Links |-> 0] /\ windowArrivals' = [j \in Brokers |-> 0]
        /\ windowLatencies' = 0
    BY DEF ControllerTick
  <2>2. (records \in Seq(Record))' BY <1>9 DEF Record, Links
  <2> QED BY <2>1, <2>2 DEF CountsTyped, Links
<1>12. \A j \in Brokers : OnItsWay(j) = 0
  <2>1. \A j \in Brokers : \A u : u \notin InTransfer(j)
    BY <1>1, EventKinds, UnitsOf
  <2>2. \A j \in Brokers : InTransfer(j) = {} BY <2>1
  <2> QED BY <2>2 DEF OnItsWay
<1> QED BY <1>7, <1>9, <1>10, <1>11, <1>12

\* A tick takes a record and starts a window without any counts.
LEMMA TickCounted ==
  ASSUME SimInv, WindowInv, ControllerTick
  PROVE  WindowInv'
<1>1. Shown' = Taken /\ CountsTyped' /\ \A j \in Brokers : OnItsWay(j) = 0 BY TickRecords
<1>2. LinksKept /\ BrokersKept /\ TransfersKept BY ClockKeeps
<1>3. /\ windowAccess' = [l \in Links |-> 0] /\ windowArrivals' = [j \in Brokers |-> 0]
      /\ windowLatencies' = 0
      /\ UNCHANGED <<linkQueue, linkBusy, brokerQueue, brokerBusy, completed>>
  BY DEF ControllerTick, queues
<1>4. /\ \A l \in Links : AtAccess(l)' = AtAccess(l) /\ AtAccess(l) \in Nat
      /\ \A j \in Brokers : AtBrokers(j)' = AtBrokers(j) /\ AtBrokers(j) \in Nat
  BY <1>2, <1>3, LevelsAre DEF AtAccess, AccessLine, AtBrokers, BrokerLine, LinksKept, BrokersKept
<1>5. \A l \in Links : LinkServed'[l] = 0
  <2>1. \A l \in Links : LinkServed'[l] = Taken.queueAccess[l] + 0 - AtAccess(l)
    BY <1>1, <1>3, <1>4 DEF LinkServed, Links
  <2>2. \A l \in Links : Taken.queueAccess[l] = AtAccess(l) BY DEF Taken
  <2>3. \A n \in Nat : n + 0 - n = 0 OBVIOUS
  <2> QED BY <1>4, <2>1, <2>2, <2>3
<1>6. \A j \in Brokers : BrokerServed'[j] = 0
  <2>1. \A j \in Brokers : BrokerServed'[j] = Taken.queueBroker[j] + 0 - AtBrokers(j)
    BY <1>1, <1>3, <1>4 DEF BrokerServed
  <2>2. \A j \in Brokers : Taken.queueBroker[j] = AtBrokers(j) BY DEF Taken
  <2>3. \A n \in Nat : n + 0 - n = 0 OBVIOUS
  <2> QED BY <1>4, <2>1, <2>2, <2>3
<1>7. BusyServes' BY <1>2, <1>3 DEF WindowInv, BusyServes, Links, LinksKept, BrokersKept
<1>8. Routed'
  <2>1. routes' \in Routings BY DEF ControllerTick, WindowedUpdates, WindowInv, Routed
  <2>2. (routes \in Routings)' BY <2>1 DEF Routings, MayRoute
  <2> QED BY <1>3, <2>2 DEF Routed, Links
<1>9. Accounted'
  <2>1. \A j \in Brokers : OnItsWay(j)' = 0 BY <1>1, <1>2 DEF TransfersKept, OnItsWay
  <2>2. ASSUME NEW j \in Brokers PROVE SumFunctionOnSet(LinkServed', Sources \X {j}) = 0
    <3>1. IsFiniteSet(Sources \X {j}) /\ Sources \X {j} \subseteq Links BY LinksTo
    <3> HIDE DEF LinkServed
    <3> QED BY <1>5, <3>1, SumZero
  <2>3. SumFunctionOnSet(BrokerServed', Brokers) = 0
    <3> HIDE DEF BrokerServed
    <3> QED BY <1>6, ConstantsTyped, SumZero
  <2>4. Len(completed') = Shown'.completedTotal /\ Len(completed') \in Nat
    BY <1>1, <1>3 DEF Taken, SimInv, QueuesTyped
  <2> HIDE DEF LinkServed, BrokerServed, Shown
  <2> QED BY <1>3, <1>5, <1>6, <2>1, <2>2, <2>3, <2>4 DEF Accounted, Links
<1> QED BY <1>1, <1>7, <1>8, <1>9 DEF WindowInv

\* The invariant holds of the empty windows that the handler starts with.
LEMMA WindowInit == Init => WindowInv
<1> SUFFICES ASSUME Init PROVE WindowInv OBVIOUS
<1>1. SimInv BY SimInit
<1>2. \A e \in Scheduled : e.type \in {"SOURCE_ARRIVAL", "CONTROLLER_TICK"}
  BY EventKinds DEF Init, Scheduled
<1>3. /\ \A l \in Links : Serving(l) = {}
      /\ \A j \in Brokers : ServingAt(j) = {} /\ InTransfer(j) = {}
  <2>1. \A l, u : u \notin Serving(l) BY <1>2, UnitsOf DEF AtLink, LinkEvents
  <2>2. \A j, u : u \notin ServingAt(j) BY <1>2, UnitsOf DEF AtServer, ServerEvents
  <2>3. \A j, u : u \notin InTransfer(j) BY <1>2, UnitsOf DEF Scheduled
  <2> QED BY <2>1, <2>2, <2>3
<1>4. /\ windowAccess = [l \in Links |-> 0] /\ windowArrivals = [j \in Brokers |-> 0]
      /\ windowLatencies = 0 /\ records = << >> /\ completed = << >> /\ routes \in Routings
      /\ linkBusy = [l \in Links |-> FALSE] /\ brokerBusy = [j \in Brokers |-> FALSE]
  BY DEF Init
<1>5. CountsTyped BY <1>4 DEF CountsTyped
<1>6. /\ \A l \in Links : Shown.queueAccess[l] = 0
      /\ \A j \in Brokers : Shown.queueBroker[j] = 0
      /\ Shown.completedTotal = 0
  BY <1>4 DEF Shown
<1>7. /\ \A l \in Links : AtAccess(l) = 0
      /\ \A j \in Brokers : AtBrokers(j) = 0
  <2>1. \A l \in Links : Len(linkQueue[l]) = 0 BY DEF Init
  <2>2. \A j \in Brokers : Len(brokerQueue[j]) = 0 BY DEF Init
  <2>3. ASSUME NEW l \in Links PROVE AtAccess(l) = 0
    <3>1. AtAccess(l) = Len(linkQueue[l]) + IF Serving(l) = {} THEN 0 ELSE 1 BY <1>1, LevelsAre
    <3>2. Serving(l) = {} /\ Len(linkQueue[l]) = 0 BY <1>3, <2>1
    <3> QED BY <3>1, <3>2
  <2>4. ASSUME NEW j \in Brokers PROVE AtBrokers(j) = 0
    <3>1. AtBrokers(j) = Len(brokerQueue[j]) + IF ServingAt(j) = {} THEN 0 ELSE 1 BY <1>1, LevelsAre
    <3>2. ServingAt(j) = {} /\ Len(brokerQueue[j]) = 0 BY <1>3, <2>2
    <3> QED BY <3>1, <3>2
  <2> QED BY <2>3, <2>4
<1> HIDE DEF Shown
<1>8. /\ \A l \in Links : LinkServed[l] = 0
      /\ \A j \in Brokers : BrokerServed[j] = 0
  BY <1>4, <1>6, <1>7 DEF LinkServed, BrokerServed
<1>9. Accounted
  <2>1. ASSUME NEW j \in Brokers
        PROVE  SumFunctionOnSet(LinkServed, Sources \X {j}) = windowArrivals[j] + OnItsWay(j)
    <3>1. IsFiniteSet(Sources \X {j}) /\ Sources \X {j} \subseteq Links BY LinksTo
    <3> HIDE DEF LinkServed
    <3>2. SumFunctionOnSet(LinkServed, Sources \X {j}) = 0 BY <1>8, <3>1, SumZero
    <3> QED BY <1>3, <1>4, <3>2 DEF OnItsWay
  <2>2. SumFunctionOnSet(BrokerServed, Brokers) = 0
    <3> HIDE DEF BrokerServed
    <3> QED BY <1>8, ConstantsTyped, SumZero
  <2> HIDE DEF LinkServed, BrokerServed
  <2> QED BY <1>4, <1>6, <1>8, <2>1, <2>2 DEF Accounted
<1> QED BY <1>3, <1>4, <1>5, <1>9 DEF WindowInv, BusyServes, Routed

\* Every event that is handled, and the clock, keep the account.
LEMMA WindowKept ==
  ASSUME SimInv, WindowInv, [Next]_vars
  PROVE  WindowInv'
<1>1. CASE UNCHANGED vars
  <2>1. LinksKept /\ BrokersKept /\ TransfersKept
    BY <1>1 DEF vars, heap, LinksKept, BrokersKept, TransfersKept, Serving, ServingAt, InTransfer
  <2>2. UNCHANGED <<linkQueue, linkBusy, brokerQueue, brokerBusy, completed, routes, window, records>>
    BY <1>1 DEF vars, queues, plan
  <2>3. CountsTyped' /\ Routed' /\ Accounted' BY <2>1, <2>2, MovesNone
  <2>4. BusyServes' BY <2>1, <2>2 DEF WindowInv, BusyServes, Links, LinksKept, BrokersKept
  <2> QED BY <2>3, <2>4 DEF WindowInv
<1>2. CASE Next
  BY <1>2, StepIs, ArrivalCounted, LeavingCounted, DeliveryCounted, CompletionCounted, StartsCounted,
     TickCounted
<1> QED BY <1>1, <1>2

\* It holds throughout a simulation.
LEMMA WindowAlways == Spec => [](SimInv /\ WindowInv)
<1>1. SimInv /\ WindowInv /\ [Next]_vars => (SimInv /\ WindowInv)' BY SimStep, WindowKept
<1> QED BY SimInit, WindowInit, <1>1, PTL DEF Spec

\* The heap has events of existing places only, each once, a queue has units, and what
\* Algorithm 1 moves the flows to and what a tick records are as the handlers expect.
THEOREM SimulationTyped == Spec => []TypeOK
<1>1. Init => mode \in Modes BY DEF Init
<1>2. mode \in Modes /\ [Next]_vars => (mode \in Modes)'
  BY DEF Next, Handle, vars, plan, Advance, SourceArrival, AccessStart, AccessComplete, BrokerArrival,
         BrokerStart, BrokerComplete, ControllerTick, Modes
<1>3. ASSUME NEW e, Known(e) PROVE e \in Events
  <2>1. CASE \E i \in Sources : e = Arrival(i) BY <2>1 DEF Events
  <2>2. CASE e = Tick BY <2>2 DEF Events
  <2>3. CASE \E t \in LinkEvents, l \in Links, u \in Nat : e = OnLink(t, l, u)
    <3>1. e \in [type : LinkEvents, link : Links, unit : Units] BY <2>3 DEF OnLink, Units
    <3> QED BY <3>1 DEF Events
  <2>4. CASE \E t \in BrokerEvents, j \in Brokers, u \in Nat : e = AtBroker(t, j, u)
    <3>1. e \in [type : BrokerEvents, broker : Brokers, unit : Units] BY <2>4 DEF AtBroker, Units
    <3> QED BY <3>1 DEF Events
  <2> QED BY <1>3, <2>1, <2>2, <2>3, <2>4 DEF Known
<1>4. SimInv /\ WindowInv /\ mode \in Modes => TypeOK
  <2> SUFFICES ASSUME SimInv, WindowInv, mode \in Modes PROVE TypeOK OBVIOUS
  <2>1. due \subseteq Events /\ later \subseteq Events BY <1>3 DEF SimInv, HeapTyped, Scheduled
  <2>2. \A i \in Sources : routes[i] \in MayRoute(i) BY DEF WindowInv, Routed, Routings
  <2> QED BY <2>1, <2>2 DEF TypeOK, SimInv, HeapTyped, QueuesTyped, WindowInv, CountsTyped, Units
<1> QED BY <1>1, <1>2, <1>4, WindowAlways, PTL DEF Spec

\* The notebook's sums are the library's.
LEMMA SameSum == \A f, S : W!SumFunctionOnSet(f, S) = SumFunctionOnSet(f, S)
BY DEF W!SumFunctionOnSet, SumFunctionOnSet, W!FoldFunctionOnSet, FoldFunctionOnSet,
       W!MapThenFoldSet, MapThenFoldSet

\* What a tick records is a window of the notebook.
LEMMA TickServes ==
  ASSUME SimInv, WindowInv, ControllerTick
  PROVE  W!Serve
<1>1. /\ Shown' = Taken /\ Taken \in Record /\ Len(records') = Len(records) + 1
      /\ \A j \in Brokers : OnItsWay(j) = 0
  BY TickRecords
<1>2. /\ Taken.access = windowAccess /\ Taken.arrivals = windowArrivals
      /\ Taken.completedWindow = windowLatencies /\ Taken.completedTotal = Len(completed)
      /\ Taken.queueAccess = [l \in Links |-> AtAccess(l)]
      /\ Taken.queueBroker = [j \in Brokers |-> AtBrokers(j)]
  BY DEF Taken
<1>3. W!Pairs = Links BY DEF W!Pairs, Links
<1> DEFINE linkServed ==
             [l \in W!Pairs |-> Shown.queueAccess[l] + Shown'.access[l] - Shown'.queueAccess[l]]
           brokerServed ==
             [j \in Brokers |-> Shown.queueBroker[j] + Shown'.arrivals[j] - Shown'.queueBroker[j]]
<1>4. linkServed = LinkServed BY <1>1, <1>2, <1>3 DEF LinkServed
<1>5. brokerServed = BrokerServed BY <1>1, <1>2 DEF BrokerServed
<1>6. W!Allocated(Shown'.access)
  BY <1>1, <1>2, <1>3 DEF W!Allocated, WindowInv, Routed
<1>7. \A l \in W!Pairs : W!Serves(Shown.queueAccess[l], Shown'.access[l], linkServed[l])
  <2>1. SUFFICES ASSUME NEW l \in Links
                 PROVE  W!Serves(Shown.queueAccess[l], windowAccess[l], LinkServed[l])
    BY <1>1, <1>2, <1>3, <1>4
  <2>2. LinkServed[l] \in Nat /\ Shown.queueAccess[l] \in Nat /\ windowAccess[l] \in Nat
        /\ AtAccess(l) \in Nat
    BY ShownTyped, LevelsAre DEF WindowInv, CountsTyped, Accounted
  <2>3. LinkServed[l] = Shown.queueAccess[l] + windowAccess[l] - AtAccess(l) BY DEF LinkServed
  <2> HIDE DEF Shown, LinkServed
  <2> QED BY <2>2, <2>3 DEF W!Serves
<1>8. ASSUME NEW j \in Brokers
      PROVE  /\ Shown'.arrivals[j] = W!SumFunctionOnSet(linkServed, Sources \X {j})
             /\ W!Serves(Shown.queueBroker[j], Shown'.arrivals[j], brokerServed[j])
  <2>1. BrokerServed[j] \in Nat /\ Shown.queueBroker[j] \in Nat /\ windowArrivals[j] \in Nat
        /\ AtBrokers(j) \in Nat
    BY ShownTyped, LevelsAre DEF WindowInv, CountsTyped, Accounted
  <2>2. BrokerServed[j] = Shown.queueBroker[j] + windowArrivals[j] - AtBrokers(j) BY DEF BrokerServed
  <2>3. SumFunctionOnSet(LinkServed, Sources \X {j}) = windowArrivals[j] + OnItsWay(j)
    BY DEF WindowInv, Accounted
  <2> HIDE DEF Shown, LinkServed, BrokerServed, linkServed, brokerServed
  <2>4. W!Serves(Shown.queueBroker[j], windowArrivals[j], BrokerServed[j])
    BY <2>1, <2>2 DEF W!Serves
  <2>5. W!SumFunctionOnSet(linkServed, Sources \X {j}) = windowArrivals[j]
    BY <1>1, <1>4, <2>1, <2>3, SameSum
  <2> QED BY <1>1, <1>2, <1>5, <2>4, <2>5
<1>9. Shown'.completedWindow = W!SumFunctionOnSet(brokerServed, Brokers)
  BY <1>1, <1>2, <1>5, SameSum DEF WindowInv, Accounted
<1>10. Shown'.completedTotal = Shown.completedTotal + Shown'.completedWindow
  BY <1>1, <1>2 DEF WindowInv, Accounted
<1> HIDE DEF Shown, Taken
<1> QED BY <1>1, <1>6, <1>7, <1>8, <1>9, <1>10 DEF W!Serve

\* What the controller makes of the splits in the windowed mode is the notebook's update.
LEMMA TickUpdates ==
  ASSUME SimInv, WindowInv, ControllerTick, mode = "windowed_stochastic"
  PROVE  W!Update
<1>1. Len(records) \in Nat /\ Warmup \in Nat BY ConstantsTyped DEF WindowInv, CountsTyped
<1>2. routes \in Routings BY DEF WindowInv, Routed
<1>3. routes' \in WindowedUpdates BY DEF ControllerTick
<1>4. routes' \in Routings BY <1>2, <1>3 DEF WindowedUpdates
<1>5. \A f \in Routings : W!OnLinks(f) BY DEF Routings, MayRoute, W!OnLinks, Links
<1>6. IF Len(records) >= Warmup THEN \A i \in Sources : routes[i] \subseteq routes'[i]
      ELSE routes' = routes
  BY <1>1, <1>3 DEF WindowedUpdates
<1> QED BY <1>4, <1>5, <1>6 DEF W!Update

\* The first state: no window yet, and a split over links that exist.
LEMMA WindowsInit == Init => W!Init
<1> SUFFICES ASSUME Init PROVE W!Init OBVIOUS
<1>1. records = << >> /\ Len(records) = 0 BY DEF Init
<1>2. routes \in Routings BY DEF Init
<1>3. routes \in [Sources -> SUBSET Brokers] /\ W!OnLinks(routes)
  BY <1>2 DEF Routings, MayRoute, W!OnLinks, Links
<1> QED BY <1>1, <1>3 DEF W!Init, W!Pairs, Shown, Links

\* Every tick is a step of the windowed queues, and every other step none.
LEMMA WindowsStep ==
  ASSUME SimInv, WindowInv, [Next]_vars
  PROVE  [W!Serve /\ (mode = "windowed_stochastic" => W!Update)]_W!vars
<1>1. CASE ControllerTick BY <1>1, TickServes, TickUpdates
<1>2. CASE UNCHANGED <<routes, records>>
  <2>1. UNCHANGED Shown BY <1>2 DEF Shown
  <2> HIDE DEF Shown
  <2> QED BY <1>2, <2>1 DEF W!vars
<1>3. ControllerTick \/ UNCHANGED <<routes, records>>
  BY StepIs DEF vars, plan, Advance, SourceArrival, AccessStart, AccessComplete, BrokerArrival,
                BrokerStart, BrokerComplete
<1> QED BY <1>1, <1>2, <1>3

\* The telemetry accounts for every unit, from window to window (property IsWindowed):
\* each record is a window of the notebook's queues, in which a link serves no more than
\* it had, a broker is given exactly what its links have served, and what was completed
\* is what the brokers served; in the windowed mode the splits move as the notebook's do.
THEOREM SimulationIsWindowed == Spec => IsWindowed
<1>1. SimInv /\ WindowInv /\ [Next]_vars
        => [W!Serve /\ (mode = "windowed_stochastic" => W!Update)]_W!vars
  BY WindowsStep
<1> QED BY WindowAlways, WindowsInit, <1>1, PTL DEF Spec, IsWindowed
=============================================================================
