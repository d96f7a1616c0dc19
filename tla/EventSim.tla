------------------------------- MODULE EventSim -----------------------------
(***************************************************************************)
(* The in-process simulation: the event loop of src/simulation/engine.py   *)
(* and the handlers of handler.py over the queues of queues.py.            *)
(*                                                                         *)
(* Of a timestamp only its order matters.  The heap is split into the      *)
(* events due at engine.now, whose order it leaves open, and the later     *)
(* ones.  A service or inter-arrival time is drawn from a continuous       *)
(* distribution, so an event scheduled with one falls on a moment of its   *)
(* own.  The end of the run, which drops the heap, is not modelled.        *)
(***************************************************************************)
EXTENDS Integers, Sequences, SequencesExt, FiniteSetsExt, Actors

CONSTANTS
  Missing,    \* links (i, j) that do not exist: route_mask is False, mu_ij = 0
  Idle,       \* sources of rate 0
  Warmup,     \* warmup_windows
  MaxUnits,   \* BOUND: units generated
  MaxTicks    \* BOUND: controller windows

ASSUME ConstantsTyped ==
  /\ IsFiniteSet(Sources) /\ IsFiniteSet(Brokers)
  /\ Missing \subseteq Links /\ Idle \subseteq Sources
  /\ \A i \in Sources \ Idle : \E j \in Brokers : <<i, j>> \notin Missing
  /\ Warmup \in Nat /\ MaxUnits \in Nat /\ MaxTicks \in Nat

VARIABLES
  due,             \* event_queue: the events at engine.now
  later,           \* event_queue: the events after it
  requests,        \* state.requests: per unit generated, its source
  linkQueue,       \* access_queues[i][j].queue
  linkBusy,        \* access_queues[i][j].is_busy
  brokerQueue,     \* broker_queues[j].queue
  brokerBusy,      \* broker_queues[j].is_busy
  completed,       \* the completed units, in order
  mode,            \* controller_mode
  routes,          \* per source, the brokers its row of x_ij gives flow to
  windowAccess,    \* window_access_arrivals
  windowArrivals,  \* window_arrivals
  windowLatencies, \* window_latencies: how many it holds
  records          \* the telemetry of the windows so far

heap == <<due, later>>
queues == <<linkQueue, linkBusy, brokerQueue, brokerBusy>>
plan == <<mode, routes>>
window == <<windowAccess, windowArrivals, windowLatencies>>
vars == <<heap, requests, queues, completed, plan, window, records>>

\* the numbers of units
Units == Nat

\* an event without its timestamp
Arrival(i) == [type |-> "SOURCE_ARRIVAL", source |-> i]
Tick == [type |-> "CONTROLLER_TICK"]
OnLink(t, l, u) == [type |-> t, link |-> l, unit |-> u]
AtBroker(t, j, u) == [type |-> t, broker |-> j, unit |-> u]

LinkEvents == {"ACCESS_SERVICE_START", "ACCESS_SERVICE_COMPLETE"}
BrokerEvents == {"BROKER_ARRIVAL", "BROKER_SERVICE_START", "BROKER_SERVICE_COMPLETE"}

Events ==
  {Arrival(i) : i \in Sources} \cup {Tick}
    \cup [type : LinkEvents, link : Links, unit : Units]
    \cup [type : BrokerEvents, broker : Brokers, unit : Units]

\* the brokers the row of source i may give flow to
MayRoute(i) == IF i \in Idle THEN {{}} ELSE SUBSET {j \in Brokers : <<i, j>> \notin Missing} \ {{}}

\* what Algorithm 1 may move the flows to
Routings == {f \in [Sources -> SUBSET Brokers] : \A i \in Sources : f[i] \in MayRoute(i)}

Modes == {"windowed_stochastic", "capacity_safe_event_driven"}

Record ==
  [access : [Links -> Nat], arrivals : [Brokers -> Nat],
   completedWindow : Nat, completedTotal : Nat,
   queueAccess : [Links -> Nat], queueBroker : [Brokers -> Nat]]

TypeOK ==
  /\ due \subseteq Events /\ later \subseteq Events /\ due \cap later = {}
  /\ requests \in Seq(Sources)
  /\ linkQueue \in [Links -> Seq(Units)] /\ linkBusy \in [Links -> BOOLEAN]
  /\ brokerQueue \in [Brokers -> Seq(Units)] /\ brokerBusy \in [Brokers -> BOOLEAN]
  /\ completed \in Seq(Units)
  /\ mode \in Modes /\ \A i \in Sources : routes[i] \in MayRoute(i)
  /\ windowAccess \in [Links -> Nat] /\ windowArrivals \in [Brokers -> Nat]
  /\ windowLatencies \in Nat
  /\ records \in Seq(Record)

\* the first arrival of every source is scheduled for time 0, the first tick by
\* the handler's constructor
Init ==
  /\ due = {Arrival(i) : i \in Sources}
  /\ later = {Tick}
  /\ requests = << >>
  /\ linkQueue = [l \in Links |-> << >>] /\ linkBusy = [l \in Links |-> FALSE]
  /\ brokerQueue = [j \in Brokers |-> << >>] /\ brokerBusy = [j \in Brokers |-> FALSE]
  /\ completed = << >>
  /\ mode \in Modes /\ routes \in Routings
  /\ windowAccess = [l \in Links |-> 0] /\ windowArrivals = [j \in Brokers |-> 0]
  /\ windowLatencies = 0
  /\ records = << >>

-----------------------------------------------------------------------------
(***************************************************************************)
(* The engine.                                                             *)
(***************************************************************************)

\* an exponential time of rate 0 is infinite
Never(e) ==
  \/ e.type = "SOURCE_ARRIVAL" /\ e.source \in Idle
  \/ e.type = "ACCESS_SERVICE_COMPLETE" /\ e.link \in Missing

\* run(): the clock goes to the earliest timestamp
Advance ==
  /\ due = {}
  /\ \E e \in {f \in later : ~Never(f)} :
       /\ e = Tick => Len(records) < MaxTicks
       /\ e.type = "SOURCE_ARRIVAL" => Len(requests) < MaxUnits
       /\ due' = {e}
       /\ later' = later \ {e}
  /\ UNCHANGED <<requests, queues, completed, plan, window, records>>

\* e is handled: it leaves the heap, and the handler schedules events for now
\* and for later
Handles(e, now, after) ==
  /\ e \in due
  /\ due' = (due \ {e}) \cup now
  /\ later' = later \cup after

-----------------------------------------------------------------------------
(***************************************************************************)
(* The handlers.                                                           *)
(***************************************************************************)

\* mutant: a unit that finds the server busy is not queued
DroppedWhenBusy(busy, queue, u) == queue

\* the queue a unit u finds: it starts service or waits
Waits(busy, queue, u) == IF busy THEN Append(queue, u) ELSE queue

\* mutant: one unit alone in the queue is popped but not started
FirstOfSeveral(queue) == {queue[k] : k \in {m \in DOMAIN queue : m = 1 /\ Len(queue) > 1}}

\* the unit popped next, if one waits
First(queue) == {queue[k] : k \in DOMAIN queue \cap {1}}

\* is_busy once a service is complete
StillBusy(queue) == queue # << >>

\* the brokers _handle_source_arrival draws from: a row without flow, which a
\* source of rate 0 has, is taken to be uniform over all of them, existing
\* links or not
Drawn(i) == IF routes[i] = {} THEN Brokers ELSE routes[i]

\* _handle_source_arrival
SourceArrival(i) ==
  \E j \in Drawn(i) :
    LET l == <<i, j>>
        u == Len(requests) + 1
    IN  /\ Handles(Arrival(i),
                   IF linkBusy[l] THEN {} ELSE {OnLink("ACCESS_SERVICE_START", l, u)},
                   {Arrival(i)})
        /\ windowAccess' = [windowAccess EXCEPT ![l] = @ + 1]
        /\ requests' = Append(requests, i)
        /\ linkQueue' = [linkQueue EXCEPT ![l] = Waits(linkBusy[l], @, u)]
        /\ UNCHANGED <<linkBusy, brokerQueue, brokerBusy, completed, plan, windowArrivals,
                       windowLatencies, records>>

\* _handle_access_start
AccessStart(l, u) ==
  /\ Handles(OnLink("ACCESS_SERVICE_START", l, u), {}, {OnLink("ACCESS_SERVICE_COMPLETE", l, u)})
  /\ linkBusy' = [linkBusy EXCEPT ![l] = TRUE]
  /\ UNCHANGED <<requests, linkQueue, brokerQueue, brokerBusy, completed, plan, window, records>>

\* _handle_access_complete
AccessComplete(l, u) ==
  /\ Handles(OnLink("ACCESS_SERVICE_COMPLETE", l, u),
             {OnLink("ACCESS_SERVICE_START", l, v) : v \in First(linkQueue[l])}
               \cup {AtBroker("BROKER_ARRIVAL", l[2], u)},
             {})
  /\ linkBusy' = [linkBusy EXCEPT ![l] = StillBusy(linkQueue[l])]
  /\ linkQueue' = [linkQueue EXCEPT ![l] = IF @ = << >> THEN @ ELSE Tail(@)]
  /\ UNCHANGED <<requests, brokerQueue, brokerBusy, completed, plan, window, records>>

\* _handle_broker_arrival
BrokerArrival(j, u) ==
  /\ Handles(AtBroker("BROKER_ARRIVAL", j, u),
             IF brokerBusy[j] THEN {} ELSE {AtBroker("BROKER_SERVICE_START", j, u)},
             {})
  /\ windowArrivals' = [windowArrivals EXCEPT ![j] = @ + 1]
  /\ brokerQueue' = [brokerQueue EXCEPT ![j] = Waits(brokerBusy[j], @, u)]
  /\ UNCHANGED <<requests, linkQueue, linkBusy, brokerBusy, completed, plan, windowAccess,
                 windowLatencies, records>>

\* _handle_broker_start
BrokerStart(j, u) ==
  /\ Handles(AtBroker("BROKER_SERVICE_START", j, u), {},
             {AtBroker("BROKER_SERVICE_COMPLETE", j, u)})
  /\ brokerBusy' = [brokerBusy EXCEPT ![j] = TRUE]
  /\ UNCHANGED <<requests, linkQueue, linkBusy, brokerQueue, completed, plan, window, records>>

\* _handle_broker_complete
BrokerComplete(j, u) ==
  /\ Handles(AtBroker("BROKER_SERVICE_COMPLETE", j, u),
             {AtBroker("BROKER_SERVICE_START", j, v) : v \in First(brokerQueue[j])},
             {})
  /\ completed' = Append(completed, u)
  /\ windowLatencies' = windowLatencies + 1
  /\ brokerBusy' = [brokerBusy EXCEPT ![j] = StillBusy(brokerQueue[j])]
  /\ brokerQueue' = [brokerQueue EXCEPT ![j] = IF @ = << >> THEN @ ELSE Tail(@)]
  /\ UNCHANGED <<requests, linkQueue, linkBusy, plan, windowAccess, windowArrivals, records>>

\* mutant: the server is counted when it is idle
MinusIdle(queue, busy) == Len(queue) - (IF busy THEN 0 ELSE 1)

\* in_system of _queue_and_latency_metrics
InSystem(queue, busy) == Len(queue) + (IF busy THEN 1 ELSE 0)

\* mutant: the window counter is incremented first
UpdatesEarly ==
  IF Len(records) + 1 < Warmup THEN {routes}
  ELSE {r \in Routings : \A i \in Sources : routes[i] \subseteq r[i]}

\* _windowed_update: after the warm-up, part of each best response is added (eta < 1)
WindowedUpdates ==
  IF Len(records) < Warmup THEN {routes}
  ELSE {r \in Routings : \A i \in Sources : routes[i] \subseteq r[i]}

\* _handle_controller_tick: the window is measured, the controller moves the
\* flows, and the telemetry is recorded
ControllerTick ==
  /\ Handles(Tick, {}, {Tick})
  /\ routes' \in IF mode = "windowed_stochastic" THEN WindowedUpdates ELSE Routings
  /\ records' = Append(records,
       [access |-> windowAccess, arrivals |-> windowArrivals,
        completedWindow |-> windowLatencies, completedTotal |-> Len(completed),
        queueAccess |-> [l \in Links |-> InSystem(linkQueue[l], linkBusy[l])],
        queueBroker |-> [j \in Brokers |-> InSystem(brokerQueue[j], brokerBusy[j])]])
  /\ windowAccess' = [l \in Links |-> 0]
  /\ windowArrivals' = [j \in Brokers |-> 0]
  /\ windowLatencies' = 0
  /\ UNCHANGED <<requests, queues, completed, mode>>

\* handle_event
Handle ==
  \/ \E i \in Sources : SourceArrival(i)
  \/ \E e \in {f \in due : f.type \in LinkEvents} :
       AccessStart(e.link, e.unit) \/ AccessComplete(e.link, e.unit)
  \/ \E e \in {f \in due : f.type \in BrokerEvents} :
       \/ BrokerArrival(e.broker, e.unit)
       \/ BrokerStart(e.broker, e.unit)
       \/ BrokerComplete(e.broker, e.unit)
  \/ ControllerTick

Next == Advance \/ Handle

Spec == Init /\ [][Next]_vars

\* the loop of run() goes on while there are events
FairSpec == Spec /\ WF_vars(Next)

-----------------------------------------------------------------------------
(***************************************************************************)
(* Properties.                                                             *)
(***************************************************************************)

\* the units whose event is on the heap, by its type and place
Serving(l) == {e.unit : e \in {f \in due \cup later : f.type \in LinkEvents /\ f.link = l}}
InTransfer(j) == {e.unit : e \in {f \in due : f.type = "BROKER_ARRIVAL" /\ f.broker = j}}
ServingAt(j) ==
  {e.unit : e \in {f \in due \cup later :
                     f.type \in BrokerEvents \ {"BROKER_ARRIVAL"} /\ f.broker = j}}

T == INSTANCE Tandem WITH
  Mortal <- {},
  generated <- Len(requests),
  access <- [l \in Links |-> SetToSeq(Serving(l)) \o linkQueue[l]],
  wire <- [l \in Links |-> SetToSeq({u \in InTransfer(l[2]) : requests[u] = l[1]})],
  broker <- [j \in Brokers |-> SetToSeq(ServingAt(j)) \o brokerQueue[j]]

\* The handlers and the heap make up the tandem queues: one server per link and
\* broker, first in first out, no unit lost, repeated or overtaken.
IsTandem == T!Spec

\* the windows, as the last record shows them
Shown ==
  IF records # << >> THEN records[Len(records)]
  ELSE [access |-> [l \in Links |-> 0], arrivals |-> [j \in Brokers |-> 0],
        completedWindow |-> 0, completedTotal |-> 0,
        queueAccess |-> [l \in Links |-> 0], queueBroker |-> [j \in Brokers |-> 0]]

W == INSTANCE Windows WITH
  Links <- Links \ Missing, window <- Len(records), x <- routes,
  qLink <- Shown.queueAccess, qBroker <- Shown.queueBroker,
  access <- Shown.access, arrivals <- Shown.arrivals,
  served <- Shown.completedWindow, total <- Shown.completedTotal

\* The telemetry accounts for every unit, from window to window: what it says was
\* generated, waits, has reached a broker and was completed is what the windowed queues
\* of the notebook could show, and windowed_stochastic moves its splits as they do.
IsWindowed ==
  /\ W!Init
  /\ [][W!Serve /\ (mode = "windowed_stochastic" => W!Update)]_W!vars

\* Every unit is served when the sources fall silent, but the one of a source
\* of rate 0 that was routed to a link that does not exist.
AllServed ==
  <>[](\A u \in DOMAIN requests :
         \/ u \in ToSet(completed)
         \/ \E l \in Missing : l[1] \in Idle /\ u \in Serving(l) \cup ToSet(linkQueue[l]))
=============================================================================
