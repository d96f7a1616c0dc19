----------------------------- MODULE Registration ---------------------------
(***************************************************************************)
(* How a distributed run comes up and goes down:                           *)
(* ControllerService._assign, _on_actor, run and _shutdown of              *)
(* src/distributed/controller.py, and the part of SourceWorker.run and     *)
(* BrokerWorker.run before their first round.                              *)
(*                                                                         *)
(* An element of Conns is one worker process and its control connection.   *)
(* A process belongs to an instance name; the processes of one name        *)
(* follow each other, the next starting when the one before has ended,     *)
(* which the controller need not have noticed.  A broker's data address    *)
(* is the process that serves it.  The rounds are the subject of Rounds.   *)
(***************************************************************************)
EXTENDS Integers, Sequences, FiniteSets

CONSTANTS
  N, M,             \* sources and brokers of the topology
  SourceInstances,  \* instance names of source processes
  BrokerInstances,  \* ... and of broker processes
  Conns,            \* worker processes, each with its connection
  NoConn,           \* None in channels and broker_addresses
  NoSlot,           \* no index assigned to an instance name
  InstanceOf(_),    \* the instance name a process registers under
  Reliable,         \* processes that do not fail of themselves
  PromptLoop        \* the event loop handles a lost connection and a set
                    \* event before a new process is up

Instances == SourceInstances \cup BrokerInstances

ASSUME CountsTyped == N \in Nat \ {0} /\ M \in Nat \ {0}

ASSUME InstancesTyped ==
  /\ SourceInstances \cap BrokerInstances = {}
  /\ \A c \in Conns : InstanceOf(c) \in Instances
  /\ Reliable \subseteq Conns /\ PromptLoop \in BOOLEAN
  /\ NoConn \notin Conns /\ NoSlot \notin Nat

SourceSlots == 0 .. N - 1
BrokerSlots == 0 .. M - 1
IsSource(c) == InstanceOf(c) \in SourceInstances

VARIABLES
  \* ---- controller
  slots,             \* slots of both roles: instance name -> index
  channels,          \* channels["source"]
  brokerChannels,    \* channels["broker"]
  brokerAddresses,   \* broker_addresses
  readySources,      \* ready_sources
  brokersRegistered, \* the brokers_registered event
  sourcesReady,      \* the sources_ready event
  stop,              \* the stop event
  pc,                \* where run() is
  t0Set,             \* t0 is set: run() has left its wait
  raised,            \* run() is unwinding with an exception
  \* ---- per connection
  handler,           \* where _on_actor is
  waiters,           \* the handlers in brokers_registered.wait(), oldest first
  link,              \* of the connection, as in Rounds
  toWorker,          \* sent by the controller, not yet read
  toController,      \* sent by the worker, not yet read
  \* ---- workers
  worker,            \* where the worker's run() is
  brokersOf,         \* the addresses in a source's assignment
  starts             \* how often a source has started its traffic tasks

events == <<brokersRegistered, sourcesReady, waiters>>
control == <<stop, pc, t0Set, raised>>
registry == <<slots, channels, brokerChannels, brokerAddresses, readySources>>
messages == <<toWorker, toController>>
workers == <<worker, brokersOf, starts>>
vars == <<registry, events, control, handler, link, messages, workers>>

Handlers == {"none", "hello", "brokers", "ready", "serving", "done"}
Addresses == [BrokerSlots -> Conns]

\* how many names of its role x may have
Limit(x) == IF x \in SourceInstances THEN N ELSE M

ToWorker ==
  [type : {"assignment"}, brokers : Addresses] \cup [type : {"welcome", "refused", "start", "stop"}]

TypeOK ==
  /\ \A x \in Instances : slots[x] \in 0 .. Limit(x) - 1 \cup {NoSlot}
  /\ channels \in [SourceSlots -> Conns \cup {NoConn}]
  /\ brokerChannels \in [BrokerSlots -> Conns \cup {NoConn}]
  /\ brokerAddresses \in [BrokerSlots -> Conns \cup {NoConn}]
  /\ readySources \subseteq SourceSlots
  /\ {brokersRegistered, sourcesReady, stop, t0Set, raised} \subseteq BOOLEAN
  /\ pc \in {"waiting", "rounds", "shutdown", "closing", "stopped"}
  /\ handler \in [Conns -> Handlers] /\ waiters \in Seq(Conns)
  /\ link \in [Conns -> {"unused", "up", "cut", "closed"}]
  /\ toWorker \in [Conns -> Seq(ToWorker)]
  /\ toController \in [Conns -> Seq({"register", "ready"})]
  /\ worker \in [Conns -> {"off", "registering", "connecting", "running", "ended"}]
  /\ brokersOf \in [Conns -> Addresses \cup {<< >>}]
  /\ starts \in [Conns -> Nat]

Init ==
  /\ slots = [x \in Instances |-> NoSlot]
  /\ channels = [i \in SourceSlots |-> NoConn]
  /\ brokerChannels = [j \in BrokerSlots |-> NoConn]
  /\ brokerAddresses = [j \in BrokerSlots |-> NoConn]
  /\ readySources = {}
  /\ brokersRegistered = FALSE /\ sourcesReady = FALSE
  /\ stop = FALSE /\ pc = "waiting" /\ t0Set = FALSE /\ raised = FALSE
  /\ handler = [c \in Conns |-> "none"] /\ waiters = << >>
  /\ link = [c \in Conns |-> "unused"]
  /\ toWorker = [c \in Conns |-> << >>]
  /\ toController = [c \in Conns |-> << >>]
  /\ worker = [c \in Conns |-> "off"]
  /\ brokersOf = [c \in Conns |-> << >>]
  /\ starts = [c \in Conns |-> 0]

-----------------------------------------------------------------------------
(***************************************************************************)
(* The controller's handlers.                                              *)
(***************************************************************************)

MayRaise(c) == link[c] # "up"

\* the messages after m was sent on every connection of cs
Sent(cs, m) ==
  [c \in Conns |-> IF c \in cs /\ link[c] = "up" THEN Append(toWorker[c], m) ELSE toWorker[c]]

\* the names of x's role that hold a slot
Holders(x) ==
  {y \in (IF x \in SourceInstances THEN SourceInstances ELSE BrokerInstances) : slots[y] # NoSlot}

\* mutant: the slot of a name is the number of connected workers of its role
ReusedSlot(x) ==
  Cardinality({k \in SourceSlots : x \in SourceInstances /\ channels[k] # NoConn}
                \cup {k \in BrokerSlots : x \in BrokerInstances /\ brokerChannels[k] # NoConn})

\* a new name gets the next index
NewSlot(x) == Cardinality(Holders(x))

\* mutant: no limit
Unlimited(x) == IF slots[x] # NoSlot THEN slots[x] ELSE NewSlot(x)

\* _assign
Assign(x) ==
  IF slots[x] # NoSlot \/ Cardinality(Holders(x)) >= Limit(x) THEN slots[x] ELSE NewSlot(x)

\* the index of a process whose name was assigned one
SlotOf(c) == slots[InstanceOf(c)]

\* _on_actor takes the register message
TakesHello(c) ==
  /\ handler[c] = "hello" /\ link[c] \in {"up", "cut"}
  /\ toController[c] # << >>
  /\ toController' = [toController EXCEPT ![c] = Tail(@)]
  /\ slots' = [slots EXCEPT ![InstanceOf(c)] = Assign(InstanceOf(c))]

\* no free slot
Refuse(c) ==
  /\ TakesHello(c)
  /\ Assign(InstanceOf(c)) = NoSlot
  /\ toWorker' = Sent({c}, [type |-> "refused"])
  /\ handler' = [handler EXCEPT ![c] = "done"]
  /\ UNCHANGED <<channels, brokerChannels, brokerAddresses, readySources, events, control, link, workers>>

\* all(a is not None for a in broker_addresses)
AllKnown(addresses) == \A k \in BrokerSlots : addresses[k] # NoConn

\* a broker: its address is known before it is sent its assignment; when that
\* send raises, the handler ends without a channel
RegisterBroker(c) ==
  LET j == Assign(InstanceOf(c)) IN
  /\ ~IsSource(c) /\ TakesHello(c)
  /\ j # NoSlot
  /\ brokerAddresses' = [brokerAddresses EXCEPT ![j] = c]
  /\ \/ /\ toWorker' = Sent({c}, [type |-> "welcome"])
        /\ brokerChannels' = [brokerChannels EXCEPT ![j] = c]
        /\ brokersRegistered' = (brokersRegistered \/ AllKnown(brokerAddresses'))
        /\ handler' = [handler EXCEPT ![c] = "serving"]
     \/ /\ MayRaise(c)
        /\ handler' = [handler EXCEPT ![c] = "done"]
        /\ UNCHANGED <<toWorker, brokerChannels, brokersRegistered>>
  /\ UNCHANGED <<channels, readySources, sourcesReady, waiters, control, link, workers>>

\* a source waits for brokers_registered
RegisterSource(c) ==
  /\ IsSource(c) /\ TakesHello(c)
  /\ Assign(InstanceOf(c)) # NoSlot
  /\ handler' = [handler EXCEPT ![c] = "brokers"]
  /\ waiters' = Append(waiters, c)
  /\ UNCHANGED <<channels, brokerChannels, brokerAddresses, readySources, brokersRegistered, sourcesReady,
                 control, link, toWorker, workers>>

\* ... and is sent its assignment, also when its process has ended meanwhile;
\* an event wakes its waiters in order
AssignSource(c) ==
  /\ brokersRegistered
  /\ waiters # << >> /\ c = Head(waiters)
  /\ waiters' = Tail(waiters)
  /\ \/ /\ toWorker' = Sent({c}, [type |-> "assignment", brokers |-> brokerAddresses])
        /\ channels' = [channels EXCEPT ![SlotOf(c)] = c]
        /\ handler' = [handler EXCEPT ![c] = "ready"]
     \/ /\ MayRaise(c)
        /\ handler' = [handler EXCEPT ![c] = "done"]
        /\ UNCHANGED <<toWorker, channels>>
  /\ UNCHANGED <<slots, brokerChannels, brokerAddresses, readySources, brokersRegistered, sourcesReady,
                 control, link, toController, workers>>

\* mutant: one ready source is enough
SomeReady(ready) == ready # {}

\* len(ready_sources) == n
AllReady(ready) == Cardinality(ready) = N

\* a source is ready; once t0 is set it gets its start at once, also when the loop of
\* run() has raised before it reached the source's index
SourceReady(c) ==
  /\ handler[c] = "ready" /\ link[c] \in {"up", "cut"}
  /\ toController[c] # << >>
  /\ toController' = [toController EXCEPT ![c] = Tail(@)]
  /\ readySources' = readySources \cup {SlotOf(c)}
  /\ \/ /\ toWorker' = IF t0Set THEN Sent({c}, [type |-> "start"]) ELSE toWorker
        /\ sourcesReady' = (sourcesReady \/ AllReady(readySources'))
        /\ handler' = [handler EXCEPT ![c] = "serving"]
     \/ /\ t0Set /\ MayRaise(c)
        /\ handler' = [handler EXCEPT ![c] = "done"]
        /\ UNCHANGED <<toWorker, sourcesReady>>
  /\ UNCHANGED <<slots, channels, brokerChannels, brokerAddresses, brokersRegistered, waiters, control, link, workers>>

\* the controller reads the end of the connection: the handler ends if it was
\* waiting for the first message, else its reader, once it runs, sets closed
ReadClosed(c) ==
  /\ link[c] = "cut"
  /\ handler[c] # "brokers"
  /\ handler[c] = "hello" => toController[c] = << >>
  /\ link' = [link EXCEPT ![c] = "closed"]
  /\ handler' = IF handler[c] = "hello" THEN [handler EXCEPT ![c] = "done"] ELSE handler
  /\ toController' = [toController EXCEPT ![c] = << >>]
  /\ UNCHANGED <<registry, events, control, toWorker, workers>>

\* mutant: ready_sources is not updated
NeverDiscarded(c) == readySources

\* mutant: ready_sources.discard before "is channel" is looked at
ReadyAfterLoss(c) == readySources \ {SlotOf(c)}

\* ready_sources after the clean-up of a source's connection c
StillReady(c) == IF channels[SlotOf(c)] = c THEN readySources \ {SlotOf(c)} ELSE readySources

\* _on_actor after closed.wait()
HandlerClosed(c) ==
  /\ handler[c] = "serving" /\ link[c] = "closed"
  /\ handler' = [handler EXCEPT ![c] = "done"]
  /\ IF IsSource(c)
     THEN /\ readySources' = StillReady(c)
          /\ channels' = [k \in SourceSlots |-> IF channels[k] = c THEN NoConn ELSE channels[k]]
          /\ UNCHANGED brokerChannels
     ELSE /\ brokerChannels' = [k \in BrokerSlots |-> IF brokerChannels[k] = c THEN NoConn ELSE brokerChannels[k]]
          /\ UNCHANGED <<readySources, channels>>
  /\ UNCHANGED <<slots, brokerAddresses, events, control, link, messages, workers>>

-----------------------------------------------------------------------------
(***************************************************************************)
(* run() of the controller.                                                *)
(***************************************************************************)

\* the loop sends start by index, without giving way to another task; it breaks
\* off at a channel that is None or that raises
StartTraffic ==
  /\ pc = "waiting" /\ sourcesReady /\ ~stop
  /\ t0Set' = TRUE
  /\ \E sentTo \in 0 .. N :
       /\ \A k \in 0 .. sentTo - 1 : channels[k] # NoConn
       /\ sentTo \in {N} \cup {k \in SourceSlots : channels[k] = NoConn \/ MayRaise(channels[k])}
       /\ toWorker' = Sent({channels[k] : k \in 0 .. sentTo - 1}, [type |-> "start"])
       /\ raised' = (sentTo < N)
       /\ pc' = IF sentTo < N THEN "shutdown" ELSE "rounds"
  /\ UNCHANGED <<registry, events, stop, handler, link, toController, workers>>

\* SIGTERM, SIGINT or a shutdown message
RequestStop ==
  /\ ~stop /\ pc # "stopped"
  /\ stop' = TRUE
  /\ UNCHANGED <<registry, events, pc, t0Set, raised, handler, link, messages, workers>>

\* _shutdown up to its sleep, from the wait, from the rounds, or on an exception
ShutDown ==
  /\ pc = "shutdown" \/ (pc \in {"waiting", "rounds"} /\ stop)
  /\ stop' = TRUE
  /\ toWorker' = Sent({channels[k] : k \in SourceSlots} \cup {brokerChannels[k] : k \in BrokerSlots},
                      [type |-> "stop"])
  /\ pc' = "closing"
  /\ UNCHANGED <<registry, events, t0Set, raised, handler, link, toController, workers>>

Exit ==
  /\ pc = "closing"
  /\ pc' = "stopped"
  /\ UNCHANGED <<registry, events, stop, t0Set, raised, handler, link, messages, workers>>

-----------------------------------------------------------------------------
(***************************************************************************)
(* The workers.                                                            *)
(***************************************************************************)

Processes(x) == {c \in Conns : InstanceOf(c) = x}

\* the controller is done with the connections of the processes that ended, and
\* run() is not about to wake up
CaughtUp ==
  /\ \A c \in Conns : worker[c] = "ended" =>
       handler[c] # "serving" /\ (link[c] = "cut" => handler[c] = "brokers")
  /\ ~(pc = "waiting" /\ sourcesReady)

\* a process starts, connects and sends register
Launch(c) ==
  /\ worker[c] = "off" /\ pc # "stopped"
  /\ \A d \in Processes(InstanceOf(c)) \ {c} : worker[d] \in {"off", "ended"}
  /\ PromptLoop => CaughtUp
  /\ worker' = [worker EXCEPT ![c] = "registering"]
  /\ link' = [link EXCEPT ![c] = "up"]
  /\ handler' = [handler EXCEPT ![c] = "hello"]
  /\ toController' = [toController EXCEPT ![c] = <<"register">>]
  /\ UNCHANGED <<registry, events, control, toWorker, brokersOf, starts>>

\* the worker reads its next message, m
Reads(c, m) ==
  /\ link[c] = "up" /\ toWorker[c] # << >>
  /\ m = Head(toWorker[c])
  /\ toWorker' = [toWorker EXCEPT ![c] = Tail(@)]
  /\ UNCHANGED <<registry, events, control, handler, link>>

\* a broker reads its assignment
BrokerAssigned(c) ==
  /\ worker[c] = "registering" /\ Reads(c, [type |-> "welcome"])
  /\ worker' = [worker EXCEPT ![c] = "running"]
  /\ UNCHANGED <<toController, brokersOf, starts>>

\* a source reads its assignment
SourceAssigned(c) ==
  /\ worker[c] = "registering"
  /\ \E b \in Addresses : /\ Reads(c, [type |-> "assignment", brokers |-> b])
                          /\ brokersOf' = [brokersOf EXCEPT ![c] = b]
  /\ worker' = [worker EXCEPT ![c] = "connecting"]
  /\ UNCHANGED <<toController, starts>>

\* the brokers of source c that do not accept a connection
Unreachable(c) == {k \in BrokerSlots : worker[brokersOf[c][k]] = "ended"}

\* it has connected to its brokers
SourceConnected(c) ==
  /\ worker[c] = "connecting" /\ Unreachable(c) = {}
  /\ worker' = [worker EXCEPT ![c] = "running"]
  /\ toController' = [toController EXCEPT ![c] = Append(@, "ready")]
  /\ UNCHANGED <<registry, events, control, handler, link, toWorker, brokersOf, starts>>

\* SourceWorker.run, "start": new tasks, whatever runs already
SourceStarts(c) ==
  /\ worker[c] = "running" /\ Reads(c, [type |-> "start"])
  /\ starts' = [starts EXCEPT ![c] = @ + 1]
  /\ UNCHANGED <<worker, toController, brokersOf>>

\* the process is over
Ends(c) ==
  /\ worker' = [worker EXCEPT ![c] = "ended"]
  /\ link' = [link EXCEPT ![c] = "cut"]
  /\ toWorker' = [toWorker EXCEPT ![c] = << >>]
  /\ UNCHANGED <<registry, events, control, handler, toController, brokersOf, starts>>

Alive(c) == worker[c] \notin {"off", "ended"}

\* "stop", or "refused" in place of an assignment; the list of the brokers comes first
WorkerStops(c) ==
  /\ worker[c] \in {"registering", "running"} /\ toWorker[c] # << >>
  /\ Head(toWorker[c]).type \in {"stop", "refused"}
  /\ Ends(c)

\* connect_with_retry of a source has used up its attempts
SourceGivesUp(c) == worker[c] = "connecting" /\ Unreachable(c) # {} /\ Ends(c)

\* mutant: a source waits on when there is no assignment
OnlyRunningSeesEof(c) ==
  worker[c] = "running" /\ toWorker[c] = << >> /\ pc = "stopped" /\ Ends(c)

\* the connection ends with the controller: recv() returns None, in place of
\* the assignment too
WorkerSeesEof(c) ==
  worker[c] \in {"registering", "running"} /\ toWorker[c] = << >> /\ pc = "stopped" /\ Ends(c)

WorkerCrashes(c) == c \notin Reliable /\ Alive(c) /\ Ends(c)

-----------------------------------------------------------------------------
Handler(c) ==
  \/ Refuse(c) \/ RegisterBroker(c) \/ RegisterSource(c) \/ AssignSource(c) \/ SourceReady(c)
  \/ ReadClosed(c) \/ HandlerClosed(c)

Run == StartTraffic \/ ShutDown \/ Exit

Worker(c) ==
  \/ BrokerAssigned(c) \/ SourceAssigned(c) \/ SourceConnected(c) \/ SourceStarts(c)
  \/ WorkerStops(c) \/ SourceGivesUp(c) \/ WorkerSeesEof(c)

Next ==
  \/ Run
  \/ RequestStop
  \/ \E c \in Conns : Handler(c) \/ Worker(c) \/ Launch(c) \/ WorkerCrashes(c)

Spec == Init /\ [][Next]_vars

(***************************************************************************)
(* The event loop runs what is ready, workers read what they are sent, and *)
(* a process that ended is started again as long as its name has one left. *)
(***************************************************************************)
Fairness ==
  /\ WF_vars(Run)
  /\ \A c \in Conns : WF_vars(Handler(c)) /\ WF_vars(Worker(c)) /\ WF_vars(Launch(c))

FairSpec == Spec /\ Fairness

-----------------------------------------------------------------------------
(***************************************************************************)
(* Properties.                                                             *)
(***************************************************************************)

\* Two instance names never share a logical index, and the indices stay those
\* of the topology, however the processes behind the names come and go.
OneNamePerSlot ==
  \A x \in Instances : slots[x] # NoSlot =>
    /\ slots[x] < Limit(x)
    /\ \A y \in Holders(x) \ {x} : slots[y] # slots[x]

\* Until run() sets t0 and sends the starts, a source counts as ready only while the process
\* that is registered for it is the one that said so: the loss of a ready
\* source is not forgotten.
ReadyIsServed ==
  ~t0Set => \A k \in readySources : channels[k] # NoConn /\ handler[channels[k]] = "serving"

StartsSent(c) == Cardinality({i \in DOMAIN toWorker[c] : toWorker[c][i].type = "start"})

\* No source process generates its traffic twice: it is told to start once,
\* by run() or, when it rejoins, by its handler.
StartsOnce == \A c \in Conns : starts[c] + StartsSent(c) <= 1

\* The rounds begin only once every source index is held by a name and every
\* broker's address is known, whichever processes came and went.  When none has
\* ended, every source and broker is also connected, assigned and running, and
\* every source sends to the brokers that are registered (Init of Rounds).
RoundsCanBegin ==
  pc = "rounds" =>
    /\ AllKnown(brokerAddresses)
    /\ \A k \in SourceSlots : \E x \in SourceInstances : slots[x] = k
    /\ (\A c \in Conns : worker[c] # "ended") =>
         /\ \A k \in SourceSlots :
              /\ channels[k] # NoConn
              /\ handler[channels[k]] = "serving" /\ worker[channels[k]] = "running"
              /\ brokersOf[channels[k]] = brokerChannels
         /\ \A k \in BrokerSlots : handler[brokerChannels[k]] = "serving"

\* "when all are ready the controller sends start" (docs/distributed.md:73)
StartOnlyWhenReady == \A c \in Conns : StartsSent(c) > 0 => worker[c] = "running"

\* When run() wakes up, each source it is to start is still connected.  Otherwise
\* the loop of the starts raises and the run ends before its first round.
NoneLostAtStart ==
  pc = "waiting" /\ sourcesReady =>
    \A k \in SourceSlots : channels[k] # NoConn /\ link[channels[k]] = "up"

\* a process of every source index has started its traffic
TrafficStarts == \A k \in SourceSlots : \E c \in Conns : IsSource(c) /\ SlotOf(c) = k /\ starts[c] > 0

\* If no source is lost just as the last one gets ready, every source generates
\* traffic in the end, or a user stops the run: sources that fail earlier or later
\* and are started again do not keep it from starting.
StartsEventually == []NoneLostAtStart => <>(TrafficStarts \/ stop)

\* A run that is stopped, also before it has started, leaves no process behind,
\* not even a source whose registration is still being held back.
EveryoneEnds == stop ~> pc = "stopped" /\ \A c \in Conns : ~Alive(c)
=============================================================================
