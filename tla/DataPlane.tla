------------------------------ MODULE DataPlane -----------------------------
(***************************************************************************)
(* The traffic of the distributed emulator and its measurement: the tasks  *)
(* _generate and _serve_access of src/distributed/source.py, _on_source    *)
(* and _serve of broker.py, the metrics() of both, and the part of the     *)
(* controller's round that collects them.                                  *)
(*                                                                         *)
(* A process is one event loop: its steps are the stretches of its tasks   *)
(* between two awaits.  An access link and a broker run the same loop      *)
(* over a queue and an event; both are Places.  A broker of Mortal may     *)
(* die and is not replaced.  Left out: timestamps, the end of the run,     *)
(* the plan (Rounds), and sources that die.                                *)
(***************************************************************************)
EXTENDS Integers, Sequences, FiniteSets, Functions

CONSTANTS
  Sources, Brokers,
  Links,       \* the links (i, j) with mu_ij > 0
  Mortal,      \* brokers that may die
  MaxSamples,  \* MAX_SAMPLES
  MaxUnits,    \* BOUND: units generated
  MaxRounds    \* BOUND: rounds attempted

Workers == Sources \cup Brokers
Places == Links \cup Brokers
Units == 1 .. MaxUnits

ASSUME ConstantsTyped ==
  /\ Sources \cap Brokers = {} /\ Links \cap Brokers = {}
  /\ IsFiniteSet(Links) /\ IsFiniteSet(Brokers)
  /\ Links \subseteq Sources \X Brokers
  /\ Mortal \subseteq Brokers
  /\ MaxSamples \in Nat \ {0} /\ MaxUnits \in Nat /\ MaxRounds \in Nat

VARIABLES
  \* ---- per link and broker
  queue,        \* queues[j] of a source, queue of a broker
  wake,         \* wakeups[j], queue_event
  loop,         \* where _serve_access or _serve is
  serving,      \* the unit it serves, as a sequence; busy is serving # << >>
  \* ---- traffic
  route,        \* per unit generated, its link
  wire,         \* per link, the units written and not yet read
  completed,    \* the completed units, in order
  alive,        \* the brokers that live
  \* ---- the measurement window of each process
  routed,       \* SourceWorker.routed, per link
  arrivals,     \* BrokerWorker.arrivals
  done,         \* BrokerWorker.completed
  \* ---- the controller's round
  round, stage, skipped,
  asked,        \* per worker, the requests it has not read
  outcome,      \* per worker, the result of _gather
  report,       \* ... and its metrics
  records       \* the telemetry of the rounds applied

loops == <<queue, wake, loop, serving>>
window == <<routed, arrivals, done>>
control == <<round, stage, skipped, asked, outcome, report, records>>
vars == <<loops, route, wire, completed, alive, window, control>>

NoReport == [none |-> TRUE]
BrokerReport == [arrivals : Nat, completed : Nat, samples : Nat, inSystem : Nat, completedTotal : Nat]
SourceReport(i) == [{l \in Links : l[1] = i} -> [routed : Nat, inSystem : Nat]]

TypeOK ==
  /\ queue \in [Places -> Seq(Units)]
  /\ wake \in [Places -> BOOLEAN]
  /\ loop \in [Places -> {"ready", "waiting", "serving", "draining", "dead"}]
  /\ \A p \in Places : IF loop[p] = "serving" THEN Len(serving[p]) = 1 ELSE serving[p] = << >>
  /\ route \in Seq(Links)
  /\ wire \in [Links -> Seq(Units)]
  /\ completed \in Seq(Units)
  /\ alive \subseteq Brokers /\ Brokers \ Mortal \subseteq alive
  /\ routed \in [Links -> Nat] /\ arrivals \in [Brokers -> Nat] /\ done \in [Brokers -> Nat]
  /\ round \in Nat /\ stage \in {"idle", "brokers", "sources"} /\ skipped \in 0 .. round
  /\ asked \in [Workers -> Seq(1 .. round)]
  /\ outcome \in [Workers -> {"pending", "reply", "failed"}]
  /\ \A j \in Brokers : report[j] = NoReport \/ report[j] \in BrokerReport
  /\ \A i \in Sources : report[i] = NoReport \/ report[i] \in SourceReport(i)

Init ==
  /\ queue = [p \in Places |-> << >>] /\ wake = [p \in Places |-> FALSE]
  /\ loop = [p \in Places |-> "ready"] /\ serving = [p \in Places |-> << >>]
  /\ route = << >> /\ wire = [l \in Links |-> << >>] /\ completed = << >>
  /\ alive = Brokers
  /\ routed = [l \in Links |-> 0] /\ arrivals = [j \in Brokers |-> 0] /\ done = [j \in Brokers |-> 0]
  /\ round = 0 /\ stage = "idle" /\ skipped = 0
  /\ asked = [w \in Workers |-> << >>]
  /\ outcome = [w \in Workers |-> "pending"]
  /\ report = [w \in Workers |-> NoReport]
  /\ records = << >>

-----------------------------------------------------------------------------
(***************************************************************************)
(* The loop over a queue, of an access link or a broker.                   *)
(***************************************************************************)

\* mutant: a put wakes the server only when units were waiting already
WakesLater(p) == queue[p] # << >>

\* the event is set with every put
Wakes(p) == TRUE

\* u is put into the queue
Put(p, u) ==
  /\ queue' = [queue EXCEPT ![p] = Append(@, u)]
  /\ wake' = [wake EXCEPT ![p] = @ \/ Wakes(p)]

\* mutant: pop() where the code has popleft()
ContinueLifo(p) ==
  IF queue[p] = << >>
  THEN /\ wake' = [wake EXCEPT ![p] = FALSE]
       /\ loop' = [loop EXCEPT ![p] = "waiting"]
       /\ serving' = [serving EXCEPT ![p] = << >>]
       /\ UNCHANGED queue
  ELSE /\ serving' = [serving EXCEPT ![p] = <<queue[p][Len(queue[p])]>>]
       /\ queue' = [queue EXCEPT ![p] = SubSeq(@, 1, Len(@) - 1)]
       /\ loop' = [loop EXCEPT ![p] = "serving"]
       /\ UNCHANGED wake

\* mutant: a server that waits is still busy
ContinueBusy(p) ==
  IF queue[p] = << >>
  THEN /\ wake' = [wake EXCEPT ![p] = FALSE]
       /\ loop' = [loop EXCEPT ![p] = "waiting"]
       /\ UNCHANGED <<queue, serving>>
  ELSE /\ serving' = [serving EXCEPT ![p] = <<Head(queue[p])>>]
       /\ queue' = [queue EXCEPT ![p] = Tail(@)]
       /\ loop' = [loop EXCEPT ![p] = "serving"]
       /\ UNCHANGED wake

\* the loop goes on: it takes the next unit, or clears its event and waits
Continue(p) ==
  IF queue[p] = << >>
  THEN /\ wake' = [wake EXCEPT ![p] = FALSE]
       /\ loop' = [loop EXCEPT ![p] = "waiting"]
       /\ serving' = [serving EXCEPT ![p] = << >>]
       /\ UNCHANGED queue
  ELSE /\ serving' = [serving EXCEPT ![p] = <<Head(queue[p])>>]
       /\ queue' = [queue EXCEPT ![p] = Tail(@)]
       /\ loop' = [loop EXCEPT ![p] = "serving"]
       /\ UNCHANGED wake

\* the task begins, or wait() returns
Resume(p) ==
  /\ loop[p] = "ready" \/ (loop[p] = "waiting" /\ wake[p])
  /\ Continue(p)
  /\ UNCHANGED <<route, wire, completed, alive, window, control>>

-----------------------------------------------------------------------------
(***************************************************************************)
(* Traffic.                                                                *)
(***************************************************************************)

\* _generate: source i routes a unit to broker j
Generate(l) ==
  /\ Len(route) < MaxUnits
  /\ route' = Append(route, l)
  /\ routed' = [routed EXCEPT ![l] = @ + 1]
  /\ Put(l, Len(route'))
  /\ UNCHANGED <<loop, serving, wire, completed, alive, arrivals, done, control>>

\* _serve_access: the service is over, the unit is written to the broker
LeaveLink(l) ==
  /\ loop[l] = "serving"
  /\ wire' = [wire EXCEPT ![l] = @ \o serving[l]]
  /\ serving' = [serving EXCEPT ![l] = << >>]
  /\ loop' = [loop EXCEPT ![l] = "draining"]
  /\ UNCHANGED <<queue, wake, route, completed, alive, window, control>>

\* drain() returns, or raises once the connection is known to be lost: the
\* exception ends the task and nobody looks at it
Drained(l) ==
  /\ loop[l] = "draining"
  /\ \/ Continue(l)
     \/ /\ l[2] \notin alive
        /\ loop' = [loop EXCEPT ![l] = "dead"]
        /\ UNCHANGED <<queue, wake, serving>>
  /\ UNCHANGED <<route, wire, completed, alive, window, control>>

\* _on_source
Deliver(l) ==
  LET j == l[2] IN
  /\ j \in alive /\ wire[l] # << >>
  /\ wire' = [wire EXCEPT ![l] = Tail(@)]
  /\ arrivals' = [arrivals EXCEPT ![j] = @ + 1]
  /\ Put(j, Head(wire[l]))
  /\ UNCHANGED <<loop, serving, route, completed, alive, routed, done, control>>

\* _serve of a broker: the service is over, _complete
Complete(j) ==
  /\ loop[j] = "serving"
  /\ completed' = completed \o serving[j]
  /\ done' = [done EXCEPT ![j] = @ + 1]
  /\ Continue(j)
  /\ UNCHANGED <<route, wire, alive, routed, arrivals, control>>

\* a broker process dies, with the units at it and on their way to it
BrokerDies(j) ==
  /\ j \in alive \cap Mortal
  /\ alive' = alive \ {j}
  /\ queue' = [queue EXCEPT ![j] = << >>] /\ serving' = [serving EXCEPT ![j] = << >>]
  /\ loop' = [loop EXCEPT ![j] = "dead"]
  /\ wire' = [l \in Links |-> IF l[2] = j THEN << >> ELSE wire[l]]
  /\ UNCHANGED <<wake, route, completed, window, control>>

-----------------------------------------------------------------------------
(***************************************************************************)
(* Measurement.                                                            *)
(***************************************************************************)

\* mutant: a link is busy until drain() returns
BusyDraining(p) == Len(queue[p]) + (IF loop[p] \in {"serving", "draining"} THEN 1 ELSE 0)

\* len(queue) + int(busy)
InSystem(p) == Len(queue[p]) + Len(serving[p])

CompletedAt(j) == Cardinality({k \in DOMAIN completed : route[completed[k]][2] = j})

\* metrics() of a broker; more than MAX_SAMPLES latency samples are thinned
BrokerMetrics(j) ==
  [arrivals |-> arrivals[j], completed |-> done[j],
   samples |-> IF done[j] > MaxSamples THEN MaxSamples ELSE done[j],
   inSystem |-> InSystem(j), completedTotal |-> CompletedAt(j)]

\* metrics() of a source
SourceMetrics(i) ==
  [l \in {k \in Links : k[1] = i} |-> [routed |-> routed[l], inSystem |-> InSystem(l)]]

\* w reads a request and sends its reply, which the controller gets in time,
\* too late, or not at all
Replies(w, metrics) ==
  /\ asked[w] # << >>
  /\ asked' = [asked EXCEPT ![w] = Tail(@)]
  /\ IF Head(asked[w]) = round /\ outcome[w] = "pending"
     THEN \/ /\ outcome' = [outcome EXCEPT ![w] = "reply"]
             /\ report' = [report EXCEPT ![w] = metrics]
          \/ /\ outcome' = [outcome EXCEPT ![w] = "failed"]
             /\ UNCHANGED report
     ELSE UNCHANGED <<outcome, report>>
  /\ UNCHANGED <<loops, route, wire, completed, alive, round, stage, skipped, records>>

\* mutant: the arrivals are counted from the start of the run
NoReset(j) == arrivals

\* _reset_window
ResetArrivals(j) == [arrivals EXCEPT ![j] = 0]

BrokerReplies(j) ==
  /\ j \in alive
  /\ Replies(j, BrokerMetrics(j))
  /\ arrivals' = ResetArrivals(j)
  /\ done' = [done EXCEPT ![j] = 0]
  /\ UNCHANGED routed

SourceReplies(i) ==
  /\ Replies(i, SourceMetrics(i))
  /\ routed' = [l \in Links |-> IF l[1] = i THEN 0 ELSE routed[l]]
  /\ UNCHANGED <<arrivals, done>>

Timeout(w) ==
  /\ outcome[w] = "pending"
  /\ stage = IF w \in Brokers THEN "brokers" ELSE "sources"
  /\ outcome' = [outcome EXCEPT ![w] = "failed"]
  /\ UNCHANGED <<loops, route, wire, completed, alive, window, round, stage, skipped, asked, report, records>>

\* _gather
Ask(S, r) ==
  /\ asked' = [w \in Workers |-> IF w \in S THEN Append(asked[w], r) ELSE asked[w]]
  /\ outcome' = [w \in Workers |-> IF w \in S THEN "pending" ELSE outcome[w]]
  /\ report' = [w \in Workers |-> IF w \in S THEN NoReport ELSE report[w]]

Gathered(S) == \A w \in S : outcome[w] # "pending"
Failed(S) == {w \in S : outcome[w] = "failed"}

AskBrokers ==
  /\ stage = "idle" /\ round < MaxRounds
  /\ round' = round + 1
  /\ stage' = "brokers"
  /\ Ask(Brokers, round + 1)
  /\ UNCHANGED <<loops, route, wire, completed, alive, window, skipped, records>>

SkipRound ==
  /\ stage = "brokers" /\ Gathered(Brokers) /\ Failed(Brokers) # {}
  /\ skipped' = skipped + 1
  /\ stage' = "idle"
  /\ UNCHANGED <<loops, route, wire, completed, alive, window, round, asked, outcome, report, records>>

AskSources ==
  /\ stage = "brokers" /\ Gathered(Brokers) /\ Failed(Brokers) = {}
  /\ stage' = "sources"
  /\ Ask(Sources, round)
  /\ UNCHANGED <<loops, route, wire, completed, alive, window, round, skipped, records>>

\* completed_window of _record
CompletedWindow ==
  LET samples == SumFunction([j \in Brokers |-> report[j].samples])
  IN  IF samples > 0 THEN samples ELSE SumFunction([j \in Brokers |-> report[j].completed])

\* _record
RecordRound ==
  /\ stage = "sources" /\ Gathered(Sources)
  /\ stage' = "idle"
  /\ records' = Append(records,
       [report |-> report, held |-> Failed(Sources), skipped |-> skipped,
        completedWindow |-> CompletedWindow])
  /\ UNCHANGED <<loops, route, wire, completed, alive, window, round, skipped, asked, outcome, report>>

-----------------------------------------------------------------------------
Serve(p) ==
  \/ Resume(p)
  \/ p \in Links /\ (LeaveLink(p) \/ Drained(p))
  \/ p \in Brokers /\ Complete(p)

Round ==
  \/ AskBrokers \/ SkipRound \/ AskSources \/ RecordRound
  \/ \E w \in Workers : Timeout(w)
  \/ \E j \in Brokers : BrokerReplies(j)
  \/ \E i \in Sources : SourceReplies(i)

Next ==
  \/ \E l \in Links : Generate(l) \/ Deliver(l)
  \/ \E p \in Places : Serve(p)
  \/ \E j \in Brokers : BrokerDies(j)
  \/ Round

Spec == Init /\ [][Next]_vars

\* the event loops of the living processes run their tasks, and what is written
\* to a living broker is read
FairSpec ==
  /\ Spec
  /\ \A p \in Places : WF_vars(Serve(p))
  /\ \A l \in Links : WF_vars(Deliver(l))

-----------------------------------------------------------------------------
(***************************************************************************)
(* Properties.                                                             *)
(***************************************************************************)

T == INSTANCE Tandem WITH
  generated <- Len(route),
  access <- [l \in Links |-> serving[l] \o queue[l]],
  broker <- [j \in Brokers |-> serving[j] \o queue[j]]

\* The tasks of all processes make up the tandem queues ("a unit waits in the
\* link's FIFO, is served for Exp(mu_ij), then is written to the broker's
\* socket", docs/distributed.md): no unit is lost but those at, or sent to, a
\* broker that dies, none is repeated or overtaken.
IsTandem == T!Spec

\* Every unit sent to a broker that lives is completed, also when another
\* broker has died and the task of its link with it.
AllServed ==
  <>[](\A u \in DOMAIN route : route[u][2] \in alive => \E k \in DOMAIN completed : completed[k] = u)

\* what n records count as arrived at a broker, and as routed to a link and gone
\* from it
Arrived(n, j) == SumFunction([k \in 1 .. n |-> records[k].report[j].arrivals])
Routed(n, l) == SumFunction([k \in 1 .. n |-> records[k].report[l[1]][l].routed])
LinksTo(j) == {l \in Links : l[2] = j}
Left(n, l) == Routed(n, l) - records[n].report[l[1]][l].inSystem

\* As long as no round was skipped the records account for every unit at a
\* broker: those that arrived are in its queue or completed, as it counts them.
BrokersAccount ==
  \A n \in 1 .. Len(records) : records[n].skipped = 0 =>
    \A j \in Brokers :
      LET last == records[n].report[j] IN Arrived(n, j) = last.inSystem + last.completedTotal

\* The records of two processes fit together although nobody stops the traffic
\* to take them: as long as no source was held, no more units have arrived at a
\* broker than have left the links to it, skipped rounds or not.
CausalCounts ==
  \A n \in 1 .. Len(records) : (\A k \in 1 .. n : records[k].held = {}) =>
    \A j \in Brokers :
      Arrived(n, j) <= SumFunction([l \in LinksTo(j) |-> Left(n, l)])

\* The windows of the records cover every completed unit ("mean over every
\* completed unit", tests/integration/test_distributed.py:166, computed from
\* completed_window).
RecordsCoverEveryUnit ==
  \A n \in 1 .. Len(records) :
    SumFunction([k \in 1 .. n |-> records[k].completedWindow])
      = SumFunction([j \in Brokers |-> records[n].report[j].completedTotal])
=============================================================================
