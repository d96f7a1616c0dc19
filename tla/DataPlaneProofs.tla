--------------------------- MODULE DataPlaneProofs --------------------------
(***************************************************************************)
(* What holds of the traffic and its measurement for any number of         *)
(* sources, brokers, links and units, and any broker dying at any time:    *)
(* TypeOK, IsTandem, CausalCounts and BrokersAccount.                      *)
(*                                                                         *)
(* Refinement is the step simulation to Tandem: a place's queue is the     *)
(* unit it serves and those that wait.  It needs TypeInv only.             *)
(*                                                                         *)
(* CausalCounts compares the sums of two processes' reports that were      *)
(* taken at different times.  CausalInv follows a unit through them:       *)
(*   CountedWereRead   what was, or will be, reported as arrived was read; *)
(*   RoutedCounted     no window of a source is lost while none is held,   *)
(*                     so what its reports leave out is still counted;     *)
(*   ReportsCausal     brokers are asked before sources: what they told    *)
(*                     had left the links when the sources are asked, and  *)
(*                     what has left a link does not return.               *)
(* A skipped round loses windows of brokers, which lowers the left side    *)
(* only; a held source would lower the right side.                         *)
(*                                                                         *)
(* BrokersAccount compares a broker's own counters (AccountInv): a window  *)
(* is reported before it is reset, and none is lost as long as no round is *)
(* skipped.  UnitsRouted makes a completed unit count at the broker that   *)
(* completed it.                                                           *)
(***************************************************************************)
EXTENDS DataPlane, Lemmas, SequenceTheorems

-----------------------------------------------------------------------------
LoopsTyped ==
  /\ queue \in [Places -> Seq(Units)]
  /\ wake \in [Places -> BOOLEAN]
  /\ loop \in [Places -> {"ready", "waiting", "serving", "draining", "dead"}]
  /\ serving \in [Places -> Seq(Units)]
  /\ \A p \in Places : IF loop[p] = "serving" THEN Len(serving[p]) = 1 ELSE serving[p] = << >>

TrafficTyped ==
  /\ route \in Seq(Links)
  /\ wire \in [Links -> Seq(Units)]
  /\ completed \in Seq(Units)
  /\ alive \subseteq Brokers /\ Brokers \ Mortal \subseteq alive

WindowTyped ==
  routed \in [Links -> Nat] /\ arrivals \in [Brokers -> Nat] /\ done \in [Brokers -> Nat]

RoundTyped ==
  /\ round \in Nat /\ stage \in {"idle", "brokers", "sources"} /\ skipped \in 0 .. round
  /\ stage # "idle" => skipped < round
  /\ asked \in [Workers -> Seq(1 .. round)]
  /\ outcome \in [Workers -> {"pending", "reply", "failed"}]

ReportsTyped ==
  /\ report = [w \in Workers |-> report[w]]
  /\ \A j \in Brokers : report[j] = NoReport \/ report[j] \in BrokerReport
  /\ \A i \in Sources : report[i] = NoReport \/ report[i] \in SourceReport(i)

TypeInv == LoopsTyped /\ TrafficTyped /\ WindowTyped /\ RoundTyped /\ ReportsTyped

\* The parts together are the type invariant.
LEMMA TypeInvIsTypeOK == TypeInv => TypeOK
  BY DEF TypeInv, TypeOK, LoopsTyped, TrafficTyped, WindowTyped, RoundTyped, ReportsTyped

-----------------------------------------------------------------------------
\* An element put at the end of a sequence.
LEMMA AppendTyped ==
  ASSUME NEW S, NEW s \in Seq(S), NEW x \in S
  PROVE  Append(s, x) \in Seq(S) /\ <<x>> \in Seq(S) /\ Len(<<x>>) = 1
  OBVIOUS

\* What is taken from a sequence, and what is left of it.
LEMMA TakeTyped ==
  ASSUME NEW S, NEW s \in Seq(S), s # << >>
  PROVE  Head(s) \in S /\ Tail(s) \in Seq(S) /\ <<Head(s)>> \in Seq(S) /\ Len(<<Head(s)>>) = 1
  OBVIOUS

\* The loop over a queue keeps its variables typed (_serve_access, _serve).
LEMMA ContinueTyped ==
  ASSUME LoopsTyped, NEW p \in Places, Continue(p)
  PROVE  LoopsTyped'
<1>1. CASE queue[p] = << >>
  <2>1. << >> \in Seq(Units) OBVIOUS
  <2> QED BY <1>1, <2>1 DEF Continue, LoopsTyped
<1>2. CASE queue[p] # << >>
  <2>1. /\ serving' = [serving EXCEPT ![p] = <<Head(queue[p])>>]
        /\ queue' = [queue EXCEPT ![p] = Tail(@)]
        /\ loop' = [loop EXCEPT ![p] = "serving"] /\ wake' = wake
    BY <1>2 DEF Continue
  <2>2. queue[p] \in Seq(Units) BY DEF LoopsTyped
  <2>3. /\ Tail(queue[p]) \in Seq(Units) /\ <<Head(queue[p])>> \in Seq(Units)
        /\ Len(<<Head(queue[p])>>) = 1
    BY <2>2, <1>2, TakeTyped
  <2> QED BY <2>1, <2>3 DEF LoopsTyped
<1> QED BY <1>1, <1>2

\* A put keeps the variables of the loops typed.
LEMMA PutTyped ==
  ASSUME LoopsTyped, NEW p \in Places, NEW u \in Units, Put(p, u), UNCHANGED <<loop, serving>>
  PROVE  LoopsTyped'
<1>1. queue[p] \in Seq(Units) BY DEF LoopsTyped
<1>2. Append(queue[p], u) \in Seq(Units) BY <1>1, AppendTyped
<1> QED BY <1>2 DEF LoopsTyped, Put, Wakes

\* Every loop is in Places, and a link is no broker.
LEMMA PlacesApart == Links \subseteq Places /\ Brokers \subseteq Places /\ Links \cap Brokers = {}
  BY ConstantsTyped DEF Places

\* What a place reports of its queue is a number (len(queue) + int(busy)).
LEMMA InSystemTyped ==
  ASSUME LoopsTyped, NEW p \in Places
  PROVE  InSystem(p) \in Nat
<1>1. queue[p] \in Seq(Units) /\ serving[p] \in Seq(Units) BY DEF LoopsTyped
<1>2. Len(queue[p]) \in Nat /\ Len(serving[p]) \in Nat BY <1>1, LenProperties
<1>3. \A a, b \in Nat : a + b \in Nat OBVIOUS
<1> QED BY <1>2, <1>3 DEF InSystem

\* The units completed at a broker are finitely many.
LEMMA CompletedAtTyped ==
  ASSUME TrafficTyped, NEW j \in Brokers
  PROVE  CompletedAt(j) \in Nat
<1> DEFINE K == {k \in DOMAIN completed : route[completed[k]][2] = j}
<1>1. DOMAIN completed = 1 .. Len(completed) /\ Len(completed) \in Nat
  BY DEF TrafficTyped
<1>2. IsFiniteSet(1 .. Len(completed)) BY <1>1, FS_Interval
<1>3. K \in SUBSET (1 .. Len(completed)) BY <1>1
<1>4. IsFiniteSet(K) BY <1>2, <1>3, FS_Subset
<1>5. Cardinality(K) \in Nat BY <1>4, FS_CardinalityType
<1> QED BY <1>5 DEF CompletedAt

\* The replies are typed (metrics() of both kinds of worker).
LEMMA MetricsTyped ==
  ASSUME LoopsTyped, TrafficTyped, WindowTyped
  PROVE  /\ \A j \in Brokers : BrokerMetrics(j) \in BrokerReport
         /\ \A i \in Sources : SourceMetrics(i) \in SourceReport(i)
<1>1. ASSUME NEW j \in Brokers PROVE BrokerMetrics(j) \in BrokerReport
  <2>1. InSystem(j) \in Nat BY InSystemTyped, PlacesApart
  <2>2. CompletedAt(j) \in Nat BY CompletedAtTyped
  <2>3. arrivals[j] \in Nat /\ done[j] \in Nat /\ MaxSamples \in Nat
    BY ConstantsTyped DEF WindowTyped
  <2> QED BY <2>1, <2>2, <2>3 DEF BrokerMetrics, BrokerReport
<1>2. ASSUME NEW i \in Sources PROVE SourceMetrics(i) \in SourceReport(i)
  <2>1. \A l \in Links : InSystem(l) \in Nat BY InSystemTyped, PlacesApart
  <2>2. \A l \in Links : routed[l] \in Nat BY DEF WindowTyped
  <2> QED BY <2>1, <2>2 DEF SourceMetrics, SourceReport
<1> QED BY <1>1, <1>2

-----------------------------------------------------------------------------
\* The initial state is typed.
LEMMA TypeInit == Init => TypeInv
<1> SUFFICES ASSUME Init PROVE TypeInv OBVIOUS
<1>1. << >> \in Seq(Units) /\ << >> \in Seq(Links) /\ << >> \in Seq(1 .. 0) OBVIOUS
<1>2. LoopsTyped BY <1>1 DEF Init, LoopsTyped
<1>3. TrafficTyped BY <1>1 DEF Init, TrafficTyped
<1>4. WindowTyped BY DEF Init, WindowTyped
<1>5. RoundTyped BY <1>1 DEF Init, RoundTyped
<1>6. ReportsTyped BY DEF Init, ReportsTyped, Workers
<1> QED BY <1>2, <1>3, <1>4, <1>5, <1>6 DEF TypeInv

\* A step of the traffic leaves the controller's round typed, and a step of the
\* round the traffic.
LEMMA ControlTyped ==
  ASSUME RoundTyped, ReportsTyped, UNCHANGED control
  PROVE  RoundTyped' /\ ReportsTyped'
  BY DEF RoundTyped, ReportsTyped, control

\* A step that moves no unit leaves the loops and the traffic typed.
LEMMA TrafficStays ==
  ASSUME LoopsTyped, TrafficTyped, UNCHANGED <<loops, route, wire, completed, alive>>
  PROVE  LoopsTyped' /\ TrafficTyped'
  BY DEF LoopsTyped, TrafficTyped, loops

\* A step of the event loop of a place (_serve_access, _serve).
LEMMA ServeTyped ==
  ASSUME TypeInv, NEW p \in Places, Serve(p)
  PROVE  TypeInv'
<1> USE DEF TypeInv
<1>1. CASE Resume(p)
  <2>1. Continue(p) /\ UNCHANGED <<route, wire, completed, alive, window, control>>
    BY <1>1 DEF Resume
  <2>2. LoopsTyped' BY <2>1, ContinueTyped
  <2> QED BY <2>1, <2>2, ControlTyped DEF TrafficTyped, WindowTyped, window
<1>2. ASSUME p \in Links, LeaveLink(p) PROVE TypeInv'
  <2>1. serving[p] \in Seq(Units) /\ wire[p] \in Seq(Units) /\ << >> \in Seq(Units)
    BY <1>2 DEF LoopsTyped, TrafficTyped
  <2>2. wire[p] \o serving[p] \in Seq(Units) BY <2>1
  <2>3. TrafficTyped' BY <1>2, <2>2 DEF LeaveLink, TrafficTyped
  <2>4. LoopsTyped' BY <1>2, <2>1 DEF LeaveLink, LoopsTyped
  <2> QED BY <1>2, <2>3, <2>4, ControlTyped DEF LeaveLink, WindowTyped, window
<1>3. ASSUME p \in Links, Drained(p) PROVE TypeInv'
  <2>1. /\ \/ Continue(p)
           \/ loop' = [loop EXCEPT ![p] = "dead"] /\ UNCHANGED <<queue, wake, serving>>
        /\ loop[p] = "draining" /\ UNCHANGED <<route, wire, completed, alive, window, control>>
    BY <1>3 DEF Drained
  <2>2. LoopsTyped' BY <2>1, ContinueTyped DEF LoopsTyped
  <2> QED BY <2>1, <2>2, ControlTyped DEF TrafficTyped, WindowTyped, window
<1>4. ASSUME p \in Brokers, Complete(p) PROVE TypeInv'
  <2>1. LoopsTyped' BY <1>4, ContinueTyped DEF Complete
  <2>2. serving[p] \in Seq(Units) /\ completed \in Seq(Units)
    BY <1>4 DEF LoopsTyped, TrafficTyped
  <2>3. completed \o serving[p] \in Seq(Units) BY <2>2
  <2>4. TrafficTyped' BY <1>4, <2>3 DEF Complete, TrafficTyped
  <2>5. WindowTyped' BY <1>4 DEF Complete, WindowTyped
  <2> QED BY <1>4, <2>1, <2>4, <2>5, ControlTyped DEF Complete
<1> QED BY <1>1, <1>2, <1>3, <1>4 DEF Serve

\* A step of the traffic between the places, or the death of a broker.
LEMMA FlowTyped ==
  ASSUME TypeInv,
         \/ \E l \in Links : Generate(l) \/ Deliver(l)
         \/ \E j \in Brokers : BrokerDies(j)
  PROVE  TypeInv'
<1> USE DEF TypeInv
<1>1. ASSUME NEW l \in Links, Generate(l) PROVE TypeInv'
  <2>1. route' = Append(route, l) /\ Len(route) < MaxUnits /\ Put(l, Len(route'))
    BY <1>1 DEF Generate
  <2>2. route' \in Seq(Links) /\ Len(route') = Len(route) + 1 /\ Len(route) \in Nat
    BY <2>1 DEF TrafficTyped
  <2>3. Len(route') \in Units BY <2>1, <2>2, ConstantsTyped DEF Units
  <2>4. LoopsTyped' BY <1>1, <2>1, <2>3, PutTyped, PlacesApart DEF Generate
  <2>5. TrafficTyped' BY <1>1, <2>2 DEF Generate, TrafficTyped
  <2>6. WindowTyped' BY <1>1 DEF Generate, WindowTyped
  <2> QED BY <1>1, <2>4, <2>5, <2>6, ControlTyped DEF Generate
<1>2. ASSUME NEW l \in Links, Deliver(l) PROVE TypeInv'
  <2>1. l[2] \in Brokers /\ l[2] \in Places
    BY ConstantsTyped, PlacesApart
  <2>2. wire[l] \in Seq(Units) /\ wire[l] # << >>
    BY <1>2 DEF TrafficTyped, Deliver
  <2>3. Head(wire[l]) \in Units /\ Tail(wire[l]) \in Seq(Units) BY <2>2, TakeTyped
  <2>4. LoopsTyped' BY <1>2, <2>1, <2>3, PutTyped DEF Deliver
  <2>5. TrafficTyped' BY <1>2, <2>3 DEF Deliver, TrafficTyped
  <2>6. WindowTyped' BY <1>2, <2>1 DEF Deliver, WindowTyped
  <2> QED BY <1>2, <2>4, <2>5, <2>6, ControlTyped DEF Deliver
<1>3. ASSUME NEW j \in Brokers, BrokerDies(j) PROVE TypeInv'
  <2>1. << >> \in Seq(Units) /\ j \in Places BY PlacesApart
  <2>2. LoopsTyped' BY <1>3, <2>1 DEF BrokerDies, LoopsTyped
  <2>3. TrafficTyped' BY <1>3, <2>1 DEF BrokerDies, TrafficTyped
  <2> QED BY <1>3, <2>2, <2>3, ControlTyped DEF BrokerDies, WindowTyped, window
<1> QED BY <1>1, <1>2, <1>3

\* A reply that is used, or not, leaves the round typed.
LEMMA RepliesTyped ==
  ASSUME TypeInv, NEW w \in Workers, NEW metrics, Replies(w, metrics),
         w \in Brokers => metrics \in BrokerReport,
         w \in Sources => metrics \in SourceReport(w)
  PROVE  RoundTyped' /\ ReportsTyped' /\ LoopsTyped' /\ TrafficTyped'
<1> USE DEF TypeInv
<1>1. asked[w] \in Seq(1 .. round) /\ asked[w] # << >> BY DEF RoundTyped, Replies
<1>2. Tail(asked[w]) \in Seq(1 .. round) BY <1>1, TakeTyped
<1>3. asked' = [asked EXCEPT ![w] = Tail(@)] /\ UNCHANGED <<round, stage, skipped>>
  BY DEF Replies
<1>4. outcome' \in [Workers -> {"pending", "reply", "failed"}] BY DEF Replies, RoundTyped
<1>5. RoundTyped' BY <1>2, <1>3, <1>4 DEF RoundTyped
<1>6. report' = report \/ report' = [report EXCEPT ![w] = metrics] BY DEF Replies
<1>7. ReportsTyped'
  <2>1. CASE report' = report BY <2>1 DEF ReportsTyped
  <2>2. CASE report' = [report EXCEPT ![w] = metrics]
    <3>1. report' = [v \in Workers |-> IF v = w THEN metrics ELSE report[v]]
      BY <2>2 DEF ReportsTyped
    <3> QED BY <3>1 DEF ReportsTyped, Workers
  <2> QED BY <1>6, <2>1, <2>2
<1>8. LoopsTyped' /\ TrafficTyped' BY TrafficStays DEF Replies
<1> QED BY <1>5, <1>7, <1>8

\* Asking leaves the round typed (_gather).
LEMMA AskTyped ==
  ASSUME RoundTyped, ReportsTyped, NEW S \in SUBSET Workers, NEW r \in Nat \ {0}, r >= round,
         round' = r, Ask(S, r), skipped' = skipped, stage' \in {"brokers", "sources"}, skipped < r
  PROVE  RoundTyped' /\ ReportsTyped'
<1>1. \A w \in Workers : asked[w] \in Seq(1 .. r)
  <2>1. 1 .. round \subseteq 1 .. r BY DEF RoundTyped
  <2> QED BY <2>1, SeqMonotonic DEF RoundTyped
<1>2. \A w \in Workers : Append(asked[w], r) \in Seq(1 .. r)
  <2>1. r \in 1 .. r OBVIOUS
  <2> QED BY <1>1, <2>1, AppendTyped
<1>3. asked' \in [Workers -> Seq(1 .. r)] BY <1>1, <1>2 DEF Ask
<1>4. outcome' \in [Workers -> {"pending", "reply", "failed"}] BY DEF Ask, RoundTyped
<1>5. ReportsTyped'
  BY DEF Ask, ReportsTyped, Workers
<1> QED BY <1>3, <1>4, <1>5 DEF RoundTyped

\* A step of the controller's round, or of a worker in it.
LEMMA RoundStepTyped ==
  ASSUME TypeInv, Round
  PROVE  TypeInv'
<1> USE DEF TypeInv
<1>0. ASSUME UNCHANGED <<loops, route, wire, completed, alive, window>>, RoundTyped', ReportsTyped'
      PROVE  TypeInv'
  BY <1>0, TrafficStays DEF WindowTyped, window
<1>1. CASE AskBrokers
  <2>1. round \in Nat /\ skipped \in 0 .. round BY DEF RoundTyped
  <2>2. Ask(Brokers, round + 1) /\ round' = round + 1 /\ stage' = "brokers" /\ skipped' = skipped
    BY <1>1 DEF AskBrokers
  <2>3. RoundTyped' /\ ReportsTyped'
    BY <2>1, <2>2, AskTyped, round + 1 \in Nat \ {0}, skipped < round + 1, round + 1 >= round,
       Brokers \in SUBSET Workers DEF Workers
  <2> QED BY <1>0, <1>1, <2>3 DEF AskBrokers
<1>2. CASE AskSources
  <2>1. round \in Nat /\ skipped \in 0 .. round /\ skipped < round BY <1>2 DEF RoundTyped, AskSources
  <2>2. Ask(Sources, round) /\ round' = round /\ stage' = "sources" /\ skipped' = skipped
    BY <1>2 DEF AskSources
  <2>3. RoundTyped' /\ ReportsTyped'
    BY <2>1, <2>2, AskTyped, round \in Nat \ {0}, round >= round, Sources \in SUBSET Workers
    DEF Workers
  <2> QED BY <1>0, <1>2, <2>3 DEF AskSources
<1>3. CASE SkipRound
  <2>1. RoundTyped' /\ ReportsTyped' BY <1>3 DEF SkipRound, RoundTyped, ReportsTyped
  <2> QED BY <1>0, <1>3, <2>1 DEF SkipRound
<1>4. CASE RecordRound
  <2>1. RoundTyped' /\ ReportsTyped' BY <1>4 DEF RecordRound, RoundTyped, ReportsTyped
  <2> QED BY <1>0, <1>4, <2>1 DEF RecordRound
<1>5. ASSUME NEW w \in Workers, Timeout(w) PROVE TypeInv'
  <2>1. RoundTyped' /\ ReportsTyped' BY <1>5 DEF Timeout, RoundTyped, ReportsTyped
  <2> QED BY <1>0, <1>5, <2>1 DEF Timeout
<1>6. ASSUME NEW j \in Brokers, BrokerReplies(j) PROVE TypeInv'
  <2>1. j \in Workers /\ j \notin Sources BY ConstantsTyped DEF Workers
  <2>2. Replies(j, BrokerMetrics(j)) BY <1>6 DEF BrokerReplies
  <2>3. BrokerMetrics(j) \in BrokerReport BY MetricsTyped
  <2>4. RoundTyped' /\ ReportsTyped' /\ LoopsTyped' /\ TrafficTyped'
    BY <2>1, <2>2, <2>3, RepliesTyped
  <2>5. WindowTyped' BY <1>6 DEF BrokerReplies, ResetArrivals, WindowTyped
  <2> QED BY <2>4, <2>5
<1>7. ASSUME NEW i \in Sources, SourceReplies(i) PROVE TypeInv'
  <2>1. i \in Workers /\ i \notin Brokers BY ConstantsTyped DEF Workers
  <2>2. Replies(i, SourceMetrics(i)) BY <1>7 DEF SourceReplies
  <2>3. SourceMetrics(i) \in SourceReport(i) BY MetricsTyped
  <2>4. RoundTyped' /\ ReportsTyped' /\ LoopsTyped' /\ TrafficTyped'
    BY <2>1, <2>2, <2>3, RepliesTyped
  <2>5. WindowTyped' BY <1>7 DEF SourceReplies, WindowTyped
  <2> QED BY <2>4, <2>5
<1> QED BY <1>1, <1>2, <1>3, <1>4, <1>5, <1>6, <1>7 DEF Round

\* Every step keeps the types.
LEMMA TypeStep == TypeInv /\ [Next]_vars => TypeInv'
<1>1. ASSUME TypeInv, UNCHANGED vars PROVE TypeInv'
  <2>1. UNCHANGED <<loops, route, wire, completed, alive>> /\ UNCHANGED window /\ UNCHANGED control
    BY <1>1 DEF vars
  <2> QED BY <1>1, <2>1, TrafficStays, ControlTyped DEF TypeInv, WindowTyped, window
<1> QED BY <1>1, ServeTyped, FlowTyped, RoundStepTyped DEF Next

\* Every variable of the links, the brokers, the windows and the round keeps its type,
\* and a place serves a unit exactly while its loop is in a service.
THEOREM Typing == Spec => []TypeOK
<1>1. Spec => []TypeInv
  BY TypeInit, TypeStep, PTL DEF Spec
<1> QED BY <1>1, TypeInvIsTypeOK, PTL
-----------------------------------------------------------------------------
\* The unit at the head of a queue and the rest of it are the queue.
LEMMA HeadTailOfQueue ==
  ASSUME NEW S, NEW q \in Seq(S), q # << >>
  PROVE  <<Head(q)>> \o Tail(q) = q
  OBVIOUS

\* A unit is put behind the others, whichever is in service.
LEMMA PutBehind ==
  ASSUME NEW S, NEW s \in Seq(S), NEW q \in Seq(S), NEW u \in S
  PROVE  s \o Append(q, u) = Append(s \o q, u)
<1>1. Append(q, u) = q \o <<u>> /\ <<u>> \in Seq(S) BY AppendIsConcat
<1>2. s \o (q \o <<u>>) = (s \o q) \o <<u>> BY <1>1, ConcatAssociative
<1>3. s \o q \in Seq(S) BY ConcatProperties
<1> QED BY <1>1, <1>2, <1>3, AppendIsConcat

\* The unit in service is the first of those at the place.
LEMMA InService ==
  ASSUME NEW S, NEW s \in Seq(S), NEW q \in Seq(S), Len(s) = 1
  PROVE  /\ s \o q # << >> /\ Tail(s \o q) = q /\ Head(s \o q) = s[1]
         /\ q \o s = Append(q, s[1])
<1> DEFINE t == s \o q
<1>1. /\ t \in Seq(S) /\ Len(t) = Len(s) + Len(q)
      /\ \A i \in 1 .. Len(s) + Len(q) : t[i] = IF i <= Len(s) THEN s[i] ELSE q[i - Len(s)]
  BY ConcatProperties
<1>2. Len(q) \in Nat BY LenProperties
<1>3. s[1] \in S BY ElementOfSeq
<1>4. <<s[1]>> \in Seq(S) /\ Len(<<s[1]>>) = 1 /\ <<s[1]>>[1] = s[1] BY <1>3
<1>5. s = <<s[1]>> BY <1>4, SeqEqual
<1>6. q \o <<s[1]>> = Append(q, s[1]) BY <1>3, AppendIsConcat
<1> HIDE DEF t
<1>7. t # << >> /\ Len(t) = Len(q) + 1 /\ t[1] = s[1] /\ \A i \in 1 .. Len(q) : t[i + 1] = q[i]
  BY <1>1, <1>2
<1>8. Tail(t) \in Seq(S) /\ Len(Tail(t)) = Len(q) /\ \A i \in 1 .. Len(Tail(t)) : Tail(t)[i] = t[i + 1]
  BY <1>1, <1>2, <1>7, HeadTailProperties
<1>9. Tail(t) = q BY <1>7, <1>8, SeqEqual
<1>10. Head(t) = s[1] BY <1>1, <1>7
<1>11. q \o s = Append(q, s[1]) BY <1>5, <1>6
<1> QED BY <1>7, <1>9, <1>10, <1>11 DEF t

\* The loop takes a unit into service, or waits: the units at the place stay, but
\* for the one that was in service.
LEMMA ContinueKeeps ==
  ASSUME LoopsTyped, NEW p \in Places, Continue(p)
  PROVE  /\ serving'[p] \o queue'[p] = queue[p]
         /\ \A q \in Places \ {p} : serving'[q] \o queue'[q] = serving[q] \o queue[q]
<1>0. queue[p] \in Seq(Units) BY DEF LoopsTyped
<1>1. CASE queue[p] = << >>
  <2>1. serving' = [serving EXCEPT ![p] = << >>] /\ queue' = queue BY <1>1 DEF Continue
  <2>2. serving'[p] = << >> BY <2>1 DEF LoopsTyped
  <2>3. << >> \o queue[p] = queue[p] BY <1>0, ConcatEmptySeq
  <2> QED BY <2>1, <2>2, <2>3 DEF LoopsTyped
<1>2. CASE queue[p] # << >>
  <2>1. /\ serving' = [serving EXCEPT ![p] = <<Head(queue[p])>>]
        /\ queue' = [queue EXCEPT ![p] = Tail(@)]
    BY <1>2 DEF Continue
  <2>2. serving'[p] = <<Head(queue[p])>> /\ queue'[p] = Tail(queue[p])
    BY <2>1 DEF LoopsTyped
  <2>3. <<Head(queue[p])>> \o Tail(queue[p]) = queue[p]
    BY <1>0, <1>2, HeadTailOfQueue
  <2> QED BY <2>1, <2>2, <2>3 DEF LoopsTyped
<1> QED BY <1>1, <1>2

\* What Tandem says of its variables, of those of this module.
LEMMA TandemSame ==
  ASSUME \A p \in Places : serving'[p] \o queue'[p] = serving[p] \o queue[p],
         UNCHANGED <<route, wire, completed>>
  PROVE  UNCHANGED T!vars
BY PlacesApart DEF T!vars

\* Before anything was generated the tandem is empty.
LEMMA TandemInit == Init => T!Init
<1> SUFFICES ASSUME Init PROVE T!Init OBVIOUS
<1>1. \A p \in Places : serving[p] \o queue[p] = << >>
  BY DEF Init
<1>2. Len(route) = 0 BY DEF Init
<1> QED BY <1>1, <1>2, PlacesApart DEF Init, T!Init

\* A step of a server is one of the tandem: a unit leaves its link, or its broker, or
\* the next one goes into service, which the tandem does not see.
LEMMA TandemServe ==
  ASSUME TypeInv, NEW p \in Places, Serve(p)
  PROVE  [T!Next]_(T!vars)
<1> USE DEF TypeInv
<1>0. serving[p] \in Seq(Units) /\ queue[p] \in Seq(Units) /\ << >> \in Seq(Units)
  BY DEF LoopsTyped
<1>1. CASE Resume(p)
  <2>1. Continue(p) /\ UNCHANGED <<route, wire, completed>> /\ serving[p] = << >>
    BY <1>1 DEF Resume, LoopsTyped
  <2>2. serving'[p] \o queue'[p] = serving[p] \o queue[p]
    BY <2>1, <1>0, ContinueKeeps, ConcatEmptySeq
  <2> QED BY <2>1, <2>2, ContinueKeeps, TandemSame
<1>2. ASSUME p \in Links, LeaveLink(p) PROVE T!LeaveLink(p)
  <2>1. Len(serving[p]) = 1 BY <1>2 DEF LeaveLink, LoopsTyped
  <2>2. /\ serving[p] \o queue[p] # << >> /\ Tail(serving[p] \o queue[p]) = queue[p]
        /\ Head(serving[p] \o queue[p]) = serving[p][1]
    BY <2>1, <1>0, InService
  <2>3. wire[p] \in Seq(Units) BY <1>2 DEF TrafficTyped
  <2>4. wire[p] \o serving[p] = Append(wire[p], serving[p][1]) BY <2>1, <2>3, <1>0, InService
  <2>5. serving' = [serving EXCEPT ![p] = << >>] /\ queue' = queue BY <1>2 DEF LeaveLink
  <2>6. serving'[p] \o queue'[p] = queue[p] BY <2>5, <1>0, ConcatEmptySeq DEF LoopsTyped
  <2>7. \A q \in Places \ {p} : serving'[q] \o queue'[q] = serving[q] \o queue[q]
    BY <2>5 DEF LoopsTyped
  <2>8. [l \in Links |-> serving'[l] \o queue'[l]]
          = [[l \in Links |-> serving[l] \o queue[l]] EXCEPT ![p] = Tail(@)]
    BY <1>2, <2>2, <2>6, <2>7, PlacesApart
  <2>9. [j \in Brokers |-> serving'[j] \o queue'[j]] = [j \in Brokers |-> serving[j] \o queue[j]]
    BY <1>2, <2>7, PlacesApart
  <2>10. wire' = [wire EXCEPT ![p] = Append(@, Head(serving[p] \o queue[p]))]
    BY <1>2, <2>2, <2>4 DEF LeaveLink, TrafficTyped
  <2>11. route' = route /\ completed' = completed BY <1>2 DEF LeaveLink
  <2> QED BY <1>2, <2>2, <2>8, <2>9, <2>10, <2>11 DEF T!LeaveLink
<1>3. ASSUME p \in Links, Drained(p) PROVE [T!Next]_(T!vars)
  <2>1. serving[p] = << >> /\ UNCHANGED <<route, wire, completed>>
    BY <1>3 DEF Drained, LoopsTyped
  <2>2. Continue(p) \/ UNCHANGED <<queue, serving>> BY <1>3 DEF Drained
  <2>3. CASE Continue(p)
    <3>1. serving'[p] \o queue'[p] = serving[p] \o queue[p]
      BY <2>1, <2>3, <1>0, ContinueKeeps, ConcatEmptySeq
    <3> QED BY <2>1, <2>3, <3>1, ContinueKeeps, TandemSame
  <2> QED BY <2>1, <2>2, <2>3, TandemSame
<1>4. ASSUME p \in Brokers, Complete(p) PROVE T!Complete(p)
  <2>1. Len(serving[p]) = 1 /\ Continue(p) BY <1>4 DEF Complete, LoopsTyped
  <2>2. /\ serving[p] \o queue[p] # << >> /\ Tail(serving[p] \o queue[p]) = queue[p]
        /\ Head(serving[p] \o queue[p]) = serving[p][1]
    BY <2>1, <1>0, InService
  <2>3. completed \in Seq(Units) BY DEF TrafficTyped
  <2>4. completed \o serving[p] = Append(completed, serving[p][1]) BY <2>1, <2>3, <1>0, InService
  <2>5. /\ serving'[p] \o queue'[p] = queue[p]
        /\ \A q \in Places \ {p} : serving'[q] \o queue'[q] = serving[q] \o queue[q]
    BY <2>1, ContinueKeeps
  <2>6. [j \in Brokers |-> serving'[j] \o queue'[j]]
          = [[j \in Brokers |-> serving[j] \o queue[j]] EXCEPT ![p] = Tail(@)]
    BY <1>4, <2>2, <2>5, PlacesApart
  <2>7. [l \in Links |-> serving'[l] \o queue'[l]] = [l \in Links |-> serving[l] \o queue[l]]
    BY <1>4, <2>5, PlacesApart
  <2>8. completed' = Append(completed, Head(serving[p] \o queue[p]))
    BY <1>4, <2>2, <2>4 DEF Complete
  <2>9. route' = route /\ wire' = wire BY <1>4 DEF Complete
  <2> QED BY <1>4, <2>2, <2>6, <2>7, <2>8, <2>9 DEF T!Complete
<1> QED BY <1>1, <1>2, <1>3, <1>4 DEF Serve, T!Next

\* So is a unit generated, one read by its broker, and the death of a broker.
LEMMA TandemFlow ==
  ASSUME TypeInv,
         \/ \E l \in Links : Generate(l) \/ Deliver(l)
         \/ \E j \in Brokers : BrokerDies(j)
  PROVE  T!Next
<1> USE DEF TypeInv
<1>0. \A p \in Places : serving[p] \in Seq(Units) /\ queue[p] \in Seq(Units)
  BY DEF LoopsTyped
<1>a. ASSUME NEW p \in Places, NEW u \in Units, Put(p, u), serving' = serving
      PROVE  /\ serving'[p] \o queue'[p] = Append(serving[p] \o queue[p], u)
             /\ \A q \in Places \ {p} : serving'[q] \o queue'[q] = serving[q] \o queue[q]
  <2>1. queue' = [queue EXCEPT ![p] = Append(@, u)] BY <1>a DEF Put
  <2>2. serving[p] \o Append(queue[p], u) = Append(serving[p] \o queue[p], u)
    <3> DEFINE s == serving[p] q == queue[p]
    <3>1. s \in Seq(Units) /\ q \in Seq(Units) BY <1>0
    <3> HIDE DEF s, q
    <3>2. s \o Append(q, u) = Append(s \o q, u) BY <3>1, PutBehind
    <3> QED BY <3>2 DEF s, q
  <2> QED BY <1>a, <2>1, <2>2 DEF LoopsTyped
<1>1. ASSUME NEW l \in Links, Generate(l) PROVE T!Generate(l)
  <2>1. /\ route' = Append(route, l) /\ Len(route) < MaxUnits /\ Put(l, Len(route'))
        /\ UNCHANGED <<wire, completed, serving>>
    BY <1>1 DEF Generate
  <2>2. Len(route') = Len(route) + 1 /\ Len(route) \in Nat
    BY <2>1 DEF TrafficTyped
  <2>3. Len(route') \in Units BY <2>1, <2>2, ConstantsTyped DEF Units
  <2>4. /\ serving'[l] \o queue'[l] = Append(serving[l] \o queue[l], Len(route'))
        /\ \A q \in Places \ {l} : serving'[q] \o queue'[q] = serving[q] \o queue[q]
    BY <1>a, <2>1, <2>3, PlacesApart
  <2>5. [k \in Links |-> serving'[k] \o queue'[k]]
          = [[k \in Links |-> serving[k] \o queue[k]] EXCEPT ![l] = Append(@, Len(route'))]
    BY <2>4, PlacesApart
  <2>6. [j \in Brokers |-> serving'[j] \o queue'[j]] = [j \in Brokers |-> serving[j] \o queue[j]]
    BY <2>4, PlacesApart
  <2> QED BY <2>1, <2>2, <2>5, <2>6 DEF T!Generate
<1>2. ASSUME NEW l \in Links, Deliver(l) PROVE T!Deliver(l)
  <2>1. l[2] \in Brokers /\ l[2] \in Places BY ConstantsTyped, PlacesApart
  <2>2. /\ wire[l] # << >> /\ wire' = [wire EXCEPT ![l] = Tail(@)] /\ Put(l[2], Head(wire[l]))
        /\ UNCHANGED <<route, completed, serving>>
    BY <1>2 DEF Deliver
  <2>3. Head(wire[l]) \in Units
    <3>1. wire[l] \in Seq(Units) BY DEF TrafficTyped
    <3> QED BY <2>2, <3>1, TakeTyped
  <2>4. /\ serving'[l[2]] \o queue'[l[2]] = Append(serving[l[2]] \o queue[l[2]], Head(wire[l]))
        /\ \A q \in Places \ {l[2]} : serving'[q] \o queue'[q] = serving[q] \o queue[q]
    BY <1>a, <2>1, <2>2, <2>3
  <2>5. [k \in Links |-> serving'[k] \o queue'[k]] = [k \in Links |-> serving[k] \o queue[k]]
    BY <2>1, <2>4, PlacesApart
  <2>6. [j \in Brokers |-> serving'[j] \o queue'[j]]
          = [[j \in Brokers |-> serving[j] \o queue[j]] EXCEPT ![l[2]] = Append(@, Head(wire[l]))]
    BY <2>1, <2>4, PlacesApart
  <2> QED BY <2>2, <2>5, <2>6 DEF T!Deliver
<1>3. ASSUME NEW j \in Brokers, BrokerDies(j) PROVE T!Die(j)
  <2>1. /\ queue' = [queue EXCEPT ![j] = << >>] /\ serving' = [serving EXCEPT ![j] = << >>]
        /\ wire' = [l \in Links |-> IF l[2] = j THEN << >> ELSE wire[l]]
        /\ j \in Mortal /\ UNCHANGED <<route, completed>>
    BY <1>3 DEF BrokerDies
  <2>2. serving'[j] \o queue'[j] = << >>
    <3>1. serving'[j] = << >> /\ queue'[j] = << >> BY <2>1, PlacesApart DEF LoopsTyped
    <3> QED BY <3>1
  <2>3. \A q \in Places \ {j} : serving'[q] \o queue'[q] = serving[q] \o queue[q]
    BY <2>1 DEF LoopsTyped
  <2>4. [k \in Links |-> serving'[k] \o queue'[k]] = [k \in Links |-> serving[k] \o queue[k]]
    BY <2>3, PlacesApart
  <2>5. [k \in Brokers |-> serving'[k] \o queue'[k]]
          = [[k \in Brokers |-> serving[k] \o queue[k]] EXCEPT ![j] = << >>]
    BY <2>2, <2>3, PlacesApart
  <2> QED BY <2>1, <2>4, <2>5 DEF T!Die
<1> QED BY <1>1, <1>2, <1>3 DEF T!Next

\* The measurement moves no unit.
LEMMA TandemRound ==
  ASSUME Round \/ UNCHANGED vars
  PROVE  UNCHANGED T!vars
<1>1. UNCHANGED <<loops, route, wire, completed>>
  BY DEF Round, AskBrokers, SkipRound, AskSources, RecordRound, Timeout, BrokerReplies, SourceReplies,
         Replies, vars
<1> QED BY <1>1, TandemSame DEF loops

\* The tasks of all processes, each with its queue, its event and the unit it serves,
\* make up the tandem queues of docs/distributed.md, while they are measured and while
\* brokers die: no unit is lost otherwise, repeated or overtaken.
THEOREM Refinement == Spec => IsTandem
<1>1. TypeInv /\ [Next]_vars => [T!Next]_(T!vars)
  BY TandemServe, TandemFlow, TandemRound DEF Next
<1>2. Spec => []TypeInv
  BY TypeInit, TypeStep, PTL DEF Spec
<1> QED BY TandemInit, <1>1, <1>2, PTL DEF Spec, IsTandem, T!Spec
-----------------------------------------------------------------------------
\* the units routed over a link, or to a broker
UnitsOf(p) == {u \in DOMAIN route : IF p \in Links THEN route[u] = p ELSE route[u][2] = p}

\* a unit is at a place it was routed to
UnitsRouted ==
  /\ \A p \in Places : queue[p] \in Seq(UnitsOf(p)) /\ serving[p] \in Seq(UnitsOf(p))
  /\ \A l \in Links : wire[l] \in Seq(UnitsOf(l))
  /\ completed \in Seq(DOMAIN route)

Reports == {NoReport} \cup BrokerReport \cup UNION {SourceReport(i) : i \in Sources}

\* what a record says of the workers of its round: a broker's report, and that of
\* every source that was not held
Record ==
  [report : [Workers -> Reports], held : SUBSET Sources, skipped : Nat, completedWindow : Int]

RecordsTyped ==
  /\ records \in Seq(Record)
  /\ \A k \in 1 .. Len(records) :
       /\ \A j \in Brokers : records[k].report[j] \in BrokerReport
       /\ \A i \in Sources \ records[k].held : records[k].report[i] \in SourceReport(i)

\* a worker that has replied in this round has a report, and the sources are asked
\* when every broker has replied
Replied ==
  /\ \A j \in Brokers : outcome[j] = "reply" => report[j] \in BrokerReport
  /\ \A i \in Sources : outcome[i] = "reply" => report[i] \in SourceReport(i)
  /\ stage = "sources" => \A j \in Brokers : outcome[j] = "reply"

RecordInv == TypeInv /\ RecordsTyped /\ Replied

\* A round that is applied has every broker's report, and those of the sources it
\* does not hold.
LEMMA RecordTyped ==
  ASSUME RecordInv, RecordRound
  PROVE  LET r == [report |-> report, held |-> Failed(Sources), skipped |-> skipped,
                   completedWindow |-> CompletedWindow]
         IN  /\ r \in Record /\ records' = Append(records, r)
             /\ \A j \in Brokers : outcome[j] = "reply" /\ report[j] \in BrokerReport
             /\ \A i \in Sources \ Failed(Sources) : outcome[i] = "reply" /\ report[i] \in SourceReport(i)
<1> USE DEF RecordInv
<1>1. \A j \in Brokers : outcome[j] = "reply" /\ report[j] \in BrokerReport
  BY DEF RecordRound, Replied
<1>2. \A i \in Sources \ Failed(Sources) : outcome[i] = "reply" /\ report[i] \in SourceReport(i)
  <2>1. TAKE i \in Sources \ Failed(Sources)
  <2>2. outcome[i] \in {"pending", "reply", "failed"} BY DEF TypeInv, RoundTyped, Workers
  <2>3. outcome[i] = "reply" BY <2>2 DEF RecordRound, Gathered, Failed
  <2> QED BY <2>3 DEF Replied
<1>3. report \in [Workers -> Reports]
  BY DEF TypeInv, ReportsTyped, Workers, Reports
<1>4. CompletedWindow \in Int
  <2>1. \A j \in Brokers : report[j].samples \in Int /\ report[j].completed \in Int
    BY <1>1 DEF BrokerReport
  <2>2. SumFunction([j \in Brokers |-> report[j].samples]) \in Int
    BY <2>1, ConstantsTyped, SumFunctionInt
  <2>3. SumFunction([j \in Brokers |-> report[j].completed]) \in Int
    BY <2>1, ConstantsTyped, SumFunctionInt
  <2> QED BY <2>2, <2>3 DEF CompletedWindow
<1>5. Failed(Sources) \in SUBSET Sources /\ skipped \in Nat
  BY DEF Failed, TypeInv, RoundTyped
<1> QED BY <1>1, <1>2, <1>3, <1>4, <1>5 DEF Record, RecordRound

\* There are none before the first round.
LEMMA RecordInit == Init => RecordInv
<1> SUFFICES ASSUME Init PROVE RecordInv OBVIOUS
<1>1. records \in Seq(Record) /\ Len(records) = 0 BY DEF Init
<1>2. RecordsTyped BY <1>1 DEF RecordsTyped
<1>3. Replied BY DEF Init, Replied, Workers
<1> QED BY <1>2, <1>3, TypeInit DEF RecordInv

\* The records keep their types, and the replies of a round theirs.
LEMMA RecordStep == RecordInv /\ [Next]_vars => RecordInv'
<1> SUFFICES ASSUME RecordInv, [Next]_vars PROVE RecordInv' OBVIOUS
<1> USE DEF RecordInv
<1>1. TypeInv' BY TypeStep
<1>2. ASSUME UNCHANGED <<stage, outcome, report, records>> PROVE RecordsTyped' /\ Replied'
  BY <1>2 DEF RecordsTyped, Replied
<1>3. ASSUME UNCHANGED control PROVE RecordInv'
  BY <1>1, <1>2, <1>3 DEF control
<1>4. ASSUME NEW p \in Places, Serve(p) PROVE RecordInv'
  BY <1>3, <1>4 DEF Serve, Resume, LeaveLink, Drained, Complete
<1>5. ASSUME NEW l \in Links, Generate(l) \/ Deliver(l) PROVE RecordInv'
  BY <1>3, <1>5 DEF Generate, Deliver
<1>6. ASSUME NEW j \in Brokers, BrokerDies(j) PROVE RecordInv'
  BY <1>3, <1>6 DEF BrokerDies
<1>7. CASE AskBrokers
  <2>1. records' = records /\ stage' = "brokers" BY <1>7 DEF AskBrokers
  <2>2. \A w \in Workers : outcome'[w] = (IF w \in Brokers THEN "pending" ELSE outcome[w])
                        /\ report'[w] = (IF w \in Brokers THEN NoReport ELSE report[w])
    BY <1>7 DEF AskBrokers, Ask
  <2>3. Replied' BY <2>1, <2>2, ConstantsTyped DEF Replied, Workers
  <2> QED BY <1>1, <2>1, <2>3 DEF RecordsTyped
<1>8. CASE AskSources
  <2>1. records' = records /\ stage' = "sources" BY <1>8 DEF AskSources
  <2>2. \A w \in Workers : outcome'[w] = (IF w \in Sources THEN "pending" ELSE outcome[w])
                        /\ report'[w] = (IF w \in Sources THEN NoReport ELSE report[w])
    BY <1>8 DEF AskSources, Ask
  <2>3. \A j \in Brokers : outcome[j] = "reply"
    <3>1. TAKE j \in Brokers
    <3>2. outcome[j] \in {"pending", "reply", "failed"} BY DEF TypeInv, RoundTyped, Workers
    <3> QED BY <1>8, <3>2 DEF AskSources, Gathered, Failed
  <2>4. Replied' BY <2>1, <2>2, <2>3, ConstantsTyped DEF Replied, Workers
  <2> QED BY <1>1, <2>1, <2>4 DEF RecordsTyped
<1>9. CASE SkipRound
  <2>1. UNCHANGED <<outcome, report, records>> /\ stage' = "idle" BY <1>9 DEF SkipRound
  <2> QED BY <1>1, <2>1 DEF RecordsTyped, Replied
<1>10. CASE RecordRound
  <2> DEFINE r == [report |-> report, held |-> Failed(Sources), skipped |-> skipped,
                   completedWindow |-> CompletedWindow]
  <2>1. /\ r \in Record /\ records' = Append(records, r)
        /\ \A j \in Brokers : r.report[j] \in BrokerReport
        /\ \A i \in Sources \ r.held : r.report[i] \in SourceReport(i)
    BY <1>10, RecordTyped
  <2> HIDE DEF r
  <2>2. /\ records' \in Seq(Record) /\ Len(records') = Len(records) + 1 /\ Len(records) \in Nat
        /\ \A k \in 1 .. Len(records) : records'[k] = records[k]
        /\ records'[Len(records) + 1] = r
    BY <2>1, AppendProperties DEF RecordsTyped
  <2>3. RecordsTyped'
    <3>1. ASSUME NEW k \in 1 .. Len(records')
          PROVE  /\ \A j \in Brokers : records'[k].report[j] \in BrokerReport
                 /\ \A i \in Sources \ records'[k].held : records'[k].report[i] \in SourceReport(i)
      <4>1. CASE k = Len(records) + 1 BY <2>1, <2>2, <4>1
      <4>2. CASE k \in 1 .. Len(records) BY <2>2, <4>2 DEF RecordsTyped
      <4> QED BY <2>2, <4>1, <4>2
    <3> QED BY <2>2, <3>1 DEF RecordsTyped
  <2>4. UNCHANGED <<outcome, report>> /\ stage' = "idle" BY <1>10 DEF RecordRound
  <2> QED BY <1>1, <2>3, <2>4 DEF Replied
<1>11. ASSUME NEW w \in Workers, Timeout(w) PROVE RecordInv'
  <2>1. /\ UNCHANGED <<stage, report, records>> /\ outcome[w] = "pending"
        /\ outcome' = [outcome EXCEPT ![w] = "failed"]
    BY <1>11 DEF Timeout
  <2>2. \A v \in Workers : outcome'[v] = "reply" => outcome[v] = "reply"
    BY <2>1 DEF TypeInv, RoundTyped
  <2>3. stage = "sources" => w \notin Brokers BY <1>11 DEF Timeout
  <2>4. stage = "sources" => \A j \in Brokers : outcome'[j] = "reply"
    BY <2>1, <2>3 DEF Replied, TypeInv, RoundTyped, Workers
  <2> QED BY <1>1, <2>1, <2>2, <2>4 DEF RecordsTyped, Replied, Workers
<1>12. ASSUME NEW w \in Workers, NEW metrics, Replies(w, metrics),
              w \in Brokers => metrics \in BrokerReport, w \in Sources => metrics \in SourceReport(w)
       PROVE  RecordInv'
  <2>1. UNCHANGED <<stage, records>> BY <1>12 DEF Replies
  <2>2. CASE UNCHANGED <<outcome, report>> BY <1>1, <1>2, <2>1, <2>2
  <2>3. CASE outcome[w] = "pending" /\ outcome' = [outcome EXCEPT ![w] = "reply"]
             /\ report' = [report EXCEPT ![w] = metrics]
    <3>1. report'[w] = metrics /\ \A v \in Workers \ {w} : report'[v] = report[v]
      BY <2>3 DEF TypeInv, ReportsTyped
    <3>2. outcome'[w] = "reply" /\ \A v \in Workers \ {w} : outcome'[v] = outcome[v]
      BY <2>3 DEF TypeInv, RoundTyped
    <3>3. Replied' BY <1>12, <2>1, <2>3, <3>1, <3>2 DEF Replied, Workers
    <3> QED BY <1>1, <2>1, <3>3 DEF RecordsTyped
  <2>4. CASE outcome[w] = "pending" /\ outcome' = [outcome EXCEPT ![w] = "failed"] /\ report' = report
    <3>1. outcome'[w] = "failed" /\ \A v \in Workers \ {w} : outcome'[v] = outcome[v]
      BY <2>4 DEF TypeInv, RoundTyped
    <3>2. Replied' BY <2>1, <2>4, <3>1 DEF Replied, Workers
    <3> QED BY <1>1, <2>1, <3>2 DEF RecordsTyped
  <2> QED BY <1>12, <2>2, <2>3, <2>4 DEF Replies
<1>13. ASSUME NEW j \in Brokers, BrokerReplies(j) PROVE RecordInv'
  BY <1>12, <1>13, MetricsTyped, ConstantsTyped DEF BrokerReplies, Workers, TypeInv
<1>14. ASSUME NEW i \in Sources, SourceReplies(i) PROVE RecordInv'
  BY <1>12, <1>14, MetricsTyped, ConstantsTyped DEF SourceReplies, Workers, TypeInv
<1>15. CASE UNCHANGED vars BY <1>3, <1>15 DEF vars
<1> QED
  BY <1>4, <1>5, <1>6, <1>7, <1>8, <1>9, <1>10, <1>11, <1>13, <1>14, <1>15 DEF Next, Round

-----------------------------------------------------------------------------
Count(l) == Cardinality({u \in DOMAIN route : route[u] = l})

\* the units that have left link l, and those of them that were read by the broker
Gone(l) == Count(l) - InSystem(l)
WasRead(l) == Gone(l) - Len(wire[l])

\* what the controller has of the arrivals at j, the report of this round included
Known(j) ==
  Arrived(Len(records), j) + (IF stage # "idle" /\ outcome[j] = "reply" THEN report[j].arrivals ELSE 0)

\* no unit is counted as an arrival that was not read
CountedWereRead ==
  \A j \in Brokers : Known(j) + arrivals[j] <= SumFunction([l \in LinksTo(j) |-> WasRead(l)])

NoneHeld == \A k \in 1 .. Len(records) : records[k].held = {}

\* as long as no source was held, no window of a source was lost
RoutedCounted ==
  NoneHeld => \A l \in Links :
    LET i == l[1]
        known == Routed(Len(records), l)
    IN  /\ stage # "sources" => asked[i] = << >> /\ known + routed[l] = Count(l)
        /\ stage = "sources" /\ outcome[i] = "pending" =>
             asked[i] = <<round>> /\ known + routed[l] = Count(l)
        /\ stage = "sources" /\ outcome[i] = "reply" =>
             asked[i] = << >> /\ known + report[i][l].routed + routed[l] = Count(l)

\* what the record of this round will say has left link l, or what has
LeftSoFar(l) ==
  IF outcome[l[1]] = "reply"
  THEN Routed(Len(records), l) + (report[l[1]][l].routed - report[l[1]][l].inSystem)
  ELSE Gone(l)

ReportsCausal ==
  NoneHeld /\ stage = "sources" =>
    \A j \in Brokers : Known(j) <= SumFunction([l \in LinksTo(j) |-> LeftSoFar(l)])

CausalInv == CountedWereRead /\ RoutedCounted /\ ReportsCausal /\ CausalCounts

-----------------------------------------------------------------------------
AtBroker(j) == InSystem(j) + CompletedAt(j)

\* as long as no round was skipped, no window of a broker was lost
ArrivalsCounted ==
  skipped = 0 => \A j \in Brokers :
    /\ stage = "idle" \/ (stage = "brokers" /\ outcome[j] = "pending") =>
         /\ asked[j] = IF stage = "idle" THEN << >> ELSE <<round>>
         /\ j \in alive => Arrived(Len(records), j) + arrivals[j] = AtBroker(j)
    /\ stage # "idle" /\ outcome[j] = "reply" =>
         /\ asked[j] = << >>
         /\ j \in alive => Known(j) + arrivals[j] = AtBroker(j)
         /\ Known(j) = report[j].inSystem + report[j].completedTotal

AccountInv == UnitsRouted /\ ArrivalsCounted /\ BrokersAccount
-----------------------------------------------------------------------------
\* The elements of a sequence that are in P are finitely many.
LEMMA CountIsNat ==
  ASSUME NEW S, NEW s \in Seq(S), NEW P
  PROVE  Cardinality({k \in DOMAIN s : s[k] \in P}) \in Nat
<1> DEFINE A == {k \in DOMAIN s : s[k] \in P}
<1>1. DOMAIN s = 1 .. Len(s) /\ Len(s) \in Nat BY LenProperties
<1>2. IsFiniteSet(1 .. Len(s)) BY <1>1, FS_Interval
<1>3. A \in SUBSET (1 .. Len(s)) BY <1>1
<1> QED BY <1>2, <1>3, FS_Subset, FS_CardinalityType

\* Of the elements of a sequence that are in P there is one more when one of P is
\* appended.
LEMMA CountAppended ==
  ASSUME NEW S, NEW s \in Seq(S), NEW x \in S, NEW P
  PROVE  Cardinality({k \in DOMAIN Append(s, x) : Append(s, x)[k] \in P})
           = Cardinality({k \in DOMAIN s : s[k] \in P}) + (IF x \in P THEN 1 ELSE 0)
<1> DEFINE t == Append(s, x)
           A == {k \in DOMAIN s : s[k] \in P}
           B == {k \in DOMAIN t : t[k] \in P}
<1>1. /\ DOMAIN s = 1 .. Len(s) /\ Len(s) \in Nat
      /\ DOMAIN t = 1 .. Len(s) + 1 /\ t[Len(s) + 1] = x /\ \A k \in 1 .. Len(s) : t[k] = s[k]
  BY AppendProperties, LenProperties
<1>2. IsFiniteSet(A)
  <2>1. IsFiniteSet(1 .. Len(s)) BY <1>1, FS_Interval
  <2>2. A \in SUBSET (1 .. Len(s)) BY <1>1
  <2> QED BY <2>1, <2>2, FS_Subset
<1>3. Cardinality(A) \in Nat BY <1>2, FS_CardinalityType
<1> HIDE DEF t
<1>4. CASE x \in P
  <2>1. B = A \cup {Len(s) + 1} /\ Len(s) + 1 \notin A BY <1>1, <1>4
  <2> HIDE DEF A, B
  <2>2. Cardinality(B) = Cardinality(A) + 1 BY <2>1, <1>2, FS_AddElement
  <2> QED BY <1>3, <1>4, <2>2 DEF A, B, t
<1>5. CASE x \notin P
  <2>1. B = A BY <1>1, <1>5
  <2> HIDE DEF A, B
  <2>2. \A n \in Nat : n = n + 0 OBVIOUS
  <2>3. Cardinality(B) = Cardinality(A) + 0 BY <2>1, <2>2, <1>3
  <2> QED BY <1>3, <1>5, <2>3 DEF A, B, t
<1> QED BY <1>4, <1>5

\* The units of a link, when one is generated.
LEMMA CountStep ==
  ASSUME TrafficTyped, NEW here \in Links, route' = Append(route, here)
  PROVE  \A l \in Links : Count(l)' = Count(l) + (IF l = here THEN 1 ELSE 0)
<1>1. TAKE l \in Links
<1> DEFINE P == {l}
<1> HIDE DEF P
<1>2. route \in Seq(Links) BY DEF TrafficTyped
<1>3. Cardinality({k \in DOMAIN Append(route, here) : Append(route, here)[k] \in P})
        = Cardinality({k \in DOMAIN route : route[k] \in P}) + (IF here \in P THEN 1 ELSE 0)
  BY <1>2, CountAppended
<1>4. \A v : v \in P <=> v = l BY DEF P
<1>5. Count(l) = Cardinality({k \in DOMAIN route : route[k] \in P}) BY <1>4 DEF Count
<1>6. Count(l)' = Cardinality({k \in DOMAIN Append(route, here) : Append(route, here)[k] \in P})
  BY <1>4 DEF Count
<1>7. here \in P <=> l = here BY <1>4
<1> QED BY <1>3, <1>5, <1>6, <1>7

\* The units of a link are a number.
LEMMA CountTyped == TrafficTyped => \A k \in Links : Count(k) \in Nat
<1> HAVE TrafficTyped
<1>1. TAKE l \in Links
<1>2. route \in Seq(Links) BY DEF TrafficTyped
<1> DEFINE P == {l}
<1> HIDE DEF P
<1>3. Cardinality({k \in DOMAIN route : route[k] \in P}) \in Nat BY <1>2, CountIsNat
<1>4. \A v : v \in P <=> v = l BY DEF P
<1> QED BY <1>3, <1>4 DEF Count

\* The units completed at the brokers, when one is completed at j.
LEMMA CompletedStep ==
  ASSUME TrafficTyped, NEW u \in Units, completed' = Append(completed, u), route' = route
  PROVE  \A j \in Brokers : CompletedAt(j)' = CompletedAt(j) + (IF route[u][2] = j THEN 1 ELSE 0)
<1>1. TAKE j \in Brokers
<1> DEFINE P == {v \in Units : route[v][2] = j}
<1>0. \A v \in Units : v \in P <=> route[v][2] = j OBVIOUS
<1> HIDE DEF P
<1>2. completed \in Seq(Units) BY DEF TrafficTyped
<1>3. Cardinality({k \in DOMAIN Append(completed, u) : Append(completed, u)[k] \in P})
        = Cardinality({k \in DOMAIN completed : completed[k] \in P}) + (IF u \in P THEN 1 ELSE 0)
  BY <1>2, CountAppended
<1>4. \A k \in DOMAIN completed : completed[k] \in Units BY <1>2
<1>5. CompletedAt(j) = Cardinality({k \in DOMAIN completed : completed[k] \in P})
  BY <1>0, <1>4 DEF CompletedAt
<1>6. completed' \in Seq(Units) BY <1>2, AppendTyped
<1>7. \A k \in DOMAIN completed' : completed'[k] \in Units BY <1>6
<1>8. CompletedAt(j)' = Cardinality({k \in DOMAIN completed' : completed'[k] \in P})
  BY <1>0, <1>7 DEF CompletedAt
<1>9. u \in P <=> route[u][2] = j BY <1>0
<1> QED BY <1>3, <1>5, <1>8, <1>9

-----------------------------------------------------------------------------
\* The loop takes the unit it served from its place, and no other.
LEMMA ContinueCounts ==
  ASSUME LoopsTyped, NEW p \in Places, Continue(p)
  PROVE  \A q \in Places : InSystem(q)' = InSystem(q) - (IF q = p THEN Len(serving[p]) ELSE 0)
<1>1. TAKE q \in Places
<1>2. queue[q] \in Seq(Units) /\ serving[q] \in Seq(Units) BY DEF LoopsTyped
<1>3. Len(queue[q]) \in Nat /\ Len(serving[q]) \in Nat BY <1>2, LenProperties
<1>4. CASE q # p
  <2>1. queue'[q] = queue[q] /\ serving'[q] = serving[q] BY <1>4 DEF Continue, LoopsTyped
  <2> QED BY <1>3, <1>4, <2>1 DEF InSystem
<1>5. CASE q = p
  <2>1. CASE queue[p] = << >>
    <3>1. queue'[p] = << >> /\ serving'[p] = << >> BY <2>1 DEF Continue, LoopsTyped
    <3>2. Len(<< >>) = 0 OBVIOUS
    <3> QED BY <1>3, <1>5, <2>1, <3>1, <3>2 DEF InSystem
  <2>2. CASE queue[p] # << >>
    <3>1. queue'[p] = Tail(queue[p]) /\ serving'[p] = <<Head(queue[p])>>
      BY <2>2 DEF Continue, LoopsTyped
    <3>2. Len(Tail(queue[p])) = Len(queue[p]) - 1 BY <1>2, <1>5, <2>2, HeadTailProperties
    <3>3. Len(<<Head(queue[p])>>) = 1 OBVIOUS
    <3> QED BY <1>3, <1>5, <3>1, <3>2, <3>3 DEF InSystem
  <2> QED BY <2>1, <2>2
<1> QED BY <1>4, <1>5

\* A put adds one unit to a place.
LEMMA PutCounts ==
  ASSUME LoopsTyped, NEW p \in Places, NEW u \in Units, Put(p, u), serving' = serving
  PROVE  \A q \in Places : InSystem(q)' = InSystem(q) + (IF q = p THEN 1 ELSE 0)
<1>1. TAKE q \in Places
<1>2. queue[q] \in Seq(Units) /\ serving[q] \in Seq(Units) BY DEF LoopsTyped
<1>3. Len(queue[q]) \in Nat /\ Len(serving[q]) \in Nat BY <1>2, LenProperties
<1>4. CASE q # p
  <2>1. queue'[q] = queue[q] /\ serving'[q] = serving[q] BY <1>4 DEF Put, LoopsTyped
  <2> QED BY <1>3, <1>4, <2>1 DEF InSystem
<1>5. CASE q = p
  <2>1. queue'[p] = Append(queue[p], u) /\ serving'[p] = serving[p] BY DEF Put, LoopsTyped
  <2>2. Len(Append(queue[p], u)) = Len(queue[p]) + 1 BY <1>2, <1>5, AppendProperties
  <2>3. InSystem(p)' = Len(queue'[p]) + Len(serving'[p]) /\ InSystem(p) = Len(queue[p]) + Len(serving[p])
    BY DEF InSystem
  <2>4. \A a, b \in Nat : (a + 1) + b = (a + b) + 1 OBVIOUS
  <2>5. InSystem(p)' = (Len(queue[p]) + 1) + Len(serving[p]) BY <2>1, <2>2, <2>3
  <2>6. InSystem(p)' = InSystem(p) + 1 BY <1>3, <1>5, <2>3, <2>4, <2>5
  <2> QED BY <1>5, <2>6
<1> QED BY <1>4, <1>5

\* The unit a link served has left it.
LEMMA LeaveCounts ==
  ASSUME LoopsTyped, NEW p \in Links, LeaveLink(p)
  PROVE  \A q \in Places : InSystem(q)' = InSystem(q) - (IF q = p THEN 1 ELSE 0)
<1>1. TAKE q \in Places
<1>2. queue[q] \in Seq(Units) /\ serving[q] \in Seq(Units) BY DEF LoopsTyped
<1>3. Len(queue[q]) \in Nat /\ Len(serving[q]) \in Nat BY <1>2, LenProperties
<1>4. queue' = queue /\ serving' = [serving EXCEPT ![p] = << >>] /\ Len(serving[p]) = 1
  BY PlacesApart DEF LeaveLink, LoopsTyped
<1>5. CASE q # p
  <2>1. serving'[q] = serving[q] BY <1>4, <1>5 DEF LoopsTyped
  <2> QED BY <1>3, <1>4, <1>5, <2>1 DEF InSystem
<1>6. CASE q = p
  <2>1. serving'[q] = << >> BY <1>4, <1>6 DEF LoopsTyped
  <2>2. Len(<< >>) = 0 OBVIOUS
  <2>3. InSystem(p)' = Len(queue'[p]) + Len(serving'[p]) /\ InSystem(p) = Len(queue[p]) + Len(serving[p])
    BY DEF InSystem
  <2>4. \A a \in Nat : a + 0 = (a + 1) - 1 OBVIOUS
  <2>5. InSystem(p)' = Len(queue[p]) + 0 /\ InSystem(p) = Len(queue[p]) + 1
    BY <1>4, <1>6, <2>1, <2>2, <2>3
  <2>6. InSystem(p)' = InSystem(p) - 1 BY <1>3, <1>6, <2>4, <2>5
  <2> QED BY <1>6, <2>6
<1> QED BY <1>5, <1>6
-----------------------------------------------------------------------------
\* What the causal invariant speaks of are numbers.
LEMMA LinksTyped ==
  RecordInv => \A k \in Links :
    /\ Gone(k) \in Int /\ WasRead(k) \in Int /\ WasRead(k) <= Gone(k)
    /\ k[1] \in Sources /\ k[2] \in Brokers
<1> HAVE RecordInv
<1>1. TAKE l \in Links
<1>2. Count(l) \in Nat BY CountTyped DEF RecordInv, TypeInv
<1>3. InSystem(l) \in Nat BY InSystemTyped, PlacesApart DEF RecordInv, TypeInv
<1>4. wire[l] \in Seq(Units) BY DEF RecordInv, TypeInv, TrafficTyped
<1>5. Len(wire[l]) \in Nat BY <1>4, LenProperties
<1>6. Gone(l) \in Int BY <1>2, <1>3 DEF Gone
<1>7. WasRead(l) \in Int /\ WasRead(l) <= Gone(l) BY <1>5, <1>6 DEF WasRead
<1> QED BY <1>6, <1>7, ConstantsTyped

\* A link goes from a source to a broker.
LEMMA LinksApart == \A l \in Links : l[1] \in Sources /\ l[2] \in Brokers
  BY ConstantsTyped

\* The links to a broker are some of the links.
LEMMA LinksToFinite == \A j : LinksTo(j) \subseteq Links /\ IsFiniteSet(LinksTo(j))
  BY ConstantsTyped, FS_Subset DEF LinksTo

\* What n records count as arrived is a number, and so is what each of them does.
LEMMA ArrivedTyped ==
  ASSUME RecordInv, NEW n \in 0 .. Len(records), NEW j \in Brokers
  PROVE  Arrived(n, j) \in Int /\ [k \in 1 .. n |-> records[k].report[j].arrivals] \in [1 .. n -> Int]
<1>1. n \in Nat BY DEF RecordInv, RecordsTyped
<1>2. \A k \in 1 .. n : k \in 1 .. Len(records) BY DEF RecordInv, RecordsTyped
<1>3. \A k \in 1 .. n : records[k].report[j].arrivals \in Int
  BY <1>2 DEF RecordInv, RecordsTyped, BrokerReport
<1>4. [k \in 1 .. n |-> records[k].report[j].arrivals] \in [1 .. n -> Int] BY <1>3
<1>5. IsFiniteSet(1 .. n) BY <1>1, FS_Interval
<1> QED BY <1>4, <1>5, SumFunctionInt DEF Arrived

\* A source reports of each of its links.
LEMMA SourceReportTyped ==
  \A l \in Links : \A r \in SourceReport(l[1]) : r[l].routed \in Nat /\ r[l].inSystem \in Nat
<1>1. TAKE l \in Links
<1>2. TAKE r \in SourceReport(l[1])
<1> DEFINE D == {k \in Links : k[1] = l[1]}
           R == [routed : Nat, inSystem : Nat]
<1>3. l \in D OBVIOUS
<1>4. r \in [D -> R] BY DEF SourceReport
<1>5. r[l] \in R
  <2> HIDE DEF D, R
  <2> QED BY <1>3, <1>4
<1> QED BY <1>5

\* What n records count as routed is a number when none of them holds a source: a
\* record that holds one may have no report of it.
LEMMA RoutedTyped ==
  ASSUME RecordInv, NEW n \in 0 .. Len(records), \A k \in 1 .. n : records[k].held = {}, NEW l \in Links
  PROVE  Routed(n, l) \in Int /\ [k \in 1 .. n |-> records[k].report[l[1]][l].routed] \in [1 .. n -> Int]
<1>1. n \in Nat BY DEF RecordInv, RecordsTyped
<1>2. \A k \in 1 .. n : k \in 1 .. Len(records) BY DEF RecordInv, RecordsTyped
<1>3. l[1] \in Sources BY ConstantsTyped
<1>4. \A k \in 1 .. n : records[k].report[l[1]] \in SourceReport(l[1])
  BY <1>2, <1>3 DEF RecordInv, RecordsTyped
<1>5. \A k \in 1 .. n : records[k].report[l[1]][l].routed \in Int
  BY <1>4, SourceReportTyped
<1>6. [k \in 1 .. n |-> records[k].report[l[1]][l].routed] \in [1 .. n -> Int] BY <1>5
<1>7. IsFiniteSet(1 .. n) BY <1>1, FS_Interval
<1> QED BY <1>6, <1>7, SumFunctionInt DEF Routed

\* What all the records count as routed is a number.
LEMMA LastRoutedTyped ==
  ASSUME RecordInv, NoneHeld
  PROVE  \A l \in Links : Routed(Len(records), l) \in Int
<1>1. Len(records) \in Nat BY DEF RecordInv, RecordsTyped
<1> QED BY <1>1, RoutedTyped DEF NoneHeld

\* What has left a link so far, as far as it is known.
LEMMA LeftTyped ==
  ASSUME RecordInv, NoneHeld
  PROVE  \A l \in Links : LeftSoFar(l) \in Int
<1>1. TAKE l \in Links
<1>2. l[1] \in Sources /\ Gone(l) \in Int BY LinksTyped
<1>3. Len(records) \in 0 .. Len(records)
  <2>1. Len(records) \in Nat BY DEF RecordInv, RecordsTyped
  <2> QED BY <2>1
<1>4. Routed(Len(records), l) \in Int BY <1>3, RoutedTyped DEF NoneHeld
<1>5. CASE outcome[l[1]] = "reply"
  <2>1. report[l[1]] \in SourceReport(l[1]) BY <1>2, <1>5 DEF RecordInv, Replied
  <2>2. report[l[1]][l].routed \in Int /\ report[l[1]][l].inSystem \in Int
    BY <2>1, SourceReportTyped
  <2> QED BY <1>4, <1>5, <2>2 DEF LeftSoFar
<1> QED BY <1>2, <1>5 DEF LeftSoFar

\* What all the records count as arrived is a number.
LEMMA LastArrivedTyped ==
  ASSUME RecordInv
  PROVE  \A j \in Brokers : Arrived(Len(records), j) \in Int
<1>1. Len(records) \in Nat BY DEF RecordInv, RecordsTyped
<1> QED BY <1>1, ArrivedTyped

\* What the controller has of the arrivals at a broker is a number.
LEMMA KnownTyped == RecordInv => \A k \in Brokers : Known(k) \in Int /\ arrivals[k] \in Nat
<1> HAVE RecordInv
<1>1. TAKE j \in Brokers
<1>3. Arrived(Len(records), j) \in Int BY LastArrivedTyped
<1>4. arrivals[j] \in Nat BY DEF RecordInv, TypeInv, WindowTyped
<1>5. outcome[j] = "reply" => report[j].arrivals \in Int
  BY DEF RecordInv, Replied, BrokerReport
<1> QED BY <1>3, <1>4, <1>5 DEF Known

\* ... and in the next state.
LEMMA KnownTypedNext == RecordInv' => \A k \in Brokers : Known(k)' \in Int /\ arrivals'[k] \in Nat
<1>1. (RecordInv => \A k \in Brokers : Known(k) \in Int /\ arrivals[k] \in Nat)' BY KnownTyped, PTL
<1> QED BY <1>1

-----------------------------------------------------------------------------
\* Records that stay as they are say what they said.
LEMMA RecordsSame ==
  ASSUME records' = records
  PROVE  /\ \A n, j : Arrived(n, j)' = Arrived(n, j)
         /\ \A n, l : Routed(n, l)' = Routed(n, l)
         /\ NoneHeld' = NoneHeld /\ CausalCounts' = CausalCounts /\ BrokersAccount' = BrokersAccount
BY DEF Arrived, Routed, Left, NoneHeld, CausalCounts, BrokersAccount

\* The sum over the links of a broker that the invariant compares the arrivals with.
Through(j) == SumFunction([l \in LinksTo(j) |-> WasRead(l)])

\* What was read by a broker is a number.
LEMMA ThroughTyped == RecordInv => \A k \in Brokers : Through(k) \in Int
<1> HAVE RecordInv
<1>1. TAKE j \in Brokers
<1>2. [l \in LinksTo(j) |-> WasRead(l)] \in [LinksTo(j) -> Int] BY LinksTyped, LinksToFinite
<1> QED BY <1>2, LinksToFinite, SumFunctionInt DEF Through

\* ... and in the next state.
LEMMA TypedNext ==
  RecordInv' => /\ \A k \in Links : Count(k)' \in Nat /\ Gone(k)' \in Int /\ WasRead(k)' \in Int
                                   /\ WasRead(k)' <= Gone(k)'
                /\ \A k \in Brokers : Through(k)' \in Int
<1>1. (TrafficTyped => \A k \in Links : Count(k) \in Nat)' BY CountTyped, PTL
<1>2. (RecordInv => \A k \in Links :
    /\ Gone(k) \in Int /\ WasRead(k) \in Int /\ WasRead(k) <= Gone(k)
    /\ k[1] \in Sources /\ k[2] \in Brokers)'
  BY LinksTyped, PTL
<1>3. (RecordInv => \A k \in Brokers : Through(k) \in Int)' BY ThroughTyped, PTL
<1> QED BY <1>1, <1>2, <1>3 DEF RecordInv, TypeInv

\* A step that reads no less on any link lets no less through to a broker.
LEMMA ThroughGrows ==
  ASSUME RecordInv, RecordInv', NEW j \in Brokers, \A l \in LinksTo(j) : WasRead(l) <= WasRead(l)'
  PROVE  Through(j) <= Through(j)'
<1> DEFINE f == [l \in LinksTo(j) |-> WasRead(l)]
           g == [l \in LinksTo(j) |-> WasRead(l)']
<1>1. \A l \in LinksTo(j) : WasRead(l) \in Int BY LinksTyped, LinksToFinite
<1>2. \A l \in LinksTo(j) : WasRead(l)' \in Int
  BY TypedNext, LinksToFinite
<1>3. f \in [LinksTo(j) -> Int] /\ g \in [LinksTo(j) -> Int] BY <1>1, <1>2
<1>4. \A l \in LinksTo(j) : f[l] <= g[l] OBVIOUS
<1>5. SumFunction(f) <= SumFunction(g) BY <1>3, <1>4, LinksToFinite, SumFunctionMonotonic
<1> QED BY <1>5 DEF Through

\* A step of the traffic, which changes neither the round nor its records, keeps the
\* causal invariant when what it adds to the arrivals of a broker was read, when no
\* unit returns to a link, and when what is routed is counted.
LEMMA FlowCausal ==
  ASSUME RecordInv, RecordInv', CausalInv, UNCHANGED control,
         \A l \in Links : Gone(l) <= Gone(l)',
         \A l \in Links : routed'[l] - routed[l] = Count(l)' - Count(l),
         \A j \in Brokers : arrivals'[j] + Through(j) <= arrivals[j] + Through(j)'
  PROVE  CausalInv'
<1> USE DEF CausalInv
<1>0. UNCHANGED <<round, stage, asked, outcome, report, records>> BY DEF control
<1>1. CountedWereRead'
  <2>1. SUFFICES ASSUME NEW j \in Brokers PROVE Known(j)' + arrivals'[j] <= Through(j)'
    BY DEF CountedWereRead, Through
  <2>2. Known(j)' = Known(j) BY <1>0, RecordsSame DEF Known
  <2>3. Known(j) \in Int /\ arrivals[j] \in Nat BY KnownTyped
  <2>4. arrivals'[j] \in Nat BY DEF RecordInv, TypeInv, WindowTyped
  <2>5. Through(j) \in Int BY ThroughTyped
  <2>6. Through(j)' \in Int
    BY TypedNext
  <2>7. Known(j) + arrivals[j] <= Through(j) BY DEF CountedWereRead, Through
  <2>8. arrivals'[j] + Through(j) <= arrivals[j] + Through(j)' OBVIOUS
  <2> QED BY <2>2, <2>3, <2>4, <2>5, <2>6, <2>7, <2>8
<1>2. RoutedCounted'
  <2>1. SUFFICES ASSUME NoneHeld', NEW l \in Links
                 PROVE  (LET i == l[1]
                             known == Routed(Len(records), l)
                         IN  /\ stage # "sources" => asked[i] = << >> /\ known + routed[l] = Count(l)
                             /\ stage = "sources" /\ outcome[i] = "pending" =>
                                  asked[i] = <<round>> /\ known + routed[l] = Count(l)
                             /\ stage = "sources" /\ outcome[i] = "reply" =>
                                  asked[i] = << >> /\ known + report[i][l].routed + routed[l] = Count(l))'
    BY DEF RoutedCounted
  <2>2. NoneHeld BY <1>0, <2>1, RecordsSame
  <2> DEFINE known == Routed(Len(records), l)
  <2>3. Routed(Len(records), l)' = known BY <1>0, RecordsSame
  <2>4. known \in Int
    <3>1. Len(records) \in 0 .. Len(records)
      <4>1. Len(records) \in Nat BY DEF RecordInv, RecordsTyped
      <4> QED BY <4>1
    <3> QED BY <2>2, <3>1, RoutedTyped DEF NoneHeld
  <2>5. routed[l] \in Nat /\ routed'[l] \in Nat /\ routed'[l] - routed[l] = Count(l)' - Count(l)
    BY DEF RecordInv, TypeInv, WindowTyped
  <2>6. Count(l) \in Nat BY CountTyped DEF RecordInv, TypeInv
  <2>7. Count(l)' \in Nat
    BY TypedNext
  <2>8. outcome[l[1]] = "reply" => report[l[1]][l].routed \in Int
    BY LinksTyped, SourceReportTyped DEF RecordInv, Replied
  <2>9. /\ stage # "sources" => asked[l[1]] = << >> /\ known + routed[l] = Count(l)
        /\ stage = "sources" /\ outcome[l[1]] = "pending" =>
             asked[l[1]] = <<round>> /\ known + routed[l] = Count(l)
        /\ stage = "sources" /\ outcome[l[1]] = "reply" =>
             asked[l[1]] = << >> /\ known + report[l[1]][l].routed + routed[l] = Count(l)
    BY <2>2 DEF RoutedCounted
  <2> HIDE DEF known
  <2>10. known + routed[l] = Count(l) => known + routed'[l] = Count(l)' BY <2>4, <2>5, <2>6, <2>7
  <2>11. outcome[l[1]] = "reply" /\ known + report[l[1]][l].routed + routed[l] = Count(l) =>
           known + report[l[1]][l].routed + routed'[l] = Count(l)'
    BY <2>4, <2>5, <2>6, <2>7, <2>8
  <2> QED BY <1>0, <2>3, <2>9, <2>10, <2>11
<1>3. ReportsCausal'
  <2>1. SUFFICES ASSUME NoneHeld', stage' = "sources", NEW j \in Brokers
                 PROVE  Known(j)' <= SumFunction([l \in LinksTo(j) |-> LeftSoFar(l)'])
    BY DEF ReportsCausal
  <2>2. NoneHeld /\ stage = "sources" BY <1>0, <2>1, RecordsSame
  <2>3. Known(j)' = Known(j) BY <1>0, RecordsSame DEF Known
  <2>4. ASSUME NEW l \in Links
        PROVE  LeftSoFar(l) <= LeftSoFar(l)' /\ LeftSoFar(l)' \in Int /\ LeftSoFar(l) \in Int
    <3>1. LeftSoFar(l) \in Int BY <2>2, LeftTyped
    <3>2. Routed(Len(records), l)' = Routed(Len(records), l) BY <1>0, RecordsSame
    <3>3. CASE outcome[l[1]] = "reply"
      <4>1. LeftSoFar(l)' = LeftSoFar(l) BY <1>0, <3>2, <3>3 DEF LeftSoFar
      <4> QED BY <3>1, <4>1
    <3>4. CASE outcome[l[1]] # "reply"
      <4>1. LeftSoFar(l)' = Gone(l)' /\ LeftSoFar(l) = Gone(l) BY <1>0, <3>4 DEF LeftSoFar
      <4>2. Gone(l)' \in Int BY TypedNext
      <4> QED BY <3>1, <4>1, <4>2
    <3> QED BY <3>3, <3>4
  <2> DEFINE f == [l \in LinksTo(j) |-> LeftSoFar(l)]
             g == [l \in LinksTo(j) |-> LeftSoFar(l)']
  <2>5. f \in [LinksTo(j) -> Int] /\ g \in [LinksTo(j) -> Int] /\ \A l \in LinksTo(j) : f[l] <= g[l]
    BY <2>4, LinksToFinite
  <2>6. SumFunction(f) <= SumFunction(g) /\ SumFunction(f) \in Int /\ SumFunction(g) \in Int
    BY <2>5, LinksToFinite, SumFunctionMonotonic, SumFunctionInt
  <2>7. Known(j) <= SumFunction(f) /\ Known(j) \in Int BY <2>2, KnownTyped DEF ReportsCausal
  <2> HIDE DEF f, g
  <2>8. Known(j) <= SumFunction(g) BY <2>6, <2>7
  <2> QED BY <2>3, <2>8 DEF g
<1>4. CausalCounts' BY <1>0, RecordsSame
<1> QED BY <1>1, <1>2, <1>3, <1>4

-----------------------------------------------------------------------------
\* The units on a link, and on their way from it, are numbers.
LEMMA FlowTypes == RecordInv => \A k \in Links : InSystem(k) \in Nat /\ Len(wire[k]) \in Nat
<1> HAVE RecordInv
<1>1. TAKE k \in Links
<1>2. InSystem(k) \in Nat BY InSystemTyped, PlacesApart DEF RecordInv, TypeInv
<1>3. wire[k] \in Seq(Units) BY DEF RecordInv, TypeInv, TrafficTyped
<1> QED BY <1>2, <1>3, LenProperties

\* ... and in the next state.
LEMMA FlowTypesNext == RecordInv' => \A k \in Links : InSystem(k)' \in Nat /\ Len(wire'[k]) \in Nat
<1>1. (RecordInv => \A k \in Links : InSystem(k) \in Nat /\ Len(wire[k]) \in Nat)' BY FlowTypes, PTL
<1> QED BY <1>1

\* A step of the traffic that generates nothing, delivers nothing and returns no unit
\* to a link keeps the causal invariant.
LEMMA QuietCausal ==
  ASSUME RecordInv, RecordInv', CausalInv, UNCHANGED control, UNCHANGED <<route, routed, arrivals>>,
         \A l \in Links : InSystem(l)' <= InSystem(l),
         \A l \in Links : InSystem(l)' + Len(wire'[l]) <= InSystem(l) + Len(wire[l])
  PROVE  CausalInv'
<1>1. \A l \in Links : Count(l)' = Count(l) /\ Count(l) \in Nat
  BY CountTyped DEF Count, RecordInv, TypeInv
<1>2. \A l \in Links : /\ InSystem(l) \in Nat /\ InSystem(l)' \in Nat
                       /\ Len(wire[l]) \in Nat /\ Len(wire'[l]) \in Nat
  BY FlowTypes, FlowTypesNext
<1>3. \A l \in Links : Gone(l) <= Gone(l)' /\ WasRead(l) <= WasRead(l)'
  <2>1. TAKE l \in Links
  <2>2. Gone(l) = Count(l) - InSystem(l) /\ WasRead(l) = (Count(l) - InSystem(l)) - Len(wire[l])
    BY DEF Gone, WasRead
  <2>3. Gone(l)' = Count(l) - InSystem(l)' /\ WasRead(l)' = (Count(l) - InSystem(l)') - Len(wire'[l])
    BY <1>1 DEF Gone, WasRead
  <2>4. InSystem(l)' <= InSystem(l) /\ InSystem(l)' + Len(wire'[l]) <= InSystem(l) + Len(wire[l])
    OBVIOUS
  <2>5. \A c, a, b, x, y \in Nat : a <= b /\ a + x <= b + y =>
          c - b <= c - a /\ (c - b) - y <= (c - a) - x
    OBVIOUS
  <2> QED BY <1>1, <1>2, <2>2, <2>3, <2>4, <2>5
<1>4. \A j \in Brokers : arrivals'[j] + Through(j) <= arrivals[j] + Through(j)'
  <2>1. TAKE j \in Brokers
  <2>2. Through(j) <= Through(j)' BY <1>3, LinksToFinite, ThroughGrows
  <2>3. Through(j) \in Int /\ Through(j)' \in Int /\ arrivals[j] \in Nat
    BY ThroughTyped, TypedNext, KnownTyped
  <2> QED BY <2>2, <2>3
<1>5. \A l \in Links : routed'[l] - routed[l] = Count(l)' - Count(l)
  <2>1. \A l \in Links : routed[l] \in Nat BY DEF RecordInv, TypeInv, WindowTyped
  <2> QED BY <1>1, <2>1
<1> QED BY <1>3, <1>4, <1>5, FlowCausal

\* The servers of the links and brokers.
LEMMA ServeCausal ==
  ASSUME RecordInv, RecordInv', CausalInv, NEW p \in Places, Serve(p)
  PROVE  CausalInv'
<1> USE DEF RecordInv, TypeInv
<1>1. UNCHANGED control /\ UNCHANGED <<route, routed, arrivals>>
  BY DEF Serve, Resume, LeaveLink, Drained, Complete, window
<1>2. SUFFICES \A l \in Links : /\ InSystem(l)' <= InSystem(l)
                               /\ InSystem(l)' + Len(wire'[l]) <= InSystem(l) + Len(wire[l])
  BY <1>1, QuietCausal
<1>3. \A l \in Links : InSystem(l) \in Nat /\ Len(wire[l]) \in Nat BY FlowTypes
<1>4. ASSUME UNCHANGED wire, \A l \in Links : InSystem(l)' = InSystem(l)
      PROVE  \A l \in Links : /\ InSystem(l)' <= InSystem(l)
                              /\ InSystem(l)' + Len(wire'[l]) <= InSystem(l) + Len(wire[l])
  BY <1>3, <1>4
<1>5. ASSUME Continue(p), UNCHANGED wire, loop[p] = "serving" => p \notin Links
      PROVE  \A l \in Links : /\ InSystem(l)' <= InSystem(l)
                              /\ InSystem(l)' + Len(wire'[l]) <= InSystem(l) + Len(wire[l])
  <2>1. \A q \in Places : InSystem(q)' = InSystem(q) - (IF q = p THEN Len(serving[p]) ELSE 0)
    BY <1>5, ContinueCounts
  <2>2. p \in Links => Len(serving[p]) = 0 BY <1>5 DEF LoopsTyped
  <2>3. \A n \in Nat : n - 0 = n OBVIOUS
  <2>4. \A l \in Links : InSystem(l)' = InSystem(l) BY <1>3, <2>1, <2>2, <2>3, PlacesApart
  <2> QED BY <1>4, <1>5, <2>4
<1>6. CASE Resume(p) BY <1>5, <1>6 DEF Resume
<1>7. CASE p \in Links /\ LeaveLink(p)
  <2>1. \A q \in Places : InSystem(q)' = InSystem(q) - (IF q = p THEN 1 ELSE 0)
    BY <1>7, LeaveCounts
  <2>2. wire[p] \in Seq(Units) /\ serving[p] \in Seq(Units) /\ Len(serving[p]) = 1
    BY <1>7 DEF LoopsTyped, TrafficTyped, LeaveLink
  <2>3. wire'[p] = wire[p] \o serving[p] BY <1>7 DEF LeaveLink, TrafficTyped
  <2>4. Len(wire'[p]) = Len(wire[p]) + 1
    <3> DEFINE a == wire[p] b == serving[p]
    <3> HIDE DEF a, b
    <3>1. Len(a \o b) = Len(a) + Len(b) BY <2>2, ConcatProperties DEF a, b
    <3> QED BY <2>2, <2>3, <3>1 DEF a, b
  <2>5. TAKE l \in Links
  <2>6. CASE l = p
    <3>1. InSystem(p)' = InSystem(p) - 1 BY <1>7, <2>1, PlacesApart
    <3>2. InSystem(p) \in Nat /\ Len(wire[p]) \in Nat BY <1>3, <1>7
    <3>3. \A a, b \in Nat : a - 1 <= a /\ (a - 1) + (b + 1) <= a + b OBVIOUS
    <3> QED BY <2>4, <2>6, <3>1, <3>2, <3>3
  <2>7. CASE l # p
    <3>1. wire'[l] = wire[l] BY <1>7, <2>7 DEF LeaveLink, TrafficTyped
    <3>2. InSystem(l)' = InSystem(l) - 0 BY <2>1, <2>7, PlacesApart
    <3>3. \A a \in Nat : a - 0 = a /\ a <= a OBVIOUS
    <3>4. \A a, b \in Nat : a + b <= a + b OBVIOUS
    <3>5. InSystem(l)' = InSystem(l) BY <1>3, <3>2, <3>3
    <3> QED BY <1>3, <3>1, <3>3, <3>4, <3>5
  <2> QED BY <2>6, <2>7
<1>8. CASE p \in Links /\ Drained(p)
  <2>1. CASE Continue(p) BY <1>5, <1>8, <2>1 DEF Drained
  <2>2. CASE UNCHANGED <<queue, serving>> BY <1>4, <1>8, <2>2 DEF Drained, InSystem
  <2> QED BY <1>8, <2>1, <2>2 DEF Drained
<1>9. CASE p \in Brokers /\ Complete(p)
  <2>1. p \notin Links BY <1>9, PlacesApart
  <2> QED BY <1>5, <1>9, <2>1 DEF Complete
<1> QED BY <1>6, <1>7, <1>8, <1>9 DEF Serve

\* A unit is generated: it is in the window of its source, and still on its link.
LEMMA GenerateCausal ==
  ASSUME RecordInv, RecordInv', CausalInv, NEW here \in Links, Generate(here)
  PROVE  CausalInv'
<1> USE DEF RecordInv, TypeInv
<1>1. UNCHANGED control /\ UNCHANGED <<wire, arrivals, serving>> /\ route' = Append(route, here)
  BY DEF Generate
<1>2. \A l \in Links : Count(l)' = Count(l) + (IF l = here THEN 1 ELSE 0) /\ Count(l) \in Nat
  BY <1>1, CountStep, CountTyped
<1>3. \A q \in Places : InSystem(q)' = InSystem(q) + (IF q = here THEN 1 ELSE 0)
  <2>1. Len(route') \in Units /\ Put(here, Len(route'))
    <3>1. route \in Seq(Links) /\ Len(route) \in Nat BY LenProperties DEF TrafficTyped
    <3>2. Len(route') = Len(route) + 1 BY <1>1, <3>1, AppendProperties
    <3>3. Len(route) < MaxUnits /\ MaxUnits \in Nat BY ConstantsTyped DEF Generate
    <3> QED BY <3>1, <3>2, <3>3 DEF Generate, Units
  <2> QED BY <1>1, <2>1, PutCounts, PlacesApart
<1>4. \A l \in Links : InSystem(l) \in Nat /\ Len(wire[l]) \in Nat BY FlowTypes
<1>5. \A l \in Links : Gone(l)' = Gone(l) /\ WasRead(l)' = WasRead(l)
  <2>1. TAKE l \in Links
  <2>2. Gone(l)' = Count(l)' - InSystem(l)' /\ Gone(l) = Count(l) - InSystem(l) BY DEF Gone
  <2>3. \A a, b \in Nat : \A d \in {0, 1} : (a + d) - (b + d) = a - b OBVIOUS
  <2>4. Gone(l)' = Gone(l) BY <1>2, <1>3, <1>4, <2>2, <2>3, PlacesApart
  <2> QED BY <1>1, <2>4 DEF WasRead
<1>6. \A l \in Links : Gone(l) <= Gone(l)'
  <2>1. \A n \in Int : n <= n OBVIOUS
  <2> QED BY <1>5, <2>1, LinksTyped
<1>7. \A l \in Links : routed'[l] - routed[l] = Count(l)' - Count(l)
  <2>1. TAKE l \in Links
  <2>2. routed[l] \in Nat /\ routed'[l] = routed[l] + (IF l = here THEN 1 ELSE 0)
    <3>1. routed[l] \in Nat /\ routed' = [routed EXCEPT ![here] = @ + 1]
      BY DEF WindowTyped, Generate
    <3>2. CASE l = here BY <3>1, <3>2 DEF WindowTyped
    <3>3. CASE l # here BY <3>1, <3>3 DEF WindowTyped
    <3> QED BY <3>2, <3>3
  <2>3. \A a, b \in Nat : \A d \in {0, 1} : (a + d) - a = (b + d) - b OBVIOUS
  <2> QED BY <1>2, <2>2, <2>3
<1>8. \A j \in Brokers : arrivals'[j] + Through(j) <= arrivals[j] + Through(j)'
  <2>1. TAKE j \in Brokers
  <2>2. Through(j)' = Through(j) BY <1>5, LinksToFinite DEF Through
  <2>3. Through(j) \in Int /\ arrivals[j] \in Nat BY ThroughTyped, KnownTyped
  <2> QED BY <1>1, <2>2, <2>3
<1> QED BY <1>1, <1>6, <1>7, <1>8, FlowCausal

\* A unit is read by its broker, which counts it.
LEMMA DeliverCausal ==
  ASSUME RecordInv, RecordInv', CausalInv, NEW here \in Links, Deliver(here)
  PROVE  CausalInv'
<1> USE DEF RecordInv, TypeInv
<1>1. UNCHANGED control /\ UNCHANGED <<route, routed, serving>> BY DEF Deliver
<1>2. here[2] \in Brokers BY ConstantsTyped
<1>3. wire[here] \in Seq(Units) /\ wire[here] # << >> BY DEF Deliver, TrafficTyped
<1>4. \A l \in Links : InSystem(l)' = InSystem(l) /\ InSystem(l) \in Nat
  <2>1. Head(wire[here]) \in Units BY <1>3, TakeTyped
  <2>2. Put(here[2], Head(wire[here])) BY DEF Deliver
  <2>3. \A q \in Places : InSystem(q)' = InSystem(q) + (IF q = here[2] THEN 1 ELSE 0)
    BY <1>1, <1>2, <2>1, <2>2, PutCounts, PlacesApart
  <2>4. \A l \in Links : InSystem(l) \in Nat BY FlowTypes
  <2>5. \A n \in Nat : n + 0 = n OBVIOUS
  <2> QED BY <1>2, <2>3, <2>4, <2>5, PlacesApart
<1>5. \A l \in Links : Count(l)' = Count(l) /\ Gone(l)' = Gone(l)
  BY <1>1, <1>4 DEF Count, Gone
<1>6. \A l \in Links : WasRead(l)' = WasRead(l) + (IF l = here THEN 1 ELSE 0)
  <2>1. TAKE l \in Links
  <2>2. WasRead(l)' = Gone(l) - Len(wire'[l]) /\ WasRead(l) = Gone(l) - Len(wire[l])
    BY <1>5 DEF WasRead
  <2>3. Gone(l) \in Int /\ Len(wire[l]) \in Nat BY LinksTyped, FlowTypes
  <2>4. wire' = [wire EXCEPT ![here] = Tail(wire[here])] BY DEF Deliver
  <2>5. CASE l = here
    <3>1. wire'[l] = Tail(wire[here]) BY <2>4, <2>5 DEF TrafficTyped
    <3>2. Len(wire'[l]) = Len(wire[l]) - 1 BY <1>3, <2>5, <3>1, HeadTailProperties
    <3> QED BY <2>2, <2>3, <2>5, <3>2
  <2>6. CASE l # here
    <3>1. wire'[l] = wire[l] BY <2>4, <2>6 DEF TrafficTyped
    <3> QED BY <2>2, <2>3, <2>6, <3>1
  <2> QED BY <2>5, <2>6
<1>7. \A l \in Links : WasRead(l) \in Int /\ WasRead(l)' \in Int /\ WasRead(l) <= WasRead(l)'
  <2>1. \A n \in Int : n <= n + 1 /\ n <= n + 0 OBVIOUS
  <2> QED BY <1>6, <2>1, LinksTyped, TypedNext
<1>8. \A j \in Brokers : arrivals'[j] + Through(j) <= arrivals[j] + Through(j)'
  <2>1. TAKE j \in Brokers
  <2>2. /\ Through(j) \in Int /\ Through(j)' \in Int /\ arrivals[j] \in Nat
        /\ arrivals' = [arrivals EXCEPT ![here[2]] = @ + 1]
    BY ThroughTyped, TypedNext, KnownTyped DEF Deliver
  <2>3. CASE j = here[2]
    <3> DEFINE f == [l \in LinksTo(j) |-> WasRead(l)]
               g == [l \in LinksTo(j) |-> WasRead(l)']
    <3>1. here \in LinksTo(j) BY <2>3 DEF LinksTo
    <3>2. f \in [LinksTo(j) -> Int] /\ g \in [LinksTo(j) -> Int] BY <1>7, LinksToFinite
    <3>3. \A l \in LinksTo(j) : f[l] <= g[l] BY <1>7, LinksToFinite
    <3>4. f[here] + 1 <= g[here]
      <4>1. \A n \in Int : n <= n OBVIOUS
      <4>2. g[here] = f[here] + 1 /\ g[here] \in Int BY <1>6, <1>7, <3>1
      <4> QED BY <4>1, <4>2
    <3> HIDE DEF f, g
    <3>5. SumFunction(f) + 1 <= SumFunction(g) BY <3>1, <3>2, <3>3, <3>4, LinksToFinite, SumFunctionRaised
    <3>6. Through(j) + 1 <= Through(j)' BY <3>5 DEF Through, f, g
    <3>7. arrivals'[j] = arrivals[j] + 1 BY <2>2, <2>3 DEF WindowTyped
    <3> QED BY <2>2, <3>6, <3>7
  <2>4. CASE j # here[2]
    <3>1. Through(j) <= Through(j)' BY <1>7, LinksToFinite, ThroughGrows
    <3>2. arrivals'[j] = arrivals[j] BY <2>2, <2>4 DEF WindowTyped
    <3> QED BY <2>2, <3>1, <3>2
  <2> QED BY <2>3, <2>4
<1>9. \A l \in Links : Gone(l) <= Gone(l)'
  <2>1. \A n \in Int : n <= n OBVIOUS
  <2> QED BY <1>5, <2>1, LinksTyped
<1>10. \A l \in Links : routed'[l] - routed[l] = Count(l)' - Count(l)
  <2>1. \A l \in Links : routed[l] \in Nat /\ Count(l) \in Nat BY CountTyped DEF WindowTyped
  <2> QED BY <1>1, <1>5, <2>1
<1> QED BY <1>1, <1>8, <1>9, <1>10, FlowCausal

\* A broker dies, and what was on its way to it is gone.
LEMMA DieCausal ==
  ASSUME RecordInv, RecordInv', CausalInv, NEW j \in Brokers, BrokerDies(j)
  PROVE  CausalInv'
<1> USE DEF RecordInv, TypeInv
<1>1. UNCHANGED control /\ UNCHANGED <<route, routed, arrivals>> BY DEF BrokerDies, window
<1>2. ASSUME NEW l \in Links
      PROVE  InSystem(l)' = InSystem(l) /\ Len(wire'[l]) <= Len(wire[l])
  <2>1. l # j /\ l \in Places /\ j \in Places BY PlacesApart
  <2>2. queue'[l] = queue[l] /\ serving'[l] = serving[l]
    BY <2>1 DEF BrokerDies, LoopsTyped
  <2>3. InSystem(l)' = InSystem(l) BY <2>2 DEF InSystem
  <2>4. wire'[l] = << >> \/ wire'[l] = wire[l] BY DEF BrokerDies
  <2>5. Len(<< >>) = 0 /\ \A n \in Nat : 0 <= n /\ n <= n OBVIOUS
  <2>6. Len(wire[l]) \in Nat BY FlowTypes
  <2> QED BY <2>3, <2>4, <2>5, <2>6
<1>3. \A l \in Links : /\ InSystem(l) \in Nat /\ Len(wire[l]) \in Nat /\ Len(wire'[l]) \in Nat
  BY FlowTypes, FlowTypesNext
<1>4. \A l \in Links : /\ InSystem(l)' <= InSystem(l)
                       /\ InSystem(l)' + Len(wire'[l]) <= InSystem(l) + Len(wire[l])
  <2>1. \A a, b, c \in Nat : b <= c => a <= a /\ a + b <= a + c OBVIOUS
  <2> QED BY <1>2, <1>3, <2>1
<1> QED BY <1>1, <1>4, QuietCausal

-----------------------------------------------------------------------------
\* A step of the round moves no unit.
LEMMA RoundStill ==
  ASSUME UNCHANGED <<queue, serving, route, wire>>
  PROVE  /\ \A l : Count(l)' = Count(l) /\ Gone(l)' = Gone(l) /\ WasRead(l)' = WasRead(l)
         /\ \A p : InSystem(p)' = InSystem(p)
         /\ \A j : Through(j)' = Through(j)
  BY DEF Count, Gone, WasRead, InSystem, Through

\* It keeps the arrivals below what was read when it adds none.
LEMMA CountedKept ==
  ASSUME RecordInv, RecordInv', CountedWereRead, UNCHANGED <<queue, serving, route, wire>>,
         \A j \in Brokers : Known(j)' + arrivals'[j] <= Known(j) + arrivals[j]
  PROVE  CountedWereRead'
<1>1. SUFFICES ASSUME NEW j \in Brokers PROVE Known(j)' + arrivals'[j] <= Through(j)'
  BY DEF CountedWereRead, Through
<1>2. Known(j) + arrivals[j] <= Through(j) BY DEF CountedWereRead, Through
<1>3. Through(j)' = Through(j) /\ Through(j) \in Int BY RoundStill, ThroughTyped
<1>4. Known(j) \in Int /\ arrivals[j] \in Nat BY KnownTyped
<1>5. Known(j)' \in Int /\ arrivals'[j] \in Nat BY KnownTypedNext
<1>6. Known(j)' + arrivals'[j] <= Known(j) + arrivals[j] OBVIOUS
<1> QED BY <1>2, <1>3, <1>4, <1>5, <1>6

\* The controller asks the brokers for a new round, or skips one that some of them
\* have not answered: it forgets what it was told of the arrivals.
LEMMA BrokersCausal ==
  ASSUME RecordInv, RecordInv', CausalInv, AskBrokers \/ SkipRound
  PROVE  CausalInv'
<1> USE DEF CausalInv
<1>1. /\ UNCHANGED <<queue, serving, route, wire, records, routed, arrivals>> /\ stage' # "sources"
      /\ stage # "sources"
  BY DEF AskBrokers, SkipRound, loops, window
<1>2. ASSUME NEW j \in Brokers PROVE Known(j)' + arrivals'[j] <= Known(j) + arrivals[j]
  <2>1. Known(j)' = Arrived(Len(records), j)
    <3>1. Arrived(Len(records), j)' = Arrived(Len(records), j) BY <1>1, RecordsSame
    <3>2. stage' # "idle" => outcome'[j] = "pending"
      BY DEF AskBrokers, SkipRound, Ask, Workers
    <3>3. stage' = "idle" \/ outcome'[j] # "reply" BY <3>2
    <3>4. Arrived(Len(records), j) \in Int BY LastArrivedTyped
    <3> QED BY <3>1, <3>3, <3>4 DEF Known
  <2>2. outcome[j] = "reply" => report[j].arrivals \in Nat BY DEF RecordInv, Replied, BrokerReport
  <2>3. Arrived(Len(records), j) \in Int /\ arrivals[j] \in Nat BY LastArrivedTyped, KnownTyped
  <2> QED BY <1>1, <2>1, <2>2, <2>3 DEF Known
<1>3. CountedWereRead' BY <1>1, <1>2, CountedKept
<1>4. RoutedCounted'
  <2>1. SUFFICES ASSUME NoneHeld', NEW l \in Links
                 PROVE  asked'[l[1]] = << >> /\ Routed(Len(records), l)' + routed'[l] = Count(l)'
    BY <1>1 DEF RoutedCounted
  <2>2. NoneHeld BY <1>1, <2>1, RecordsSame
  <2>3. asked'[l[1]] = asked[l[1]]
    <3>1. l[1] \in Sources /\ l[1] \notin Brokers BY ConstantsTyped
    <3>2. asked \in [Workers -> Seq(1 .. round)] BY DEF RecordInv, TypeInv, RoundTyped
    <3> QED BY <3>1, <3>2 DEF AskBrokers, SkipRound, Ask, Workers
  <2>4. asked[l[1]] = << >> /\ Routed(Len(records), l) + routed[l] = Count(l)
    BY <1>1, <2>2 DEF RoutedCounted
  <2>5. Routed(Len(records), l)' = Routed(Len(records), l) /\ Count(l)' = Count(l)
    BY <1>1, RecordsSame, RoundStill
  <2> QED BY <1>1, <2>3, <2>4, <2>5
<1>5. ReportsCausal' BY <1>1 DEF ReportsCausal
<1>6. CausalCounts' BY <1>1, RecordsSame
<1> QED BY <1>3, <1>4, <1>5, <1>6

\* The sources are asked once every broker has told its arrivals: these were read, and
\* so had left the links.
LEMMA AskSourcesCausal ==
  ASSUME RecordInv, RecordInv', CausalInv, AskSources
  PROVE  CausalInv'
<1> USE DEF CausalInv
<1>1. /\ UNCHANGED <<queue, serving, route, wire, records, routed, arrivals>>
      /\ stage = "brokers" /\ stage' = "sources"
  BY DEF AskSources, loops, window
<1>2. /\ \A i \in Sources : asked'[i] = Append(asked[i], round) /\ outcome'[i] = "pending"
      /\ \A j \in Brokers : outcome'[j] = outcome[j] /\ report'[j] = report[j]
      /\ round' = round
  BY ConstantsTyped DEF AskSources, Ask, Workers
<1>3. ASSUME NEW j \in Brokers PROVE Known(j)' = Known(j)
  <2>1. Arrived(Len(records), j)' = Arrived(Len(records), j) BY <1>1, RecordsSame
  <2> QED BY <1>1, <1>2, <2>1 DEF Known
<1>4. CountedWereRead'
  <2>1. \A j \in Brokers : Known(j)' + arrivals'[j] <= Known(j) + arrivals[j]
    BY <1>1, <1>3, KnownTyped
  <2> QED BY <1>1, <2>1, CountedKept
<1>5. RoutedCounted'
  <2>1. SUFFICES ASSUME NoneHeld', NEW l \in Links
                 PROVE  asked'[l[1]] = <<round>> /\ Routed(Len(records), l)' + routed'[l] = Count(l)'
    <3>1. \A l \in Links : outcome'[l[1]] = "pending" BY <1>2, LinksTyped
    <3> QED BY <1>1, <1>2, <3>1 DEF RoutedCounted
  <2>2. NoneHeld BY <1>1, <2>1, RecordsSame
  <2>3. asked[l[1]] = << >> /\ Routed(Len(records), l) + routed[l] = Count(l)
    BY <1>1, <2>2 DEF RoutedCounted
  <2>4. asked'[l[1]] = <<round>>
    <3>1. Append(<< >>, round) = <<round>> OBVIOUS
    <3> QED BY <1>2, <2>3, <3>1, LinksTyped
  <2>5. Routed(Len(records), l)' = Routed(Len(records), l) /\ Count(l)' = Count(l)
    BY <1>1, RecordsSame, RoundStill
  <2> QED BY <1>1, <2>3, <2>4, <2>5
<1>6. ReportsCausal'
  <2>1. SUFFICES ASSUME NEW j \in Brokers
                 PROVE  Known(j)' <= SumFunction([l \in LinksTo(j) |-> LeftSoFar(l)'])
    BY DEF ReportsCausal
  <2>2. \A l \in LinksTo(j) : LeftSoFar(l)' = Gone(l)
    <3>1. \A l \in Links : outcome'[l[1]] # "reply" BY <1>2, LinksTyped
    <3>2. \A l : Gone(l)' = Gone(l) BY <1>1, RoundStill
    <3> QED BY <3>1, <3>2, LinksToFinite DEF LeftSoFar
  <2> DEFINE f == [l \in LinksTo(j) |-> WasRead(l)]
             g == [l \in LinksTo(j) |-> Gone(l)]
  <2>3. f \in [LinksTo(j) -> Int] /\ g \in [LinksTo(j) -> Int] /\ \A l \in LinksTo(j) : f[l] <= g[l]
    BY LinksTyped, LinksToFinite
  <2>4. [l \in LinksTo(j) |-> LeftSoFar(l)'] = g BY <2>2
  <2>5. Through(j) = SumFunction(f) BY DEF Through
  <2> HIDE DEF f, g
  <2>6. SumFunction(f) <= SumFunction(g) /\ SumFunction(f) \in Int /\ SumFunction(g) \in Int
    BY <2>3, LinksToFinite, SumFunctionMonotonic, SumFunctionInt
  <2>7. Known(j) + arrivals[j] <= Through(j) BY DEF CountedWereRead, Through
  <2>8. Known(j) \in Int /\ arrivals[j] \in Nat BY KnownTyped
  <2>9. Known(j)' <= SumFunction(g) BY <1>3, <2>5, <2>6, <2>7, <2>8
  <2> QED BY <2>4, <2>9
<1>7. CausalCounts' BY <1>1, RecordsSame
<1> QED BY <1>4, <1>5, <1>6, <1>7

\* A step of the round that concerns one worker keeps the invariant of the others.
LEMMA TimeoutCausal ==
  ASSUME RecordInv, RecordInv', CausalInv, NEW w \in Workers, Timeout(w)
  PROVE  CausalInv'
<1> USE DEF CausalInv
<1>1. /\ UNCHANGED <<queue, serving, route, wire, records, routed, arrivals>>
      /\ UNCHANGED <<round, stage, asked, report>> /\ outcome[w] = "pending"
  BY DEF Timeout, loops, window
<1>2. \A v \in Workers : (outcome'[v] = "reply" <=> outcome[v] = "reply")
                      /\ (outcome'[v] = "pending" => outcome[v] = "pending")
  <2>1. outcome \in [Workers -> {"pending", "reply", "failed"}]
    BY DEF RecordInv, TypeInv, RoundTyped
  <2> QED BY <1>1, <2>1 DEF Timeout
<1>3. ASSUME NEW j \in Brokers PROVE Known(j)' = Known(j)
  <2>1. Arrived(Len(records), j)' = Arrived(Len(records), j) BY <1>1, RecordsSame
  <2> QED BY <1>1, <1>2, <2>1 DEF Known, Workers
<1>4. CountedWereRead'
  <2>1. \A j \in Brokers : Known(j)' + arrivals'[j] <= Known(j) + arrivals[j]
    BY <1>1, <1>3, KnownTyped
  <2> QED BY <1>1, <2>1, CountedKept
<1>5. \A l \in Links : l[1] \in Workers BY LinksTyped DEF Workers
<1>6. \A l \in Links : /\ Routed(Len(records), l)' = Routed(Len(records), l)
                       /\ Count(l)' = Count(l) /\ Gone(l)' = Gone(l)
  BY <1>1, RecordsSame, RoundStill
<1>7. RoutedCounted'
  <2>1. NoneHeld' = NoneHeld BY <1>1, RecordsSame
  <2> QED BY <1>1, <1>2, <1>5, <1>6, <2>1 DEF RoutedCounted
<1>8. ReportsCausal'
  <2>1. NoneHeld' = NoneHeld BY <1>1, RecordsSame
  <2>2. \A l \in Links : LeftSoFar(l)' = LeftSoFar(l) BY <1>1, <1>2, <1>5, <1>6 DEF LeftSoFar
  <2>3. SUFFICES ASSUME NoneHeld, stage = "sources", NEW j \in Brokers
                 PROVE  Known(j)' <= SumFunction([l \in LinksTo(j) |-> LeftSoFar(l)'])
    BY <1>1, <2>1 DEF ReportsCausal
  <2>4. [l \in LinksTo(j) |-> LeftSoFar(l)'] = [l \in LinksTo(j) |-> LeftSoFar(l)]
    BY <2>2, LinksToFinite
  <2>5. Known(j) <= SumFunction([l \in LinksTo(j) |-> LeftSoFar(l)]) BY <2>3 DEF ReportsCausal
  <2> QED BY <1>3, <2>4, <2>5
<1>9. CausalCounts' BY <1>1, RecordsSame
<1> QED BY <1>4, <1>7, <1>8, <1>9

\* A broker's reply moves its arrivals from its window to the round, or loses them.
LEMMA BrokerRepliesCausal ==
  ASSUME RecordInv, RecordInv', CausalInv, NEW b \in Brokers, BrokerReplies(b)
  PROVE  CausalInv'
<1> USE DEF CausalInv
<1>1. /\ UNCHANGED <<queue, serving, route, wire, records, routed>> /\ UNCHANGED <<round, stage>>
      /\ arrivals' = [arrivals EXCEPT ![b] = 0] /\ b \notin Sources /\ b \in Workers
  BY ConstantsTyped DEF BrokerReplies, Replies, ResetArrivals, loops, Workers
<1>2. \A v \in Workers \ {b} : outcome'[v] = outcome[v] /\ report'[v] = report[v] /\ asked'[v] = asked[v]
  BY DEF BrokerReplies, Replies, RecordInv, TypeInv, RoundTyped, ReportsTyped
<1>3. ASSUME NEW j \in Brokers PROVE Known(j)' + arrivals'[j] <= Known(j) + arrivals[j]
  <2>1. Arrived(Len(records), j)' = Arrived(Len(records), j) BY <1>1, RecordsSame
  <2>2. Arrived(Len(records), j) \in Int /\ Known(j) \in Int /\ arrivals[j] \in Nat
    BY LastArrivedTyped, KnownTyped
  <2>3. arrivals \in [Brokers -> Nat] BY DEF RecordInv, TypeInv, WindowTyped
  <2>4. CASE j # b
    <3>1. arrivals'[j] = arrivals[j] BY <1>1, <2>3, <2>4
    <3>2. Known(j)' = Known(j) BY <1>1, <1>2, <2>1, <2>4 DEF Known, Workers
    <3> QED BY <2>2, <3>1, <3>2
  <2>5. CASE j = b
    <3>1. arrivals'[j] = 0 BY <1>1, <2>3, <2>5
    <3>2. Known(j)' <= Known(j) + arrivals[j]
      <4>1. CASE UNCHANGED <<outcome, report>>
        <5>1. Known(j)' = Known(j) BY <1>1, <2>1, <4>1 DEF Known
        <5> QED BY <2>2, <5>1
      <4>2. CASE /\ outcome[b] = "pending"
                 /\ \/ /\ outcome' = [outcome EXCEPT ![b] = "reply"]
                       /\ report' = [report EXCEPT ![b] = BrokerMetrics(b)]
                    \/ outcome' = [outcome EXCEPT ![b] = "failed"]
        <5>1. outcome \in [Workers -> {"pending", "reply", "failed"}]
          BY DEF RecordInv, TypeInv, RoundTyped
        <5>2. outcome'[b] \in {"reply", "failed"} BY <1>1, <4>2, <5>1
        <5>3. outcome'[b] = "reply" => report'[b].arrivals = arrivals[b]
          BY <1>1, <4>2, <5>1 DEF BrokerMetrics, RecordInv, TypeInv, ReportsTyped
        <5>4. Known(j) = Arrived(Len(records), j) BY <2>2, <2>5, <4>2 DEF Known
        <5>5. Known(j)' = Arrived(Len(records), j) \/ Known(j)' = Arrived(Len(records), j) + arrivals[j]
          BY <2>1, <2>2, <2>5, <5>2, <5>3 DEF Known
        <5> QED BY <2>2, <5>4, <5>5
      <4> QED BY <4>1, <4>2 DEF BrokerReplies, Replies
    <3>3. Known(j)' \in Int BY KnownTypedNext
    <3> QED BY <2>2, <3>1, <3>2, <3>3
  <2> QED BY <2>4, <2>5
<1>4. CountedWereRead' BY <1>1, <1>3, CountedKept
<1>5. \A l \in Links : l[1] \in Workers \ {b} BY <1>1, LinksTyped DEF Workers
<1>6. \A l \in Links : /\ Routed(Len(records), l)' = Routed(Len(records), l)
                       /\ Count(l)' = Count(l) /\ Gone(l)' = Gone(l)
  BY <1>1, RecordsSame, RoundStill
<1>7. NoneHeld' = NoneHeld BY <1>1, RecordsSame
<1>8. RoutedCounted' BY <1>1, <1>2, <1>5, <1>6, <1>7 DEF RoutedCounted
<1>9. ReportsCausal'
  <2>1. \A l \in Links : LeftSoFar(l)' = LeftSoFar(l) BY <1>2, <1>5, <1>6 DEF LeftSoFar
  <2>2. SUFFICES ASSUME NoneHeld, stage = "sources", NEW j \in Brokers
                 PROVE  Known(j)' <= SumFunction([l \in LinksTo(j) |-> LeftSoFar(l)'])
    BY <1>1, <1>7 DEF ReportsCausal
  <2>3. [l \in LinksTo(j) |-> LeftSoFar(l)'] = [l \in LinksTo(j) |-> LeftSoFar(l)]
    BY <2>1, LinksToFinite
  <2>4. Known(j) <= SumFunction([l \in LinksTo(j) |-> LeftSoFar(l)]) BY <2>2 DEF ReportsCausal
  <2>5. UNCHANGED <<outcome, report>>
    <3>1. outcome[b] = "reply" BY <2>2 DEF RecordInv, Replied
    <3> QED BY <3>1 DEF BrokerReplies, Replies
  <2>6. Known(j)' = Known(j)
    <3>1. Arrived(Len(records), j)' = Arrived(Len(records), j) BY <1>1, RecordsSame
    <3> QED BY <1>1, <2>5, <3>1 DEF Known
  <2> QED BY <2>3, <2>4, <2>6
<1>10. CausalCounts' BY <1>1, RecordsSame
<1> QED BY <1>4, <1>8, <1>9, <1>10

\* The reply of a source, while none was held, is the one it was asked for: its window
\* moves from the source to the round.
LEMMA SourceRepliesCausal ==
  ASSUME RecordInv, RecordInv', CausalInv, NEW i \in Sources, SourceReplies(i)
  PROVE  CausalInv'
<1> USE DEF CausalInv
<1>1. /\ UNCHANGED <<queue, serving, route, wire, records, arrivals>> /\ UNCHANGED <<round, stage>>
      /\ routed' = [l \in Links |-> IF l[1] = i THEN 0 ELSE routed[l]]
      /\ i \notin Brokers /\ i \in Workers /\ asked[i] # << >>
  BY ConstantsTyped DEF SourceReplies, Replies, loops, Workers
<1>2. \A v \in Workers \ {i} : outcome'[v] = outcome[v] /\ report'[v] = report[v] /\ asked'[v] = asked[v]
  BY DEF SourceReplies, Replies, RecordInv, TypeInv, RoundTyped, ReportsTyped
<1>3. ASSUME NEW j \in Brokers PROVE Known(j)' = Known(j)
  <2>1. Arrived(Len(records), j)' = Arrived(Len(records), j) BY <1>1, RecordsSame
  <2>2. j \in Workers \ {i} BY <1>1 DEF Workers
  <2> QED BY <1>1, <1>2, <2>1, <2>2 DEF Known
<1>4. CountedWereRead'
  <2>1. \A j \in Brokers : Known(j)' + arrivals'[j] <= Known(j) + arrivals[j]
    BY <1>1, <1>3, KnownTyped
  <2> QED BY <1>1, <2>1, CountedKept
<1>5. \A l \in Links : /\ Routed(Len(records), l)' = Routed(Len(records), l)
                       /\ Count(l)' = Count(l) /\ Gone(l)' = Gone(l) /\ InSystem(l)' = InSystem(l)
                       /\ l[1] \in Workers
  BY <1>1, RecordsSame, RoundStill, LinksTyped DEF Workers
<1>6. NoneHeld' = NoneHeld BY <1>1, RecordsSame
\* what becomes of a link of i
<1>7. ASSUME NoneHeld, NEW l \in Links, l[1] = i
      PROVE  /\ stage = "sources" /\ outcome'[i] \in {"reply", "failed"}
             /\ outcome'[i] = "reply" =>
                  /\ asked'[i] = << >>
                  /\ Routed(Len(records), l) + report'[i][l].routed + routed'[l] = Count(l)
                  /\ LeftSoFar(l)' = LeftSoFar(l)
  <2>1. /\ stage # "sources" => asked[i] = << >>
        /\ stage = "sources" /\ outcome[i] = "pending" =>
             asked[i] = <<round>> /\ Routed(Len(records), l) + routed[l] = Count(l)
        /\ stage = "sources" /\ outcome[i] = "reply" => asked[i] = << >>
    BY <1>7 DEF RoutedCounted
  <2>2. stage = "sources" /\ outcome[i] # "reply" BY <1>1, <2>1
  <2>3. outcome \in [Workers -> {"pending", "reply", "failed"}]
    BY DEF RecordInv, TypeInv, RoundTyped
  <2>4. CASE outcome[i] = "failed" BY <1>1, <2>2, <2>4 DEF SourceReplies, Replies
  <2>5. CASE outcome[i] = "pending"
    <3>1. asked[i] = <<round>> /\ Routed(Len(records), l) + routed[l] = Count(l) BY <2>1, <2>2, <2>5
    <3>2. Head(<<round>>) = round /\ Tail(<<round>>) = << >> OBVIOUS
    <3>3. asked \in [Workers -> Seq(1 .. round)] BY DEF RecordInv, TypeInv, RoundTyped
    <3>4. asked'[i] = << >> BY <1>1, <3>1, <3>2, <3>3 DEF SourceReplies, Replies
    <3>5. \/ /\ outcome' = [outcome EXCEPT ![i] = "reply"]
             /\ report' = [report EXCEPT ![i] = SourceMetrics(i)]
          \/ outcome' = [outcome EXCEPT ![i] = "failed"]
      BY <2>5, <3>1, <3>2 DEF SourceReplies, Replies
    <3>6. CASE outcome' = [outcome EXCEPT ![i] = "failed"]
      <4>1. outcome'[i] = "failed" BY <1>1, <2>3, <3>6
      <4> QED BY <2>2, <4>1
    <3>7. CASE /\ outcome' = [outcome EXCEPT ![i] = "reply"]
               /\ report' = [report EXCEPT ![i] = SourceMetrics(i)]
      <4>1. outcome'[i] = "reply" /\ report'[i] = SourceMetrics(i)
        BY <1>1, <2>3, <3>7 DEF RecordInv, TypeInv, ReportsTyped
      <4>2. report'[i][l].routed = routed[l] /\ report'[i][l].inSystem = InSystem(l)
        BY <1>7, <4>1 DEF SourceMetrics
      <4>3. routed'[l] = 0 BY <1>1, <1>7
      <4>4. /\ Routed(Len(records), l) \in Int /\ routed[l] \in Nat
            /\ Count(l) \in Nat /\ InSystem(l) \in Nat
        BY <1>7, LastRoutedTyped, CountTyped, FlowTypes DEF RecordInv, TypeInv, WindowTyped
      <4>5. LeftSoFar(l)' = Routed(Len(records), l) + (routed[l] - InSystem(l))
        BY <1>5, <1>7, <4>1, <4>2 DEF LeftSoFar
      <4>6. LeftSoFar(l) = Count(l) - InSystem(l) BY <1>7, <2>5 DEF LeftSoFar, Gone
      <4>7. Routed(Len(records), l) + report'[i][l].routed + routed'[l] = Count(l)
        BY <3>1, <4>2, <4>3, <4>4
      <4>8. LeftSoFar(l)' = LeftSoFar(l) BY <3>1, <4>4, <4>5, <4>6
      <4> QED BY <2>2, <3>4, <4>1, <4>7, <4>8
    <3> QED BY <3>5, <3>6, <3>7
  <2> QED BY <1>1, <2>2, <2>3, <2>4, <2>5
<1>8. RoutedCounted'
  <2>1. SUFFICES ASSUME NoneHeld, NEW l \in Links
                 PROVE  (LET h == l[1]
                             known == Routed(Len(records), l)
                         IN  /\ stage # "sources" => asked[h] = << >> /\ known + routed[l] = Count(l)
                             /\ stage = "sources" /\ outcome[h] = "pending" =>
                                  asked[h] = <<round>> /\ known + routed[l] = Count(l)
                             /\ stage = "sources" /\ outcome[h] = "reply" =>
                                  asked[h] = << >> /\ known + report[h][l].routed + routed[l] = Count(l))'
    BY <1>6 DEF RoutedCounted
  <2>2. CASE l[1] = i BY <1>1, <1>5, <1>7, <2>1, <2>2
  <2>3. CASE l[1] # i
    <3>1. routed'[l] = routed[l] BY <1>1, <2>3
    <3>2. l[1] \in Workers \ {i} BY <1>5, <2>3
    <3> QED BY <1>1, <1>2, <1>5, <2>1, <3>1, <3>2 DEF RoutedCounted
  <2> QED BY <2>2, <2>3
<1>9. ReportsCausal'
  <2>1. SUFFICES ASSUME NoneHeld, stage = "sources", NEW j \in Brokers
                 PROVE  Known(j)' <= SumFunction([l \in LinksTo(j) |-> LeftSoFar(l)'])
    BY <1>1, <1>6 DEF ReportsCausal
  <2>2. ASSUME NEW l \in Links PROVE LeftSoFar(l)' = LeftSoFar(l)
    <3>1. CASE l[1] # i
      <4>1. l[1] \in Workers \ {i} BY <1>5, <3>1
      <4> QED BY <1>2, <1>5, <4>1 DEF LeftSoFar
    <3>2. CASE l[1] = i /\ outcome'[i] = "reply" BY <1>7, <2>1, <3>2
    <3>3. CASE l[1] = i /\ outcome'[i] # "reply"
      <4>1. outcome[i] # "reply" BY <1>1, <1>7, <2>1, <3>3 DEF RoutedCounted
      <4> QED BY <1>5, <3>3, <4>1 DEF LeftSoFar
    <3> QED BY <3>1, <3>2, <3>3
  <2>3. [l \in LinksTo(j) |-> LeftSoFar(l)'] = [l \in LinksTo(j) |-> LeftSoFar(l)]
    BY <2>2, LinksToFinite
  <2>4. Known(j) <= SumFunction([l \in LinksTo(j) |-> LeftSoFar(l)]) BY <2>1 DEF ReportsCausal
  <2> QED BY <1>3, <2>3, <2>4
<1>10. CausalCounts' BY <1>1, RecordsSame
<1> QED BY <1>4, <1>8, <1>9, <1>10

\* The round is recorded: its record is the last, and the sums over the records grow
\* by what it says.
LEMMA RecordsGrow ==
  ASSUME RecordInv, RecordInv', RecordRound
  PROVE  \E n \in Nat :
           /\ n = Len(records) /\ Len(records') = n + 1
           /\ records'[n + 1] = [report |-> report, held |-> Failed(Sources), skipped |-> skipped,
                                 completedWindow |-> CompletedWindow]
           /\ \A k \in 1 .. n : records'[k] = records[k]
           /\ \A m \in 0 .. n : \A j : Arrived(m, j)' = Arrived(m, j)
           /\ \A m \in 0 .. n : \A l : Routed(m, l)' = Routed(m, l)
           /\ \A j \in Brokers : Arrived(n + 1, j)' = Arrived(n, j) + report[j].arrivals
           /\ NoneHeld' => /\ NoneHeld /\ Failed(Sources) = {}
                           /\ \A l \in Links :
                                Routed(n + 1, l)' = Routed(n, l) + report[l[1]][l].routed
<1>1. PICK n \in Nat : n = Len(records)
  <2>1. Len(records) \in Nat BY DEF RecordInv, RecordsTyped
  <2> QED BY <2>1
<1> DEFINE r == [report |-> report, held |-> Failed(Sources), skipped |-> skipped,
                 completedWindow |-> CompletedWindow]
<1>2. /\ r \in Record /\ records' = Append(records, r)
      /\ \A j \in Brokers : report[j] \in BrokerReport
      /\ \A i \in Sources \ Failed(Sources) : report[i] \in SourceReport(i)
  BY RecordTyped
<1>3. records \in Seq(Record) BY DEF RecordInv, RecordsTyped
<1>4. r.report = report /\ r.held = Failed(Sources) OBVIOUS
<1> HIDE DEF r
<1>5. Len(records') = n + 1 /\ records'[n + 1] = r /\ \A k \in 1 .. n : records'[k] = records[k]
  BY <1>1, <1>2, <1>3, AppendProperties
<1>6. \A m \in 0 .. n : \A k \in 1 .. m : k \in 1 .. n /\ records'[k] = records[k]
  <2>1. \A m \in 0 .. n : \A k \in 1 .. m : k \in 1 .. n OBVIOUS
  <2> QED BY <1>5, <2>1
<1>7. \A m \in 0 .. n : \A j : Arrived(m, j)' = Arrived(m, j) BY <1>6 DEF Arrived
<1>8. \A m \in 0 .. n : \A l : Routed(m, l)' = Routed(m, l) BY <1>6 DEF Routed
<1>9. n \in 0 .. Len(records) BY <1>1
<1>10. n + 1 \in Nat /\ n + 1 \in 1 .. n + 1 /\ \A k \in 1 .. n + 1 : k \in 1 .. n \/ k = n + 1
  OBVIOUS
<1>11. ASSUME NEW j \in Brokers PROVE Arrived(n + 1, j)' = Arrived(n, j) + report[j].arrivals
  <2> DEFINE f == [k \in 1 .. n |-> records[k].report[j].arrivals]
             g == [k \in 1 .. n + 1 |-> records'[k].report[j].arrivals]
  <2>1. f \in [1 .. n -> Int] BY <1>9, ArrivedTyped
  <2>2. \A k \in 1 .. n : g[k] = f[k] /\ f[k] \in Int BY <1>5, <1>10, <2>1
  <2>3. g[n + 1] = report[j].arrivals /\ report[j].arrivals \in Int
    BY <1>2, <1>4, <1>5, <1>10 DEF BrokerReport
  <2>4. g \in [1 .. n + 1 -> Int]
    <3>1. \A k \in 1 .. n + 1 : g[k] \in Int BY <1>10, <2>2, <2>3
    <3> QED BY <3>1
  <2>5. Arrived(n + 1, j)' = SumFunction(g) /\ Arrived(n, j) = SumFunction(f) BY DEF Arrived
  <2> HIDE DEF f, g
  <2>6. SumFunction(g) = SumFunction(f) + g[n + 1] BY <2>1, <2>2, <2>4, SumFunctionExtended
  <2> QED BY <2>3, <2>5, <2>6
<1>12. ASSUME NoneHeld'
       PROVE  /\ NoneHeld /\ Failed(Sources) = {}
              /\ \A l \in Links : Routed(n + 1, l)' = Routed(n, l) + report[l[1]][l].routed
  <2>1. \A k \in 1 .. n + 1 : records'[k].held = {} BY <1>5, <1>12 DEF NoneHeld
  <2>2. NoneHeld BY <1>1, <1>5, <1>10, <2>1 DEF NoneHeld
  <2>3. Failed(Sources) = {} BY <1>4, <1>5, <1>10, <2>1
  <2>4. ASSUME NEW l \in Links PROVE Routed(n + 1, l)' = Routed(n, l) + report[l[1]][l].routed
    <3> DEFINE f == [k \in 1 .. n |-> records[k].report[l[1]][l].routed]
               g == [k \in 1 .. n + 1 |-> records'[k].report[l[1]][l].routed]
    <3>1. f \in [1 .. n -> Int] BY <1>1, <1>9, <2>2, RoutedTyped DEF NoneHeld
    <3>2. \A k \in 1 .. n : g[k] = f[k] /\ f[k] \in Int BY <1>5, <1>10, <3>1
    <3>3. report[l[1]][l].routed \in Int
      <4>1. l[1] \in Sources \ Failed(Sources) BY <2>3, LinksTyped
      <4> QED BY <1>2, <4>1, SourceReportTyped
    <3>4. g[n + 1] = report[l[1]][l].routed BY <1>4, <1>5, <1>10
    <3>5. g \in [1 .. n + 1 -> Int]
      <4>1. \A k \in 1 .. n + 1 : g[k] \in Int BY <1>10, <3>2, <3>3, <3>4
      <4> QED BY <4>1
    <3>6. Routed(n + 1, l)' = SumFunction(g) /\ Routed(n, l) = SumFunction(f) BY DEF Routed
    <3> HIDE DEF f, g
    <3>7. SumFunction(g) = SumFunction(f) + g[n + 1] BY <3>1, <3>2, <3>5, SumFunctionExtended
    <3> QED BY <3>4, <3>6, <3>7
  <2> QED BY <2>2, <2>3, <2>4
<1> QED BY <1>1, <1>5, <1>7, <1>8, <1>11, <1>12 DEF r

\* What the round was told becomes its record.
LEMMA RecordRoundCausal ==
  ASSUME RecordInv, RecordInv', CausalInv, RecordRound
  PROVE  CausalInv'
<1> USE DEF CausalInv
<1>1. /\ UNCHANGED <<queue, serving, route, wire, routed, arrivals>> /\ UNCHANGED <<asked, outcome, report>>
      /\ stage = "sources" /\ stage' = "idle"
  BY DEF RecordRound, loops, window
<1>2. PICK n \in Nat :
           /\ n = Len(records) /\ Len(records') = n + 1
           /\ records'[n + 1] = [report |-> report, held |-> Failed(Sources), skipped |-> skipped,
                                 completedWindow |-> CompletedWindow]
           /\ \A k \in 1 .. n : records'[k] = records[k]
           /\ \A m \in 0 .. n : \A j : Arrived(m, j)' = Arrived(m, j)
           /\ \A m \in 0 .. n : \A l : Routed(m, l)' = Routed(m, l)
           /\ \A j \in Brokers : Arrived(n + 1, j)' = Arrived(n, j) + report[j].arrivals
           /\ NoneHeld' => /\ NoneHeld /\ Failed(Sources) = {}
                           /\ \A l \in Links :
                                Routed(n + 1, l)' = Routed(n, l) + report[l[1]][l].routed
  BY RecordsGrow
<1>3. \A j \in Brokers : Known(j) = Arrived(n, j) + report[j].arrivals
  BY <1>1, <1>2 DEF Known, RecordInv, Replied
<1>4. \A j \in Brokers : Known(j)' = Known(j)
  <2>1. TAKE j \in Brokers
  <2>2. Known(j)' = Arrived(n + 1, j)' + 0 BY <1>1, <1>2 DEF Known
  <2>3. Known(j) = Arrived(n + 1, j)' BY <1>2, <1>3
  <2> QED BY <2>2, <2>3, KnownTyped
<1>5. CountedWereRead'
  <2>1. \A j \in Brokers : Known(j)' + arrivals'[j] <= Known(j) + arrivals[j]
    BY <1>1, <1>4, KnownTyped
  <2> QED BY <1>1, <2>1, CountedKept
<1>6. ASSUME NoneHeld' PROVE \A l \in Links : outcome[l[1]] = "reply"
  <2>1. TAKE l \in Links
  <2>2. l[1] \in Sources /\ Failed(Sources) = {} BY <1>2, <1>6, LinksTyped
  <2>3. outcome[l[1]] \in {"pending", "reply", "failed"}
    BY <2>2 DEF RecordInv, TypeInv, RoundTyped, Workers
  <2> QED BY <2>2, <2>3 DEF RecordRound, Gathered, Failed
<1>7. RoutedCounted'
  <2>1. SUFFICES ASSUME NoneHeld', NEW l \in Links
                 PROVE  asked'[l[1]] = << >> /\ Routed(n + 1, l)' + routed'[l] = Count(l)'
    BY <1>1, <1>2 DEF RoutedCounted
  <2>2. NoneHeld /\ Routed(n + 1, l)' = Routed(n, l) + report[l[1]][l].routed BY <1>2, <2>1
  <2>3. asked[l[1]] = << >> /\ Routed(n, l) + report[l[1]][l].routed + routed[l] = Count(l)
    BY <1>1, <1>2, <1>6, <2>1, <2>2 DEF RoutedCounted
  <2>4. Count(l)' = Count(l) BY <1>1, RoundStill
  <2> QED BY <1>1, <2>2, <2>3, <2>4
<1>8. ReportsCausal' BY <1>1 DEF ReportsCausal
<1>9. CausalCounts'
  <2>1. SUFFICES ASSUME NEW m \in 1 .. n + 1, \A k \in 1 .. m : records'[k].held = {}, NEW j \in Brokers
                 PROVE  Arrived(m, j)' <= SumFunction([l \in LinksTo(j) |-> Left(m, l)'])
    BY <1>2 DEF CausalCounts
  <2>2. CASE m \in 1 .. n
    <3>1. m \in 0 .. n /\ \A k \in 1 .. m : k \in 1 .. n BY <2>2
    <3>2. \A k \in 1 .. m : records[k].held = {} BY <1>2, <2>1, <3>1
    <3>3. Arrived(m, j) <= SumFunction([l \in LinksTo(j) |-> Left(m, l)])
      BY <1>2, <2>2, <3>2 DEF CausalCounts
    <3>4. \A l : Left(m, l)' = Left(m, l) BY <1>2, <2>2, <3>1 DEF Left
    <3>5. Arrived(m, j)' = Arrived(m, j) BY <1>2, <3>1
    <3> QED BY <3>3, <3>4, <3>5
  <2>3. CASE m = n + 1
    <3>1. NoneHeld' BY <1>2, <2>1, <2>3 DEF NoneHeld
    <3>2. NoneHeld BY <1>2, <3>1
    <3>3. Arrived(m, j)' = Known(j) BY <1>2, <1>3, <2>3
    <3>4. \A l \in Links : Left(m, l)' = LeftSoFar(l)
      <4>1. TAKE l \in Links
      <4>2. Routed(n + 1, l)' = Routed(n, l) + report[l[1]][l].routed BY <1>2, <3>1
      <4>3. records'[n + 1].report = report BY <1>2
      <4>4. Left(m, l)' = (Routed(n, l) + report[l[1]][l].routed) - report[l[1]][l].inSystem
        BY <2>3, <4>2, <4>3 DEF Left
      <4>5. LeftSoFar(l) = Routed(n, l) + (report[l[1]][l].routed - report[l[1]][l].inSystem)
        BY <1>2, <1>6, <3>1 DEF LeftSoFar
      <4>6. Routed(n, l) \in Int BY <1>2, <3>2, LastRoutedTyped
      <4>7. report[l[1]][l].routed \in Nat /\ report[l[1]][l].inSystem \in Nat
        <5>1. report[l[1]] \in SourceReport(l[1])
          BY <1>6, <3>1, LinksTyped DEF RecordInv, Replied
        <5> QED BY <5>1, SourceReportTyped
      <4> QED BY <4>4, <4>5, <4>6, <4>7
    <3>5. Known(j) <= SumFunction([l \in LinksTo(j) |-> LeftSoFar(l)])
      BY <1>1, <3>2 DEF ReportsCausal
    <3>6. [l \in LinksTo(j) |-> Left(m, l)'] = [l \in LinksTo(j) |-> LeftSoFar(l)]
      BY <3>4, LinksToFinite
    <3> QED BY <3>3, <3>5, <3>6
  <2> QED BY <2>1, <2>2, <2>3
<1> QED BY <1>5, <1>7, <1>8, <1>9

-----------------------------------------------------------------------------
\* Before anything was generated every count is zero.
LEMMA CausalInit == Init => CausalInv
<1> SUFFICES ASSUME Init PROVE CausalInv OBVIOUS
<1>1. /\ records = << >> /\ route = << >> /\ stage = "idle"
      /\ \A l \in Links : routed[l] = 0 /\ queue[l] = << >> /\ serving[l] = << >> /\ wire[l] = << >>
      /\ \A j \in Brokers : arrivals[j] = 0
      /\ \A i \in Sources : asked[i] = << >>
  BY DEF Init, Places, Workers
<1>2. Len(<< >>) = 0 /\ 1 .. 0 = {} OBVIOUS
<1>3. \A j : Arrived(0, j) = 0
  <2>1. \A j : DOMAIN [k \in 1 .. 0 |-> records[k].report[j].arrivals] = {} BY <1>2
  <2> QED BY <2>1, SumEmpty DEF Arrived, SumFunction
<1>4. \A l : Routed(0, l) = 0
  <2>1. \A l : DOMAIN [k \in 1 .. 0 |-> records[k].report[l[1]][l].routed] = {} BY <1>2
  <2> QED BY <2>1, SumEmpty DEF Routed, SumFunction
<1>5. \A l \in Links : Count(l) = 0
  <2>1. TAKE l \in Links
  <2>2. DOMAIN route = {} BY <1>1
  <2>3. {u \in DOMAIN route : route[u] = l} = {} BY <2>2
  <2> QED BY <2>3, FS_EmptySet DEF Count
<1>6. \A l \in Links : WasRead(l) = 0
  <2>1. TAKE l \in Links
  <2>2. Len(queue[l]) = 0 /\ Len(serving[l]) = 0 /\ Len(wire[l]) = 0 BY <1>1, <1>2
  <2>3. InSystem(l) = 0 BY <2>2 DEF InSystem
  <2> QED BY <1>5, <2>2, <2>3 DEF WasRead, Gone
<1>7. \A j \in Brokers : Known(j) = 0 BY <1>1, <1>2, <1>3 DEF Known
<1>8. CountedWereRead
  <2>1. SUFFICES ASSUME NEW j \in Brokers
                 PROVE  Known(j) + arrivals[j] <= SumFunction([l \in LinksTo(j) |-> WasRead(l)])
    BY DEF CountedWereRead
  <2>2. SumFunction([l \in LinksTo(j) |-> WasRead(l)]) = 0 BY <1>6, LinksToFinite, SumFunctionZero
  <2> QED BY <1>1, <1>7, <2>2
<1>9. RoutedCounted BY <1>1, <1>2, <1>4, <1>5, LinksApart DEF RoutedCounted
<1>10. ReportsCausal BY <1>1 DEF ReportsCausal
<1>11. CausalCounts BY <1>1, <1>2 DEF CausalCounts
<1> QED BY <1>8, <1>9, <1>10, <1>11 DEF CausalInv

\* Every step keeps the causal invariant.
LEMMA CausalStep == RecordInv /\ RecordInv' /\ CausalInv /\ [Next]_vars => CausalInv'
<1> SUFFICES ASSUME RecordInv, RecordInv', CausalInv, [Next]_vars PROVE CausalInv' OBVIOUS
<1>1. ASSUME NEW l \in Links, Generate(l) PROVE CausalInv' BY <1>1, GenerateCausal
<1>2. ASSUME NEW l \in Links, Deliver(l) PROVE CausalInv' BY <1>2, DeliverCausal
<1>3. ASSUME NEW p \in Places, Serve(p) PROVE CausalInv' BY <1>3, ServeCausal
<1>4. ASSUME NEW j \in Brokers, BrokerDies(j) PROVE CausalInv' BY <1>4, DieCausal
<1>5. CASE AskBrokers \/ SkipRound BY <1>5, BrokersCausal
<1>6. CASE AskSources BY <1>6, AskSourcesCausal
<1>7. CASE RecordRound BY <1>7, RecordRoundCausal
<1>8. ASSUME NEW w \in Workers, Timeout(w) PROVE CausalInv' BY <1>8, TimeoutCausal
<1>9. ASSUME NEW j \in Brokers, BrokerReplies(j) PROVE CausalInv' BY <1>9, BrokerRepliesCausal
<1>10. ASSUME NEW i \in Sources, SourceReplies(i) PROVE CausalInv' BY <1>10, SourceRepliesCausal
<1>11. CASE UNCHANGED vars
  <2>1. UNCHANGED control /\ UNCHANGED <<route, routed, arrivals, queue, serving, wire>>
    BY <1>11 DEF vars, loops, window
  <2>2. \A l \in Links : InSystem(l) \in Nat /\ Len(wire[l]) \in Nat /\ InSystem(l)' = InSystem(l)
    BY <2>1, FlowTypes, RoundStill
  <2>3. \A a, b \in Nat : a <= a /\ a + b <= a + b OBVIOUS
  <2> QED BY <2>1, <2>2, <2>3, QuietCausal
<1> QED BY <1>1, <1>2, <1>3, <1>4, <1>5, <1>6, <1>7, <1>8, <1>9, <1>10, <1>11 DEF Next, Round

\* No record shows an effect without its cause: as long as no source was held, no more
\* units have arrived at a broker than had left the links to it, although the reports
\* of the two sides are taken at different times while the traffic goes on.
THEOREM Causality == Spec => []CausalCounts
<1>1. Init => RecordInv
  BY TypeInit, RecordInit
<1>2. RecordInv /\ CausalInv /\ [Next]_vars => RecordInv' /\ CausalInv'
  BY RecordStep, CausalStep
<1>3. CausalInv => CausalCounts BY DEF CausalInv
<1> QED BY <1>1, <1>2, <1>3, CausalInit, PTL DEF Spec

-----------------------------------------------------------------------------
\* A sequence of elements of a set is one of elements of a larger set.
LEMMA SeqWider ==
  ASSUME NEW A, NEW B, A \subseteq B, NEW s \in Seq(A)
  PROVE  s \in Seq(B)
  OBVIOUS

\* Two sequences put together.
LEMMA ConcatTyped ==
  ASSUME NEW A, NEW s \in Seq(A), NEW t \in Seq(A)
  PROVE  s \o t \in Seq(A)
  BY ConcatProperties

\* The loop over a queue moves units within their place.
LEMMA ContinueRouted ==
  ASSUME LoopsTyped, UnitsRouted, NEW p \in Places, Continue(p)
  PROVE  \A q \in Places : queue'[q] \in Seq(UnitsOf(q)) /\ serving'[q] \in Seq(UnitsOf(q))
<1>1. TAKE q \in Places
<1>2. queue[q] \in Seq(UnitsOf(q)) /\ serving[q] \in Seq(UnitsOf(q)) BY DEF UnitsRouted
<1>3. CASE q # p
  <2>1. queue'[q] = queue[q] /\ serving'[q] = serving[q] BY <1>3 DEF Continue, LoopsTyped
  <2> QED BY <1>2, <2>1
<1>4. CASE q = p /\ queue[p] = << >>
  <2>1. queue'[q] = << >> /\ serving'[q] = << >> BY <1>4 DEF Continue, LoopsTyped
  <2>2. << >> \in Seq(UnitsOf(q)) OBVIOUS
  <2> QED BY <2>1, <2>2
<1>5. CASE q = p /\ queue[p] # << >>
  <2>1. queue'[q] = Tail(queue[q]) /\ serving'[q] = <<Head(queue[q])>>
    BY <1>5 DEF Continue, LoopsTyped
  <2> DEFINE s == queue[q] A == UnitsOf(q)
  <2> HIDE DEF s, A
  <2>2. s \in Seq(A) /\ s # << >> BY <1>2, <1>5 DEF s, A
  <2>3. Tail(s) \in Seq(A) /\ <<Head(s)>> \in Seq(A) BY <2>2, TakeTyped
  <2> QED BY <2>1, <2>3 DEF s, A
<1> QED BY <1>3, <1>4, <1>5

\* A put of a unit that belongs to the place.
LEMMA PutRouted ==
  ASSUME LoopsTyped, UnitsRouted, NEW p \in Places, NEW u, Put(p, u), UNCHANGED serving,
         \A q \in Places : UnitsOf(q) \subseteq UnitsOf(q)', u \in UnitsOf(p)'
  PROVE  \A q \in Places : queue'[q] \in Seq(UnitsOf(q)') /\ serving'[q] \in Seq(UnitsOf(q)')
<1>1. TAKE q \in Places
<1> DEFINE A == UnitsOf(q) B == UnitsOf(q)' s == queue[q] t == serving[q]
<1>2. s \in Seq(A) /\ t \in Seq(A) /\ A \subseteq B /\ serving'[q] = t BY DEF UnitsRouted
<1>3. queue'[q] = IF q = p THEN Append(s, u) ELSE s BY DEF Put, LoopsTyped
<1>4. q = p => u \in B OBVIOUS
<1> HIDE DEF A, B, s, t
<1>5. s \in Seq(B) /\ t \in Seq(B) BY <1>2, SeqWider
<1>6. q = p => Append(s, u) \in Seq(B) BY <1>4, <1>5, AppendTyped
<1>7. queue'[q] \in Seq(B) /\ serving'[q] \in Seq(B) BY <1>2, <1>3, <1>5, <1>6
<1> QED BY <1>7 DEF B

\* Units are where they were routed to, and were generated.
LEMMA RoutedInit == Init => UnitsRouted
<1> SUFFICES ASSUME Init PROVE UnitsRouted OBVIOUS
<1>1. \A A : << >> \in Seq(A) OBVIOUS
<1> QED BY <1>1 DEF Init, UnitsRouted

\* A step that generates nothing keeps to whom the units belong.
LEMMA UnitsStay ==
  ASSUME route' = route
  PROVE  \A p : UnitsOf(p)' = UnitsOf(p)
  BY DEF UnitsOf

\* The units that have been generated stay where they were routed.
LEMMA UnitsGrow ==
  ASSUME TrafficTyped, NEW here \in Links, route' = Append(route, here)
  PROVE  /\ \A p : UnitsOf(p) \subseteq UnitsOf(p)'
         /\ Len(route') \in UnitsOf(here)'
         /\ DOMAIN route \subseteq DOMAIN route' /\ \A u \in DOMAIN route : route'[u] = route[u]
<1>1. route \in Seq(Links) /\ Len(route) \in Nat BY LenProperties DEF TrafficTyped
<1>2. /\ DOMAIN route = 1 .. Len(route) /\ DOMAIN route' = 1 .. Len(route')
      /\ Len(route') = Len(route) + 1 /\ route'[Len(route) + 1] = here
      /\ \A u \in 1 .. Len(route) : route'[u] = route[u]
  BY <1>1, AppendProperties, LenProperties
<1>3. DOMAIN route \subseteq DOMAIN route' /\ Len(route') \in DOMAIN route' BY <1>1, <1>2
<1>4. \A p : UnitsOf(p) \subseteq UnitsOf(p)' BY <1>2, <1>3 DEF UnitsOf
<1>5. Len(route') \in UnitsOf(here)' BY <1>2, <1>3 DEF UnitsOf
<1> QED BY <1>2, <1>3, <1>4, <1>5

\* Every step keeps the units where they were routed.
LEMMA RoutedStep == TypeInv /\ UnitsRouted /\ [Next]_vars => UnitsRouted'
<1> SUFFICES ASSUME TypeInv, UnitsRouted, [Next]_vars PROVE UnitsRouted' OBVIOUS
<1> USE DEF TypeInv
\* what a step that generates nothing has to show
<1>1. ASSUME route' = route,
             \A q \in Places : queue'[q] \in Seq(UnitsOf(q)) /\ serving'[q] \in Seq(UnitsOf(q)),
             \A l \in Links : wire'[l] \in Seq(UnitsOf(l)),
             completed' \in Seq(DOMAIN route)
      PROVE  UnitsRouted'
  BY <1>1, UnitsStay DEF UnitsRouted
<1>2. /\ \A q \in Places : queue[q] \in Seq(UnitsOf(q)) /\ serving[q] \in Seq(UnitsOf(q))
      /\ \A l \in Links : wire[l] \in Seq(UnitsOf(l))
      /\ completed \in Seq(DOMAIN route)
  BY DEF UnitsRouted
<1>3. ASSUME UNCHANGED <<queue, serving, route, wire, completed>> PROVE UnitsRouted'
  BY <1>1, <1>2, <1>3
<1>4. ASSUME NEW l \in Links, Generate(l) PROVE UnitsRouted'
  <2>1. /\ route' = Append(route, l) /\ Put(l, Len(route')) /\ UNCHANGED <<serving, wire, completed>>
    BY <1>4 DEF Generate
  <2>2. /\ \A p : UnitsOf(p) \subseteq UnitsOf(p)' /\ Len(route') \in UnitsOf(l)'
        /\ DOMAIN route \subseteq DOMAIN route'
    BY <2>1, UnitsGrow
  <2>3. \A q \in Places : queue'[q] \in Seq(UnitsOf(q)') /\ serving'[q] \in Seq(UnitsOf(q)')
    <3>1. l \in Places BY PlacesApart
    <3> DEFINE u == Len(route')
    <3>2. Put(l, u) /\ u \in UnitsOf(l)' BY <2>1, <2>2
    <3> HIDE DEF u
    <3> QED BY <2>1, <2>2, <3>1, <3>2, PutRouted
  <2>4. \A k \in Links : wire'[k] \in Seq(UnitsOf(k)')
    <3>1. TAKE k \in Links
    <3> DEFINE A == UnitsOf(k) B == UnitsOf(k)' s == wire[k]
    <3>2. s \in Seq(A) /\ A \subseteq B /\ wire'[k] = s BY <1>2, <2>1, <2>2
    <3> HIDE DEF A, B, s
    <3>3. wire'[k] \in Seq(B) BY <3>2, SeqWider
    <3> QED BY <3>3 DEF B
  <2>5. completed' \in Seq(DOMAIN route') BY <1>2, <2>1, <2>2, SeqWider
  <2> QED BY <2>3, <2>4, <2>5 DEF UnitsRouted
<1>5. ASSUME NEW l \in Links, Deliver(l) PROVE UnitsRouted'
  <2>1. /\ wire[l] # << >> /\ wire' = [wire EXCEPT ![l] = Tail(wire[l])] /\ Put(l[2], Head(wire[l]))
        /\ UNCHANGED <<route, serving, completed>> /\ l[2] \in Places
    BY <1>5, LinksApart, PlacesApart DEF Deliver
  <2> DEFINE s == wire[l] A == UnitsOf(l)
  <2>2. s \in Seq(A) /\ s # << >> BY <1>2, <2>1
  <2> HIDE DEF s, A
  <2>3. Head(s) \in A /\ Tail(s) \in Seq(A) BY <2>2, TakeTyped
  <2>4. Head(wire[l]) \in UnitsOf(l) /\ Tail(wire[l]) \in Seq(UnitsOf(l)) BY <2>3 DEF s, A
  <2>5. Head(wire[l]) \in UnitsOf(l[2])
    <3>1. l[2] \notin Links BY LinksApart, PlacesApart
    <3> QED BY <2>4, <3>1 DEF UnitsOf
  <2>6. \A q : UnitsOf(q)' = UnitsOf(q) BY <2>1, UnitsStay
  <2>7. \A q \in Places : queue'[q] \in Seq(UnitsOf(q)') /\ serving'[q] \in Seq(UnitsOf(q)')
    <3> DEFINE u == Head(wire[l])
    <3>1. Put(l[2], u) /\ u \in UnitsOf(l[2])' BY <2>1, <2>5, <2>6
    <3> HIDE DEF u
    <3> QED BY <2>1, <2>6, <3>1, PutRouted
  <2>8. \A k \in Links : wire'[k] \in Seq(UnitsOf(k))
    BY <1>2, <2>1, <2>4 DEF TrafficTyped
  <2> QED BY <1>1, <1>2, <2>1, <2>6, <2>7, <2>8
<1>6. ASSUME NEW p \in Places, Resume(p) PROVE UnitsRouted'
  <2>1. UNCHANGED <<route, wire, completed>> /\ Continue(p) BY <1>6 DEF Resume
  <2> QED BY <1>1, <1>2, <2>1, ContinueRouted
<1>7. ASSUME NEW p \in Links, LeaveLink(p) PROVE UnitsRouted'
  <2>1. /\ wire' = [wire EXCEPT ![p] = wire[p] \o serving[p]] /\ UNCHANGED <<queue, route, completed>>
        /\ serving' = [serving EXCEPT ![p] = << >>] /\ p \in Places
    BY <1>7, PlacesApart DEF LeaveLink
  <2>2. wire[p] \o serving[p] \in Seq(UnitsOf(p)) BY <1>2, <2>1, ConcatTyped
  <2>3. \A k \in Links : wire'[k] \in Seq(UnitsOf(k)) BY <1>2, <2>1, <2>2 DEF TrafficTyped
  <2>4. \A q \in Places : serving'[q] \in Seq(UnitsOf(q))
    <3>1. \A A : << >> \in Seq(A) OBVIOUS
    <3> QED BY <1>2, <2>1, <3>1 DEF LoopsTyped
  <2> QED BY <1>1, <1>2, <2>1, <2>3, <2>4
<1>8. ASSUME NEW p \in Links, Drained(p) PROVE UnitsRouted'
  <2>1. UNCHANGED <<route, wire, completed>> /\ p \in Places BY <1>8, PlacesApart DEF Drained
  <2>2. CASE Continue(p) BY <1>1, <1>2, <2>1, <2>2, ContinueRouted
  <2>3. CASE UNCHANGED <<queue, serving>> BY <1>3, <2>1, <2>3
  <2> QED BY <1>8, <2>2, <2>3 DEF Drained
<1>9. ASSUME NEW j \in Brokers, Complete(j) PROVE UnitsRouted'
  <2>1. UNCHANGED <<route, wire>> /\ Continue(j) /\ completed' = completed \o serving[j] /\ j \in Places
    BY <1>9, PlacesApart DEF Complete
  <2>2. UnitsOf(j) \subseteq DOMAIN route BY DEF UnitsOf
  <2>3. serving[j] \in Seq(DOMAIN route) BY <1>2, <2>1, <2>2, SeqWider
  <2>4. completed' \in Seq(DOMAIN route) BY <1>2, <2>1, <2>3, ConcatTyped
  <2> QED BY <1>1, <1>2, <2>1, <2>4, ContinueRouted
<1>10. ASSUME NEW j \in Brokers, BrokerDies(j) PROVE UnitsRouted'
  <2>1. \A A : << >> \in Seq(A) OBVIOUS
  <2>2. \A q \in Places : queue'[q] \in Seq(UnitsOf(q)) /\ serving'[q] \in Seq(UnitsOf(q))
    BY <1>2, <1>10, <2>1 DEF BrokerDies, LoopsTyped
  <2>3. \A l \in Links : wire'[l] \in Seq(UnitsOf(l)) BY <1>2, <1>10, <2>1 DEF BrokerDies
  <2> QED BY <1>1, <1>2, <1>10, <2>2, <2>3 DEF BrokerDies
<1>11. CASE Round
  BY <1>3, <1>11 DEF Round, AskBrokers, SkipRound, AskSources, RecordRound, Timeout, BrokerReplies,
                     SourceReplies, Replies, loops
<1>12. CASE UNCHANGED vars BY <1>3, <1>12 DEF vars, loops
<1> QED BY <1>4, <1>5, <1>6, <1>7, <1>8, <1>9, <1>10, <1>11, <1>12 DEF Next, Serve

-----------------------------------------------------------------------------
\* What a broker has, in its queue or completed, is a number.
LEMMA AtBrokerTyped ==
  TypeInv => \A k \in Brokers : AtBroker(k) \in Nat /\ InSystem(k) \in Nat /\ CompletedAt(k) \in Nat
<1> HAVE TypeInv
<1>1. TAKE k \in Brokers
<1>2. InSystem(k) \in Nat BY InSystemTyped, PlacesApart DEF TypeInv
<1>3. CompletedAt(k) \in Nat BY CompletedAtTyped DEF TypeInv
<1> QED BY <1>2, <1>3 DEF AtBroker

\* ... and in the next state.
LEMMA AtBrokerTypedNext ==
  TypeInv' => \A k \in Brokers : AtBroker(k)' \in Nat /\ InSystem(k)' \in Nat /\ CompletedAt(k)' \in Nat
<1>1. (TypeInv => \A k \in Brokers : AtBroker(k) \in Nat /\ InSystem(k) \in Nat /\ CompletedAt(k) \in Nat)'
  BY AtBrokerTyped, PTL
<1> QED BY <1>1

\* As long as the round stands still, a broker that lives counts as arrival what is
\* more at it.
LEMMA FlowAccount ==
  ASSUME RecordInv, RecordInv', AccountInv, UnitsRouted', UNCHANGED control, alive' \subseteq alive,
         \A j \in Brokers : j \in alive' => AtBroker(j)' + arrivals[j] = AtBroker(j) + arrivals'[j]
  PROVE  AccountInv'
<1> USE DEF AccountInv
<1>1. UNCHANGED <<round, stage, skipped, asked, outcome, report, records>> BY DEF control
<1>2. BrokersAccount' BY <1>1, RecordsSame
<1>3. ArrivalsCounted'
  <2>1. SUFFICES ASSUME skipped = 0, NEW j \in Brokers
        PROVE  /\ stage = "idle" \/ (stage = "brokers" /\ outcome[j] = "pending") =>
                    /\ asked[j] = IF stage = "idle" THEN << >> ELSE <<round>>
                    /\ j \in alive' => Arrived(Len(records), j) + arrivals'[j] = AtBroker(j)'
               /\ stage # "idle" /\ outcome[j] = "reply" =>
                    /\ asked[j] = << >>
                    /\ j \in alive' => Known(j) + arrivals'[j] = AtBroker(j)'
                    /\ Known(j) = report[j].inSystem + report[j].completedTotal
    <3>1. \A j : Arrived(Len(records), j)' = Arrived(Len(records), j) BY <1>1, RecordsSame
    <3>2. \A j : Known(j)' = Known(j) BY <1>1, <3>1 DEF Known
    <3> QED BY <1>1, <3>1, <3>2 DEF ArrivalsCounted
  <2>2. /\ stage = "idle" \/ (stage = "brokers" /\ outcome[j] = "pending") =>
                    /\ asked[j] = IF stage = "idle" THEN << >> ELSE <<round>>
                    /\ j \in alive => Arrived(Len(records), j) + arrivals[j] = AtBroker(j)
        /\ stage # "idle" /\ outcome[j] = "reply" =>
                    /\ asked[j] = << >>
                    /\ j \in alive => Known(j) + arrivals[j] = AtBroker(j)
                    /\ Known(j) = report[j].inSystem + report[j].completedTotal
    BY <2>1 DEF ArrivalsCounted
  <2>3. /\ arrivals[j] \in Nat /\ arrivals'[j] \in Nat /\ AtBroker(j) \in Nat /\ AtBroker(j)' \in Nat
        /\ Arrived(Len(records), j) \in Int /\ Known(j) \in Int
    BY KnownTyped, KnownTypedNext, AtBrokerTyped, AtBrokerTypedNext, LastArrivedTyped DEF RecordInv
  <2>4. \A n \in Int : j \in alive' /\ n + arrivals[j] = AtBroker(j) => n + arrivals'[j] = AtBroker(j)'
    <3>1. SUFFICES ASSUME NEW n \in Int, j \in alive', n + arrivals[j] = AtBroker(j)
                   PROVE  n + arrivals'[j] = AtBroker(j)'
      OBVIOUS
    <3>2. AtBroker(j)' + arrivals[j] = AtBroker(j) + arrivals'[j] BY <3>1
    <3> QED BY SMTT(20), <2>3, <3>1, <3>2
  <2>5. j \in alive' => j \in alive OBVIOUS
  <2> QED BY <2>2, <2>3, <2>4, <2>5
<1> QED BY <1>2, <1>3

\* The servers of the links do not touch the brokers' queues, and a broker that
\* completes a unit still counts it.
LEMMA ServeAccount ==
  ASSUME RecordInv, RecordInv', AccountInv, UnitsRouted', NEW p \in Places, Serve(p)
  PROVE  AccountInv'
<1> USE DEF RecordInv, TypeInv
<1>1. UNCHANGED control /\ UNCHANGED <<route, alive, arrivals>>
  BY DEF Serve, Resume, LeaveLink, Drained, Complete, window
<1>2. SUFFICES \A j \in Brokers : AtBroker(j)' = AtBroker(j) BY <1>1, FlowAccount
<1>3. \A j \in Brokers : InSystem(j) \in Nat /\ CompletedAt(j) \in Nat BY AtBrokerTyped
<1>4. ASSUME completed' = completed, \A j \in Brokers : InSystem(j)' = InSystem(j)
      PROVE  \A j \in Brokers : AtBroker(j)' = AtBroker(j)
  BY <1>1, <1>4 DEF AtBroker, CompletedAt
<1>5. ASSUME Continue(p), completed' = completed, p \in Brokers => loop[p] # "serving"
      PROVE  \A j \in Brokers : AtBroker(j)' = AtBroker(j)
  <2>1. \A q \in Places : InSystem(q)' = InSystem(q) - (IF q = p THEN Len(serving[p]) ELSE 0)
    BY <1>5, ContinueCounts
  <2>2. p \in Brokers => Len(serving[p]) = 0 BY <1>5 DEF LoopsTyped
  <2>3. \A n \in Nat : n - 0 = n OBVIOUS
  <2>4. \A j \in Brokers : InSystem(j)' = InSystem(j) BY <1>3, <2>1, <2>2, <2>3, PlacesApart
  <2> QED BY <1>4, <1>5, <2>4
<1>6. CASE Resume(p) BY <1>5, <1>6 DEF Resume
<1>7. CASE p \in Links /\ LeaveLink(p)
  <2>1. \A q \in Places : InSystem(q)' = InSystem(q) - (IF q = p THEN 1 ELSE 0)
    BY <1>7, LeaveCounts
  <2>2. \A j \in Brokers : j \in Places /\ j # p BY <1>7, PlacesApart
  <2>3. \A n \in Nat : n - 0 = n OBVIOUS
  <2>4. \A j \in Brokers : InSystem(j)' = InSystem(j) BY <1>3, <2>1, <2>2, <2>3
  <2> QED BY <1>4, <1>7, <2>4 DEF LeaveLink
<1>8. CASE p \in Links /\ Drained(p)
  <2>1. completed' = completed /\ p \notin Brokers BY <1>8, PlacesApart DEF Drained
  <2>2. CASE Continue(p) BY <1>5, <2>1, <2>2
  <2>3. CASE UNCHANGED <<queue, serving>> BY <1>4, <2>1, <2>3 DEF InSystem
  <2> QED BY <1>8, <2>2, <2>3 DEF Drained
<1>9. CASE p \in Brokers /\ Complete(p)
  <2>1. Continue(p) /\ completed' = completed \o serving[p] /\ Len(serving[p]) = 1
    BY <1>9 DEF Complete, LoopsTyped
  <2>2. PICK u \in UnitsOf(p) : serving[p] = <<u>>
    <3> DEFINE s == serving[p] A == UnitsOf(p)
    <3>1. s \in Seq(A) BY DEF AccountInv, UnitsRouted
    <3>2. Len(s) = 1 BY <2>1
    <3> HIDE DEF s, A
    <3>3. s = <<s[1]>> /\ s[1] \in A BY <3>1, <3>2
    <3> QED BY <3>3 DEF s, A
  <2>3. u \in Units /\ route[u][2] = p
    <3>1. route[u][2] = p BY <1>9, PlacesApart DEF UnitsOf
    <3> DEFINE s == serving[p]
    <3>2. s \in Seq(Units) /\ s = <<u>> BY <2>2 DEF LoopsTyped
    <3> HIDE DEF s
    <3>3. u \in Units BY <3>2
    <3> QED BY <3>1, <3>3
  <2>4. completed' = Append(completed, u)
    <3>1. completed \in Seq(Units) BY DEF TrafficTyped
    <3>2. completed \o <<u>> = Append(completed, u) BY <2>3, <3>1, AppendIsConcat
    <3> QED BY <2>1, <2>2, <3>2
  <2>5. \A j \in Brokers : CompletedAt(j)' = CompletedAt(j) + (IF p = j THEN 1 ELSE 0)
    BY <1>1, <2>3, <2>4, CompletedStep
  <2>6. \A q \in Places : InSystem(q)' = InSystem(q) - (IF q = p THEN 1 ELSE 0)
    BY <2>1, ContinueCounts
  <2>7. TAKE j \in Brokers
  <2>8. j \in Places BY PlacesApart
  <2>9. \A a, b \in Nat : (a - 1) + (b + 1) = a + b /\ (a - 0) + (b + 0) = a + b OBVIOUS
  <2>10. AtBroker(j) = InSystem(j) + CompletedAt(j) /\ AtBroker(j)' = InSystem(j)' + CompletedAt(j)'
    BY DEF AtBroker
  <2>11. CASE j = p BY <1>3, <2>5, <2>6, <2>8, <2>9, <2>10, <2>11
  <2>12. CASE j # p BY <1>3, <2>5, <2>6, <2>8, <2>9, <2>10, <2>12
  <2> QED BY <2>11, <2>12
<1> QED BY <1>6, <1>7, <1>8, <1>9 DEF Serve

\* A unit that is generated is at no broker yet.
LEMMA GenerateAccount ==
  ASSUME RecordInv, RecordInv', AccountInv, UnitsRouted', NEW here \in Links, Generate(here)
  PROVE  AccountInv'
<1> USE DEF RecordInv, TypeInv
<1>1. UNCHANGED control /\ UNCHANGED <<alive, arrivals, serving, completed>> /\ route' = Append(route, here)
  BY DEF Generate
<1>2. SUFFICES \A j \in Brokers : AtBroker(j)' = AtBroker(j) BY <1>1, FlowAccount
<1>3. \A j \in Brokers : InSystem(j)' = InSystem(j)
  <2>1. queue' = [queue EXCEPT ![here] = Append(@, Len(route'))] BY DEF Generate, Put
  <2>2. \A j \in Brokers : queue'[j] = queue[j] BY <2>1, PlacesApart DEF LoopsTyped
  <2> QED BY <1>1, <2>2 DEF InSystem
<1>4. \A j \in Brokers : CompletedAt(j)' = CompletedAt(j)
  <2>1. \A u \in DOMAIN route : route'[u] = route[u] BY <1>1, UnitsGrow
  <2>2. completed \in Seq(DOMAIN route) BY DEF AccountInv, UnitsRouted
  <2>3. \A k \in DOMAIN completed : completed[k] \in DOMAIN route BY <2>2
  <2>4. \A k \in DOMAIN completed : route'[completed[k]] = route[completed[k]] BY <2>1, <2>3
  <2> QED BY <1>1, <2>4 DEF CompletedAt
<1> QED BY <1>3, <1>4 DEF AtBroker

\* A unit that a broker reads is counted and put into its queue.
LEMMA DeliverAccount ==
  ASSUME RecordInv, RecordInv', AccountInv, UnitsRouted', NEW here \in Links, Deliver(here)
  PROVE  AccountInv'
<1> USE DEF RecordInv, TypeInv
<1>1. /\ UNCHANGED control /\ UNCHANGED <<alive, route, serving, completed>>
      /\ arrivals' = [arrivals EXCEPT ![here[2]] = @ + 1] /\ here[2] \in Brokers
  BY LinksApart DEF Deliver
<1>2. \A q \in Places : InSystem(q)' = InSystem(q) + (IF q = here[2] THEN 1 ELSE 0)
  <2>1. wire[here] \in Seq(Units) /\ wire[here] # << >> BY DEF Deliver, TrafficTyped
  <2>2. Head(wire[here]) \in Units BY <2>1, TakeTyped
  <2>3. Put(here[2], Head(wire[here])) BY DEF Deliver
  <2> QED BY <1>1, <2>2, <2>3, PutCounts, PlacesApart
<1>3. \A j \in Brokers : AtBroker(j)' + arrivals[j] = AtBroker(j) + arrivals'[j]
  <2>1. TAKE j \in Brokers
  <2>2. CompletedAt(j)' = CompletedAt(j) BY <1>1 DEF CompletedAt
  <2>3. InSystem(j) \in Nat /\ CompletedAt(j) \in Nat /\ arrivals[j] \in Nat
    BY AtBrokerTyped, KnownTyped
  <2>4. AtBroker(j) = InSystem(j) + CompletedAt(j) /\ AtBroker(j)' = InSystem(j)' + CompletedAt(j)
    BY <2>2 DEF AtBroker
  <2>5. \A a, b, c \in Nat : /\ ((a + 1) + b) + c = (a + b) + (c + 1)
                             /\ ((a + 0) + b) + c = (a + b) + c
    OBVIOUS
  <2>6. arrivals'[j] = IF j = here[2] THEN arrivals[j] + 1 ELSE arrivals[j] BY <1>1 DEF WindowTyped
  <2>7. InSystem(j)' = InSystem(j) + (IF j = here[2] THEN 1 ELSE 0) BY <1>2, PlacesApart
  <2>8. CASE j = here[2] BY <2>3, <2>4, <2>5, <2>6, <2>7, <2>8
  <2>9. CASE j # here[2] BY <2>3, <2>4, <2>5, <2>6, <2>7, <2>9
  <2> QED BY <2>8, <2>9
<1> QED BY <1>1, <1>3, FlowAccount

\* Of a broker that died nothing is claimed but what it had reported.
LEMMA DieAccount ==
  ASSUME RecordInv, RecordInv', AccountInv, UnitsRouted', NEW b \in Brokers, BrokerDies(b)
  PROVE  AccountInv'
<1> USE DEF RecordInv, TypeInv
<1>1. /\ UNCHANGED control /\ UNCHANGED <<route, completed, arrivals>> /\ alive' = alive \ {b}
      /\ queue' = [queue EXCEPT ![b] = << >>] /\ serving' = [serving EXCEPT ![b] = << >>]
  BY DEF BrokerDies, window
<1>2. \A j \in Brokers : j \in alive' => AtBroker(j)' = AtBroker(j)
  <2>1. TAKE j \in Brokers
  <2>2. HAVE j \in alive'
  <2>3. j # b /\ j \in Places BY <1>1, <2>2, PlacesApart
  <2>4. queue'[j] = queue[j] /\ serving'[j] = serving[j] BY <1>1, <2>3 DEF LoopsTyped
  <2> QED BY <1>1, <2>4 DEF AtBroker, InSystem, CompletedAt
<1> QED BY <1>1, <1>2, FlowAccount

\* A step of the round moves no unit to or from a broker, and nobody dies in it.
LEMMA StillAccount ==
  ASSUME UNCHANGED <<queue, serving, route, completed, alive>>
  PROVE  /\ \A j : AtBroker(j)' = AtBroker(j)
         /\ UnitsRouted /\ UNCHANGED wire => UnitsRouted'
  BY DEF AtBroker, InSystem, CompletedAt, UnitsRouted, UnitsOf

\* The brokers are asked, when none of their windows was lost, with nothing else in
\* their channels; a round that is skipped ends the account.
LEMMA BrokersAsked ==
  ASSUME RecordInv, RecordInv', AccountInv, AskBrokers \/ SkipRound
  PROVE  ArrivalsCounted' /\ BrokersAccount'
<1> USE DEF AccountInv
<1>1. UNCHANGED <<queue, serving, route, completed, alive, records, arrivals>>
  BY DEF AskBrokers, SkipRound, loops, window
<1>2. BrokersAccount' BY <1>1, RecordsSame
<1>3. CASE SkipRound
  <2>1. skipped' = skipped + 1 /\ skipped \in Nat BY <1>3 DEF SkipRound, RecordInv, TypeInv, RoundTyped
  <2>2. skipped' # 0 BY <2>1
  <2> QED BY <1>2, <2>2 DEF ArrivalsCounted
<1>4. CASE AskBrokers
  <2>1. /\ stage = "idle" /\ stage' = "brokers" /\ skipped' = skipped /\ round' = round + 1
        /\ \A j \in Brokers : outcome'[j] = "pending" /\ asked'[j] = Append(asked[j], round + 1)
    BY <1>4 DEF AskBrokers, Ask, Workers
  <2>2. SUFFICES ASSUME skipped = 0, NEW j \in Brokers
        PROVE  /\ asked'[j] = <<round'>>
               /\ j \in alive => Arrived(Len(records), j)' + arrivals'[j] = AtBroker(j)'
    BY <1>1, <1>2, <2>1 DEF ArrivalsCounted
  <2>3. asked[j] = << >> /\ (j \in alive => Arrived(Len(records), j) + arrivals[j] = AtBroker(j))
    BY <2>1, <2>2 DEF ArrivalsCounted
  <2>4. Append(<< >>, round + 1) = <<round + 1>> OBVIOUS
  <2>5. Arrived(Len(records), j)' = Arrived(Len(records), j) /\ AtBroker(j)' = AtBroker(j)
    BY <1>1, RecordsSame, StillAccount
  <2> QED BY <1>1, <2>1, <2>3, <2>4, <2>5
<1> QED BY <1>3, <1>4

\* A step that changes nothing of a broker, of its channel and of its part in the round
\* keeps its account.
LEMMA OthersAccount ==
  ASSUME AccountInv, UNCHANGED <<queue, serving, route, completed, alive, records>>,
         UNCHANGED <<round, stage, skipped>>, skipped = 0, NEW j \in Brokers,
         arrivals'[j] = arrivals[j], asked'[j] = asked[j], outcome'[j] = outcome[j], report'[j] = report[j]
  PROVE  (/\ stage = "idle" \/ (stage = "brokers" /\ outcome[j] = "pending") =>
               /\ asked[j] = IF stage = "idle" THEN << >> ELSE <<round>>
               /\ j \in alive => Arrived(Len(records), j) + arrivals[j] = AtBroker(j)
          /\ stage # "idle" /\ outcome[j] = "reply" =>
               /\ asked[j] = << >>
               /\ j \in alive => Known(j) + arrivals[j] = AtBroker(j)
               /\ Known(j) = report[j].inSystem + report[j].completedTotal)'
<1>1. Arrived(Len(records), j)' = Arrived(Len(records), j) /\ AtBroker(j)' = AtBroker(j)
  BY RecordsSame, StillAccount
<1>2. Known(j)' = Known(j) BY <1>1 DEF Known
<1>3. /\ stage = "idle" \/ (stage = "brokers" /\ outcome[j] = "pending") =>
               /\ asked[j] = IF stage = "idle" THEN << >> ELSE <<round>>
               /\ j \in alive => Arrived(Len(records), j) + arrivals[j] = AtBroker(j)
      /\ stage # "idle" /\ outcome[j] = "reply" =>
               /\ asked[j] = << >>
               /\ j \in alive => Known(j) + arrivals[j] = AtBroker(j)
               /\ Known(j) = report[j].inSystem + report[j].completedTotal
  BY DEF AccountInv, ArrivalsCounted
<1> QED BY <1>1, <1>2, <1>3

\* A reply that does not come, and that of a source, leave the brokers' account.
LEMMA AsideAccount ==
  ASSUME RecordInv, RecordInv', AccountInv,
         (\E w \in Workers : Timeout(w)) \/ (\E i \in Sources : SourceReplies(i))
  PROVE  ArrivalsCounted' /\ BrokersAccount'
<1>1. /\ UNCHANGED <<queue, serving, route, completed, alive, records, arrivals>>
      /\ UNCHANGED <<round, stage, skipped>>
  BY DEF Timeout, SourceReplies, Replies, loops, window
<1>2. BrokersAccount' BY <1>1, RecordsSame DEF AccountInv
<1>3. SUFFICES ASSUME skipped = 0, NEW j \in Brokers
      PROVE  (/\ stage = "idle" \/ (stage = "brokers" /\ outcome[j] = "pending") =>
                  /\ asked[j] = IF stage = "idle" THEN << >> ELSE <<round>>
                  /\ j \in alive => Arrived(Len(records), j) + arrivals[j] = AtBroker(j)
              /\ stage # "idle" /\ outcome[j] = "reply" =>
                  /\ asked[j] = << >>
                  /\ j \in alive => Known(j) + arrivals[j] = AtBroker(j)
                  /\ Known(j) = report[j].inSystem + report[j].completedTotal)'
  BY <1>1, <1>2 DEF ArrivalsCounted
<1>4. j \in Workers /\ j \notin Sources BY ConstantsTyped DEF Workers
<1>5. CASE UNCHANGED <<asked[j], outcome[j], report[j]>> BY <1>1, <1>3, <1>5, OthersAccount
<1>6. CASE \E i \in Sources : SourceReplies(i)
  <2>1. PICK i \in Sources : SourceReplies(i) BY <1>6
  <2>2. UNCHANGED <<asked[j], outcome[j], report[j]>>
    BY <1>4, <2>1 DEF SourceReplies, Replies, RecordInv, TypeInv, RoundTyped, ReportsTyped
  <2> QED BY <1>5, <2>2
<1>7. CASE \E w \in Workers : Timeout(w)
  <2>1. PICK w \in Workers : Timeout(w) BY <1>7
  <2>2. CASE w # j
    <3>1. UNCHANGED <<asked[j], outcome[j], report[j]>> BY <2>1, <2>2 DEF Timeout
    <3> QED BY <1>5, <3>1
  <2>3. CASE w = j
    <3>1. stage = "brokers" /\ stage' = "brokers" /\ outcome'[j] = "failed"
      BY <1>1, <1>3, <1>4, <2>1, <2>3 DEF Timeout, RecordInv, TypeInv, RoundTyped
    <3> QED BY <3>1
  <2> QED BY <2>2, <2>3
<1> QED BY <1>6, <1>7

\* A broker's reply, while no round was skipped, is the one it was asked for: it says
\* what the broker has, and its window begins anew.
LEMMA BrokerRepliesAccount ==
  ASSUME RecordInv, RecordInv', AccountInv, NEW b \in Brokers, BrokerReplies(b)
  PROVE  ArrivalsCounted' /\ BrokersAccount'
<1>1. /\ UNCHANGED <<queue, serving, route, completed, alive, records>>
      /\ UNCHANGED <<round, stage, skipped>> /\ arrivals' = [arrivals EXCEPT ![b] = 0]
      /\ b \in alive /\ asked[b] # << >> /\ b \in Workers
  BY DEF BrokerReplies, Replies, ResetArrivals, loops, Workers
<1>2. BrokersAccount' BY <1>1, RecordsSame DEF AccountInv
<1>3. SUFFICES ASSUME skipped = 0, NEW j \in Brokers
      PROVE  (/\ stage = "idle" \/ (stage = "brokers" /\ outcome[j] = "pending") =>
                  /\ asked[j] = IF stage = "idle" THEN << >> ELSE <<round>>
                  /\ j \in alive => Arrived(Len(records), j) + arrivals[j] = AtBroker(j)
              /\ stage # "idle" /\ outcome[j] = "reply" =>
                  /\ asked[j] = << >>
                  /\ j \in alive => Known(j) + arrivals[j] = AtBroker(j)
                  /\ Known(j) = report[j].inSystem + report[j].completedTotal)'
  BY <1>1, <1>2 DEF ArrivalsCounted
<1>4. CASE j # b
  <2>1. arrivals'[j] = arrivals[j] BY <1>1, <1>4 DEF RecordInv, TypeInv, WindowTyped
  <2>2. UNCHANGED <<asked[j], outcome[j], report[j]>>
    BY <1>4 DEF BrokerReplies, Replies, RecordInv, TypeInv, RoundTyped, ReportsTyped, Workers
  <2> QED BY <1>1, <1>3, <2>1, <2>2, OthersAccount
<1>5. CASE j = b
  <2>1. /\ stage = "idle" \/ (stage = "brokers" /\ outcome[b] = "pending") =>
             /\ asked[b] = IF stage = "idle" THEN << >> ELSE <<round>>
             /\ Arrived(Len(records), b) + arrivals[b] = AtBroker(b)
        /\ stage # "idle" /\ outcome[b] = "reply" => asked[b] = << >>
    BY <1>1, <1>3 DEF AccountInv, ArrivalsCounted
  <2>2. stage # "idle" /\ outcome[b] # "reply" BY <1>1, <2>1
  <2>3. outcome \in [Workers -> {"pending", "reply", "failed"}] /\ stage \in {"idle", "brokers", "sources"}
    BY DEF RecordInv, TypeInv, RoundTyped
  <2>4. stage = "brokers" BY <2>2, <2>3 DEF RecordInv, Replied
  <2>5. CASE outcome'[b] = "failed" BY <1>1, <1>5, <2>2, <2>5
  <2>6. CASE outcome[b] = "failed"
    <3>1. outcome'[b] = "failed" BY <2>6 DEF BrokerReplies, Replies
    <3> QED BY <2>5, <3>1
  <2>7. CASE outcome[b] = "pending"
    <3>1. asked[b] = <<round>> /\ Arrived(Len(records), b) + arrivals[b] = AtBroker(b)
      BY <2>1, <2>4, <2>7
    <3>2. Head(<<round>>) = round /\ Tail(<<round>>) = << >> OBVIOUS
    <3>3. \/ /\ outcome' = [outcome EXCEPT ![b] = "reply"]
             /\ report' = [report EXCEPT ![b] = BrokerMetrics(b)]
          \/ outcome' = [outcome EXCEPT ![b] = "failed"]
      BY <2>7, <3>1, <3>2 DEF BrokerReplies, Replies
    <3>4. CASE outcome' = [outcome EXCEPT ![b] = "failed"]
      <4>1. outcome'[b] = "failed" BY <1>1, <2>3, <3>4
      <4> QED BY <2>5, <4>1
    <3>5. CASE /\ outcome' = [outcome EXCEPT ![b] = "reply"]
               /\ report' = [report EXCEPT ![b] = BrokerMetrics(b)]
      <4>1. asked'[b] = << >>
        <5>1. asked' = [asked EXCEPT ![b] = Tail(asked[b])] BY DEF BrokerReplies, Replies
        <5>2. asked \in [Workers -> Seq(1 .. round)] BY DEF RecordInv, TypeInv, RoundTyped
        <5> QED BY <1>1, <3>1, <3>2, <5>1, <5>2
      <4>2. outcome'[b] = "reply" /\ report'[b] = BrokerMetrics(b)
        BY <1>1, <2>3, <3>5 DEF RecordInv, TypeInv, ReportsTyped
      <4>3. /\ report'[b].arrivals = arrivals[b] /\ report'[b].inSystem = InSystem(b)
            /\ report'[b].completedTotal = CompletedAt(b)
        BY <4>2 DEF BrokerMetrics
      <4>4. arrivals'[b] = 0 BY <1>1 DEF RecordInv, TypeInv, WindowTyped
      <4>5. Arrived(Len(records), b)' = Arrived(Len(records), b) /\ AtBroker(b)' = AtBroker(b)
        BY <1>1, RecordsSame, StillAccount
      <4>6. Known(b)' = Arrived(Len(records), b) + arrivals[b]
        BY <1>1, <2>4, <4>2, <4>3, <4>5 DEF Known
      <4>7. AtBroker(b) \in Nat BY AtBrokerTyped DEF RecordInv
      <4>8. Known(b)' + arrivals'[b] = AtBroker(b)' BY <3>1, <4>4, <4>5, <4>6, <4>7
      <4>9. Known(b)' = report'[b].inSystem + report'[b].completedTotal
        BY <3>1, <4>3, <4>6 DEF AtBroker
      <4> QED BY <1>1, <1>5, <2>4, <4>1, <4>2, <4>8, <4>9
    <3> QED BY <3>3, <3>4, <3>5
  <2> QED BY <1>1, <2>2, <2>3, <2>6, <2>7
<1> QED BY <1>4, <1>5

\* The sources are asked when every broker has replied.
LEMMA SourcesAsked ==
  ASSUME RecordInv, RecordInv', AccountInv, AskSources
  PROVE  ArrivalsCounted' /\ BrokersAccount'
<1>1. /\ UNCHANGED <<queue, serving, route, completed, alive, records, arrivals>>
      /\ UNCHANGED <<round, skipped>> /\ stage = "brokers" /\ stage' = "sources"
      /\ \A j \in Brokers : UNCHANGED <<asked[j], outcome[j], report[j]>>
  BY ConstantsTyped DEF AskSources, Ask, loops, window, Workers, RecordInv, TypeInv, RoundTyped, ReportsTyped
<1>2. BrokersAccount' BY <1>1, RecordsSame DEF AccountInv
<1>3. SUFFICES ASSUME skipped = 0, NEW j \in Brokers
      PROVE  outcome[j] = "reply" =>
               /\ asked[j] = << >>
               /\ j \in alive => Known(j)' + arrivals[j] = AtBroker(j)'
               /\ Known(j)' = report[j].inSystem + report[j].completedTotal
  BY <1>1, <1>2 DEF ArrivalsCounted
<1>4. Arrived(Len(records), j)' = Arrived(Len(records), j) /\ AtBroker(j)' = AtBroker(j)
  BY <1>1, RecordsSame, StillAccount
<1>5. outcome[j] = "reply" => Known(j)' = Known(j) BY <1>1, <1>4 DEF Known
<1> QED BY <1>1, <1>3, <1>4, <1>5 DEF AccountInv, ArrivalsCounted

\* What the brokers reported is in the record, and the account goes on from it.
LEMMA RecordAccount ==
  ASSUME RecordInv, RecordInv', AccountInv, RecordRound
  PROVE  ArrivalsCounted' /\ BrokersAccount'
<1>1. /\ UNCHANGED <<queue, serving, route, completed, alive, skipped, arrivals>>
      /\ UNCHANGED <<asked, outcome, report>> /\ stage = "sources" /\ stage' = "idle"
  BY DEF RecordRound, loops, window
<1>2. PICK n \in Nat :
           /\ n = Len(records) /\ Len(records') = n + 1
           /\ records'[n + 1] = [report |-> report, held |-> Failed(Sources), skipped |-> skipped,
                                 completedWindow |-> CompletedWindow]
           /\ \A k \in 1 .. n : records'[k] = records[k]
           /\ \A m \in 0 .. n : \A j : Arrived(m, j)' = Arrived(m, j)
           /\ \A m \in 0 .. n : \A l : Routed(m, l)' = Routed(m, l)
           /\ \A j \in Brokers : Arrived(n + 1, j)' = Arrived(n, j) + report[j].arrivals
           /\ NoneHeld' => /\ NoneHeld /\ Failed(Sources) = {}
                           /\ \A l \in Links :
                                Routed(n + 1, l)' = Routed(n, l) + report[l[1]][l].routed
  BY RecordsGrow
<1>3. \A j \in Brokers : outcome[j] = "reply" /\ Known(j) = Arrived(n + 1, j)'
  BY <1>1, <1>2 DEF Known, RecordInv, Replied
<1>4. \A j \in Brokers : AtBroker(j)' = AtBroker(j) BY <1>1, StillAccount
<1>5. ASSUME skipped = 0, NEW j \in Brokers
      PROVE  /\ asked[j] = << >>
             /\ j \in alive => Arrived(n + 1, j)' + arrivals[j] = AtBroker(j)
             /\ Arrived(n + 1, j)' = report[j].inSystem + report[j].completedTotal
  BY <1>1, <1>3, <1>5 DEF AccountInv, ArrivalsCounted
<1>6. ArrivalsCounted'
  <2>1. SUFFICES ASSUME skipped = 0, NEW j \in Brokers
                 PROVE  /\ asked[j] = << >>
                        /\ j \in alive => Arrived(n + 1, j)' + arrivals[j] = AtBroker(j)'
    BY <1>1, <1>2 DEF ArrivalsCounted
  <2> QED BY <1>4, <1>5, <2>1
<1>7. BrokersAccount'
  <2>1. SUFFICES ASSUME NEW m \in 1 .. n + 1, records'[m].skipped = 0, NEW j \in Brokers
                 PROVE  Arrived(m, j)' = records'[m].report[j].inSystem + records'[m].report[j].completedTotal
    BY <1>2 DEF BrokersAccount
  <2>2. CASE m \in 1 .. n
    <3>1. m \in 0 .. n BY <2>2
    <3>2. records'[m] = records[m] /\ Arrived(m, j)' = Arrived(m, j) BY <1>2, <2>2, <3>1
    <3> QED BY <1>2, <2>1, <2>2, <3>2 DEF AccountInv, BrokersAccount
  <2>3. CASE m = n + 1
    <3>1. records'[m].report = report /\ records'[m].skipped = skipped BY <1>2, <2>3
    <3> QED BY <1>5, <2>1, <2>3, <3>1
  <2> QED BY <2>1, <2>2, <2>3
<1> QED BY <1>6, <1>7

\* Before anything was generated every broker is empty and has counted nothing.
LEMMA AccountInit == Init => AccountInv
<1> SUFFICES ASSUME Init PROVE AccountInv OBVIOUS
<1>1. /\ records = << >> /\ completed = << >> /\ stage = "idle"
      /\ \A j \in Brokers : queue[j] = << >> /\ serving[j] = << >> /\ arrivals[j] = 0 /\ asked[j] = << >>
  BY DEF Init, Places, Workers
<1>2. Len(<< >>) = 0 /\ 1 .. 0 = {} /\ DOMAIN << >> = {} OBVIOUS
<1>3. \A j : Arrived(0, j) = 0
  <2>1. \A j : DOMAIN [k \in 1 .. 0 |-> records[k].report[j].arrivals] = {} BY <1>2
  <2> QED BY <2>1, SumEmpty DEF Arrived, SumFunction
<1>4. \A j \in Brokers : AtBroker(j) = 0
  <2>1. TAKE j \in Brokers
  <2>2. {k \in DOMAIN completed : route[completed[k]][2] = j} = {} BY <1>1, <1>2
  <2>3. CompletedAt(j) = 0 BY <2>2, FS_EmptySet DEF CompletedAt
  <2>4. Len(queue[j]) = 0 /\ Len(serving[j]) = 0 BY <1>1, <1>2
  <2>5. InSystem(j) = 0 BY <2>4 DEF InSystem
  <2> QED BY <2>3, <2>5 DEF AtBroker
<1>5. ArrivalsCounted
  <2>1. \A j \in Brokers : Arrived(Len(records), j) + arrivals[j] = AtBroker(j) BY <1>1, <1>2, <1>3, <1>4
  <2> QED BY <1>1, <2>1 DEF ArrivalsCounted
<1>6. BrokersAccount BY <1>1, <1>2 DEF BrokersAccount
<1> QED BY <1>5, <1>6, RoutedInit DEF AccountInv

\* Every step keeps the account.
LEMMA AccountStep == RecordInv /\ RecordInv' /\ AccountInv /\ [Next]_vars => AccountInv'
<1> SUFFICES ASSUME RecordInv, RecordInv', AccountInv, [Next]_vars PROVE AccountInv' OBVIOUS
<1>1. UnitsRouted' BY RoutedStep DEF RecordInv, AccountInv
<1>2. ASSUME NEW l \in Links, Generate(l) PROVE AccountInv' BY <1>1, <1>2, GenerateAccount
<1>3. ASSUME NEW l \in Links, Deliver(l) PROVE AccountInv' BY <1>1, <1>3, DeliverAccount
<1>4. ASSUME NEW p \in Places, Serve(p) PROVE AccountInv' BY <1>1, <1>4, ServeAccount
<1>5. ASSUME NEW j \in Brokers, BrokerDies(j) PROVE AccountInv' BY <1>1, <1>5, DieAccount
<1>6. CASE AskBrokers \/ SkipRound BY <1>1, <1>6, BrokersAsked DEF AccountInv
<1>7. CASE AskSources BY <1>1, <1>7, SourcesAsked DEF AccountInv
<1>8. CASE RecordRound BY <1>1, <1>8, RecordAccount DEF AccountInv
<1>9. ASSUME NEW w \in Workers, Timeout(w) PROVE AccountInv'
  BY <1>1, <1>9, AsideAccount DEF AccountInv
<1>10. ASSUME NEW j \in Brokers, BrokerReplies(j) PROVE AccountInv'
  BY <1>1, <1>10, BrokerRepliesAccount DEF AccountInv
<1>11. ASSUME NEW i \in Sources, SourceReplies(i) PROVE AccountInv'
  BY <1>1, <1>11, AsideAccount DEF AccountInv
<1>12. CASE UNCHANGED vars
  <2>1. UNCHANGED control /\ UNCHANGED <<alive, arrivals, queue, serving, route, completed>>
    BY <1>12 DEF vars, loops, window
  <2>2. \A j : AtBroker(j)' = AtBroker(j) BY <2>1, StillAccount
  <2> QED BY <1>1, <2>1, <2>2, FlowAccount
<1> QED BY <1>2, <1>3, <1>4, <1>5, <1>6, <1>7, <1>8, <1>9, <1>10, <1>11, <1>12 DEF Next, Round

\* As long as no round was skipped the records account for every unit that a broker
\* read: what they count as arrived is in its queue or completed, as it counts them.
THEOREM Accounting == Spec => []BrokersAccount
<1>1. Init => RecordInv BY RecordInit
<1>2. RecordInv /\ AccountInv /\ [Next]_vars => RecordInv' /\ AccountInv'
  BY RecordStep, AccountStep
<1>3. AccountInv => BrokersAccount BY DEF AccountInv
<1> QED BY <1>1, <1>2, <1>3, AccountInit, PTL DEF Spec
=============================================================================
