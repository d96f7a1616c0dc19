-------------------------- MODULE RegistrationProofs --------------------------
(***************************************************************************)
(* Why no two instance names share a logical index, for any number of      *)
(* sources, brokers, names and processes.                                  *)
(*                                                                         *)
(* OneNamePerSlot is not inductive: a name that joins gets the number of   *)
(* the names that hold an index, which must be more than any of these.     *)
(* SlotsDense says that it is, and that the limit of _assign bounds it.    *)
(***************************************************************************)
EXTENDS Registration, FiniteSetTheorems, TLAPS

\* the names of the role of x, sources or brokers
Role(x) == IF x \in SourceInstances THEN SourceInstances ELSE BrokerInstances

\* per role: finitely many names hold an index, below their number and within the limit
SlotsDense ==
  \A x \in Instances :
    /\ IsFiniteSet(Holders(x)) /\ Cardinality(Holders(x)) <= Limit(x)
    /\ slots[x] # NoSlot => slots[x] \in 0 .. Cardinality(Holders(x)) - 1

SlotsTyped == slots \in [Instances -> Nat \cup {NoSlot}]

SlotsInv == SlotsTyped /\ SlotsDense /\ OneNamePerSlot

-----------------------------------------------------------------------------
\* Two names of one role have the same limit and the same holders.
LEMMA SameRole ==
  ASSUME NEW x \in Instances, NEW y \in Instances, Role(y) = Role(x)
  PROVE  Limit(y) = Limit(x) /\ Holders(y) = Holders(x)
<1>1. y \in SourceInstances <=> x \in SourceInstances
  BY InstancesTyped DEF Role, Instances
<1> QED
  BY <1>1 DEF Limit, Holders

\* The limit of a role, expected_sources or expected_brokers, is a number.
LEMMA LimitTyped == \A x : Limit(x) \in Nat
  BY CountsTyped DEF Limit

\* No name holds an index at first.
LEMMA SlotsInit == Init => SlotsInv
<1> SUFFICES ASSUME Init PROVE SlotsInv
  OBVIOUS
<1>1. \A x \in Instances : slots[x] = NoSlot
  BY DEF Init
<1>2. \A x \in Instances : Holders(x) = {}
  BY <1>1 DEF Holders, Instances
<1>3. SlotsTyped /\ OneNamePerSlot
  BY <1>1 DEF Init, SlotsTyped, OneNamePerSlot
<1>4. SlotsDense
  BY <1>1, <1>2, FS_EmptySet, LimitTyped DEF SlotsDense
<1> QED
  BY <1>3, <1>4 DEF SlotsInv

\* A name that joins takes the index after those of its role (_assign).
LEMMA Joins ==
  ASSUME SlotsInv, NEW x \in Instances, slots[x] = NoSlot,
         Cardinality(Holders(x)) < Limit(x), slots' = [slots EXCEPT ![x] = NewSlot(x)]
  PROVE  SlotsInv'
<1> DEFINE n == Cardinality(Holders(x))
<1>1. /\ n \in Nat /\ n < Limit(x) /\ IsFiniteSet(Holders(x)) /\ x \notin Holders(x)
      /\ n # NoSlot
  BY FS_CardinalityType, InstancesTyped DEF SlotsInv, SlotsDense, Holders
<1>2. \A y \in Instances : slots'[y] = IF y = x THEN n ELSE slots[y]
  BY DEF SlotsInv, SlotsTyped, NewSlot
<1>3. ASSUME NEW y \in Instances, Role(y) = Role(x)
      PROVE  /\ Holders(y)' = Holders(x) \cup {x}
             /\ IsFiniteSet(Holders(y)') /\ Cardinality(Holders(y)') = n + 1
  <2>1. x \in Role(x) /\ Role(x) \subseteq Instances
    BY DEF Role, Instances
  <2>2. Holders(y)' = {z \in Role(x) : slots'[z] # NoSlot}
    BY <1>3 DEF Holders, Role
  <2>3. Holders(x) = {z \in Role(x) : slots[z] # NoSlot}
    BY DEF Holders, Role
  <2>4. Holders(y)' = Holders(x) \cup {x}
    BY <1>1, <1>2, <2>1, <2>2, <2>3
  <2> QED
    BY <1>1, <2>4, FS_AddElement
<1>4. ASSUME NEW y \in Instances, Role(y) # Role(x)
      PROVE  Holders(y)' = Holders(y) /\ slots'[y] = slots[y]
  <2>1. x \notin Role(y) /\ y # x /\ Role(y) \subseteq Instances
    BY <1>4, InstancesTyped DEF Role, Instances
  <2> QED
    BY <1>2, <2>1 DEF Holders, Role
<1> HIDE DEF n
<1>5. SlotsTyped'
  BY <1>1 DEF SlotsInv, SlotsTyped, NewSlot, n
<1>6. SlotsDense'
  <2> SUFFICES ASSUME NEW y \in Instances
               PROVE  /\ IsFiniteSet(Holders(y)') /\ Cardinality(Holders(y)') <= Limit(y)
                      /\ slots'[y] # NoSlot => slots'[y] \in 0 .. Cardinality(Holders(y)') - 1
    BY DEF SlotsDense
  <2>1. CASE Role(y) = Role(x)
    <3>1. Limit(y) = Limit(x) /\ Holders(y) = Holders(x) /\ Limit(x) \in Nat
      BY <2>1, SameRole, LimitTyped
    <3>2. slots[y] # NoSlot => slots[y] \in 0 .. n - 1
      BY <3>1 DEF SlotsInv, SlotsDense, n
    <3> QED
      BY <1>1, <1>2, <1>3, <2>1, <3>1, <3>2
  <2>2. CASE Role(y) # Role(x)
    BY <1>4, <2>2 DEF SlotsInv, SlotsDense
  <2> QED
    BY <2>1, <2>2
<1>7. OneNamePerSlot'
  <2> SUFFICES ASSUME NEW y \in Instances, slots'[y] # NoSlot
               PROVE  /\ slots'[y] < Limit(y)
                      /\ \A z \in Holders(y)' \ {y} : slots'[z] # slots'[y]
    BY DEF OneNamePerSlot
  <2>1. CASE Role(y) = Role(x)
    <3>1. /\ Limit(y) = Limit(x) /\ Holders(y) = Holders(x) /\ Limit(x) \in Nat
          /\ Holders(x) \subseteq Instances
      BY <2>1, SameRole, LimitTyped DEF Holders, Instances
    <3>2. \A z \in Holders(x) : slots[z] # NoSlot /\ Role(z) = Role(x)
      BY InstancesTyped DEF Holders, Role
    <3>3. \A z \in Holders(x) : slots[z] \in 0 .. n - 1
      BY <3>1, <3>2, SameRole DEF SlotsInv, SlotsDense, n
    <3>4. y = x \/ y \in Holders(x)
      BY <1>2, <2>1 DEF Holders, Role, Instances
    <3>5. slots'[y] < Limit(y)
      BY <1>1, <1>2, <3>1, <3>3, <3>4
    <3>6. ASSUME NEW z \in Holders(x) \cup {x}, z # y PROVE slots'[z] # slots'[y]
      <4>1. CASE x \in {y, z}
        BY <1>1, <1>2, <3>1, <3>3, <3>4, <3>6, <4>1
      <4>2. CASE x \notin {y, z}
        <5>1. y \in Holders(x) /\ z \in Holders(x)
          BY <3>4, <3>6, <4>2
        <5>2. slots[z] # slots[y]
          BY <3>1, <3>2, <3>6, <5>1 DEF SlotsInv, OneNamePerSlot
        <5> QED
          BY <1>2, <3>1, <4>2, <5>1, <5>2
      <4> QED
        BY <4>1, <4>2
    <3> QED
      BY <1>3, <2>1, <3>5, <3>6
  <2>2. CASE Role(y) # Role(x)
    <3>1. \A z \in Holders(y) : z \in Instances /\ Role(z) = Role(y)
      BY InstancesTyped DEF Holders, Role, Instances
    <3> QED
      BY <1>4, <2>2, <3>1 DEF SlotsInv, OneNamePerSlot
  <2> QED
    BY <2>1, <2>2
<1> QED
  BY <1>5, <1>6, <1>7 DEF SlotsInv

\* Only a register message changes an index.
LEMMA SlotsNext == SlotsInv /\ [Next]_vars => SlotsInv'
<1> SUFFICES ASSUME SlotsInv, [Next]_vars PROVE SlotsInv'
  OBVIOUS
<1>1. ASSUME NEW c \in Conns, TakesHello(c) PROVE SlotsInv'
  <2> DEFINE x == InstanceOf(c)
  <2>1. x \in Instances /\ slots' = [slots EXCEPT ![x] = Assign(x)]
    BY <1>1, InstancesTyped DEF TakesHello
  <2>2. CASE slots[x] = NoSlot /\ ~(Cardinality(Holders(x)) >= Limit(x))
    <3>1. Cardinality(Holders(x)) \in Nat /\ Limit(x) \in Nat
      BY <2>1, FS_CardinalityType, LimitTyped DEF SlotsInv, SlotsDense
    <3>2. Cardinality(Holders(x)) < Limit(x)
      BY <2>2, <3>1
    <3>3. Assign(x) = NewSlot(x)
      BY <2>2 DEF Assign
    <3> HIDE DEF x
    <3> QED
      BY <2>1, <2>2, <3>2, <3>3, Joins
  <2>3. CASE ~(slots[x] = NoSlot /\ ~(Cardinality(Holders(x)) >= Limit(x)))
    <3>1. Assign(x) = slots[x]
      BY <2>3 DEF Assign
    <3>2. slots' = slots
      BY <2>1, <3>1 DEF SlotsInv, SlotsTyped
    <3> QED
      BY <3>2 DEF SlotsInv, SlotsTyped, SlotsDense, OneNamePerSlot, Holders
  <2> QED
    BY <2>2, <2>3
<1>2. ASSUME slots' = slots PROVE SlotsInv'
  BY <1>2 DEF SlotsInv, SlotsTyped, SlotsDense, OneNamePerSlot, Holders
<1>3. ASSUME NEW c \in Conns, Handler(c) PROVE SlotsInv'
  <2>1. TakesHello(c) \/ slots' = slots
    BY <1>3 DEF Handler, Refuse, RegisterBroker, RegisterSource, AssignSource, SourceReady,
                ReadClosed, HandlerClosed, registry
  <2> QED
    BY <1>1, <1>2, <2>1
<1>4. ASSUME NEW c \in Conns, Worker(c) \/ Launch(c) \/ WorkerCrashes(c) PROVE SlotsInv'
  <2>1. slots' = slots
    BY <1>4 DEF Worker, BrokerAssigned, SourceAssigned, SourceConnected, SourceStarts, WorkerStops,
                SourceGivesUp, WorkerSeesEof, WorkerCrashes, Ends, Reads, Launch, registry
  <2> QED
    BY <1>2, <2>1
<1>5. ASSUME Run \/ RequestStop \/ UNCHANGED vars PROVE SlotsInv'
  <2>1. slots' = slots
    BY <1>5 DEF Run, StartTraffic, ShutDown, Exit, RequestStop, registry, vars
  <2> QED
    BY <1>2, <2>1
<1> QED
  BY <1>3, <1>4, <1>5 DEF Next

\* _assign never gives an index twice nor one beyond the topology, however many
\* names ask and however often their processes are replaced.
THEOREM SlotsAreUnique == Spec => []OneNamePerSlot
<1>1. SlotsInv => OneNamePerSlot
  BY DEF SlotsInv
<1> QED
  BY <1>1, SlotsInit, SlotsNext, PTL DEF Spec
-----------------------------------------------------------------------------
(***************************************************************************)
(* Why a run comes up as it should, for any number of sources, brokers,    *)
(* names and processes: TypeOK, RoundsCanBegin, ReadyIsServed, StartsOnce. *)
(*                                                                         *)
(* The argument follows a process.  TypeInv says what its handler waits    *)
(* for and where (the queue of brokers_registered, a slot), StepInv how    *)
(* far the handler, the process and the messages between them are, and     *)
(* that a channel belongs to the slot's own name.  These hold whatever     *)
(* the event loop does.                                                    *)
(*                                                                         *)
(* ReadyIsServed and StartsOnce need PromptLoop: without it a source that  *)
(* rejoins unnoticed takes over the channel of a ready one (the run        *)
(* reg_stale).  With it, of two processes of one name one is Gone: its     *)
(* handler may still wait, but nothing it waits for will come (OneLive,    *)
(* WaitOrder).  So the source that is ready keeps its channel              *)
(* (ReadyChannel, ReadyServed), and when run() goes on every channel is    *)
(* that of a served source (WhenReady): the one start of run() and the one *)
(* of the handler never go to the same process (ToldOnce).                 *)
(*                                                                         *)
(* RoundsCanBegin speaks of runs in which no process has ended.  Then each *)
(* name has one process (Alone), the addresses do not change once all are  *)
(* known, and an assignment under way or taken names them (Undisturbed).   *)
(***************************************************************************)

\* a handler that waits belongs to a process that was assigned a slot
Joined ==
  \A c \in Conns :
    /\ handler[c] \in {"brokers", "ready", "serving"} => SlotOf(c) # NoSlot
    /\ handler[c] \in {"brokers", "ready"} => IsSource(c)
    /\ worker[c] = "off" => handler[c] = "none"

\* brokers_registered is set when every address is known
Known == brokersRegistered => AllKnown(brokerAddresses)

\* the handlers in brokers_registered.wait() are those in waiters, each once
Waiting ==
  /\ \A i \in 1 .. Len(waiters) : handler[waiters[i]] = "brokers"
  /\ \A i, j \in 1 .. Len(waiters) : waiters[i] = waiters[j] => i = j
  /\ \A c \in Conns : handler[c] = "brokers" => \E i \in 1 .. Len(waiters) : waiters[i] = c

TypeInv == TypeOK /\ SlotsInv /\ Joined /\ Known /\ Waiting

-----------------------------------------------------------------------------
\* A message sent is the last of its queue.
LEMMA AppendAt ==
  ASSUME NEW S, NEW s \in Seq(S), NEW x \in S
  PROVE  /\ Append(s, x) \in Seq(S) /\ Append(s, x) # << >>
         /\ Len(s) \in Nat /\ Len(Append(s, x)) = Len(s) + 1
         /\ \A i \in 1 .. Len(s) : Append(s, x)[i] = s[i]
         /\ Append(s, x)[Len(s) + 1] = x
  OBVIOUS

\* A message taken is the first of its queue.
LEMMA TailAt ==
  ASSUME NEW S, NEW s \in Seq(S), s # << >>
  PROVE  /\ Tail(s) \in Seq(S) /\ Head(s) = s[1] /\ s[1] \in S
         /\ Len(s) \in Nat /\ Len(s) >= 1 /\ Len(Tail(s)) = Len(s) - 1
         /\ \A i \in 1 .. Len(s) - 1 : Tail(s)[i] = s[i + 1]
  OBVIOUS

\* The messages of the controller.
LEMMA Messages ==
  /\ [type |-> "welcome"] \in ToWorker /\ [type |-> "refused"] \in ToWorker
  /\ [type |-> "start"] \in ToWorker /\ [type |-> "stop"] \in ToWorker
  /\ \A b \in Addresses : [type |-> "assignment", brokers |-> b] \in ToWorker
  BY DEF ToWorker

\* Sending adds the message to the queues of connections that are up.
LEMMA Sending ==
  ASSUME toWorker \in [Conns -> Seq(ToWorker)], NEW cs, NEW m \in ToWorker
  PROVE  /\ Sent(cs, m) \in [Conns -> Seq(ToWorker)]
         /\ \A d \in Conns : Sent(cs, m)[d] = IF d \in cs /\ link[d] = "up"
                                              THEN Append(toWorker[d], m) ELSE toWorker[d]
<1>1. ASSUME NEW d \in Conns PROVE Append(toWorker[d], m) \in Seq(ToWorker)
  BY AppendAt
<1> QED
  BY <1>1 DEF Sent

\* An instance name keeps its index (slots is only written by _assign).
LEMMA SlotsKept ==
  ASSUME SlotsInv, [Next]_vars
  PROVE  /\ SlotsInv'
         /\ \A x \in Instances : slots[x] # NoSlot => slots'[x] = slots[x]
<1>1. SlotsInv'
  BY SlotsNext
<1>2. ASSUME NEW c \in Conns, Handler(c)
      PROVE  \A x \in Instances : slots[x] # NoSlot => slots'[x] = slots[x]
  <2>1. CASE TakesHello(c)
    BY <2>1 DEF TakesHello, Assign, SlotsInv, SlotsTyped
  <2>2. CASE ~TakesHello(c)
    <3>1. slots' = slots
      BY <1>2, <2>2 DEF Handler, Refuse, RegisterBroker, RegisterSource, AssignSource, SourceReady,
                        ReadClosed, HandlerClosed, registry
    <3> QED
      BY <3>1
  <2> QED
    BY <2>1, <2>2
<1>3. ASSUME Run \/ RequestStop \/ UNCHANGED vars
             \/ \E c \in Conns : Worker(c) \/ Launch(c) \/ WorkerCrashes(c)
      PROVE  slots' = slots
  BY <1>3 DEF Worker, BrokerAssigned, SourceAssigned, SourceConnected, SourceStarts, WorkerStops,
              SourceGivesUp, WorkerSeesEof, WorkerCrashes, Ends, Reads, Launch, registry,
              Run, StartTraffic, ShutDown, Exit, RequestStop, vars
<1> QED
  BY <1>1, <1>2, <1>3 DEF Next

\* What taking a register message does to the slots.
LEMMA Hello ==
  ASSUME SlotsInv, SlotsInv', NEW c \in Conns, TakesHello(c)
  PROVE  /\ InstanceOf(c) \in Instances
         /\ SlotOf(c)' = Assign(InstanceOf(c))
         /\ Assign(InstanceOf(c)) \in (0 .. Limit(InstanceOf(c)) - 1) \cup {NoSlot}
         /\ IsSource(c) => Limit(InstanceOf(c)) = N
         /\ ~IsSource(c) => Limit(InstanceOf(c)) = M
<1> DEFINE x == InstanceOf(c)
<1>1. x \in Instances /\ slots' = [slots EXCEPT ![x] = Assign(x)]
  BY InstancesTyped DEF TakesHello
<1>2. slots'[x] = Assign(x)
  BY <1>1 DEF SlotsInv, SlotsTyped
<1>3. slots'[x] \in Nat \cup {NoSlot} /\ (slots'[x] # NoSlot => slots'[x] < Limit(x))
  BY <1>1 DEF SlotsInv, SlotsTyped, OneNamePerSlot
<1>4. Limit(x) \in Nat
  BY LimitTyped
<1>5. slots'[x] \in (0 .. Limit(x) - 1) \cup {NoSlot}
  BY <1>3, <1>4
<1> QED
  BY <1>1, <1>2, <1>5 DEF SlotOf, Limit, IsSource

-----------------------------------------------------------------------------
\* Nothing is assigned, sent or waited for at first.
LEMMA TypedInit == Init => TypeInv
<1> SUFFICES ASSUME Init PROVE TypeInv
  OBVIOUS
<1>1. SlotsInv
  BY SlotsInit
<1>2. TypeOK
  <2>1. /\ toWorker \in [Conns -> Seq(ToWorker)]
        /\ toController \in [Conns -> Seq({"register", "ready"})] /\ waiters \in Seq(Conns)
    BY DEF Init
  <2>2. brokersOf \in [Conns -> Addresses \cup {<< >>}]
    BY DEF Init
  <2>3. \A x \in Instances : slots[x] \in 0 .. Limit(x) - 1 \cup {NoSlot}
    BY DEF Init
  <2> QED
    BY <2>1, <2>2, <2>3 DEF Init, TypeOK, Handlers
<1>3. Joined /\ Known /\ Waiting
  BY DEF Init, Joined, Known, Waiting
<1> QED
  BY <1>1, <1>2, <1>3 DEF TypeInv

\* Every handler, step of run() and worker keeps the types and the waiting handlers.
LEMMA TypedNext == TypeInv /\ [Next]_vars => TypeInv'
<1> SUFFICES ASSUME TypeInv, [Next]_vars PROVE TypeInv'
  OBVIOUS
<1>s. SlotsInv /\ SlotsInv' /\ \A x \in Instances : slots[x] # NoSlot => slots'[x] = slots[x]
  BY SlotsKept DEF TypeInv
<1>t. TypeOK
  BY DEF TypeInv
<1>m. ASSUME NEW cs, NEW m \in ToWorker PROVE Sent(cs, m) \in [Conns -> Seq(ToWorker)]
  BY <1>t, Sending DEF TypeOK
<1>q. ASSUME NEW c \in Conns
      PROVE  /\ toController[c] # << >> => Tail(toController[c]) \in Seq({"register", "ready"})
             /\ toWorker[c] # << >> => Tail(toWorker[c]) \in Seq(ToWorker)
             /\ Append(toController[c], "ready") \in Seq({"register", "ready"})
             /\ <<"register">> \in Seq({"register", "ready"})
             /\ InstanceOf(c) \in Instances
  BY <1>t, TailAt, AppendAt, InstancesTyped DEF TypeOK
<1>w. waiters \in Seq(Conns)
  BY <1>t DEF TypeOK
<1>h. /\ handler \in [Conns -> Handlers] /\ Len(waiters) \in Nat
      /\ \A i \in 1 .. Len(waiters) : waiters[i] \in Conns
  BY <1>t, <1>w DEF TypeOK
<1>j. Joined /\ Known /\ Waiting
  BY DEF TypeInv
<1>x. \A x \in Instances : slots'[x] \in 0 .. Limit(x) - 1 \cup {NoSlot}
  BY <1>s, LimitTyped DEF SlotsInv, SlotsTyped, OneNamePerSlot
<1> SUFFICES TypeOK' /\ Joined' /\ Known' /\ Waiting'
  BY <1>s DEF TypeInv
<1> USE <1>t
<1>k. ASSUME UNCHANGED <<handler, waiters>>, \A c \in Conns : worker'[c] = "off" => worker[c] = "off"
      PROVE  Joined' /\ Waiting'
  BY ZenonT(40), <1>k, <1>j, <1>s, <1>q DEF Joined, Waiting, TypeOK, Handlers, SlotOf
<1>1. ASSUME NEW c \in Conns, Refuse(c) PROVE TypeOK' /\ Joined' /\ Known' /\ Waiting'
  <2> USE DEF Refuse, TakesHello
  <2>1. TypeOK'
    BY <1>x, <1>1, <1>m, <1>q, Messages DEF TypeOK, Handlers, events, control, workers
  <2>2. Known' /\ Joined'
    BY <1>1, <1>j, <1>s, <1>q DEF Known, AllKnown, events, Joined, SlotOf, TypeOK, workers
  <2>3. Waiting'
    BY <1>h, <1>1, <1>j DEF Waiting, Handlers, events
  <2> QED
    BY <2>1, <2>2, <2>3
<1>2. ASSUME NEW c \in Conns, RegisterBroker(c) PROVE TypeOK' /\ Joined' /\ Known' /\ Waiting'
  <2> USE DEF RegisterBroker, TakesHello
  <2>1. ~IsSource(c) /\ Assign(InstanceOf(c)) \in BrokerSlots /\ SlotOf(c)' # NoSlot
    BY <1>2, <1>s, Hello DEF BrokerSlots
  <2>2. brokerAddresses' \in [BrokerSlots -> Conns \cup {NoConn}]
    BY <1>2, <2>1 DEF TypeOK
  <2>3. \A k \in BrokerSlots : brokerAddresses[k] # NoConn => brokerAddresses'[k] # NoConn
    BY <1>2, <2>1, InstancesTyped DEF TypeOK
  <2>4. brokersRegistered' \in BOOLEAN
    BY <1>2 DEF TypeOK
  <2>5. TypeOK'
    <3>1. toWorker' \in [Conns -> Seq(ToWorker)]
      BY <1>2, <1>m, Messages DEF TypeOK
    <3>2. brokerChannels' \in [BrokerSlots -> Conns \cup {NoConn}]
      BY <1>2, <2>1 DEF TypeOK
    <3>3. handler' \in [Conns -> Handlers]
      BY <1>2, <1>h DEF Handlers
    <3>4. toController' \in [Conns -> Seq({"register", "ready"})]
      BY <1>2, <1>q DEF TypeOK
    <3> QED
      BY <1>x, <1>2, <2>2, <2>4, <3>1, <3>2, <3>3, <3>4 DEF TypeOK, control, workers
  <2>6. Known'
    BY <1>2, <1>j, <2>3 DEF Known, AllKnown
  <2>7. Joined'
    BY <1>2, <1>j, <1>s, <1>q, <2>1 DEF Joined, SlotOf, TypeOK, workers
  <2>8. Waiting'
    BY <1>h, <1>2, <1>j DEF Waiting, Handlers
  <2> QED
    BY <2>5, <2>6, <2>7, <2>8
<1>3. ASSUME NEW c \in Conns, RegisterSource(c) PROVE TypeOK' /\ Joined' /\ Known' /\ Waiting'
  <2> USE DEF RegisterSource, TakesHello
  <2>1. IsSource(c) /\ SlotOf(c)' # NoSlot
    BY <1>3, <1>s, Hello
  <2>2. /\ waiters' \in Seq(Conns) /\ Len(waiters) \in Nat /\ Len(waiters') = Len(waiters) + 1
        /\ \A i \in 1 .. Len(waiters) : waiters'[i] = waiters[i]
        /\ waiters'[Len(waiters) + 1] = c
    BY <1>3, AppendAt DEF TypeOK
  <2>3. TypeOK'
    BY <1>x, <1>3, <1>q, <2>2 DEF TypeOK, Handlers, control, workers
  <2>4. Known' /\ Joined'
    BY <1>3, <1>j, <1>s, <1>q, <2>1 DEF Known, AllKnown, Joined, SlotOf, TypeOK, workers
  <2>5. Waiting'
    <3>1. \A i \in 1 .. Len(waiters) : waiters[i] # c /\ waiters[i] \in Conns
      BY <1>h, <1>3, <1>j DEF Waiting, Handlers
    <3>2. \A i \in 1 .. Len(waiters') : handler'[waiters'[i]] = "brokers"
      BY <1>h, <1>3, <1>j, <2>2, <3>1 DEF Waiting, Handlers
    <3>3. \A i, j \in 1 .. Len(waiters') : waiters'[i] = waiters'[j] => i = j
      BY <1>j, <2>2, <3>1 DEF Waiting
    <3>4. ASSUME NEW d \in Conns, handler'[d] = "brokers"
          PROVE  \E i \in 1 .. Len(waiters') : waiters'[i] = d
      <4>1. CASE d = c
        BY <2>2, <4>1
      <4>2. CASE d # c
        <5>1. handler[d] = "brokers"
          BY <1>3, <3>4, <4>2 DEF TypeOK
        <5> QED
          BY <1>j, <2>2, <5>1 DEF Waiting
      <4> QED
        BY <4>1, <4>2
    <3> QED
      BY <3>2, <3>3, <3>4 DEF Waiting
  <2> QED
    BY <2>3, <2>4, <2>5
<1>4. ASSUME NEW c \in Conns, AssignSource(c) PROVE TypeOK' /\ Joined' /\ Known' /\ Waiting'
  <2> USE DEF AssignSource
  <2>1. /\ waiters' \in Seq(Conns) /\ c = waiters[1] /\ Len(waiters) \in Nat /\ Len(waiters) >= 1
        /\ Len(waiters') = Len(waiters) - 1
        /\ \A i \in 1 .. Len(waiters) - 1 : waiters'[i] = waiters[i + 1]
    BY <1>4, TailAt DEF TypeOK
  <2>2. handler[c] = "brokers" /\ IsSource(c) /\ SlotOf(c) # NoSlot
    BY <1>j, <2>1 DEF Waiting, Joined
  <2>3. brokerAddresses \in Addresses
    BY <1>4, <1>j DEF Known, AllKnown, Addresses, TypeOK
  <2>4. TypeOK'
    <3>1. toWorker' \in [Conns -> Seq(ToWorker)]
      BY <1>4, <1>m, <2>3, Messages DEF TypeOK
    <3>2. channels' \in [SourceSlots -> Conns \cup {NoConn}]
      BY <1>4 DEF TypeOK
    <3>3. handler' \in [Conns -> Handlers]
      BY <1>4, <1>h DEF Handlers
    <3> QED
      BY <1>x, <1>4, <2>1, <3>1, <3>2, <3>3 DEF TypeOK, control, workers
  <2>5. Known'
    BY <1>4, <1>j DEF Known, AllKnown
  <2>6. Joined'
    BY <1>4, <1>j, <2>2 DEF Joined, SlotOf, TypeOK, workers
  <2>7. Waiting'
    <3>1. \A i \in 1 .. Len(waiters') : waiters'[i] # c /\ waiters'[i] \in Conns
      BY <1>j, <1>h, <2>1 DEF Waiting
    <3>2. \A i \in 1 .. Len(waiters') : handler'[waiters'[i]] = "brokers"
      BY <1>h, <1>4, <1>j, <2>1, <3>1 DEF Waiting, Handlers
    <3>3. \A i, j \in 1 .. Len(waiters') : waiters'[i] = waiters'[j] => i = j
      BY <1>j, <2>1 DEF Waiting
    <3>4. ASSUME NEW d \in Conns, handler'[d] = "brokers"
          PROVE  \E i \in 1 .. Len(waiters') : waiters'[i] = d
      <4>1. handler[d] = "brokers" /\ d # c
        BY <1>4, <3>4 DEF TypeOK
      <4>2. PICK i \in 1 .. Len(waiters) : waiters[i] = d
        BY <1>j, <4>1 DEF Waiting
      <4>3. i # 1 /\ i - 1 \in 1 .. Len(waiters')
        BY <2>1, <4>1, <4>2
      <4>4. waiters'[i - 1] = d
        BY <2>1, <4>2, <4>3
      <4> QED
        BY <4>3, <4>4
    <3> QED
      BY <3>2, <3>3, <3>4 DEF Waiting
  <2> QED
    BY <2>4, <2>5, <2>6, <2>7
<1>5. ASSUME NEW c \in Conns, SourceReady(c) PROVE TypeOK' /\ Joined' /\ Known' /\ Waiting'
  <2> USE DEF SourceReady
  <2>1. SlotOf(c) \in SourceSlots
    <3>1. slots[InstanceOf(c)] \in Nat /\ slots[InstanceOf(c)] < N
      BY <1>5, <1>j, <1>s, <1>q DEF Joined, SlotOf, SlotsInv, SlotsTyped, OneNamePerSlot, IsSource,
         Limit
    <3> QED
      BY <3>1, CountsTyped DEF SlotOf, SourceSlots
  <2>2. sourcesReady' \in BOOLEAN
    BY <1>5 DEF TypeOK
  <2>3. TypeOK'
    <3>1. toWorker' \in [Conns -> Seq(ToWorker)]
      BY <1>5, <1>m, Messages DEF TypeOK
    <3>2. handler' \in [Conns -> Handlers]
      BY <1>5, <1>h DEF Handlers
    <3>3. toController' \in [Conns -> Seq({"register", "ready"})] /\ readySources' \subseteq SourceSlots
      BY <1>5, <1>q, <2>1 DEF TypeOK
    <3> QED
      BY <1>x, <1>5, <2>2, <3>1, <3>2, <3>3 DEF TypeOK, control, workers
  <2>4. Known' /\ Joined'
    BY <1>5, <1>j DEF Known, AllKnown, Joined, SlotOf, TypeOK, workers
  <2>5. Waiting'
    BY <1>h, <1>5, <1>j DEF Waiting, Handlers
  <2> QED
    BY <2>3, <2>4, <2>5
<1>6. ASSUME NEW c \in Conns, ReadClosed(c) PROVE TypeOK' /\ Joined' /\ Known' /\ Waiting'
  <2> USE DEF ReadClosed
  <2>1. TypeOK'
    BY <1>x, <1>6 DEF TypeOK, Handlers, registry, events, control, workers
  <2>2. Known' /\ Joined'
    BY <1>6, <1>j DEF Known, AllKnown, Joined, SlotOf, TypeOK, workers, registry, events
  <2>3. Waiting'
    BY <1>h, <1>6, <1>j DEF Waiting, Handlers, events
  <2> QED
    BY <2>1, <2>2, <2>3
<1>7. ASSUME NEW c \in Conns, HandlerClosed(c) PROVE TypeOK' /\ Joined' /\ Known' /\ Waiting'
  <2> USE DEF HandlerClosed
  <2>1. TypeOK'
    BY <1>x, <1>7 DEF TypeOK, Handlers, StillReady, messages, events, control, workers
  <2>2. Known' /\ Joined'
    BY <1>7, <1>j DEF Known, AllKnown, Joined, SlotOf, TypeOK, workers, events
  <2>3. Waiting'
    BY <1>h, <1>7, <1>j DEF Waiting, Handlers, events
  <2> QED
    BY <2>1, <2>2, <2>3
<1>8. ASSUME Run \/ RequestStop PROVE TypeOK' /\ Joined' /\ Known' /\ Waiting'
  <2> USE DEF Run, StartTraffic, RequestStop, ShutDown, Exit
  <2>1. ASSUME StartTraffic PROVE TypeOK'
    <3>1. PICK sentTo \in 0 .. N :
            /\ toWorker' = Sent({channels[k] : k \in 0 .. sentTo - 1}, [type |-> "start"])
            /\ raised' = (sentTo < N)
            /\ pc' = IF sentTo < N THEN "shutdown" ELSE "rounds"
      BY <2>1
    <3>2. raised' \in BOOLEAN
      BY <3>1
    <3>3. toWorker' \in [Conns -> Seq(ToWorker)]
      BY <3>1, <1>m, Messages
    <3> QED
      BY <2>1, <3>1, <3>2, <3>3 DEF TypeOK, registry, events, workers
  <2>2. ASSUME RequestStop \/ ShutDown \/ Exit PROVE TypeOK'
    <3>1. ASSUME ShutDown PROVE toWorker' \in [Conns -> Seq(ToWorker)]
      BY <3>1, <1>m, Messages
    <3> QED
      BY <2>2, <3>1 DEF TypeOK, registry, events, workers, messages
  <2>3. Joined' /\ Known' /\ Waiting'
    BY <1>8, <1>j, <1>k DEF Known, AllKnown, registry, events, workers
  <2> QED
    BY <1>8, <2>1, <2>2, <2>3
<1>9. ASSUME NEW c \in Conns, Launch(c) PROVE TypeOK' /\ Joined' /\ Known' /\ Waiting'
  <2> USE DEF Launch
  <2>1. TypeOK'
    BY <1>x, <1>9, <1>q DEF TypeOK, Handlers, registry, events, control
  <2>2. Known' /\ Joined'
    BY <1>9, <1>j DEF Known, AllKnown, Joined, SlotOf, TypeOK, registry, events
  <2>3. Waiting'
    BY <1>h, <1>9, <1>j DEF Waiting, Joined, Handlers, events
  <2> QED
    BY <2>1, <2>2, <2>3
<1>10. ASSUME NEW c \in Conns, Worker(c) \/ WorkerCrashes(c)
       PROVE  TypeOK' /\ Joined' /\ Known' /\ Waiting'
  <2>1. UNCHANGED <<registry, events, control, handler>>
    BY <1>10 DEF Worker, BrokerAssigned, SourceAssigned, SourceConnected, SourceStarts, WorkerStops,
                 SourceGivesUp, WorkerSeesEof, WorkerCrashes, Ends, Reads
  <2>0. \A d \in Conns : worker'[d] = "off" => worker[d] = "off"
    BY <1>10 DEF Worker, BrokerAssigned, SourceAssigned, SourceConnected, SourceStarts, WorkerStops,
                 SourceGivesUp, WorkerSeesEof, WorkerCrashes, Ends, TypeOK
  <2>2. Joined' /\ Known' /\ Waiting'
    BY <2>0, <2>1, <1>j, <1>k DEF Known, AllKnown, registry, events
  <2>3. CASE Ends(c)
    <3>1. toWorker' \in [Conns -> Seq(ToWorker)]
      BY <2>3 DEF Ends, TypeOK
    <3> QED
      BY <1>x, <2>1, <2>2, <2>3, <3>1 DEF Ends, TypeOK, registry, events, control
  <2>4. CASE SourceConnected(c)
    <3>1. toController' \in [Conns -> Seq({"register", "ready"})]
      BY <2>4, <1>q DEF SourceConnected, TypeOK
    <3> QED
      BY <1>x, <2>2, <2>4, <3>1 DEF SourceConnected, TypeOK, registry, events, control
  <2>5. CASE BrokerAssigned(c) \/ SourceStarts(c)
    <3>1. toWorker' \in [Conns -> Seq(ToWorker)]
      BY <2>5, <1>q DEF BrokerAssigned, SourceStarts, Reads, TypeOK
    <3>2. starts' \in [Conns -> Nat]
      <4>1. starts \in [Conns -> Nat]
        BY DEF TypeOK
      <4>2. CASE starts' = [starts EXCEPT ![c] = @ + 1]
        BY <4>1, <4>2
      <4>3. CASE starts' = starts
        BY <4>1, <4>3
      <4> QED
        BY <2>5, <4>2, <4>3 DEF BrokerAssigned, SourceStarts
    <3> QED
      BY <1>x, <2>1, <2>2, <2>5, <3>1, <3>2 DEF BrokerAssigned, SourceStarts, Reads, TypeOK,
         registry, events,
                                      control
  <2>6. CASE SourceAssigned(c)
    <3>1. toWorker' \in [Conns -> Seq(ToWorker)]
      BY <2>6, <1>q DEF SourceAssigned, Reads, TypeOK
    <3>2. brokersOf' \in [Conns -> Addresses \cup {<< >>}]
      BY <2>6 DEF SourceAssigned, TypeOK
    <3> QED
      BY <1>x, <2>1, <2>2, <2>6, <3>1, <3>2 DEF SourceAssigned, Reads, TypeOK, registry, events,
         control
  <2> QED
    BY <1>10, <2>2, <2>3, <2>4, <2>5, <2>6 DEF Worker, WorkerStops, SourceGivesUp, WorkerSeesEof,
                                               WorkerCrashes
<1>11. CASE UNCHANGED vars
  <2>1. TypeOK'
    BY <1>x, <1>11 DEF vars, TypeOK, registry, events, control, messages, workers
  <2> QED
    BY <2>1, <1>11, <1>j, <1>k DEF vars, Known, AllKnown, registry, events, workers
<1> QED
  BY <1>1, <1>2, <1>3, <1>4, <1>5, <1>6, <1>7, <1>8, <1>9, <1>10, <1>11 DEF Next, Handler

-----------------------------------------------------------------------------
\* a connection is up while its process lives
LinkFollows ==
  \A c \in Conns :
    /\ worker[c] = "off" <=> link[c] = "unused"
    /\ worker[c] = "ended" <=> link[c] \in {"cut", "closed"}

\* how far the process and the messages are, given where the handler is
InStep ==
  \A c \in Conns :
    /\ worker[c] = "off" <=> handler[c] = "none"
    /\ handler[c] \in {"none", "hello", "brokers"} => toWorker[c] = << >> /\ starts[c] = 0
    /\ handler[c] = "hello" => toController[c] = <<"register">>
    /\ handler[c] \in {"none", "brokers"} => toController[c] = << >>
    /\ handler[c] \in {"hello", "brokers"} => worker[c] \in {"registering", "ended"} /\ link[c] # "closed"
    /\ link[c] = "closed" => toController[c] = << >>
    /\ handler[c] # "hello" /\ toController[c] # << >> => worker[c] \in {"running", "ended"}
    /\ handler[c] = "serving" /\ IsSource(c) => worker[c] \in {"running", "ended"}

\* a channel is that of a process of its slot, which was sent its assignment
ChannelsOf ==
  /\ \A k \in SourceSlots : channels[k] # NoConn =>
       /\ IsSource(channels[k]) /\ SlotOf(channels[k]) = k
       /\ handler[channels[k]] \in {"ready", "serving", "done"}
  /\ \A k \in BrokerSlots : brokerChannels[k] # NoConn =>
       /\ ~IsSource(brokerChannels[k]) /\ SlotOf(brokerChannels[k]) = k
       /\ handler[brokerChannels[k]] = "serving"

StepInv == LinkFollows /\ InStep /\ ChannelsOf

\* No process is up at first.
LEMMA StepInit == Init => StepInv
  BY InstancesTyped DEF Init, StepInv, LinkFollows, InStep, ChannelsOf

\* A handler, its process and the messages between them stay in step.
LEMMA StepNext == TypeInv /\ TypeInv' /\ StepInv /\ [Next]_vars => StepInv'
<1> SUFFICES ASSUME TypeInv, TypeInv', StepInv, [Next]_vars PROVE StepInv'
  OBVIOUS
<1>s. SlotsInv /\ SlotsInv' /\ \A x \in Instances : slots[x] # NoSlot => slots'[x] = slots[x]
  BY SlotsKept DEF TypeInv
<1>t. /\ handler \in [Conns -> Handlers] /\ link \in [Conns -> {"unused", "up", "cut", "closed"}]
      /\ worker \in [Conns -> {"off", "registering", "connecting", "running", "ended"}]
      /\ starts \in [Conns -> Nat]
      /\ channels \in [SourceSlots -> Conns \cup {NoConn}]
      /\ brokerChannels \in [BrokerSlots -> Conns \cup {NoConn}]
  BY DEF TypeInv, TypeOK
<1>q. /\ toWorker \in [Conns -> Seq(ToWorker)]
      /\ toController \in [Conns -> Seq({"register", "ready"})]
  BY DEF TypeInv, TypeOK
<1>d. \A d \in Conns : InstanceOf(d) \in Instances /\ d # NoConn
  BY InstancesTyped
<1>j. Joined
  BY DEF TypeInv
<1>i. LinkFollows /\ InStep /\ ChannelsOf
  BY DEF StepInv
<1>c. ASSUME UNCHANGED <<channels, brokerChannels>>,
             \A d \in Conns : handler[d] \in {"ready", "serving", "done"} =>
               handler'[d] = handler[d] \/ (handler[d] = "ready" /\ handler'[d] \in {"serving", "done"})
      PROVE  ChannelsOf'
  <2>1. ASSUME NEW k \in SourceSlots, channels[k] # NoConn
        PROVE  /\ IsSource(channels[k]) /\ SlotOf(channels[k])' = k
               /\ handler'[channels[k]] \in {"ready", "serving", "done"}
    <3>1. channels[k] \in Conns /\ SlotOf(channels[k]) = k /\ k # NoSlot
      BY <2>1, <1>t, <1>i, InstancesTyped DEF ChannelsOf, SourceSlots
    <3> QED
      BY <2>1, <3>1, <1>c, <1>i, <1>s, <1>d DEF ChannelsOf, SlotOf
  <2>2. ASSUME NEW k \in BrokerSlots, brokerChannels[k] # NoConn
        PROVE  /\ ~IsSource(brokerChannels[k]) /\ SlotOf(brokerChannels[k])' = k
               /\ handler'[brokerChannels[k]] = "serving"
    <3>1. brokerChannels[k] \in Conns /\ SlotOf(brokerChannels[k]) = k /\ k # NoSlot
      BY <2>2, <1>t, <1>i, InstancesTyped DEF ChannelsOf, BrokerSlots
    <3> QED
      BY <2>2, <3>1, <1>c, <1>i, <1>s, <1>d DEF ChannelsOf, SlotOf
  <2> QED
    BY <2>1, <2>2, <1>c DEF ChannelsOf
<1>h. ASSUME NEW c \in Conns, TakesHello(c)
      PROVE  toController'[c] = << >> /\ \A d \in Conns : d # c => toController'[d] = toController[d]
  BY <1>h, <1>q, <1>i DEF TakesHello, InStep
<1>1. ASSUME NEW c \in Conns, Refuse(c) PROVE StepInv'
  <2>1. \A d \in Conns : d # c => toWorker'[d] = toWorker[d]
    BY <1>1, <1>q, Sending, Messages DEF Refuse
  <2>2. TakesHello(c) /\ handler[c] = "hello"
    BY <1>1 DEF Refuse, TakesHello
  <2>3. LinkFollows'
    BY <1>1, <1>i DEF Refuse, LinkFollows, workers
  <2>4. InStep'
    BY ZenonT(40), <1>1, <1>h, <1>i, <1>t, <2>1, <2>2 DEF Refuse, InStep, workers
  <2>5. ChannelsOf'
    BY <1>1, <1>c, <1>t, <2>2 DEF Refuse
  <2> QED
    BY <2>3, <2>4, <2>5 DEF StepInv
<1>2. ASSUME NEW c \in Conns, RegisterBroker(c) PROVE StepInv'
  <2>1. \A d \in Conns : d # c => toWorker'[d] = toWorker[d]
    BY <1>2, <1>q, Sending, Messages DEF RegisterBroker
  <2>2. TakesHello(c) /\ handler[c] = "hello"
    BY <1>2 DEF RegisterBroker, TakesHello
  <2>3. LinkFollows'
    BY <1>2, <1>i DEF RegisterBroker, LinkFollows, workers
  <2>4. InStep'
    <3>1. /\ handler'[c] \in {"serving", "done"} /\ ~IsSource(c)
          /\ \A d \in Conns : d # c => handler'[d] = handler[d]
          /\ UNCHANGED <<link, workers>>
      BY <1>2, <1>t DEF RegisterBroker
    <3> QED
      BY <1>h, <1>i, <2>1, <2>2, <3>1 DEF InStep, workers
  <2>5. ChannelsOf'
    <3>1. ASSUME UNCHANGED brokerChannels PROVE ChannelsOf'
      BY <1>2, <1>c, <1>t, <2>2, <3>1 DEF RegisterBroker
    <3>2. ASSUME brokerChannels' = [brokerChannels EXCEPT ![Assign(InstanceOf(c))] = c],
                 handler' = [handler EXCEPT ![c] = "serving"]
          PROVE  ChannelsOf'
      <4>1. /\ SlotOf(c)' = Assign(InstanceOf(c)) /\ Assign(InstanceOf(c)) \in BrokerSlots
            /\ ~IsSource(c)
        BY <1>2, <1>s, Hello DEF RegisterBroker, BrokerSlots
      <4>2. ASSUME NEW k \in BrokerSlots, brokerChannels'[k] # NoConn
            PROVE  /\ ~IsSource(brokerChannels'[k]) /\ SlotOf(brokerChannels[k])' = k
                   /\ handler'[brokerChannels'[k]] = "serving"
        <5>1. CASE k = Assign(InstanceOf(c))
          BY <3>2, <4>1, <5>1, <1>t
        <5>2. CASE k # Assign(InstanceOf(c))
          <6>1. /\ brokerChannels'[k] = brokerChannels[k] /\ brokerChannels[k] \in Conns
                /\ SlotOf(brokerChannels[k]) = k /\ k # NoSlot /\ ~IsSource(brokerChannels[k])
                /\ handler[brokerChannels[k]] = "serving"
            BY <3>2, <4>2, <5>2, <1>t, <1>i, InstancesTyped DEF ChannelsOf, BrokerSlots
          <6> QED
            BY <6>1, <3>2, <2>2, <1>s, <1>d, <1>t DEF SlotOf
        <5> QED
          BY <5>1, <5>2
      <4>3. ASSUME NEW k \in SourceSlots, channels'[k] # NoConn
            PROVE  /\ IsSource(channels'[k]) /\ SlotOf(channels[k])' = k
                   /\ handler'[channels'[k]] \in {"ready", "serving", "done"}
        <5>1. /\ channels'[k] = channels[k] /\ channels[k] \in Conns /\ IsSource(channels[k])
              /\ SlotOf(channels[k]) = k /\ k # NoSlot
              /\ handler[channels[k]] \in {"ready", "serving", "done"}
          <6>1. channels' = channels
            BY <1>2 DEF RegisterBroker
          <6> QED
            BY <4>3, <6>1, <1>t, <1>i, InstancesTyped DEF ChannelsOf, SourceSlots
        <5> QED
          BY <5>1, <3>2, <2>2, <1>s, <1>d, <1>t DEF SlotOf
      <4> QED
        BY <4>2, <4>3 DEF ChannelsOf
    <3> QED
      BY <1>2, <3>1, <3>2 DEF RegisterBroker
  <2> QED
    BY <2>3, <2>4, <2>5 DEF StepInv
<1>3. ASSUME NEW c \in Conns, RegisterSource(c) PROVE StepInv'
  <2>1. TakesHello(c) /\ handler[c] = "hello"
    BY <1>3 DEF RegisterSource, TakesHello
  <2>2. LinkFollows'
    BY <1>3, <1>i DEF RegisterSource, LinkFollows, workers
  <2>3. InStep'
    BY <1>3, <1>h, <1>i, <1>t, <2>1 DEF RegisterSource, InStep, workers
  <2>4. ChannelsOf'
    BY <1>3, <1>c, <1>t, <2>1 DEF RegisterSource
  <2> QED
    BY <2>2, <2>3, <2>4 DEF StepInv
<1>4. ASSUME NEW c \in Conns, AssignSource(c) PROVE StepInv'
  <2>1. handler[c] = "brokers" /\ IsSource(c) /\ SlotOf(c) # NoSlot /\ brokerAddresses \in Addresses
    <3>1. waiters \in Seq(Conns) /\ Waiting /\ Known /\ brokerAddresses \in [BrokerSlots -> Conns \cup {NoConn}]
      BY DEF TypeInv, TypeOK
    <3>2. handler[c] = "brokers"
      BY <1>4, <3>1, TailAt DEF AssignSource, Waiting
    <3>3. brokerAddresses \in Addresses
      BY <1>4, <3>1 DEF AssignSource, Known, AllKnown, Addresses
    <3> QED
      BY <3>2, <3>3, <1>j DEF Joined
  <2>2. SlotOf(c)' = SlotOf(c)
    BY <1>4, <2>1 DEF AssignSource, SlotOf
  <2>3. \A d \in Conns : d # c => toWorker'[d] = toWorker[d]
    BY <1>4, <1>q, <2>1, Sending, Messages DEF AssignSource
  <2>4. LinkFollows'
    BY <1>4, <1>i DEF AssignSource, LinkFollows, workers
  <2>5. InStep'
    BY <1>4, <1>i, <1>t, <2>1, <2>3 DEF AssignSource, InStep, workers
  <2>6. ChannelsOf'
    <3>1. CASE UNCHANGED channels
      BY <1>4, <1>c, <1>t, <2>1, <3>1 DEF AssignSource
    <3>2. CASE channels' = [channels EXCEPT ![SlotOf(c)] = c] /\ handler' = [handler EXCEPT ![c] = "ready"]
      <4>1. UNCHANGED <<slots, brokerChannels>>
        BY <1>4 DEF AssignSource
      <4>2. ASSUME NEW k \in SourceSlots, channels'[k] # NoConn
            PROVE  /\ IsSource(channels'[k]) /\ SlotOf(channels'[k]) = k
                   /\ handler'[channels'[k]] \in {"ready", "serving", "done"}
        <5>1. CASE k = SlotOf(c)
          BY <3>2, <5>1, <2>1, <1>t
        <5>2. CASE k # SlotOf(c)
          BY <3>2, <4>2, <5>2, <1>t, <1>i, <2>1 DEF ChannelsOf
        <5> QED
          BY <5>1, <5>2
      <4>3. ASSUME NEW k \in BrokerSlots, brokerChannels[k] # NoConn
            PROVE  /\ ~IsSource(brokerChannels[k]) /\ SlotOf(brokerChannels[k]) = k
                   /\ handler'[brokerChannels[k]] = "serving"
        BY <3>2, <4>3, <1>t, <1>i, <2>1 DEF ChannelsOf
      <4> QED
        BY <4>1, <4>2, <4>3 DEF ChannelsOf, SlotOf
    <3> QED
      BY <1>4, <3>1, <3>2 DEF AssignSource
  <2> QED
    BY <2>4, <2>5, <2>6 DEF StepInv
<1>5. ASSUME NEW c \in Conns, SourceReady(c) PROVE StepInv'
  <2>1. handler[c] = "ready" /\ worker[c] \in {"running", "ended"} /\ IsSource(c)
    BY <1>5, <1>i, <1>j DEF SourceReady, InStep, Joined
  <2>2. \A d \in Conns : d # c => toWorker'[d] = toWorker[d]
    BY <1>5, <1>q, Sending, Messages DEF SourceReady
  <2>3. \A d \in Conns : d # c => toController'[d] = toController[d]
    BY <1>5, <1>q DEF SourceReady
  <2>4. LinkFollows'
    BY <1>5, <1>i DEF SourceReady, LinkFollows, workers
  <2>5. InStep'
    BY <1>5, <1>i, <1>t, <2>1, <2>2, <2>3 DEF SourceReady, InStep, workers
  <2>6. ChannelsOf'
    BY <1>5, <1>c, <1>t, <2>1 DEF SourceReady
  <2> QED
    BY <2>4, <2>5, <2>6 DEF StepInv
<1>6. ASSUME NEW c \in Conns, ReadClosed(c) PROVE StepInv'
  <2>1. handler[c] # "hello" /\ handler' = handler /\ worker[c] = "ended"
    BY <1>6, <1>i DEF ReadClosed, InStep, LinkFollows
  <2>2. toController'[c] = << >> /\ \A d \in Conns : d # c => toController'[d] = toController[d]
    BY <1>6, <1>q DEF ReadClosed
  <2>3. LinkFollows'
    BY <1>6, <1>i, <1>t DEF ReadClosed, LinkFollows, workers
  <2>4. InStep'
    BY <1>6, <1>i, <1>t, <2>1, <2>2 DEF ReadClosed, InStep, workers
  <2>5. ChannelsOf'
    BY <1>6, <1>c, <1>t, <2>1 DEF ReadClosed, registry
  <2> QED
    BY <2>3, <2>4, <2>5 DEF StepInv
<1>7. ASSUME NEW c \in Conns, HandlerClosed(c) PROVE StepInv'
  <2>1. handler[c] = "serving" /\ handler' = [handler EXCEPT ![c] = "done"] /\ slots' = slots
    BY <1>7 DEF HandlerClosed
  <2>2. LinkFollows'
    BY <1>7, <1>i DEF HandlerClosed, LinkFollows, workers
  <2>3. InStep'
    BY <1>7, <1>i, <1>t, <2>1 DEF HandlerClosed, InStep, workers, messages
  <2>4. ASSUME NEW k \in SourceSlots, channels'[k] # NoConn
        PROVE  channels'[k] = channels[k] /\ (channels[k] = c => handler'[c] = "done")
    BY <1>7, <2>4, <1>t DEF HandlerClosed
  <2>5. ASSUME NEW k \in BrokerSlots, brokerChannels'[k] # NoConn
        PROVE  brokerChannels'[k] = brokerChannels[k] /\ brokerChannels[k] # c
    <3>1. CASE IsSource(c)
      BY <1>7, <2>5, <3>1, <1>t, <1>i DEF HandlerClosed, ChannelsOf
    <3>2. CASE ~IsSource(c)
      BY <1>7, <2>5, <3>2, <1>t DEF HandlerClosed
    <3> QED
      BY <3>1, <3>2
  <2>6. ChannelsOf'
    BY <2>1, <2>4, <2>5, <1>t, <1>i DEF ChannelsOf, SlotOf
  <2> QED
    BY <2>2, <2>3, <2>6 DEF StepInv
<1>8. ASSUME Run \/ RequestStop PROVE StepInv'
  <2>1. UNCHANGED <<registry, handler, link, toController, workers>>
    BY <1>8 DEF Run, StartTraffic, RequestStop, ShutDown, Exit, messages
  <2>2. ASSUME NEW d \in Conns, handler[d] \in {"none", "hello", "brokers"}
        PROVE  toWorker'[d] = toWorker[d]
    <3>1. ASSUME StartTraffic PROVE toWorker'[d] = toWorker[d]
      <4>1. PICK n \in 0 .. N :
              /\ \A k \in 0 .. n - 1 : channels[k] # NoConn
              /\ n \in {N} \cup {k \in SourceSlots : channels[k] = NoConn \/ MayRaise(channels[k])}
              /\ toWorker' = Sent({channels[k] : k \in 0 .. n - 1}, [type |-> "start"])
        BY <3>1 DEF StartTraffic
      <4>2. 0 .. n - 1 \subseteq SourceSlots
        BY CountsTyped DEF SourceSlots
      <4>3. d \notin {channels[k] : k \in 0 .. n - 1}
        BY <4>1, <4>2, <2>2, <1>i, <1>t DEF ChannelsOf
      <4> QED
        <5> DEFINE cs == {channels[k] : k \in 0 .. n - 1}
        <5>1. toWorker' = Sent(cs, [type |-> "start"]) /\ d \notin cs
          BY <4>1, <4>3
        <5> HIDE DEF cs
        <5> QED
          BY <5>1, <1>q, Sending, Messages
    <3>2. ASSUME ShutDown PROVE toWorker'[d] = toWorker[d]
      <4>1. d \notin {channels[k] : k \in SourceSlots} \cup {brokerChannels[k] : k \in BrokerSlots}
        BY <2>2, <1>i, <1>t, <1>d DEF ChannelsOf
      <4> QED
        BY <3>2, <4>1, <1>q, Sending, Messages DEF ShutDown
    <3> QED
      BY <1>8, <3>1, <3>2 DEF Run, RequestStop, Exit, messages
  <2>3. LinkFollows'
    BY <2>1, <1>i DEF LinkFollows, workers
  <2>4. InStep'
    BY <2>1, <2>2, <1>i DEF InStep, workers
  <2>5. ChannelsOf'
    BY <2>1, <1>c DEF registry
  <2> QED
    BY <2>3, <2>4, <2>5 DEF StepInv
<1>9. ASSUME NEW c \in Conns, Launch(c) PROVE StepInv'
  <2>1. handler[c] = "none" /\ toController'[c] = <<"register">> /\ worker[c] = "off"
        /\ \A d \in Conns : d # c => toController'[d] = toController[d]
    BY <1>9, <1>q, <1>i DEF Launch, InStep
  <2>2. LinkFollows'
    BY <1>9, <1>i, <1>t DEF Launch, LinkFollows
  <2>3. InStep'
    BY <1>9, <1>i, <1>t, <2>1 DEF Launch, InStep
  <2>4. ChannelsOf'
    BY <1>9, <2>1, <1>c, <1>t DEF Launch, registry
  <2> QED
    BY <2>2, <2>3, <2>4 DEF StepInv
<1>10. ASSUME NEW c \in Conns, Worker(c) \/ WorkerCrashes(c) PROVE StepInv'
  <2>1. UNCHANGED <<registry, handler>>
    BY <1>10 DEF Worker, BrokerAssigned, SourceAssigned, SourceConnected, SourceStarts, WorkerStops,
                 SourceGivesUp, WorkerSeesEof, WorkerCrashes, Ends, Reads
  <2>2. ChannelsOf'
    BY <2>1, <1>c DEF registry
  <2>3. CASE Ends(c) /\ Alive(c)
    <3>1. link[c] = "up" /\ worker[c] \notin {"off", "ended"}
      BY <2>3, <1>i, <1>t DEF Alive, LinkFollows
    <3>2. toWorker'[c] = << >> /\ \A d \in Conns : d # c => toWorker'[d] = toWorker[d]
      BY <2>3, <1>q DEF Ends
    <3> QED
      BY <2>3, <2>2, <3>1, <3>2, <1>i, <1>t DEF Ends, LinkFollows, InStep, StepInv
  <2>4. CASE SourceConnected(c)
    <3>1. worker[c] = "connecting" /\ link[c] = "up"
      BY <2>4, <1>i, <1>t DEF SourceConnected, LinkFollows
    <3>2. \A d \in Conns : d # c => toController'[d] = toController[d]
      BY <2>4, <1>q DEF SourceConnected
    <3> QED
      BY <2>4, <2>2, <3>1, <3>2, <1>i, <1>t DEF SourceConnected, LinkFollows, InStep, StepInv
  <2>5. CASE BrokerAssigned(c) \/ SourceStarts(c) \/ SourceAssigned(c)
    <3>1. toWorker[c] # << >> /\ link[c] = "up" /\ link' = link /\ toController' = toController
          /\ \A d \in Conns : d # c => toWorker'[d] = toWorker[d]
      BY <2>5, <1>q DEF BrokerAssigned, SourceStarts, SourceAssigned, Reads
    <3>2. \A d \in Conns : d # c => worker'[d] = worker[d] /\ starts'[d] = starts[d]
      BY <2>5, <1>t DEF BrokerAssigned, SourceStarts, SourceAssigned
    <3>3. handler[c] \notin {"none", "hello", "brokers"}
      BY <3>1, <1>i DEF InStep
    <3>4. CASE SourceStarts(c)
      BY SMTT(20), <2>1, <2>2, <3>1, <3>2, <3>3, <3>4, <1>i, <1>t DEF SourceStarts, LinkFollows, InStep,
         StepInv
    <3>5. CASE SourceAssigned(c)
      BY <2>1, <2>2, <3>1, <3>2, <3>3, <3>5, <1>i, <1>t DEF SourceAssigned, LinkFollows, InStep,
         StepInv
    <3>6. CASE BrokerAssigned(c)
      BY <2>1, <2>2, <3>1, <3>2, <3>3, <3>6, <1>i, <1>t DEF BrokerAssigned, LinkFollows, InStep,
         StepInv
    <3> QED
      BY <2>5, <3>4, <3>5, <3>6
  <2> QED
    BY <1>10, <2>3, <2>4, <2>5, <1>t DEF Worker, WorkerStops, SourceGivesUp, WorkerSeesEof,
       WorkerCrashes, Alive
<1>11. CASE UNCHANGED vars
  BY <1>11, <1>i, <1>c DEF vars, registry, workers, messages, StepInv, LinkFollows, InStep
<1> QED
  BY <1>1, <1>2, <1>3, <1>4, <1>5, <1>6, <1>7, <1>8, <1>9, <1>10, <1>11 DEF Next, Handler

-----------------------------------------------------------------------------
\* the process was started, and may be over
Launched(c) == worker[c] # "off"

\* the process is over and the controller will hear no more of it
Gone(c) == worker[c] = "ended" /\ toController[c] = << >> /\ handler[c] \in {"brokers", "ready", "done"}

SameName(c, d) == InstanceOf(c) = InstanceOf(d)

\* of two processes of one name one is gone
OneLive ==
  \A c, d \in Conns :
    c # d /\ SameName(c, d) /\ Launched(c) /\ Launched(d) => Gone(c) \/ Gone(d)

\* ... and the other waits behind it
WaitOrder ==
  \A i \in 1 .. Len(waiters) : \A d \in Conns :
    d # waiters[i] /\ SameName(d, waiters[i]) /\ Launched(d) /\ ~Gone(d) =>
      handler[d] = "hello" \/ \E j \in i + 1 .. Len(waiters) : waiters[j] = d

\* a process that may yet say it is ready is the one in channels
ReadyChannel ==
  \A d \in Conns : handler[d] = "ready" /\ ~Gone(d) => channels[SlotOf(d)] = d

\* the process is not up yet, or will neither be ready nor take a channel
Superseded(c) == handler[c] = "none" \/ (Gone(c) /\ handler[c] # "brokers")

\* ReadyIsServed, and no other process of the name is in the way
ReadyServed ==
  ~t0Set => \A k \in readySources :
    /\ channels[k] # NoConn /\ handler[channels[k]] = "serving"
    /\ \A c \in Conns : c # channels[k] /\ SameName(c, channels[k]) => Superseded(c)

\* every slot is taken and every source of a slot served, or lost
AllServed ==
  /\ \A k \in SourceSlots : \E x \in SourceInstances : slots[x] = k
  /\ \A c \in Conns : IsSource(c) /\ SlotOf(c) # NoSlot => handler[c] = "serving" \/ Superseded(c)
  /\ \A k \in SourceSlots : channels[k] # NoConn => handler[channels[k]] = "serving"

\* ... as long as run() has not gone on from sources_ready
WhenReady == pc = "waiting" /\ sourcesReady => AllServed

NotStarted == pc = "waiting" => ~t0Set

LiveInv == OneLive /\ WaitOrder

PromptInv == ReadyChannel /\ ReadyServed /\ WhenReady /\ NotStarted

\* No process is up and no source ready at first.
LEMMA PromptInit == Init => LiveInv /\ PromptInv
<1> SUFFICES ASSUME Init PROVE LiveInv /\ PromptInv
  OBVIOUS
<1>1. /\ \A c \in Conns : worker[c] = "off" /\ handler[c] = "none"
      /\ Len(waiters) = 0 /\ readySources = {} /\ pc = "waiting" /\ ~t0Set /\ ~sourcesReady
  BY DEF Init
<1>2. LiveInv
  BY <1>1 DEF LiveInv, OneLive, WaitOrder, Launched
<1>3. PromptInv
  BY <1>1 DEF PromptInv, ReadyChannel, ReadyServed, WhenReady, NotStarted
<1> QED
  BY <1>2, <1>3

\* Processes of one name have one slot, of different names different ones.
LEMMA SlotTellsName ==
  SlotsInv => \A c, d \in Conns :
    (IsSource(c) <=> IsSource(d)) /\ SlotOf(c) # NoSlot /\ SlotOf(c) = SlotOf(d) => SameName(c, d)
<1> SUFFICES ASSUME SlotsInv, NEW c \in Conns, NEW d \in Conns, IsSource(c) <=> IsSource(d),
                    SlotOf(c) # NoSlot, SlotOf(c) = SlotOf(d)
             PROVE  SameName(c, d)
  OBVIOUS
<1>1. InstanceOf(c) \in Instances /\ InstanceOf(d) \in Instances
  BY InstancesTyped
<1>2. InstanceOf(d) \in Holders(InstanceOf(c))
  BY <1>1 DEF Holders, IsSource, SlotOf, Instances
<1> QED
  BY <1>1, <1>2 DEF SlotsInv, OneNamePerSlot, SlotOf, SameName

\* A handler or a worker changes what belongs to its own connection.
LEMMA OthersUntouched ==
  ASSUME TypeInv, NEW c \in Conns, NEW d \in Conns, c # d,
         Handler(c) \/ Worker(c) \/ Launch(c) \/ WorkerCrashes(c)
  PROVE  /\ handler'[d] = handler[d] /\ worker'[d] = worker[d] /\ link'[d] = link[d]
         /\ toController'[d] = toController[d] /\ toWorker'[d] = toWorker[d]
         /\ starts'[d] = starts[d] /\ brokersOf'[d] = brokersOf[d]
<1>t. /\ handler \in [Conns -> Handlers] /\ link \in [Conns -> {"unused", "up", "cut", "closed"}]
      /\ worker \in [Conns -> {"off", "registering", "connecting", "running", "ended"}]
      /\ starts \in [Conns -> Nat] /\ brokersOf \in [Conns -> Addresses \cup {<< >>}]
  BY DEF TypeInv, TypeOK
<1>q. /\ toWorker \in [Conns -> Seq(ToWorker)]
      /\ toController \in [Conns -> Seq({"register", "ready"})]
  BY DEF TypeInv, TypeOK
<1>b. brokersRegistered => brokerAddresses \in Addresses
  <2>1. brokerAddresses \in [BrokerSlots -> Conns \cup {NoConn}] /\ Known
    BY DEF TypeInv, TypeOK
  <2> QED
    BY <2>1 DEF Known, AllKnown, Addresses
<1>m. ASSUME NEW m \in ToWorker PROVE Sent({c}, m)[d] = toWorker[d]
  BY <1>q, Sending
<1>1. CASE Refuse(c)
  BY <1>1, <1>t, <1>q, <1>m, Messages DEF Refuse, TakesHello, workers
<1>2. CASE RegisterBroker(c)
  BY <1>2, <1>t, <1>q, <1>m, Messages DEF RegisterBroker, TakesHello, workers
<1>3. CASE RegisterSource(c)
  BY <1>3, <1>t, <1>q DEF RegisterSource, TakesHello, workers
<1>4. CASE AssignSource(c)
  <2>1. /\ brokerAddresses \in Addresses /\ UNCHANGED <<link, toController, workers>>
        /\ handler' = [handler EXCEPT ![c] = "ready"] \/ handler' = [handler EXCEPT ![c] = "done"]
        /\ \/ toWorker' = Sent({c}, [type |-> "assignment", brokers |-> brokerAddresses])
           \/ toWorker' = toWorker
    BY <1>4, <1>b DEF AssignSource
  <2>2. toWorker'[d] = toWorker[d]
    <3> DEFINE m == [type |-> "assignment", brokers |-> brokerAddresses]
    <3>1. m \in ToWorker
      BY <2>1, Messages
    <3>2. toWorker' = Sent({c}, m) \/ toWorker' = toWorker
      BY <2>1
    <3> HIDE DEF m
    <3> QED
      BY <3>1, <3>2, <1>m
  <2> QED
    BY <2>1, <2>2, <1>t DEF workers
<1>5. CASE SourceReady(c)
  BY <1>5, <1>t, <1>q, <1>m, Messages DEF SourceReady, workers
<1>6. CASE ReadClosed(c)
  BY <1>6, <1>t, <1>q DEF ReadClosed, workers
<1>7. CASE HandlerClosed(c)
  BY <1>7, <1>t, <1>q DEF HandlerClosed, workers, messages
<1>8. CASE Launch(c)
  BY <1>8, <1>t, <1>q DEF Launch
<1>9. CASE Ends(c)
  BY <1>9, <1>t, <1>q DEF Ends
<1>10. CASE SourceConnected(c)
  BY <1>10, <1>t, <1>q DEF SourceConnected
<1>11. CASE BrokerAssigned(c)
  BY <1>11, <1>t, <1>q DEF BrokerAssigned, Reads
<1>12. CASE SourceAssigned(c)
  BY <1>12, <1>t, <1>q DEF SourceAssigned, Reads
<1>13. CASE SourceStarts(c)
  BY <1>13, <1>t, <1>q DEF SourceStarts, Reads
<1> QED
  BY <1>1, <1>2, <1>3, <1>4, <1>5, <1>6, <1>7, <1>8, <1>9, <1>10, <1>11, <1>12, <1>13
  DEF Handler, Worker, WorkerStops, SourceGivesUp, WorkerSeesEof, WorkerCrashes

\* The controller's loop and a stop request leave the connections as they are.
LEMMA RunTouchesNone ==
  Run \/ RequestStop \/ UNCHANGED vars =>
    UNCHANGED <<handler, worker, link, toController, starts, brokersOf, waiters, channels,
    brokerChannels,
                brokerAddresses, readySources, slots, brokersRegistered, sourcesReady>>
  BY DEF Run, StartTraffic, RequestStop, ShutDown, Exit, vars, registry, events, messages, workers

\* What a step does to its own connection, as far as the handler and the worker go.
LEMMA OwnMoves ==
  ASSUME TypeInv, StepInv, NEW d \in Conns,
         Handler(d) \/ Worker(d) \/ Launch(d) \/ WorkerCrashes(d)
  PROVE  /\ worker[d] = "ended" => worker'[d] = "ended"
         /\ worker[d] # "off" => worker'[d] # "off"
         /\ worker[d] = "off" => Launch(d)
         /\ toController[d] = << >> => toController'[d] = << >> \/ worker[d] \in {"off", "connecting"}
         /\ \/ handler'[d] = handler[d]
            \/ Launch(d) /\ handler'[d] = "hello"
            \/ (Refuse(d) \/ RegisterBroker(d) \/ RegisterSource(d)) /\ handler[d] = "hello"
            \/ AssignSource(d) /\ handler[d] = "brokers" /\ handler'[d] \in {"ready", "done"}
            \/ SourceReady(d) /\ handler[d] = "ready" /\ handler'[d] \in {"serving", "done"}
            \/ HandlerClosed(d) /\ handler[d] = "serving" /\ handler'[d] = "done"
<1>t. /\ handler \in [Conns -> Handlers]
      /\ worker \in [Conns -> {"off", "registering", "connecting", "running", "ended"}]
      /\ toController \in [Conns -> Seq({"register", "ready"})]
  BY DEF TypeInv, TypeOK
<1>i. InStep
  BY DEF StepInv
<1>1. CASE Refuse(d) \/ RegisterBroker(d) \/ RegisterSource(d)
  BY <1>1, <1>i, <1>t DEF Refuse, RegisterBroker, RegisterSource, TakesHello, workers, InStep
<1>2. CASE AssignSource(d)
  <2>1. handler[d] = "brokers"
    <3>1. waiters \in Seq(Conns) /\ Waiting
      BY DEF TypeInv, TypeOK
    <3> QED
      BY <1>2, <3>1, TailAt DEF AssignSource, Waiting
  <2> QED
    BY <1>2, <1>i, <1>t, <2>1 DEF AssignSource, workers, InStep
<1>3. CASE SourceReady(d)
  BY <1>3, <1>i, <1>t DEF SourceReady, workers, InStep
<1>4. CASE ReadClosed(d)
  <2>1. handler[d] # "hello"
    <3>1. <<"register">> # << >>
      OBVIOUS
    <3> QED
      BY <1>4, <1>i, <3>1 DEF ReadClosed, InStep
  <2>2. worker[d] = "ended"
    BY <1>4 DEF ReadClosed, StepInv, LinkFollows
  <2> QED
    BY <1>4, <2>1, <2>2, <1>t DEF ReadClosed, workers
<1>5. CASE HandlerClosed(d)
  BY <1>5, <1>i, <1>t DEF HandlerClosed, workers, messages, InStep
<1>6. CASE Launch(d)
  BY <1>6, <1>i, <1>t DEF Launch, InStep
<1>7. CASE Ends(d) /\ Alive(d)
  BY <1>7, <1>i, <1>t DEF Ends, Alive, InStep
<1>8. CASE SourceConnected(d)
  BY <1>8, <1>i, <1>t DEF SourceConnected, InStep
<1>9. CASE BrokerAssigned(d) \/ SourceAssigned(d) \/ SourceStarts(d)
  BY <1>9, <1>i, <1>t DEF BrokerAssigned, SourceAssigned, SourceStarts, Reads, InStep
<1> QED
  BY <1>1, <1>2, <1>3, <1>4, <1>5, <1>6, <1>7, <1>8, <1>9, <1>t
  DEF Handler, Worker, WorkerStops, SourceGivesUp, WorkerSeesEof, WorkerCrashes, Alive

\* What is over stays so, and only a launch brings a process up.
LEMMA GoneStays ==
  ASSUME TypeInv, StepInv, [Next]_vars, NEW d \in Conns
  PROVE  /\ Gone(d) => Gone(d)' /\ (handler[d] # "brokers" => handler'[d] # "brokers")
         /\ Launched(d) => Launched(d)'
         /\ Launched(d)' => Launched(d) \/ Launch(d)
<1>1. CASE Run \/ RequestStop \/ UNCHANGED vars
  BY <1>1, RunTouchesNone DEF Gone, Launched
<1>2. ASSUME NEW c \in Conns, c # d, Handler(c) \/ Worker(c) \/ Launch(c) \/ WorkerCrashes(c)
      PROVE  /\ handler'[d] = handler[d] /\ worker'[d] = worker[d]
             /\ toController'[d] = toController[d]
  BY <1>2, OthersUntouched
<1>3. CASE Handler(d) \/ Worker(d) \/ Launch(d) \/ WorkerCrashes(d)
  <2>1. SourceReady(d) => toController[d] # << >>
    BY DEF SourceReady
  <2>2. Launch(d) => worker[d] = "off"
    BY DEF Launch
  <2> QED
    BY <1>3, <2>1, <2>2, OwnMoves DEF Gone, Launched
<1> QED
  BY <1>1, <1>2, <1>3 DEF Next, Gone, Launched

\* PromptLoop: of two processes of one name, one is gone.
LEMMA OneLiveNext ==
  ASSUME PromptLoop, TypeInv, StepInv, OneLive, [Next]_vars
  PROVE  OneLive'
<1> SUFFICES ASSUME NEW c \in Conns, NEW d \in Conns, c # d, SameName(c, d),
                    Launched(c)', Launched(d)'
             PROVE  Gone(c)' \/ Gone(d)'
  BY DEF OneLive, SameName
<1>1. CASE Launched(c) /\ Launched(d)
  BY <1>1, GoneStays DEF OneLive
<1>2. ASSUME NEW a \in Conns, NEW b \in Conns, a # b, SameName(a, b), Launch(a), Launched(b)'
      PROVE  Gone(b)'
  <2>1. worker[b] \in {"off", "ended"} /\ CaughtUp
    BY <1>2 DEF Launch, Processes, SameName
  <2>2. worker'[b] = worker[b]
    BY <1>2, OthersUntouched
  <2>3. worker[b] = "ended"
    BY <1>2, <2>1, <2>2 DEF Launched
  <2>4. handler[b] # "serving" /\ (link[b] = "cut" => handler[b] = "brokers")
    BY <2>1, <2>3 DEF CaughtUp
  <2>5. handler[b] \in Handlers
    BY DEF TypeInv, TypeOK
  <2>6. Gone(b)
    BY <2>3, <2>4, <2>5 DEF Gone, StepInv, InStep, LinkFollows, Handlers
  <2> QED
    BY <2>6, GoneStays
<1> QED
  BY <1>1, <1>2, GoneStays DEF SameName

\* PromptLoop: a process that is not gone comes after the others of its name in
\* brokers_registered.wait().
LEMMA WaitOrderNext ==
  ASSUME TypeInv, StepInv, OneLive, WaitOrder, [Next]_vars
  PROVE  WaitOrder'
<1>w. /\ waiters \in Seq(Conns) /\ Len(waiters) \in Nat
      /\ \A i \in 1 .. Len(waiters) : waiters[i] \in Conns /\ handler[waiters[i]] = "brokers"
  BY DEF TypeInv, TypeOK, Waiting
<1>s. \A i \in 1 .. Len(waiters) : SlotOf(waiters[i]) # NoSlot
  BY <1>w DEF TypeInv, Joined
<1>1. ASSUME UNCHANGED waiters PROVE WaitOrder'
  <2> SUFFICES ASSUME NEW i \in 1 .. Len(waiters), NEW d \in Conns, d # waiters[i],
                      SameName(d, waiters[i]), Launched(d)', ~Gone(d)'
               PROVE  handler'[d] = "hello" \/ \E j \in i + 1 .. Len(waiters) : waiters[j] = d
    BY <1>1 DEF WaitOrder, SameName
  <2>1. ~Gone(d)
    BY GoneStays
  <2>2. CASE Launch(d)
    <3>1. handler \in [Conns -> Handlers]
      BY DEF TypeInv, TypeOK
    <3> QED
      BY <2>2, <3>1 DEF Launch
  <2>3. CASE ~Launch(d)
    <3>1. Launched(d)
      BY <2>3, GoneStays
    <3>2. handler[d] = "hello" \/ \E j \in i + 1 .. Len(waiters) : waiters[j] = d
      BY <2>1, <3>1 DEF WaitOrder
    <3>3. CASE handler'[d] # handler[d] /\ handler[d] = "hello"
      <4>1. Handler(d) \/ Worker(d) \/ Launch(d) \/ WorkerCrashes(d)
        BY <3>3, RunTouchesNone, OthersUntouched DEF Next
      <4>2. Refuse(d) \/ RegisterBroker(d) \/ RegisterSource(d)
        BY <2>3, <3>3, <4>1, OwnMoves
      <4>3. ~RegisterSource(d)
        BY <1>1, <1>w, AppendAt DEF RegisterSource
      <4>4. SlotOf(d) # NoSlot /\ IsSource(d)
        BY <1>w, <1>s DEF SameName, SlotOf, TypeInv, Joined, IsSource
      <4> QED
        BY <4>2, <4>3, <4>4 DEF Refuse, RegisterBroker, Assign, SlotOf
    <3> QED
      BY <3>2, <3>3
  <2> QED
    BY <2>2, <2>3
<1>2. ASSUME NEW c \in Conns, RegisterSource(c) PROVE WaitOrder'
  <2>1. /\ Len(waiters') = Len(waiters) + 1 /\ waiters'[Len(waiters) + 1] = c
        /\ \A i \in 1 .. Len(waiters) : waiters'[i] = waiters[i]
    BY <1>2, <1>w, AppendAt DEF RegisterSource
  <2>2. handler[c] = "hello" /\ toController[c] # << >> /\ Launched(c)
    BY <1>2 DEF RegisterSource, TakesHello, Launched, StepInv, InStep
  <2> SUFFICES ASSUME NEW i \in 1 .. Len(waiters'), NEW d \in Conns, d # waiters'[i],
                      SameName(d, waiters'[i]), Launched(d)', ~Gone(d)'
               PROVE  handler'[d] = "hello" \/ \E j \in i + 1 .. Len(waiters') : waiters'[j] = d
    BY DEF WaitOrder, SameName
  <2>3. Launched(d) /\ ~Gone(d)
    BY <1>2, GoneStays DEF RegisterSource, Launched, workers
  <2>4. CASE i = Len(waiters) + 1
    <3>1. Gone(c)
      BY <2>1, <2>2, <2>3, <2>4 DEF OneLive, SameName
    <3> QED
      BY <2>2, <3>1 DEF Gone
  <2>5. CASE i # Len(waiters) + 1
    <3>1. i \in 1 .. Len(waiters) /\ waiters'[i] = waiters[i]
      BY <2>1, <2>5, <1>w
    <3>2. handler[d] = "hello" \/ \E j \in i + 1 .. Len(waiters) : waiters[j] = d
      BY <2>3, <3>1 DEF WaitOrder
    <3>3. CASE d = c
      BY <2>1, <3>1, <3>3, <1>w
    <3>4. CASE d # c
      <4>1. handler'[d] = handler[d]
        BY <1>2, <3>4, OthersUntouched DEF Handler
      <4> QED
        BY <2>1, <3>1, <3>2, <4>1, <1>w
    <3> QED
      BY <3>3, <3>4
  <2> QED
    BY <2>4, <2>5
<1>3. ASSUME NEW c \in Conns, AssignSource(c) PROVE WaitOrder'
  <2>1. /\ c = waiters[1] /\ Len(waiters') = Len(waiters) - 1 /\ Len(waiters) >= 1
        /\ \A i \in 1 .. Len(waiters) - 1 : waiters'[i] = waiters[i + 1]
    BY <1>3, <1>w, TailAt DEF AssignSource
  <2> SUFFICES ASSUME NEW i \in 1 .. Len(waiters'), NEW d \in Conns, d # waiters'[i],
                      SameName(d, waiters'[i]), Launched(d)', ~Gone(d)'
               PROVE  handler'[d] = "hello" \/ \E j \in i + 1 .. Len(waiters') : waiters'[j] = d
    BY DEF WaitOrder, SameName
  <2>2. Launched(d) /\ ~Gone(d)
    BY <1>3, GoneStays DEF AssignSource, Launched, workers
  <2>3. i + 1 \in 1 .. Len(waiters) /\ waiters'[i] = waiters[i + 1]
    BY <2>1, <1>w
  <2>4. handler[d] = "hello" \/ \E j \in i + 1 + 1 .. Len(waiters) : waiters[j] = d
    BY <2>2, <2>3 DEF WaitOrder
  <2>5. CASE handler[d] = "hello"
    <3>1. d # c
      BY <2>1, <2>5, <1>w
    <3> QED
      BY <1>3, <2>5, <3>1, OthersUntouched DEF Handler
  <2>6. ASSUME NEW j \in i + 1 + 1 .. Len(waiters), waiters[j] = d
        PROVE  \E k \in i + 1 .. Len(waiters') : waiters'[k] = d
    <3>1. j - 1 \in i + 1 .. Len(waiters') /\ j - 1 \in 1 .. Len(waiters) - 1
      BY <2>1, <1>w
    <3>2. waiters'[j - 1] = waiters[(j - 1) + 1]
      BY <2>1, <3>1
    <3> QED
      BY <2>6, <3>1, <3>2
  <2> QED
    BY <2>4, <2>5, <2>6
<1> QED
  <2>1. UNCHANGED waiters \/ \E c \in Conns : RegisterSource(c) \/ AssignSource(c)
    BY DEF Next, Run, StartTraffic, RequestStop, ShutDown, Exit, vars, registry, events, messages,
           Handler, Refuse, RegisterBroker, SourceReady, ReadClosed, HandlerClosed, Worker,
           BrokerAssigned, SourceAssigned, SourceConnected, SourceStarts, WorkerStops,
           SourceGivesUp,
           WorkerSeesEof, WorkerCrashes, Ends, Reads, Launch
  <2> QED
    BY <2>1, <1>1, <1>2, <1>3

\* A source that is not gone and was sent its assignment is in channels.
LEMMA ReadyChannelNext ==
  ASSUME TypeInv, StepInv, WaitOrder, ReadyChannel, [Next]_vars
  PROVE  ReadyChannel'
<1> SUFFICES ASSUME NEW d \in Conns, handler'[d] = "ready", ~Gone(d)'
             PROVE  channels'[SlotOf(d)'] = d
  BY DEF ReadyChannel
<1>1. ~Gone(d)
  BY GoneStays
<1>s. SlotsInv /\ \A x \in Instances : slots[x] # NoSlot => slots'[x] = slots[x]
  BY SlotsKept DEF TypeInv
<1>c. channels \in [SourceSlots -> Conns \cup {NoConn}]
  BY DEF TypeInv, TypeOK
<1>w. /\ waiters \in Seq(Conns) /\ Len(waiters) \in Nat
      /\ \A i \in 1 .. Len(waiters) : waiters[i] \in Conns /\ handler[waiters[i]] = "brokers"
  BY DEF TypeInv, TypeOK, Waiting
<1>n. ASSUME NEW c \in Conns, handler[c] \in {"brokers", "ready"}
      PROVE  /\ IsSource(c) /\ SlotOf(c) # NoSlot /\ SlotOf(c) \in SourceSlots
             /\ SlotOf(c)' = SlotOf(c) /\ Launched(c)
  <2>1. IsSource(c) /\ SlotOf(c) # NoSlot /\ InstanceOf(c) \in Instances /\ Launched(c)
    BY <1>n, InstancesTyped DEF TypeInv, Joined, Launched
  <2>2. slots[InstanceOf(c)] \in Nat /\ slots[InstanceOf(c)] < N
    BY <2>1, <1>s DEF SlotOf, SlotsInv, SlotsTyped, OneNamePerSlot, IsSource, Limit
  <2> QED
    BY <2>1, <2>2, <1>s, CountsTyped DEF SlotOf, SourceSlots
<1>2. CASE handler[d] = "ready"
  <2>1. channels[SlotOf(d)] = d /\ SlotOf(d)' = SlotOf(d) /\ SlotOf(d) \in SourceSlots
    BY <1>1, <1>2, <1>n DEF ReadyChannel
  <2>2. CASE channels' = channels
    BY <2>1, <2>2
  <2>3. ASSUME NEW c \in Conns, HandlerClosed(c) PROVE channels'[SlotOf(d)] = d
    <3>1. c # d
      BY <1>2, <2>3 DEF HandlerClosed
    <3> QED
      BY <2>1, <2>3, <3>1, <1>c DEF HandlerClosed
  <2>4. ASSUME NEW c \in Conns, AssignSource(c) PROVE channels'[SlotOf(d)] = d
    <3>1. c = waiters[1] /\ handler[c] = "brokers" /\ Len(waiters) >= 1
      BY <2>4, <1>w, TailAt DEF AssignSource
    <3>2. SlotOf(c) # SlotOf(d)
      <4> SUFFICES ASSUME SlotOf(c) = SlotOf(d) PROVE FALSE
        OBVIOUS
      <4>1. SameName(d, c)
        BY <1>2, <3>1, <1>n, <1>s, SlotTellsName
      <4>2. \E j \in 1 + 1 .. Len(waiters) : waiters[j] = d
        BY <1>1, <1>2, <1>n, <3>1, <4>1, <1>w DEF WaitOrder
      <4> QED
        BY <4>2, <1>2, <1>w
    <3> QED
      BY <2>1, <2>4, <3>2, <1>c DEF AssignSource
  <2>5. channels' = channels \/ \E c \in Conns : HandlerClosed(c) \/ AssignSource(c)
    BY RunTouchesNone DEF Next, Handler, Refuse, RegisterBroker, RegisterSource, SourceReady,
       ReadClosed,
       Worker, BrokerAssigned, SourceAssigned, SourceConnected, SourceStarts, WorkerStops,
       SourceGivesUp,
       WorkerSeesEof, WorkerCrashes, Ends, Reads, Launch, registry
  <2> QED
    BY <2>1, <2>2, <2>3, <2>4, <2>5
<1>3. CASE handler[d] # "ready"
  <2>1. Handler(d) \/ Worker(d) \/ Launch(d) \/ WorkerCrashes(d)
    BY <1>3, RunTouchesNone, OthersUntouched DEF Next
  <2>2. AssignSource(d) /\ handler[d] = "brokers"
    <3>1. ~(Refuse(d) \/ RegisterBroker(d) \/ RegisterSource(d))
      <4>1. handler \in [Conns -> Handlers]
        BY DEF TypeInv, TypeOK
      <4> QED
        BY <4>1 DEF Refuse, RegisterBroker, RegisterSource
    <3> QED
      BY <1>3, <2>1, <3>1, OwnMoves
  <2>3. channels' = [channels EXCEPT ![SlotOf(d)] = d]
    <3>1. handler \in [Conns -> Handlers]
      BY DEF TypeInv, TypeOK
    <3> QED
      BY <2>2, <3>1 DEF AssignSource
  <2> QED
    BY <2>2, <2>3, <1>n, <1>c
<1> QED
  BY <1>2, <1>3

\* PromptLoop: while the traffic has not started, the process in channels is the
\* one that said it is ready, and no other of its name will be.
LEMMA ReadyServedNext ==
  ASSUME PromptLoop, TypeInv, StepInv, OneLive, WaitOrder, ReadyChannel, ReadyServed, [Next]_vars
  PROVE  ReadyServed'
<1> SUFFICES ASSUME ~t0Set', NEW k \in readySources'
             PROVE  /\ channels'[k] # NoConn /\ handler'[channels'[k]] = "serving"
                    /\ \A d \in Conns : d # channels'[k] /\ SameName(d, channels'[k]) => Superseded(d)'
  BY DEF ReadyServed, SameName
<1>0. ~t0Set
  BY ZenonT(40) DEF Next, Run, StartTraffic, RequestStop, ShutDown, Exit, vars, Handler, Refuse,
     RegisterBroker,
         RegisterSource, AssignSource, SourceReady, ReadClosed, HandlerClosed, Worker,
         BrokerAssigned,
         SourceAssigned, SourceConnected, SourceStarts, WorkerStops, SourceGivesUp, WorkerSeesEof,
         WorkerCrashes, Ends, Reads, Launch, control
<1>t. /\ channels \in [SourceSlots -> Conns \cup {NoConn}] /\ readySources \subseteq SourceSlots
      /\ handler \in [Conns -> Handlers]
  BY DEF TypeInv, TypeOK
<1>w. /\ waiters \in Seq(Conns) /\ Len(waiters) \in Nat
      /\ \A i \in 1 .. Len(waiters) : waiters[i] \in Conns /\ handler[waiters[i]] = "brokers"
      /\ \A c \in Conns : handler[c] = "brokers" => \E i \in 1 .. Len(waiters) : waiters[i] = c
  BY DEF TypeInv, TypeOK, Waiting
<1>i. SlotsInv /\ InStep /\ ChannelsOf /\ Joined
  BY DEF TypeInv, StepInv
\* the processes of a name that is served
<1>e. ASSUME NEW l \in readySources
      PROVE  /\ l \in SourceSlots /\ channels[l] \in Conns /\ IsSource(channels[l])
             /\ SlotOf(channels[l]) = l /\ l # NoSlot
             /\ handler[channels[l]] = "serving" /\ Launched(channels[l])
             /\ \A d \in Conns : d # channels[l] /\ SameName(d, channels[l]) => Superseded(d)
  BY <1>0, <1>t, <1>i, InstancesTyped DEF ReadyServed, ChannelsOf, InStep, Launched, SourceSlots
\* a step of a process of that name changes nothing, unless it is the end of the connection
<1>m. ASSUME NEW l \in readySources, NEW c \in Conns, SameName(c, channels[l]),
             Handler(c) \/ Worker(c) \/ Launch(c) \/ WorkerCrashes(c)
      PROVE  \/ c # channels[l] /\ Superseded(c)' /\ ~AssignSource(c) /\ ~HandlerClosed(c)
             \/ c = channels[l] /\ handler'[c] = "serving" /\ ~AssignSource(c) /\ ~HandlerClosed(c)
             \/ c = channels[l] /\ HandlerClosed(c)
  <2>1. CASE c = channels[l]
    <3>1. handler[c] = "serving" /\ worker[c] # "off"
      BY <1>e, <2>1 DEF Launched
    <3>2. ~Launch(c)
      BY <3>1 DEF Launch
    <3>3. ~AssignSource(c)
      BY <3>1, <1>w, TailAt DEF AssignSource
    <3> QED
      BY <1>m, <2>1, <3>1, <3>2, <3>3, OwnMoves
  <2>2. CASE c # channels[l]
    <3>1. Superseded(c)
      BY <1>m, <1>e, <2>2
    <3>2. CASE Gone(c) /\ handler[c] # "brokers"
      <4>1. Gone(c)' /\ handler'[c] # "brokers"
        BY <3>2, GoneStays
      <4>2. ~AssignSource(c) /\ ~HandlerClosed(c)
        BY <3>2, <1>w, TailAt DEF AssignSource, HandlerClosed, Gone
      <4> QED
        BY <2>2, <4>1, <4>2 DEF Superseded
    <3>3. CASE handler[c] = "none"
      <4>1. worker[c] = "off"
        BY <3>3, <1>i DEF InStep
      <4>2. Launch(c)
        BY <1>m, <4>1, OwnMoves
      <4>3. worker[channels[l]] \in {"off", "ended"} /\ CaughtUp
        BY <1>m, <1>e, <2>2, <4>2 DEF Launch, Processes, SameName
      <4> QED
        BY <1>e, <4>3 DEF CaughtUp, Launched
    <3> QED
      BY <3>1, <3>2, <3>3 DEF Superseded
  <2> QED
    BY <2>1, <2>2
\* a slot stays served
<1>k. ASSUME k \in readySources, channels'[k] = channels[k],
             ~ \E c \in Conns : c = channels[k] /\ HandlerClosed(c)
      PROVE  /\ channels'[k] # NoConn /\ handler'[channels'[k]] = "serving"
             /\ \A d \in Conns : d # channels'[k] /\ SameName(d, channels'[k]) => Superseded(d)'
  <2>1. CASE Run \/ RequestStop \/ UNCHANGED vars
    BY <2>1, <1>k, <1>e, RunTouchesNone, InstancesTyped DEF Superseded, Gone
  <2>2. ASSUME NEW c \in Conns, Handler(c) \/ Worker(c) \/ Launch(c) \/ WorkerCrashes(c)
        PROVE  /\ handler'[channels[k]] = "serving"
               /\ \A d \in Conns : d # channels[k] /\ SameName(d, channels[k]) => Superseded(d)'
    <3>1. handler'[channels[k]] = "serving"
      <4>1. CASE c = channels[k]
        BY <2>2, <4>1, <1>k, <1>m DEF SameName
      <4>2. CASE c # channels[k]
        BY <2>2, <4>2, <1>k, <1>e, OthersUntouched
      <4> QED
        BY <4>1, <4>2
    <3>2. ASSUME NEW d \in Conns, d # channels[k], SameName(d, channels[k]) PROVE Superseded(d)'
      <4>1. CASE c = d
        BY <2>2, <3>2, <4>1, <1>k, <1>m
      <4>2. CASE c # d
        BY <2>2, <3>2, <4>2, <1>k, <1>e, OthersUntouched DEF Superseded, Gone
      <4> QED
        BY <4>1, <4>2
    <3> QED
      BY <3>1, <3>2
  <2> QED
    BY <2>1, <2>2, <1>k, <1>e, InstancesTyped DEF Next
<1>1. CASE \E c \in Conns : SourceReady(c)
  <2>1. PICK c \in Conns : SourceReady(c)
    BY <1>1
  <2>2. /\ handler[c] = "ready" /\ toController[c] # << >> /\ UNCHANGED <<channels, slots, waiters>>
        /\ readySources' = readySources \cup {SlotOf(c)} /\ handler'[c] = "serving"
    BY <2>1, <1>0, <1>t DEF SourceReady
  <2>3. ~Gone(c) /\ Launched(c) /\ IsSource(c) /\ SlotOf(c) # NoSlot
    BY <2>2, <1>i DEF Gone, InStep, Launched, Joined
  <2>4. CASE k = SlotOf(c)
    <3>1. channels'[k] = c /\ c # NoConn
      BY <2>2, <2>3, <2>4, InstancesTyped DEF ReadyChannel
    <3>2. ASSUME NEW d \in Conns, d # c, SameName(d, c) PROVE Superseded(d)'
      <4>1. handler'[d] = handler[d] /\ worker'[d] = worker[d] /\ toController'[d] = toController[d]
        BY <2>1, <3>2, OthersUntouched DEF Handler
      <4>2. CASE ~Launched(d)
        BY <4>1, <4>2, <1>i DEF Launched, InStep, Superseded
      <4>3. CASE Launched(d)
        <5>1. Gone(d)
          BY <2>3, <3>2, <4>3 DEF OneLive
        <5>2. handler[d] # "brokers"
          <6> SUFFICES ASSUME handler[d] = "brokers" PROVE FALSE
            OBVIOUS
          <6>1. PICK i \in 1 .. Len(waiters) : waiters[i] = d
            BY <1>w
          <6>2. handler[c] = "hello" \/ \E j \in i + 1 .. Len(waiters) : waiters[j] = c
            BY <2>3, <3>2, <6>1 DEF WaitOrder, SameName
          <6> QED
            BY <2>2, <6>2, <1>w
        <5> QED
          BY <4>1, <5>1, <5>2 DEF Superseded, Gone
      <4> QED
        BY <4>2, <4>3
    <3> QED
      BY <2>2, <3>1, <3>2
  <2>5. CASE k # SlotOf(c)
    <3>1. k \in readySources /\ channels'[k] = channels[k]
      BY <2>2, <2>5
    <3>2. ASSUME NEW d \in Conns, d = channels[k] PROVE ~HandlerClosed(d)
      BY <2>2, <3>1, <3>2, <1>e, <1>t DEF HandlerClosed
    <3> QED
      BY <3>1, <3>2, <1>k
  <2> QED
    BY <2>4, <2>5
<1>2. CASE \E c \in Conns : HandlerClosed(c)
  <2>1. PICK c \in Conns : HandlerClosed(c)
    BY <1>2
  <2>2. k \in readySources
    BY <2>1 DEF HandlerClosed, StillReady
  <2>3. c # channels[k]
    <3> SUFFICES ASSUME c = channels[k] PROVE FALSE
      OBVIOUS
    <3>1. IsSource(c) /\ SlotOf(c) = k
      BY <2>2, <1>e
    <3> QED
      BY <2>1, <3>1 DEF HandlerClosed, StillReady
  <2>4. channels'[k] = channels[k]
    BY <2>1, <2>2, <2>3, <1>e, <1>t DEF HandlerClosed
  <2>5. ASSUME NEW d \in Conns, d = channels[k] PROVE ~HandlerClosed(d)
    BY <2>1, <2>2, <2>3, <2>5, <1>e, <1>t, OthersUntouched DEF HandlerClosed, Handler
  <2> QED
    BY <2>2, <2>4, <2>5, <1>k
<1>3. CASE ~ \E c \in Conns : SourceReady(c) \/ HandlerClosed(c)
  <2>1. readySources' = readySources
    BY <1>3, RunTouchesNone DEF Next, Handler, Refuse, RegisterBroker, RegisterSource, AssignSource,
       ReadClosed, Worker, BrokerAssigned, SourceAssigned, SourceConnected, SourceStarts,
       WorkerStops,
       SourceGivesUp, WorkerSeesEof, WorkerCrashes, Ends, Reads, Launch, registry
  <2>2. channels' = channels \/ \E c \in Conns : AssignSource(c)
    BY <1>3, RunTouchesNone DEF Next, Handler, Refuse, RegisterBroker, RegisterSource,
       ReadClosed, Worker, BrokerAssigned, SourceAssigned, SourceConnected, SourceStarts,
       WorkerStops,
       SourceGivesUp, WorkerSeesEof, WorkerCrashes, Ends, Reads, Launch, registry
  <2>3. ASSUME NEW c \in Conns, AssignSource(c) PROVE channels'[k] = channels[k]
    <3>1. handler[c] = "brokers"
      BY <2>3, <1>w, TailAt DEF AssignSource
    <3>2. IsSource(c) /\ SlotOf(c) # NoSlot
      BY <3>1, <1>i DEF Joined
    <3>3. SlotOf(c) # k
      <4> SUFFICES ASSUME SlotOf(c) = k PROVE FALSE
        OBVIOUS
      <4>1. SameName(c, channels[k])
        BY <2>1, <3>2, <1>e, <1>i, SlotTellsName
      <4> QED
        BY <2>1, <2>3, <3>1, <4>1, <1>e, <1>m DEF Handler
    <3> QED
      BY <2>1, <2>3, <3>3, <1>t DEF AssignSource
  <2> QED
    BY <1>3, <2>1, <2>2, <2>3, <1>k
<1> QED
  BY <1>1, <1>2, <1>3

\* Every source ready: all slots are taken, and no process is still to be served.
LEMMA AllReadyServed ==
  TypeOK /\ SlotsInv /\ ChannelsOf /\ ReadyServed /\ ~t0Set /\ AllReady(readySources) => AllServed
<1> SUFFICES ASSUME TypeOK, SlotsInv, ChannelsOf, ReadyServed, ~t0Set, AllReady(readySources)
             PROVE  AllServed
  OBVIOUS
<1>t. /\ readySources \subseteq SourceSlots /\ channels \in [SourceSlots -> Conns \cup {NoConn}]
  BY DEF TypeOK
<1>1. readySources = SourceSlots
  <2>1. IsFiniteSet(SourceSlots) /\ Cardinality(SourceSlots) = N
    BY CountsTyped, FS_Interval DEF SourceSlots
  <2>2. Cardinality(readySources) = Cardinality(SourceSlots)
    BY <2>1 DEF AllReady
  <2> QED
    BY <1>t, <2>1, <2>2, FS_Subset
<1>2. ASSUME NEW k \in SourceSlots
      PROVE  /\ channels[k] \in Conns /\ IsSource(channels[k]) /\ SlotOf(channels[k]) = k
             /\ handler[channels[k]] = "serving"
             /\ \A d \in Conns : d # channels[k] /\ SameName(d, channels[k]) => Superseded(d)
  BY <1>t, <1>1 DEF ReadyServed, ChannelsOf
<1>3. \A k \in SourceSlots : \E x \in SourceInstances : slots[x] = k
  BY <1>2 DEF IsSource, SlotOf
<1>4. ASSUME NEW c \in Conns, IsSource(c), SlotOf(c) # NoSlot
      PROVE  handler[c] = "serving" \/ Superseded(c)
  <2>1. InstanceOf(c) \in Instances
    BY InstancesTyped
  <2>2. slots[InstanceOf(c)] \in Nat /\ slots[InstanceOf(c)] < N
    BY <1>4, <2>1 DEF SlotsInv, SlotsTyped, OneNamePerSlot, SlotOf, Limit, IsSource
  <2>3. SlotOf(c) \in SourceSlots
    BY <2>2, CountsTyped DEF SlotOf, SourceSlots
  <2>4. SameName(c, channels[SlotOf(c)])
    BY <1>2, <1>4, <2>3, SlotTellsName
  <2> QED
    BY <1>2, <2>3, <2>4
<1> QED
  BY <1>2, <1>3, <1>4 DEF AllServed

\* PromptLoop: from the moment all are ready until run() goes on, they stay so.
LEMMA WhenReadyNext ==
  ASSUME PromptLoop, TypeInv, TypeInv', StepInv, StepInv', ReadyServed', WhenReady,
         NotStarted, NotStarted', [Next]_vars
  PROVE  WhenReady'
<1> SUFFICES ASSUME pc' = "waiting", sourcesReady' PROVE AllServed'
  BY DEF WhenReady
<1>0. ~t0Set'
  BY DEF NotStarted
<1>p. pc = "waiting"
  BY ZenonT(40) DEF Next, Run, StartTraffic, RequestStop, ShutDown, Exit, vars, Handler, Refuse,
     RegisterBroker,
         RegisterSource, AssignSource, SourceReady, ReadClosed, HandlerClosed, Worker,
         BrokerAssigned,
         SourceAssigned, SourceConnected, SourceStarts, WorkerStops, SourceGivesUp, WorkerSeesEof,
         WorkerCrashes, Ends, Reads, Launch, control
<1>1. CASE ~sourcesReady
  <2>1. PICK c \in Conns : SourceReady(c)
    BY <1>1, RunTouchesNone DEF Next, Handler, Refuse, RegisterBroker, RegisterSource, AssignSource,
       ReadClosed, HandlerClosed, Worker, BrokerAssigned, SourceAssigned, SourceConnected,
       SourceStarts,
       WorkerStops, SourceGivesUp, WorkerSeesEof, WorkerCrashes, Ends, Reads, Launch, events
  <2>2. AllReady(readySources)'
    BY <1>1, <2>1 DEF SourceReady, AllReady
  <2> QED
    <3>1. TypeOK' /\ SlotsInv' /\ ChannelsOf'
      BY DEF TypeInv, StepInv
    <3>2. (TypeOK /\ SlotsInv /\ ChannelsOf /\ ReadyServed /\ ~t0Set /\ AllReady(readySources)
             => AllServed)'
      BY AllReadyServed, PTL
    <3> QED
      BY <1>0, <2>2, <3>1, <3>2
<1>2. CASE sourcesReady
  <2>s. AllServed
    BY <1>p, <1>2 DEF WhenReady
  <2>t. /\ handler \in [Conns -> Handlers] /\ channels \in [SourceSlots -> Conns \cup {NoConn}]
        /\ waiters \in Seq(Conns) /\ Waiting /\ Joined
    BY DEF TypeInv, TypeOK
  <2>n. SlotsInv' /\ \A x \in Instances : slots[x] # NoSlot => slots'[x] = slots[x]
    BY SlotsKept DEF TypeInv
  <2>1. ASSUME NEW k \in SourceSlots PROVE \E x \in SourceInstances : slots'[x] = k
    <3>1. PICK x \in SourceInstances : slots[x] = k
      BY <2>s DEF AllServed
    <3> QED
      BY <3>1, <2>n, InstancesTyped DEF Instances, SourceSlots
  <2>2. ASSUME NEW c \in Conns
        PROVE  ~Launch(c) /\ ~RegisterSource(c) /\ ~AssignSource(c) /\ ~SourceReady(c)
    <3>1. ~Launch(c)
      BY <1>p, <1>2 DEF Launch, CaughtUp
    <3>2. ~RegisterSource(c)
      <4> SUFFICES ASSUME RegisterSource(c) PROVE FALSE
        OBVIOUS
      <4>1. TakesHello(c) /\ IsSource(c) /\ Assign(InstanceOf(c)) # NoSlot /\ handler[c] = "hello"
        BY DEF RegisterSource, TakesHello
      <4>2. SlotOf(c) = NoSlot
        BY <4>1, <2>s DEF AllServed, Superseded, Gone
      <4>3. SlotOf(c)' \in SourceSlots /\ InstanceOf(c) \in Instances
        BY <4>1, <2>n, Hello DEF TypeInv, SourceSlots
      <4>4. PICK x \in SourceInstances : slots[x] = SlotOf(c)'
        BY <4>3, <2>s DEF AllServed
      <4>5. x # InstanceOf(c) /\ x \in Instances /\ slots[x] # NoSlot
        BY <4>2, <4>3, <4>4, InstancesTyped DEF SlotOf, Instances, SourceSlots
      <4>6. slots'[x] = slots'[InstanceOf(c)] /\ slots'[x] # NoSlot /\ slots'[InstanceOf(c)] # NoSlot
        BY <4>4, <4>5, <2>n DEF SlotOf
      <4>7. InstanceOf(c) \in Holders(x)'
        BY <4>1, <4>6 DEF Holders, IsSource
      <4> QED
        BY <4>5, <4>6, <4>7, <2>n DEF SlotsInv, OneNamePerSlot
    <3>3. ~AssignSource(c)
      <4> SUFFICES ASSUME AssignSource(c) PROVE FALSE
        OBVIOUS
      <4>1. handler[c] = "brokers"
        BY <2>t, TailAt DEF AssignSource, Waiting
      <4> QED
        BY <4>1, <2>t, <2>s DEF Joined, AllServed, Superseded
    <3>4. ~SourceReady(c)
      BY <2>t, <2>s DEF SourceReady, Joined, AllServed, Superseded, Gone
    <3> QED
      BY <3>1, <3>2, <3>3, <3>4
  <2>3. ASSUME NEW c \in Conns, IsSource(c), SlotOf(c)' # NoSlot
        PROVE  handler'[c] = "serving" \/ Superseded(c)'
    <3>1. slots'[InstanceOf(c)] = slots[InstanceOf(c)]
      <4>1. slots' = slots \/ \E d \in Conns : (Refuse(d) \/ RegisterBroker(d)) /\ TakesHello(d)
        BY <2>2, RunTouchesNone DEF Next, Handler, Refuse, RegisterBroker, ReadClosed,
           HandlerClosed,
           Worker, BrokerAssigned, SourceAssigned, SourceConnected, SourceStarts, WorkerStops,
           SourceGivesUp, WorkerSeesEof, WorkerCrashes, Ends, Reads, registry
      <4>2. ASSUME NEW d \in Conns, Refuse(d), InstanceOf(d) = InstanceOf(c) PROVE FALSE
        BY <2>3, <4>2, <2>n, Hello DEF Refuse, SlotOf, TypeInv
      <4>3. ASSUME NEW d \in Conns, RegisterBroker(d) PROVE InstanceOf(d) # InstanceOf(c)
        BY <2>3, <4>3 DEF RegisterBroker, IsSource
      <4>4. ASSUME NEW d \in Conns, TakesHello(d), InstanceOf(d) # InstanceOf(c)
            PROVE  slots'[InstanceOf(c)] = slots[InstanceOf(c)]
        BY <4>4, InstancesTyped DEF TakesHello, TypeInv, SlotsInv, SlotsTyped
      <4> QED
        BY <4>1, <4>2, <4>3, <4>4
    <3>2. handler[c] = "serving" \/ Superseded(c)
      BY <2>3, <3>1, <2>s DEF AllServed, SlotOf
    <3>3. CASE ~(Handler(c) \/ Worker(c) \/ WorkerCrashes(c))
      <4>1. handler'[c] = handler[c] /\ worker'[c] = worker[c] /\ toController'[c] = toController[c]
        BY <2>2, <3>3, RunTouchesNone, OthersUntouched DEF Next
      <4> QED
        BY <3>2, <4>1 DEF Superseded, Gone
    <3>4. CASE Handler(c) \/ Worker(c) \/ WorkerCrashes(c)
      <4>1. CASE handler[c] = "none"
        <5>1. worker[c] = "off"
          BY <4>1 DEF StepInv, InStep
        <5> QED
          BY <2>2, <3>4, <5>1, OwnMoves
      <4>2. CASE Gone(c) /\ handler[c] # "brokers"
        BY <4>2, GoneStays DEF Superseded
      <4>3. CASE handler[c] = "serving"
        <5>1. handler'[c] = "serving" \/ (HandlerClosed(c) /\ handler'[c] = "done")
          <6>1. Handler(c) \/ Worker(c) \/ Launch(c) \/ WorkerCrashes(c)
            BY <3>4
          <6>2. ~Launch(c)
            BY <2>2
          <6> QED
            BY <4>3, <6>1, <6>2, OwnMoves
        <5>2. ASSUME HandlerClosed(c) PROVE worker'[c] = "ended" /\ toController'[c] = << >>
          BY <5>2 DEF HandlerClosed, StepInv, LinkFollows, InStep, workers, messages
        <5> QED
          BY <5>1, <5>2 DEF Superseded, Gone
      <4> QED
        BY <3>2, <4>1, <4>2, <4>3 DEF Superseded
    <3> QED
      BY <3>3, <3>4
  <2>4. ASSUME NEW k \in SourceSlots, channels'[k] # NoConn PROVE handler'[channels'[k]] = "serving"
    <3>1. channels'[k] = channels[k] /\ ~HandlerClosed(channels[k])
      <4>1. channels' = channels \/ \E c \in Conns : HandlerClosed(c)
        BY <2>2, RunTouchesNone DEF Next, Handler, Refuse, RegisterBroker, ReadClosed,
           Worker, BrokerAssigned, SourceAssigned, SourceConnected, SourceStarts, WorkerStops,
           SourceGivesUp, WorkerSeesEof, WorkerCrashes, Ends, Reads, registry
      <4>2. ASSUME NEW c \in Conns, HandlerClosed(c) PROVE channels'[k] = channels[k]
        BY <2>4, <4>2, <2>t DEF HandlerClosed
      <4>3. ASSUME HandlerClosed(channels[k]) PROVE FALSE
        <5>1. channels[k] \in Conns /\ IsSource(channels[k])
          BY <2>4, <4>1, <4>2, <2>t DEF StepInv, ChannelsOf
        <5> QED
          BY <2>4, <4>3, <5>1, <2>t, InstancesTyped DEF HandlerClosed
      <4> QED
        BY <4>1, <4>2, <4>3
    <3>2. channels[k] \in Conns /\ handler[channels[k]] = "serving"
      BY <2>4, <3>1, <2>s, <2>t DEF AllServed
    <3> QED
      BY ZenonT(40), <3>1, <3>2, <2>2, RunTouchesNone, OthersUntouched, OwnMoves DEF Next
  <2> QED
    BY <2>1, <2>3, <2>4 DEF AllServed
<1> QED
  BY <1>1, <1>2

-----------------------------------------------------------------------------
\* the positions of the start messages in a queue
StartsIn(s) == {i \in DOMAIN s : s[i].type = "start"}

\* The positions of a queue's start messages, when a message is sent ...
LEMMA StartsAppend ==
  ASSUME NEW s \in Seq(ToWorker), NEW m \in ToWorker
  PROVE  /\ IsFiniteSet(StartsIn(s)) /\ Cardinality(StartsIn(s)) \in Nat
         /\ m.type # "start" => Cardinality(StartsIn(Append(s, m))) = Cardinality(StartsIn(s))
         /\ m.type = "start" => Cardinality(StartsIn(Append(s, m))) = Cardinality(StartsIn(s)) + 1
<1> DEFINE n == Len(s)
<1>1. n \in Nat /\ DOMAIN s = 1 .. n /\ DOMAIN Append(s, m) = 1 .. n + 1
  BY AppendAt
<1>2. /\ \A i \in 1 .. n : Append(s, m)[i] = s[i]
      /\ Append(s, m)[n + 1] = m
  BY AppendAt
<1> HIDE DEF n
<1>3. IsFiniteSet(StartsIn(s)) /\ Cardinality(StartsIn(s)) \in Nat
  <2>1. IsFiniteSet(1 .. n)
    BY <1>1, FS_Interval
  <2> QED
    BY <1>1, <2>1, FS_Subset, FS_CardinalityType DEF StartsIn
<1>4. m.type # "start" => StartsIn(Append(s, m)) = StartsIn(s)
  BY <1>1, <1>2 DEF StartsIn
<1>5. m.type = "start" => StartsIn(Append(s, m)) = StartsIn(s) \cup {n + 1} /\ n + 1 \notin StartsIn(s)
  BY <1>1, <1>2 DEF StartsIn
<1> QED
  BY <1>3, <1>4, <1>5, FS_AddElement

\* ... and when one is taken.
LEMMA StartsTail ==
  ASSUME NEW s \in Seq(ToWorker), s # << >>
  PROVE  /\ Cardinality(StartsIn(s)) \in Nat /\ Cardinality(StartsIn(Tail(s))) \in Nat
         /\ Head(s).type # "start" => Cardinality(StartsIn(Tail(s))) = Cardinality(StartsIn(s))
         /\ Head(s).type = "start" => Cardinality(StartsIn(Tail(s))) + 1 = Cardinality(StartsIn(s))
<1> DEFINE n == Len(s)
           rest == StartsIn(s) \ {1}
<1>1. /\ n \in Nat /\ n >= 1 /\ DOMAIN s = 1 .. n /\ DOMAIN Tail(s) = 1 .. n - 1
      /\ Head(s) = s[1] /\ Tail(s) \in Seq(ToWorker)
  BY TailAt
<1>2. \A i \in 1 .. n - 1 : Tail(s)[i] = s[i + 1]
  BY TailAt
<1> HIDE DEF n
<1>3. /\ IsFiniteSet(StartsIn(s)) /\ Cardinality(StartsIn(s)) \in Nat
      /\ IsFiniteSet(StartsIn(Tail(s))) /\ Cardinality(StartsIn(Tail(s))) \in Nat
  <2>1. [type |-> "stop"] \in ToWorker
    BY Messages
  <2> QED
    BY <1>1, <2>1, StartsAppend
<1>4. IsFiniteSet(rest) /\ Cardinality(StartsIn(Tail(s))) = Cardinality(rest)
  <2> DEFINE f == [i \in StartsIn(Tail(s)) |-> i + 1]
  <2>1. f \in Bijection(StartsIn(Tail(s)), rest)
    <3>1. \A i \in StartsIn(Tail(s)) : i \in Nat /\ i + 1 \in rest
      BY <1>1, <1>2 DEF StartsIn
    <3>2. \A j \in rest : j - 1 \in StartsIn(Tail(s)) /\ j - 1 + 1 = j
      BY <1>1, <1>2 DEF StartsIn
    <3>3. f \in [StartsIn(Tail(s)) -> rest]
      BY <3>1
    <3>4. \A i, j \in StartsIn(Tail(s)) : f[i] = f[j] => i = j
      BY <3>1
    <3>5. \A j \in rest : \E i \in StartsIn(Tail(s)) : f[i] = j
      BY <3>2
    <3> HIDE DEF f, rest
    <3> QED
      BY <3>3, <3>4, <3>5 DEF Bijection, Injection, Surjection, IsInjective
  <2>2. ExistsBijection(StartsIn(Tail(s)), rest)
    BY <2>1 DEF ExistsBijection
  <2> HIDE DEF f, rest
  <2>3. Cardinality(rest) = Cardinality(StartsIn(Tail(s))) /\ IsFiniteSet(rest)
    BY <1>3, <2>2, FS_Bijection
  <2> QED
    BY <2>3
<1>5. Head(s).type # "start" => rest = StartsIn(s)
  BY <1>1 DEF StartsIn
<1>6. Head(s).type = "start" => 1 \in StartsIn(s)
  BY <1>1 DEF StartsIn
<1>7. 1 \in StartsIn(s) => Cardinality(rest) = Cardinality(StartsIn(s)) - 1
  BY <1>3, FS_RemoveElement
<1> HIDE DEF rest
<1> QED
  BY <1>3, <1>4, <1>5, <1>6, <1>7

\* A message is sent on a connection or not.
LEMMA SentOrNot ==
  ASSUME toWorker \in [Conns -> Seq(ToWorker)], NEW cs, NEW m \in ToWorker, NEW d \in Conns
  PROVE  /\ Sent(cs, m)[d] = toWorker[d] \/ Sent(cs, m)[d] = Append(toWorker[d], m)
         /\ d \notin cs => Sent(cs, m)[d] = toWorker[d]
<1>1. Sent(cs, m)[d] = IF d \in cs /\ link[d] = "up" THEN Append(toWorker[d], m) ELSE toWorker[d]
  BY Sending
<1> QED
  BY <1>1

\* the starts of a process, taken and under way
Told(c) == starts[c] + StartsSent(c)

\* ... go to one whose handler has taken its ready
ToldOnce ==
  \A c \in Conns : /\ Told(c) <= 1
                   /\ Told(c) > 0 => t0Set /\ handler[c] \in {"serving", "done"}

\* PromptLoop: run() tells the sources that are served, once, and a handler the
\* one that rejoins.
LEMMA ToldOnceNext ==
  ASSUME TypeInv, TypeInv', StepInv, WhenReady, NotStarted, ToldOnce, [Next]_vars
  PROVE  ToldOnce'
<1> SUFFICES ASSUME NEW d \in Conns
             PROVE  /\ Told(d)' <= 1
                    /\ Told(d)' > 0 => t0Set' /\ handler'[d] \in {"serving", "done"}
  BY DEF ToldOnce
<1>q. toWorker \in [Conns -> Seq(ToWorker)] /\ starts \in [Conns -> Nat] /\ handler \in [Conns -> Handlers]
  BY DEF TypeInv, TypeOK
<1>n. /\ toWorker[d] \in Seq(ToWorker) /\ toWorker'[d] \in Seq(ToWorker)
      /\ starts[d] \in Nat /\ starts'[d] \in Nat
  BY DEF TypeInv, TypeOK
<1>d. /\ Told(d) = starts[d] + Cardinality(StartsIn(toWorker[d]))
      /\ Told(d)' = starts'[d] + Cardinality(StartsIn(toWorker'[d]))
      /\ Cardinality(StartsIn(toWorker[d])) \in Nat /\ Cardinality(StartsIn(toWorker'[d])) \in Nat
  BY <1>n, Messages, StartsAppend DEF Told, StartsSent, StartsIn
<1>f. /\ Told(d) <= 1
      /\ Told(d) > 0 => t0Set /\ handler[d] \in {"serving", "done"}
  BY DEF ToldOnce
\* told once, a source stays one that was told
<1>s. t0Set => t0Set'
  BY ZenonT(40) DEF Next, Run, StartTraffic, RequestStop, ShutDown, Exit, vars, Handler, Refuse,
     RegisterBroker,
         RegisterSource, AssignSource, SourceReady, ReadClosed, HandlerClosed, Worker,
         BrokerAssigned,
         SourceAssigned, SourceConnected, SourceStarts, WorkerStops, SourceGivesUp, WorkerSeesEof,
         WorkerCrashes, Ends, Reads, Launch, control
<1>h. handler[d] \in {"serving", "done"} => handler'[d] \in {"serving", "done"}
  <2>1. CASE Handler(d) \/ Worker(d) \/ Launch(d) \/ WorkerCrashes(d)
    <3>1. Launch(d) => handler[d] = "none"
      BY DEF Launch, StepInv, InStep
    <3> QED
      BY <2>1, <3>1, OwnMoves
  <2>2. CASE ~(Handler(d) \/ Worker(d) \/ Launch(d) \/ WorkerCrashes(d))
    BY <2>2, RunTouchesNone, OthersUntouched DEF Next
  <2> QED
    BY <2>1, <2>2
<1>k. ASSUME Told(d)' <= Told(d)
      PROVE  /\ Told(d)' <= 1
             /\ Told(d)' > 0 => t0Set' /\ handler'[d] \in {"serving", "done"}
  BY <1>k, <1>d, <1>n, <1>f, <1>s, <1>h
\* a message other than start
<1>m. ASSUME NEW cs, NEW m \in ToWorker, m.type # "start", toWorker' = Sent(cs, m), starts' = starts
      PROVE  Told(d)' <= Told(d)
  <2>1. toWorker'[d] = toWorker[d] \/ toWorker'[d] = Append(toWorker[d], m)
    BY <1>m, <1>q, SentOrNot
  <2> QED
    <3>1. Cardinality(StartsIn(Append(toWorker[d], m))) = Cardinality(StartsIn(toWorker[d]))
      BY <1>m, <1>n, StartsAppend
    <3>2. Cardinality(StartsIn(toWorker'[d])) = Cardinality(StartsIn(toWorker[d]))
      BY <2>1, <3>1
    <3> QED
      BY <1>m, <1>d, <1>n, <3>2
\* a start
<1>a. ASSUME Told(d) = 0, starts' = starts,
             toWorker'[d] = toWorker[d] \/ toWorker'[d] = Append(toWorker[d], [type |-> "start"])
      PROVE  Told(d)' <= 1
  <2>1. Cardinality(StartsIn(Append(toWorker[d], [type |-> "start"]))) = Cardinality(StartsIn(toWorker[d])) + 1
    BY <1>n, StartsAppend, Messages
  <2>2. \/ Cardinality(StartsIn(toWorker'[d])) = Cardinality(StartsIn(toWorker[d]))
        \/ Cardinality(StartsIn(toWorker'[d])) = Cardinality(StartsIn(toWorker[d])) + 1
    BY <1>a, <2>1
  <2> QED
    BY <1>a, <1>d, <1>n, <2>2
<1>u. ASSUME toWorker'[d] = toWorker[d], starts'[d] = starts[d] PROVE Told(d)' <= Told(d)
  BY <1>u, <1>d, <1>n
<1>1. CASE StartTraffic
  <2>1. pc = "waiting" /\ sourcesReady /\ t0Set' /\ ~t0Set /\ handler' = handler /\ starts' = starts
    BY <1>1 DEF StartTraffic, NotStarted, workers
  <2>2. Told(d) = 0
    BY <2>1, <1>f, <1>d, <1>n
  <2>3. PICK n \in 0 .. N :
          /\ \A k \in 0 .. n - 1 : channels[k] # NoConn
          /\ toWorker' = Sent({channels[k] : k \in 0 .. n - 1}, [type |-> "start"])
    BY <1>1 DEF StartTraffic
  <2> DEFINE cs == {channels[k] : k \in 0 .. n - 1}
  <2>4. toWorker' = Sent(cs, [type |-> "start"])
    BY <2>3
  <2>5. d \in cs => handler[d] = "serving"
    <3>1. 0 .. n - 1 \subseteq SourceSlots
      BY CountsTyped DEF SourceSlots
    <3> QED
      BY <2>1, <2>3, <3>1 DEF WhenReady, AllServed
  <2> HIDE DEF cs
  <2>6. /\ d \notin cs => toWorker'[d] = toWorker[d]
        /\ toWorker'[d] = toWorker[d] \/ toWorker'[d] = Append(toWorker[d], [type |-> "start"])
    BY <2>4, <1>q, SentOrNot, Messages
  <2>7. Told(d)' <= 1
    BY <2>1, <2>2, <2>6, <1>a
  <2>8. d \notin cs => Told(d)' <= 0
    BY <2>1, <2>2, <2>6, <1>d, <1>n
  <2> QED
    BY <2>1, <2>5, <2>7, <2>8, <1>d, <1>n
<1>2. CASE RequestStop \/ Exit \/ UNCHANGED vars
  BY <1>2, <1>u, <1>k DEF RequestStop, Exit, vars, workers, messages
<1>3. CASE ShutDown
  BY <1>3, <1>m, <1>k, Messages DEF ShutDown, workers
<1>4. ASSUME NEW c \in Conns, c # d, Handler(c) \/ Worker(c) \/ Launch(c) \/ WorkerCrashes(c)
      PROVE  Told(d)' <= Told(d)
  BY <1>4, <1>u, OthersUntouched
<1>5. CASE SourceReady(d)
  <2>1. handler[d] = "ready" /\ starts' = starts /\ t0Set' = t0Set
    BY <1>5 DEF SourceReady, workers, control
  <2>2. Told(d) = 0
    BY <2>1, <1>f, <1>d, <1>n
  <2>3. \/ toWorker' = toWorker
        \/ t0Set /\ handler'[d] = "serving" /\ toWorker' = Sent({d}, [type |-> "start"])
    BY <1>5, <1>q DEF SourceReady
  <2>4. CASE toWorker' = toWorker
    BY <2>1, <2>4, <1>u, <1>k
  <2>5. CASE t0Set /\ handler'[d] = "serving" /\ toWorker' = Sent({d}, [type |-> "start"])
    <3>1. toWorker'[d] = toWorker[d] \/ toWorker'[d] = Append(toWorker[d], [type |-> "start"])
      BY <2>5, <1>q, SentOrNot, Messages
    <3>2. Told(d)' <= 1
      BY <2>1, <2>2, <3>1, <1>a
    <3> QED
      BY <2>1, <2>5, <3>2
  <2> QED
    BY <2>3, <2>4, <2>5
<1>6. CASE Refuse(d) \/ RegisterBroker(d) \/ RegisterSource(d) \/ ReadClosed(d) \/ HandlerClosed(d)
           \/ Launch(d) \/ SourceConnected(d)
  <2>1. starts' = starts
    BY <1>6 DEF Refuse, RegisterBroker, RegisterSource, ReadClosed, HandlerClosed, Launch,
                SourceConnected, workers
  <2>2. \/ toWorker' = toWorker
        \/ \E m \in ToWorker : m.type # "start" /\ toWorker' = Sent({d}, m)
    BY <1>6, Messages DEF Refuse, RegisterBroker, RegisterSource, ReadClosed, HandlerClosed, Launch,
                SourceConnected, messages
  <2> QED
    BY <2>1, <2>2, <1>m, <1>u, <1>k
<1>7. CASE AssignSource(d)
  <2>1. brokerAddresses \in Addresses /\ starts' = starts
    <3>1. brokerAddresses \in [BrokerSlots -> Conns \cup {NoConn}] /\ Known
      BY DEF TypeInv, TypeOK
    <3> QED
      BY <1>7, <3>1 DEF AssignSource, Known, AllKnown, Addresses, workers
  <2> DEFINE m == [type |-> "assignment", brokers |-> brokerAddresses]
  <2>2. m \in ToWorker /\ m.type # "start"
    BY <2>1, Messages
  <2>3. toWorker' = toWorker \/ toWorker' = Sent({d}, m)
    BY <1>7 DEF AssignSource
  <2> HIDE DEF m
  <2> QED
    BY <2>1, <2>2, <2>3, <1>m, <1>u, <1>k
<1>8. CASE BrokerAssigned(d) \/ SourceAssigned(d) \/ SourceStarts(d)
  <2>1. /\ toWorker[d] # << >> /\ toWorker'[d] = Tail(toWorker[d])
        /\ \/ starts'[d] = starts[d]
           \/ Head(toWorker[d]).type = "start" /\ starts'[d] = starts[d] + 1
    <3>1. ASSUME NEW m, Reads(d, m)
          PROVE  toWorker[d] # << >> /\ toWorker'[d] = Tail(toWorker[d]) /\ Head(toWorker[d]) = m
      BY <3>1, <1>q DEF Reads
    <3>2. CASE SourceStarts(d)
      <4>1. Reads(d, [type |-> "start"]) /\ starts'[d] = starts[d] + 1
        BY <3>2, <1>q DEF SourceStarts
      <4> QED
        BY <4>1, <3>1
    <3>3. CASE BrokerAssigned(d) \/ SourceAssigned(d)
      <4>1. (\E m : Reads(d, m)) /\ starts' = starts
        BY <3>3 DEF BrokerAssigned, SourceAssigned
      <4> QED
        BY <4>1, <3>1
    <3> QED
      BY <1>8, <3>2, <3>3
  <2>2. Told(d)' <= Told(d)
    BY SMTT(20), <2>1, <1>d, <1>n, StartsTail
  <2> QED
    BY <2>2, <1>k
<1>9. CASE Ends(d)
  <2>1. toWorker'[d] = << >> /\ starts'[d] = starts[d]
    BY <1>9, <1>q DEF Ends
  <2>2. Cardinality(StartsIn(<< >>)) = 0
    <3>1. StartsIn(<< >>) = {}
      BY DEF StartsIn
    <3> QED
      BY <3>1, FS_EmptySet
  <2>3. Told(d)' <= Told(d)
    BY <2>1, <2>2, <1>d, <1>n
  <2> QED
    BY <2>3, <1>k
<1> QED
  BY <1>1, <1>2, <1>3, <1>4, <1>5, <1>6, <1>7, <1>8, <1>9, <1>k
  DEF Next, Run, Handler, Worker, WorkerStops, SourceGivesUp, WorkerSeesEof, WorkerCrashes

-----------------------------------------------------------------------------
Held(k) == \E x \in SourceInstances : slots[x] = k

\* what stands behind sources_ready, whichever processes end: a source is only
\* ready after all brokers have registered, and with an index of its own
SetUp ==
  /\ \A c \in Conns : handler[c] = "ready" => brokersRegistered
  /\ readySources # {} => brokersRegistered
  /\ \A k \in readySources : Held(k)
  /\ sourcesReady => brokersRegistered /\ \A k \in SourceSlots : Held(k)
  /\ pc = "rounds" => sourcesReady

\* No source is ready at first.
LEMMA SetUpInit == Init => SetUp
  BY DEF Init, SetUp

\* Registrations, assignments and lost connections keep what sources_ready stands for.
LEMMA SetUpNext ==
  ASSUME TypeInv, TypeInv', StepInv, SetUp, [Next]_vars
  PROVE  SetUp'
<1>t. /\ handler \in [Conns -> Handlers] /\ readySources \subseteq SourceSlots /\ readySources' \subseteq SourceSlots
      /\ Joined /\ SlotsInv
  BY DEF TypeInv, TypeOK
<1>s. \A x \in Instances : slots[x] # NoSlot => slots'[x] = slots[x]
  BY SlotsKept DEF TypeInv
<1>h. \A k \in SourceSlots : Held(k) => Held(k)'
  <2> SUFFICES ASSUME NEW k \in SourceSlots, NEW x \in SourceInstances, slots[x] = k PROVE slots'[x] = k
    BY DEF Held
  <2>1. k \in Nat /\ x \in Instances
    BY DEF SourceSlots, Instances
  <2> QED
    BY <2>1, <1>s, InstancesTyped
\* the events are never cleared
<1>b. brokersRegistered => brokersRegistered'
  BY ZenonT(40) DEF Next, Run, StartTraffic, RequestStop, ShutDown, Exit, vars, Handler, Refuse,
     RegisterBroker, RegisterSource, AssignSource, SourceReady, ReadClosed, HandlerClosed, Worker,
     BrokerAssigned, SourceAssigned, SourceConnected, SourceStarts, WorkerStops, SourceGivesUp,
     WorkerSeesEof, WorkerCrashes, Ends, Reads, Launch, events
<1>1. ASSUME NEW c \in Conns, handler'[c] = "ready" PROVE brokersRegistered'
  <2>1. CASE handler[c] = "ready"
    BY <2>1, <1>b DEF SetUp
  <2>2. CASE AssignSource(c)
    BY <2>2, <1>b DEF AssignSource
  <2>3. handler[c] = "ready" \/ AssignSource(c)
    <3>1. CASE Handler(c) \/ Worker(c) \/ Launch(c) \/ WorkerCrashes(c)
      <4>1. ~(Refuse(c) \/ RegisterBroker(c) \/ RegisterSource(c) \/ Launch(c))
        BY <1>1, <1>t DEF Refuse, RegisterBroker, RegisterSource, Launch
      <4> QED
        BY <3>1, <4>1, <1>1, OwnMoves
    <3>2. CASE ~(Handler(c) \/ Worker(c) \/ Launch(c) \/ WorkerCrashes(c))
      BY <3>2, <1>1, RunTouchesNone, OthersUntouched DEF Next
    <3> QED
      BY <3>1, <3>2
  <2> QED
    BY <2>1, <2>2, <2>3
\* a source that gets ready has its index, and had its assignment
<1>2. ASSUME NEW c \in Conns, SourceReady(c)
      PROVE  /\ readySources' = readySources \cup {SlotOf(c)} /\ SlotOf(c) \in SourceSlots
             /\ Held(SlotOf(c)) /\ brokersRegistered
             /\ sourcesReady' = sourcesReady \/ sourcesReady' = (sourcesReady \/ AllReady(readySources'))
  <2>1. /\ readySources' = readySources \cup {SlotOf(c)} /\ handler[c] = "ready"
        /\ sourcesReady' = sourcesReady \/ sourcesReady' = (sourcesReady \/ AllReady(readySources'))
    BY <1>2 DEF SourceReady
  <2>2. IsSource(c) /\ SlotOf(c) \in SourceSlots
    BY <2>1, <1>t DEF Joined
  <2>3. Held(SlotOf(c))
    BY <2>2 DEF Held, SlotOf, IsSource
  <2> QED
    BY <2>1, <2>2, <2>3 DEF SetUp
<1>3. ASSUME NEW c \in Conns, HandlerClosed(c) PROVE readySources' \subseteq readySources /\ sourcesReady' = sourcesReady
  BY <1>3 DEF HandlerClosed, StillReady, events
<1>4. \/ UNCHANGED <<readySources, sourcesReady>>
      \/ \E c \in Conns : SourceReady(c) \/ HandlerClosed(c)
  BY ZenonT(40) DEF Next, Run, StartTraffic, RequestStop, ShutDown, Exit, vars, Handler, Refuse,
     RegisterBroker, RegisterSource, AssignSource, ReadClosed, Worker,
     BrokerAssigned, SourceAssigned, SourceConnected, SourceStarts, WorkerStops, SourceGivesUp,
     WorkerSeesEof, WorkerCrashes, Ends, Reads, Launch, registry, events
<1>5. /\ readySources' # {} => brokersRegistered'
      /\ \A k \in readySources' : Held(k)'
  <2>1. \A k \in readySources : Held(k)'
    BY <1>h, <1>t DEF SetUp
  <2>2. CASE readySources' \subseteq readySources
    BY <2>1, <2>2, <1>b DEF SetUp
  <2>3. ASSUME NEW c \in Conns, SourceReady(c)
        PROVE  brokersRegistered' /\ \A k \in readySources' : Held(k)'
    BY <2>1, <2>3, <1>2, <1>b, <1>h
  <2> QED
    BY <2>2, <2>3, <1>3, <1>4
<1>6. sourcesReady' => brokersRegistered' /\ \A k \in SourceSlots : Held(k)'
  <2>1. CASE sourcesReady
    BY <2>1, <1>b, <1>h DEF SetUp
  <2>2. CASE ~sourcesReady /\ sourcesReady'
    <3>1. PICK c \in Conns : SourceReady(c)
      BY <2>2, <1>3, <1>4
    <3>2. AllReady(readySources')
      BY <2>2, <3>1, <1>2
    <3>3. readySources' = SourceSlots
      <4>1. IsFiniteSet(SourceSlots) /\ Cardinality(SourceSlots) = N
        BY CountsTyped, FS_Interval DEF SourceSlots
      <4>2. Cardinality(readySources') = Cardinality(SourceSlots)
        BY <3>2, <4>1 DEF AllReady
      <4> QED
        BY <1>t, <4>1, <4>2, FS_Subset
    <3> QED
      BY <3>1, <3>3, <1>2, <1>5, <1>b
  <2> QED
    BY <2>1, <2>2
<1>7. pc' = "rounds" => sourcesReady'
  <2>1. pc' = "rounds" => pc = "rounds" \/ sourcesReady
    BY ZenonT(40) DEF Next, Run, StartTraffic, RequestStop, ShutDown, Exit, vars, Handler, Refuse,
       RegisterBroker, RegisterSource, AssignSource, SourceReady, ReadClosed, HandlerClosed, Worker,
       BrokerAssigned, SourceAssigned, SourceConnected, SourceStarts, WorkerStops, SourceGivesUp,
       WorkerSeesEof, WorkerCrashes, Ends, Reads, Launch, control
  <2>2. sourcesReady => sourcesReady'
    BY <1>2, <1>3, <1>4
  <2> QED
    BY <2>1, <2>2 DEF SetUp
<1> QED
  BY <1>1, <1>5, <1>6, <1>7 DEF SetUp

-----------------------------------------------------------------------------
NoneEnded == \A c \in Conns : worker[c] # "ended"

\* one process per name
Alone == \A c, d \in Conns : c # d /\ SameName(c, d) => ~Launched(c) \/ ~Launched(d)

\* an assignment names the addresses, which are all known
MessageFits(c, m, addresses) ==
  /\ m.type = "assignment" => m.brokers = addresses /\ AllKnown(addresses)
  /\ m.type = "welcome" => ~IsSource(c)

\* how the start-up stands when no process has ended
Undisturbed ==
  /\ Alone
  /\ brokerAddresses = brokerChannels
  /\ \A c \in Conns : \A i \in 1 .. Len(toWorker[c]) : MessageFits(c, toWorker[c][i], brokerAddresses)
  /\ \A c \in Conns : IsSource(c) /\ worker[c] \in {"connecting", "running"} =>
       brokersOf[c] = brokerAddresses /\ AllKnown(brokerAddresses)
  /\ \A c \in Conns : IsSource(c) /\ handler[c] \in {"ready", "serving"} => channels[SlotOf(c)] = c
  /\ \A k \in readySources : channels[k] # NoConn /\ handler[channels[k]] = "serving"
  /\ sourcesReady => readySources = SourceSlots
  /\ pc = "rounds" => sourcesReady

UndisturbedInv == NoneEnded => Undisturbed

\* Nothing is sent or registered at first.
LEMMA UndisturbedInit == Init => UndisturbedInv
<1> SUFFICES ASSUME Init PROVE Undisturbed
  BY DEF UndisturbedInv
<1>1. \A c \in Conns : toWorker[c] = << >> /\ Len(toWorker[c]) = 0
  BY DEF Init
<1> QED
  BY <1>1 DEF Init, Undisturbed, Alone, Launched

\* While no process ends, registrations, assignments and channels agree.
LEMMA UndisturbedNext ==
  ASSUME TypeInv, TypeInv', StepInv, StepInv', UndisturbedInv, [Next]_vars
  PROVE  UndisturbedInv'
<1> SUFFICES ASSUME NoneEnded' PROVE Undisturbed'
  BY DEF UndisturbedInv
<1>t. /\ handler \in [Conns -> Handlers] /\ link \in [Conns -> {"unused", "up", "cut", "closed"}]
      /\ worker \in [Conns -> {"off", "registering", "connecting", "running", "ended"}]
      /\ channels \in [SourceSlots -> Conns \cup {NoConn}]
      /\ brokerChannels \in [BrokerSlots -> Conns \cup {NoConn}]
      /\ brokerAddresses \in [BrokerSlots -> Conns \cup {NoConn}]
      /\ brokersOf \in [Conns -> Addresses \cup {<< >>}]
      /\ readySources \subseteq SourceSlots /\ readySources' \subseteq SourceSlots
  BY DEF TypeInv, TypeOK
<1>q. toWorker \in [Conns -> Seq(ToWorker)]
  BY DEF TypeInv, TypeOK
<1>w. waiters \in Seq(Conns) /\ Waiting /\ Known /\ Joined
  BY DEF TypeInv, TypeOK
<1>i. SlotsInv /\ SlotsInv' /\ InStep /\ ChannelsOf /\ ChannelsOf' /\ LinkFollows
  BY DEF TypeInv, StepInv
<1>s. \A x \in Instances : slots[x] # NoSlot => slots'[x] = slots[x]
  BY SlotsKept DEF TypeInv
<1>c. \A c \in Conns : InstanceOf(c) \in Instances /\ c # NoConn
  BY InstancesTyped
<1>0. NoneEnded
  <2> SUFFICES ASSUME NEW c \in Conns, worker[c] = "ended" PROVE worker'[c] = "ended"
    BY DEF NoneEnded
  <2> QED
    BY RunTouchesNone, OthersUntouched, OwnMoves DEF Next
<1>u. Undisturbed
  BY <1>0 DEF UndisturbedInv
\* no process has ended: no connection is lost
<1>l. ASSUME NEW c \in Conns
      PROVE  /\ link[c] \notin {"cut", "closed"}
             /\ worker[c] # "off" => ~MayRaise(c)
             /\ ~Ends(c) /\ ~ReadClosed(c) /\ ~HandlerClosed(c)
  <2>1. link[c] \notin {"cut", "closed"} /\ (worker[c] # "off" => ~MayRaise(c))
    BY <1>0, <1>i, <1>t DEF NoneEnded, LinkFollows, MayRaise
  <2>2. ~Ends(c)
    BY <1>t DEF Ends, NoneEnded
  <2> QED
    BY <2>1, <2>2 DEF ReadClosed, HandlerClosed
\* each name has one process, and keeps it
<1>1. Alone'
  <2> SUFFICES ASSUME NEW c \in Conns, NEW d \in Conns, c # d, SameName(c, d), Launched(c)', Launched(d)'
               PROVE  FALSE
    BY DEF Alone, SameName
  <2>1. ASSUME NEW a \in Conns, NEW b \in Conns, a # b, SameName(a, b), Launch(a), Launched(b)'
        PROVE  FALSE
    <3>1. worker[b] \in {"off", "ended"} /\ worker'[b] = worker[b]
      BY <2>1, OthersUntouched DEF Launch, Processes, SameName
    <3> QED
      BY <2>1, <3>1, <1>0 DEF Launched, NoneEnded
  <2>2. (Launched(c) \/ Launch(c)) /\ (Launched(d) \/ Launch(d))
    BY GoneStays
  <2> QED
    BY <2>1, <2>2, <1>u DEF Undisturbed, Alone, SameName
\* processes with one slot are one
<1>a. (SlotsInv => \A c, d \in Conns :
        (IsSource(c) <=> IsSource(d)) /\ SlotOf(c) # NoSlot /\ SlotOf(c) = SlotOf(d) => SameName(c, d))'
  BY SlotTellsName, PTL
<1>2. ASSUME NEW c \in Conns, NEW d \in Conns, IsSource(c) <=> IsSource(d), handler[c] # "none",
             handler[d] # "none", SlotOf(c)' # NoSlot, SlotOf(c)' = SlotOf(d)'
      PROVE  c = d
  <2>2. SameName(c, d)
    BY <1>2, <1>a, <1>i DEF SameName
  <2> QED
    BY <1>2, <2>2, <1>u, <1>i DEF Undisturbed, Alone, InStep, Launched
\* the slot of a process that has one
<1>n. ASSUME NEW c \in Conns, handler[c] \in {"brokers", "ready", "serving"}
      PROVE  SlotOf(c)' = SlotOf(c) /\ SlotOf(c) # NoSlot /\ (IsSource(c) => SlotOf(c) \in SourceSlots)
  <2>1. SlotOf(c) # NoSlot
    BY <1>n, <1>w DEF Joined
  <2>2. IsSource(c) => slots[InstanceOf(c)] \in Nat /\ slots[InstanceOf(c)] < N
    BY <2>1, <1>c, <1>i DEF SlotOf, SlotsInv, SlotsTyped, OneNamePerSlot, IsSource, Limit
  <2> QED
    BY <2>1, <2>2, <1>c, <1>s, CountsTyped DEF SlotOf, SourceSlots
\* a broker's address does not change once all are known
<1>3. ASSUME AllKnown(brokerAddresses) PROVE brokerAddresses' = brokerAddresses
  <2>1. ASSUME NEW c \in Conns, RegisterBroker(c) PROVE FALSE
    <3> DEFINE j == Assign(InstanceOf(c))
    <3>1. ~IsSource(c) /\ TakesHello(c) /\ handler[c] = "hello" /\ j # NoSlot
      BY <2>1 DEF RegisterBroker, TakesHello
    <3>2. j \in BrokerSlots /\ SlotOf(c)' = j
      BY <3>1, <1>i, Hello DEF BrokerSlots
    <3>3. PICK e \in Conns : ~IsSource(e) /\ SlotOf(e) = j /\ handler[e] = "serving"
      BY <3>2, <1>3, <1>u, <1>t, <1>i DEF AllKnown, Undisturbed, ChannelsOf
    <3> HIDE DEF j
    <3>4. SlotOf(e)' = j
      BY <3>3, <1>n
    <3>5. c = e
      BY <3>1, <3>2, <3>3, <3>4, <1>2
    <3> QED
      BY <3>1, <3>3, <3>5
  <2> QED
    BY <2>1, RunTouchesNone DEF Next, Handler, Refuse, RegisterSource, AssignSource, SourceReady,
       ReadClosed, HandlerClosed, Worker, BrokerAssigned, SourceAssigned, SourceConnected,
       SourceStarts,
       WorkerStops, SourceGivesUp, WorkerSeesEof, WorkerCrashes, Ends, Reads, Launch, registry
<1>4. brokerAddresses' = brokerChannels'
  <2>1. ASSUME NEW c \in Conns, RegisterBroker(c) PROVE brokerAddresses' = brokerChannels'
    <3>1. handler[c] = "hello" /\ worker[c] # "off"
      BY <2>1, <1>i DEF RegisterBroker, TakesHello, InStep
    <3> QED
      BY <2>1, <3>1, <1>l, <1>u DEF RegisterBroker, Undisturbed
  <2> QED
    BY <2>1, <1>l, <1>u, RunTouchesNone DEF Undisturbed, Next, Handler, Refuse, RegisterSource,
       AssignSource, SourceReady, Worker, BrokerAssigned, SourceAssigned, SourceConnected,
       SourceStarts,
       WorkerStops, SourceGivesUp, WorkerSeesEof, WorkerCrashes, Reads, Launch, registry
\* the messages under way
<1>5. ASSUME NEW d \in Conns, NEW i \in 1 .. Len(toWorker'[d])
      PROVE  MessageFits(d, toWorker'[d][i], brokerAddresses')
  <2>0. \A k \in 1 .. Len(toWorker[d]) : MessageFits(d, toWorker[d][k], brokerAddresses)
    BY <1>u DEF Undisturbed
  <2>1. ASSUME NEW m \in ToWorker, MessageFits(d, m, brokerAddresses)
        PROVE  MessageFits(d, m, brokerAddresses')
    BY <2>1, <1>3 DEF MessageFits
  <2>2. CASE toWorker'[d] = toWorker[d]
    <3>1. toWorker[d][i] \in ToWorker
      BY <2>2, <1>q
    <3> QED
      BY <2>0, <2>1, <2>2, <3>1
  <2>3. ASSUME NEW m \in ToWorker, m.type \notin {"assignment", "welcome"},
               toWorker'[d] = toWorker[d] \/ toWorker'[d] = Append(toWorker[d], m)
        PROVE  MessageFits(d, toWorker'[d][i], brokerAddresses')
    <3>1. CASE toWorker'[d] = Append(toWorker[d], m)
      <4>1. /\ toWorker[d] \in Seq(ToWorker) /\ Len(toWorker[d]) \in Nat
            /\ Len(toWorker'[d]) = Len(toWorker[d]) + 1
            /\ \A k \in 1 .. Len(toWorker[d]) : toWorker'[d][k] = toWorker[d][k]
            /\ toWorker'[d][Len(toWorker[d]) + 1] = m
        BY <3>1, <1>q, AppendAt
      <4>2. i \in 1 .. Len(toWorker[d]) \/ i = Len(toWorker[d]) + 1
        BY <4>1
      <4>3. CASE i \in 1 .. Len(toWorker[d])
        <5>1. toWorker'[d][i] = toWorker[d][i] /\ toWorker[d][i] \in ToWorker
          BY <4>1, <4>3
        <5> QED
          BY <2>0, <2>1, <4>3, <5>1
      <4>4. CASE i = Len(toWorker[d]) + 1
        BY <2>3, <4>1, <4>4 DEF MessageFits
      <4> QED
        BY <4>2, <4>3, <4>4
    <3> QED
      BY <2>2, <2>3, <3>1
  <2>4. ASSUME NEW m \in ToWorker, MessageFits(d, m, brokerAddresses'), toWorker'[d] = Append(toWorker[d], m)
        PROVE  MessageFits(d, toWorker'[d][i], brokerAddresses')
    <3>1. /\ toWorker[d] \in Seq(ToWorker) /\ Len(toWorker[d]) \in Nat
          /\ Len(toWorker'[d]) = Len(toWorker[d]) + 1
          /\ \A k \in 1 .. Len(toWorker[d]) : toWorker'[d][k] = toWorker[d][k]
          /\ toWorker'[d][Len(toWorker[d]) + 1] = m
      BY <2>4, <1>q, AppendAt
    <3>2. i \in 1 .. Len(toWorker[d]) \/ i = Len(toWorker[d]) + 1
      BY <3>1
    <3>3. CASE i \in 1 .. Len(toWorker[d])
      <4>1. toWorker'[d][i] = toWorker[d][i] /\ toWorker[d][i] \in ToWorker
        BY <3>1, <3>3
      <4> QED
        BY <2>0, <2>1, <3>3, <4>1
    <3>4. CASE i = Len(toWorker[d]) + 1
      BY <2>4, <3>1, <3>4
    <3> QED
      BY <3>2, <3>3, <3>4
  <2>5. CASE toWorker[d] # << >> /\ toWorker'[d] = Tail(toWorker[d])
    <3>1. /\ toWorker[d] \in Seq(ToWorker) /\ Len(toWorker[d]) \in Nat
          /\ Len(toWorker'[d]) = Len(toWorker[d]) - 1
          /\ \A k \in 1 .. Len(toWorker[d]) - 1 : toWorker'[d][k] = toWorker[d][k + 1]
      BY <2>5, <1>q, TailAt
    <3>2. i + 1 \in 1 .. Len(toWorker[d]) /\ toWorker'[d][i] = toWorker[d][i + 1]
      BY <3>1
    <3>3. toWorker[d][i + 1] \in ToWorker
      BY <3>1, <3>2
    <3> QED
      BY <2>0, <2>1, <3>2, <3>3
  <2>6. CASE Run \/ RequestStop \/ UNCHANGED vars
    <3>1. \/ toWorker' = toWorker
          \/ \E cs : toWorker' = Sent(cs, [type |-> "start"]) \/ toWorker' = Sent(cs, [type |-> "stop"])
      BY <2>6 DEF Run, StartTraffic, ShutDown, Exit, RequestStop, vars, messages
    <3>2. CASE toWorker' = toWorker
      BY <2>2, <3>2
    <3>3. ASSUME NEW cs, toWorker' = Sent(cs, [type |-> "start"])
          PROVE  MessageFits(d, toWorker'[d][i], brokerAddresses')
      <4>1. toWorker'[d] = toWorker[d] \/ toWorker'[d] = Append(toWorker[d], [type |-> "start"])
        BY <3>3, <1>q, Messages, SentOrNot
      <4> QED
        BY <4>1, <2>3, Messages
    <3>4. ASSUME NEW cs, toWorker' = Sent(cs, [type |-> "stop"])
          PROVE  MessageFits(d, toWorker'[d][i], brokerAddresses')
      <4>1. toWorker'[d] = toWorker[d] \/ toWorker'[d] = Append(toWorker[d], [type |-> "stop"])
        BY <3>4, <1>q, Messages, SentOrNot
      <4> QED
        BY <4>1, <2>3, Messages
    <3> QED
      BY <3>1, <3>2, <3>3, <3>4
  <2>7. ASSUME NEW c \in Conns, c # d, Handler(c) \/ Worker(c) \/ Launch(c) \/ WorkerCrashes(c)
        PROVE  toWorker'[d] = toWorker[d]
    BY <2>7, OthersUntouched
  <2>8. ASSUME Refuse(d) \/ SourceReady(d) PROVE MessageFits(d, toWorker'[d][i], brokerAddresses')
    <3>1. \/ toWorker'[d] = toWorker[d]
          \/ toWorker'[d] = Append(toWorker[d], [type |-> "refused"])
          \/ toWorker'[d] = Append(toWorker[d], [type |-> "start"])
      BY <2>8, <1>q, Messages, SentOrNot DEF Refuse, SourceReady
    <3> QED
      BY <2>2, <2>3, <3>1, Messages
  <2>9. ASSUME RegisterBroker(d) PROVE MessageFits(d, toWorker'[d][i], brokerAddresses')
    <3>1. \/ toWorker'[d] = toWorker[d]
          \/ toWorker'[d] = Append(toWorker[d], [type |-> "welcome"])
      BY <2>9, <1>q, Messages, SentOrNot DEF RegisterBroker
    <3>2. MessageFits(d, [type |-> "welcome"], brokerAddresses')
      BY <2>9 DEF RegisterBroker, MessageFits
    <3> QED
      BY <2>2, <2>4, <3>1, <3>2, Messages
  <2>10. ASSUME AssignSource(d) PROVE MessageFits(d, toWorker'[d][i], brokerAddresses')
    <3> DEFINE m == [type |-> "assignment", brokers |-> brokerAddresses]
    <3>1. brokerAddresses \in Addresses /\ AllKnown(brokerAddresses) /\ brokerAddresses' = brokerAddresses
      BY <2>10, <1>w, <1>t DEF AssignSource, Known, AllKnown, Addresses
    <3>2. m \in ToWorker /\ MessageFits(d, m, brokerAddresses')
      BY <3>1, Messages DEF MessageFits
    <3>3. toWorker' = toWorker \/ toWorker' = Sent({d}, m)
      BY <2>10 DEF AssignSource
    <3> HIDE DEF m
    <3>4. toWorker'[d] = toWorker[d] \/ toWorker'[d] = Append(toWorker[d], m)
      BY <3>2, <3>3, <1>q, SentOrNot
    <3> QED
      BY <2>2, <2>4, <3>2, <3>4
  <2>11. ASSUME RegisterSource(d) \/ Launch(d) \/ SourceConnected(d)
         PROVE  toWorker'[d] = toWorker[d]
    BY <2>11 DEF RegisterSource, Launch, SourceConnected
  <2>12. ASSUME BrokerAssigned(d) \/ SourceAssigned(d) \/ SourceStarts(d)
         PROVE  toWorker[d] # << >> /\ toWorker'[d] = Tail(toWorker[d])
    BY <2>12, <1>q DEF BrokerAssigned, SourceAssigned, SourceStarts, Reads
  <2> QED
    BY <2>2, <2>5, <2>6, <2>7, <2>8, <2>9, <2>10, <2>11, <2>12, <1>l
    DEF Next, Handler, Worker, WorkerStops, SourceGivesUp, WorkerSeesEof, WorkerCrashes
\* a source that was sent its assignment
<1>6. ASSUME NEW d \in Conns, IsSource(d), worker'[d] \in {"connecting", "running"}
      PROVE  brokersOf'[d] = brokerAddresses' /\ AllKnown(brokerAddresses)'
  <2>1. ASSUME worker'[d] = worker[d] \/ SourceConnected(d), brokersOf'[d] = brokersOf[d]
        PROVE  brokersOf'[d] = brokerAddresses' /\ AllKnown(brokerAddresses)'
    <3>1. worker[d] \in {"connecting", "running"}
      BY <1>6, <2>1 DEF SourceConnected
    <3>2. brokersOf[d] = brokerAddresses /\ AllKnown(brokerAddresses)
      BY <1>6, <3>1, <1>u DEF Undisturbed
    <3> QED
      BY <2>1, <3>2, <1>3 DEF AllKnown
  <2>2. CASE SourceAssigned(d)
    <3>1. PICK b \in Addresses : /\ Reads(d, [type |-> "assignment", brokers |-> b])
                                 /\ brokersOf' = [brokersOf EXCEPT ![d] = b]
      BY <2>2 DEF SourceAssigned
    <3>2. toWorker[d] # << >> /\ toWorker[d][1] = [type |-> "assignment", brokers |-> b]
          /\ Len(toWorker[d]) \in Nat /\ Len(toWorker[d]) >= 1
      BY <3>1, <1>q, TailAt DEF Reads
    <3>3. MessageFits(d, [type |-> "assignment", brokers |-> b], brokerAddresses)
      BY <3>2, <1>u DEF Undisturbed
    <3>4. b = brokerAddresses /\ AllKnown(brokerAddresses)
      BY <3>3 DEF MessageFits
    <3> QED
      BY <3>1, <3>4, <1>3, <1>t DEF AllKnown
  <2>3. ~BrokerAssigned(d)
    <3> SUFFICES ASSUME BrokerAssigned(d) PROVE FALSE
      OBVIOUS
    <3>1. toWorker[d] # << >> /\ toWorker[d][1] = [type |-> "welcome"]
          /\ Len(toWorker[d]) \in Nat /\ Len(toWorker[d]) >= 1
      BY <1>q, TailAt DEF BrokerAssigned, Reads
    <3>2. MessageFits(d, [type |-> "welcome"], brokerAddresses)
      BY <3>1, <1>u DEF Undisturbed
    <3> QED
      BY <3>2, <1>6 DEF MessageFits
  <2>4. CASE Run \/ RequestStop \/ UNCHANGED vars
    BY <2>1, <2>4, RunTouchesNone
  <2>5. ASSUME NEW c \in Conns, c # d, Handler(c) \/ Worker(c) \/ Launch(c) \/ WorkerCrashes(c)
        PROVE  worker'[d] = worker[d] /\ brokersOf'[d] = brokersOf[d]
    BY <2>5, OthersUntouched
  <2>6. ASSUME Launch(d) PROVE FALSE
    BY <2>6, <1>6, <1>t DEF Launch
  <2>7. ASSUME Handler(d) PROVE worker'[d] = worker[d] /\ brokersOf'[d] = brokersOf[d]
    BY <2>7 DEF Handler, Refuse, RegisterBroker, RegisterSource, AssignSource, SourceReady,
       ReadClosed,
                HandlerClosed, workers
  <2>8. ASSUME SourceConnected(d) \/ SourceStarts(d)
        PROVE  (worker'[d] = worker[d] \/ SourceConnected(d)) /\ brokersOf'[d] = brokersOf[d]
    BY <2>8 DEF SourceConnected, SourceStarts
  <2> QED
    BY <2>1, <2>2, <2>3, <2>4, <2>5, <2>6, <2>7, <2>8, <1>l
    DEF Next, Worker, WorkerStops, SourceGivesUp, WorkerSeesEof, WorkerCrashes
\* channels names the source of the slot
<1>7. ASSUME NEW c \in Conns, AssignSource(c)
      PROVE  /\ handler[c] = "brokers" /\ IsSource(c) /\ SlotOf(c) \in SourceSlots
             /\ channels' = [channels EXCEPT ![SlotOf(c)] = c]
             /\ handler' = [handler EXCEPT ![c] = "ready"]
  <2>1. handler[c] = "brokers"
    BY <1>7, <1>w, TailAt DEF AssignSource, Waiting
  <2>2. IsSource(c) /\ SlotOf(c) \in SourceSlots /\ worker[c] # "off"
    BY <2>1, <1>w, <1>n, <1>i DEF Joined, InStep
  <2> QED
    BY <1>7, <2>1, <2>2, <1>l DEF AssignSource
<1>8. channels' = channels \/ \E c \in Conns : AssignSource(c)
  BY <1>l, RunTouchesNone DEF Next, Handler, Refuse, RegisterBroker, RegisterSource, SourceReady,
     Worker, BrokerAssigned, SourceAssigned, SourceConnected, SourceStarts,
     WorkerStops, SourceGivesUp, WorkerSeesEof, WorkerCrashes, Reads, Launch, registry
<1>9. ASSUME NEW d \in Conns, IsSource(d), handler'[d] \in {"ready", "serving"}
      PROVE  channels'[SlotOf(d)'] = d
  <2>1. CASE AssignSource(d)
    BY <2>1, <1>7, <1>n, <1>t
  <2>2. CASE ~AssignSource(d)
    <3>1. handler[d] \in {"ready", "serving"}
      <4>1. CASE Handler(d) \/ Worker(d) \/ Launch(d) \/ WorkerCrashes(d)
        <5>1. ~RegisterBroker(d) /\ ~(Refuse(d) \/ RegisterSource(d))
          BY <1>9, <1>t DEF RegisterBroker, Refuse, RegisterSource
        <5> QED
          BY <2>2, <4>1, <5>1, <1>9, OwnMoves
      <4>2. CASE ~(Handler(d) \/ Worker(d) \/ Launch(d) \/ WorkerCrashes(d))
        BY <4>2, <1>9, RunTouchesNone, OthersUntouched DEF Next
      <4> QED
        BY <4>1, <4>2
    <3>2. channels[SlotOf(d)] = d /\ SlotOf(d)' = SlotOf(d) /\ SlotOf(d) \in SourceSlots /\ SlotOf(d) # NoSlot
      BY <3>1, <1>9, <1>n, <1>u DEF Undisturbed
    <3>3. ASSUME NEW c \in Conns, AssignSource(c) PROVE channels'[SlotOf(d)] = d
      <4>1. handler[c] = "brokers" /\ IsSource(c) /\ c # d /\ SlotOf(c)' = SlotOf(c)
        BY <3>3, <2>2, <1>7, <1>n
      <4>2. SlotOf(c) # SlotOf(d)
        BY <4>1, <3>1, <3>2, <1>9, <1>2
      <4> QED
        BY <3>2, <3>3, <4>2, <1>7, <1>t
    <3> QED
      BY <3>2, <3>3, <1>8
  <2> QED
    BY <2>1, <2>2
\* the sources that are ready
<1>10. ASSUME NEW c \in Conns, SourceReady(c)
       PROVE  /\ handler[c] = "ready" /\ readySources' = readySources \cup {SlotOf(c)}
              /\ handler' = [handler EXCEPT ![c] = "serving"]
              /\ sourcesReady' = (sourcesReady \/ AllReady(readySources'))
  <2>1. handler[c] = "ready" /\ worker[c] # "off"
    BY <1>10, <1>i DEF SourceReady, InStep
  <2> QED
    BY <1>10, <2>1, <1>l DEF SourceReady
<1>11. \/ UNCHANGED <<readySources, sourcesReady>>
       \/ \E c \in Conns : SourceReady(c)
  BY ZenonT(40), <1>l, RunTouchesNone DEF Next, Handler, Refuse, RegisterBroker, RegisterSource, AssignSource,
     Worker, BrokerAssigned, SourceAssigned, SourceConnected, SourceStarts,
     WorkerStops, SourceGivesUp, WorkerSeesEof, WorkerCrashes, Reads, Launch, registry, events
<1>12. ASSUME NEW k \in readySources'
       PROVE  channels'[k] # NoConn /\ handler'[channels'[k]] = "serving"
  <2>1. CASE k \in readySources
    <3> DEFINE e == channels[k]
    <3>1. e \in Conns /\ handler[e] = "serving" /\ IsSource(e) /\ SlotOf(e) = k
      BY <2>1, <1>u, <1>t, <1>i DEF Undisturbed, ChannelsOf
    <3> HIDE DEF e
    <3>2. handler'[e] = "serving"
      <4>1. CASE Handler(e) \/ Worker(e) \/ Launch(e) \/ WorkerCrashes(e)
        <5>1. ~Launch(e) /\ ~HandlerClosed(e)
          BY <3>1, <1>l, <1>i DEF Launch, InStep
        <5> QED
          BY <4>1, <5>1, <3>1, OwnMoves
      <4>2. CASE ~(Handler(e) \/ Worker(e) \/ Launch(e) \/ WorkerCrashes(e))
        BY <4>2, <3>1, RunTouchesNone, OthersUntouched DEF Next
      <4> QED
        BY <4>1, <4>2
    <3>3. channels'[k] = e
      BY <3>1, <3>2, <1>9, <1>n
    <3> QED
      BY <3>1, <3>2, <3>3, <1>c
  <2>2. CASE k \notin readySources
    <3>1. PICK c \in Conns : SourceReady(c)
      BY <2>2, <1>11
    <3>2. k = SlotOf(c) /\ handler'[c] = "serving" /\ handler[c] = "ready" /\ IsSource(c)
      BY <2>2, <3>1, <1>10, <1>t, <1>w DEF Joined
    <3>3. channels'[k] = c
      BY <3>2, <1>9, <1>n
    <3> QED
      BY <3>2, <3>3, <1>c
  <2> QED
    BY <2>1, <2>2
<1>13. sourcesReady' => readySources' = SourceSlots
  <2>1. ASSUME AllReady(readySources') PROVE readySources' = SourceSlots
    <3>1. IsFiniteSet(SourceSlots) /\ Cardinality(SourceSlots) = N
      BY CountsTyped, FS_Interval DEF SourceSlots
    <3>2. Cardinality(readySources') = Cardinality(SourceSlots)
      BY <2>1, <3>1 DEF AllReady
    <3> QED
      BY <1>t, <3>1, <3>2, FS_Subset
  <2> QED
    BY <2>1, <1>10, <1>11, <1>u, <1>t DEF Undisturbed
<1>14. pc' = "rounds" => sourcesReady'
  <2>1. pc' = "rounds" => pc = "rounds" \/ sourcesReady
    BY ZenonT(40) DEF Next, Run, StartTraffic, RequestStop, ShutDown, Exit, vars, Handler, Refuse,
       RegisterBroker,
           RegisterSource, AssignSource, SourceReady, ReadClosed, HandlerClosed, Worker,
           BrokerAssigned,
           SourceAssigned, SourceConnected, SourceStarts, WorkerStops, SourceGivesUp, WorkerSeesEof,
           WorkerCrashes, Ends, Reads, Launch, control
  <2> QED
    BY <2>1, <1>10, <1>11, <1>u DEF Undisturbed
<1> QED
  BY <1>1, <1>4, <1>5, <1>6, <1>9, <1>12, <1>13, <1>14 DEF Undisturbed

\* What the rounds begin with, in every run and when no process has ended.
LEMMA UndisturbedBegins ==
  TypeInv /\ StepInv /\ UndisturbedInv /\ SetUp => RoundsCanBegin
<1>s. TypeInv /\ SetUp /\ pc = "rounds" =>
        AllKnown(brokerAddresses) /\ \A k \in SourceSlots : \E x \in SourceInstances : slots[x] = k
  BY DEF SetUp, Held, TypeInv, Known
<1> SUFFICES ASSUME TypeInv, StepInv, UndisturbedInv, pc = "rounds", NoneEnded
             PROVE  /\ \A k \in SourceSlots :
                         /\ channels[k] # NoConn
                         /\ handler[channels[k]] = "serving" /\ worker[channels[k]] = "running"
                         /\ brokersOf[channels[k]] = brokerChannels
                    /\ \A k \in BrokerSlots : handler[brokerChannels[k]] = "serving"
  BY <1>s DEF RoundsCanBegin, NoneEnded
<1>t. channels \in [SourceSlots -> Conns \cup {NoConn}]
  BY DEF TypeInv, TypeOK
<1>u. Undisturbed /\ ChannelsOf /\ InStep
  BY DEF UndisturbedInv, StepInv
<1>1. ASSUME NEW k \in SourceSlots
      PROVE  /\ channels[k] \in Conns /\ channels[k] # NoConn
             /\ handler[channels[k]] = "serving" /\ worker[channels[k]] = "running"
             /\ brokersOf[channels[k]] = brokerChannels /\ AllKnown(brokerAddresses)
  <2> DEFINE c == channels[k]
  <2>1. c # NoConn /\ handler[c] = "serving" /\ c \in Conns /\ IsSource(c)
    BY <1>t, <1>u DEF Undisturbed, ChannelsOf
  <2>2. worker[c] = "running"
    BY <2>1, <1>u DEF NoneEnded, InStep
  <2> QED
    BY <2>1, <2>2, <1>u DEF Undisturbed
<1>2. 0 \in SourceSlots
  BY CountsTyped DEF SourceSlots
<1>3. \A k \in BrokerSlots : handler[brokerChannels[k]] = "serving"
  BY <1>1, <1>2, <1>u DEF Undisturbed, AllKnown, ChannelsOf
<1> QED
  BY <1>1, <1>3

-----------------------------------------------------------------------------
ConnInv == TypeInv /\ StepInv

\* The invariant everything below starts from.
LEMMA Connections == Spec => []ConnInv
<1>1. Init => ConnInv
  BY TypedInit, StepInit DEF ConnInv
<1>2. ConnInv /\ [Next]_vars => ConnInv'
  BY TypedNext, StepNext DEF ConnInv
<1> QED
  BY <1>1, <1>2, PTL DEF Spec

\* Every variable of the start-up keeps its type: an index, a channel, an address
\* and a message is always one the code can hold.
THEOREM RegistrationTyped == Spec => []TypeOK
<1>1. ConnInv => TypeOK
  BY DEF ConnInv, TypeInv
<1> QED
  BY <1>1, Connections, PTL

\* The rounds begin only once every source index is held and every broker address
\* known, in every run (SetUp); in a run in which no process has ended, also with
\* every source and broker connected, assigned and running, and every source
\* sending to the registered brokers (Undisturbed).
THEOREM RoundsBeginComplete == Spec => []RoundsCanBegin
<1>1. Init => UndisturbedInv /\ SetUp
  BY UndisturbedInit, SetUpInit
<1>2. ConnInv /\ ConnInv' /\ UndisturbedInv /\ SetUp /\ [Next]_vars => (UndisturbedInv /\ SetUp)'
  BY UndisturbedNext, SetUpNext DEF ConnInv
<1>3. ConnInv /\ UndisturbedInv /\ SetUp => RoundsCanBegin
  BY UndisturbedBegins DEF ConnInv
<1> QED
  BY <1>1, <1>2, <1>3, Connections, PTL DEF Spec

ServedInv == LiveInv /\ PromptInv

\* run() leaves its wait and sets t0 in one step.
LEMMA NotStartedNext == NotStarted /\ [Next]_vars => NotStarted'
  BY ZenonT(60) DEF NotStarted, Next, Run, StartTraffic, RequestStop, ShutDown, Exit, vars, Handler, Refuse,
         RegisterBroker, RegisterSource, AssignSource, SourceReady, ReadClosed, HandlerClosed,
         Worker,
         BrokerAssigned, SourceAssigned, SourceConnected, SourceStarts, WorkerStops, SourceGivesUp,
         WorkerSeesEof, WorkerCrashes, Ends, Reads, Launch, control

\* PromptLoop: ready_sources and channels stay in step.
LEMMA Served == ASSUME PromptLoop PROVE Spec => []ServedInv
<1>1. Init => ServedInv
  BY PromptInit DEF ServedInv
<1>2. ConnInv /\ ConnInv' /\ ServedInv /\ [Next]_vars => ServedInv'
  <2> SUFFICES ASSUME ConnInv, ConnInv', ServedInv, [Next]_vars PROVE ServedInv'
    OBVIOUS
  <2> USE DEF ConnInv, ServedInv, LiveInv, PromptInv
  <2>1. OneLive'
    BY OneLiveNext
  <2>2. WaitOrder'
    BY WaitOrderNext
  <2>3. ReadyChannel'
    BY ReadyChannelNext
  <2>4. ReadyServed'
    BY ReadyServedNext
  <2>5. NotStarted'
    BY NotStartedNext
  <2>6. WhenReady'
    BY <2>4, <2>5, WhenReadyNext
  <2> QED
    BY <2>1, <2>2, <2>3, <2>4, <2>5, <2>6
<1> QED
  BY <1>1, <1>2, Connections, PTL DEF Spec

\* If the loop sees a lost connection before a process is started again, a source
\* counts as ready only while the process that said so is the one in channels.
THEOREM ReadySourcesServed == ASSUME PromptLoop PROVE Spec => []ReadyIsServed
<1>1. ServedInv => ReadyIsServed
  BY DEF ServedInv, PromptInv, ReadyServed, ReadyIsServed
<1> QED
  BY <1>1, Served, PTL

\* ... and no process is told to start its traffic twice over its connection, by
\* run() and by the handler it rejoins with.
THEOREM NoSecondStart == ASSUME PromptLoop PROVE Spec => []StartsOnce
<1>1. Init => ToldOnce
  <2> SUFFICES ASSUME Init, NEW c \in Conns PROVE Told(c) = 0
    BY DEF ToldOnce
  <2>1. toWorker[c] = << >> /\ starts[c] = 0
    BY DEF Init
  <2>2. StartsIn(<< >>) = {}
    BY DEF StartsIn
  <2>3. StartsIn(toWorker[c]) = {}
    BY <2>1, <2>2
  <2>4. StartsSent(c) = 0
    BY <2>3, FS_EmptySet DEF StartsSent, StartsIn
  <2> QED
    BY <2>1, <2>4 DEF Told
<1>2. ConnInv /\ ConnInv' /\ ServedInv /\ ToldOnce /\ [Next]_vars => ToldOnce'
  BY ToldOnceNext DEF ConnInv, ServedInv, PromptInv
<1>3. ToldOnce => StartsOnce
  BY DEF ToldOnce, Told, StartsOnce
<1> QED
  BY <1>1, <1>2, <1>3, Connections, Served, PTL DEF Spec
=============================================================================
