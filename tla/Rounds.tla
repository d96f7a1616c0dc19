-------------------------------- MODULE Rounds ------------------------------
(***************************************************************************)
(* The synchronous rounds of the distributed emulator, from the moment     *)
(* the traffic has started: src/distributed/controller.py (_gather,        *)
(* _round, _rounds, _shutdown and the registration of a RESTARTED          *)
(* worker), the control loops of broker.py and source.py, and the          *)
(* connections of protocol.py they talk over.                              *)
(*                                                                         *)
(* A connection is one element of Conns.  A worker process owns one        *)
(* connection for its lifetime; a restarted worker is a new process with   *)
(* a new connection for the same logical index.  The old connection may    *)
(* still hold a late reply, a request that has not failed yet, and a       *)
(* handler that has not noticed the loss.                                  *)
(*                                                                         *)
(* Every send of the controller is a write and a wait: drain() returns     *)
(* once the worker has read enough of what it was sent, and no timer runs  *)
(* over that wait.                                                         *)
(*                                                                         *)
(* Left out: time (a timer that runs may fire at any moment), what the     *)
(* numeric functions compute (PlanData), measurements, the data plane, and *)
(* the contents of start, which only carries t0.                           *)
(***************************************************************************)
EXTENDS PlanData, Integers, Sequences, FiniteSets

CONSTANTS
  Conns,        \* control connections, over the whole run
  NoConn,       \* the None of controller.channels
  Owner(_),     \* the worker at the far end of a connection
  FirstConn(_), \* the connection a worker registered with at startup
  Buffer,       \* messages a worker may leave unread before drain() waits
  MaxRounds,    \* BOUND: rounds the controller attempts, applied or skipped
  MaxProcesses  \* BOUND: worker processes over the whole run

Workers == Sources \cup Brokers

ASSUME ConnsTyped ==
  /\ NoConn \notin Conns
  /\ \A c \in Conns : Owner(c) \in Workers
  /\ \A w \in Workers : FirstConn(w) \in Conns /\ Owner(FirstConn(w)) = w

\* the first message on a new connection never waits
ASSUME BufferTyped == Buffer \in Nat \ {0}

ASSUME BoundsTyped == MaxRounds \in Nat /\ MaxProcesses \in Nat

VARIABLES
  \* ---- controller
  plan,         \* state.lambda_ij
  prices,       \* state.prices
  iteration,    \* state.iteration, and k of _rounds
  skipped,      \* skipped_rounds
  pc,           \* where run() is
  newPrices,    \* new_prices of _round
  held,         \* br_failures of _round
  unsent,       \* sources the routing loop of _round has still to reach
  draining,     \* the connection whose drain() _round or _shutdown waits for
  untold,       \* workers _shutdown has still to send stop
  telemetry,    \* the records of metrics.jsonl: iteration and br_failures
  stop,         \* the stop event
  raised,       \* run() is unwinding with an exception
  \* ---- controller, per worker
  chan,         \* channels[role][index]
  outcome,      \* of the worker's request in the gather under way, or last done
  gotPrice,     \* r["price"] of a broker's reply
  gotRow,       \* r["lambda_br"] of a source's reply
  ids,          \* Channel._ids: one value serves all requests of one gather
  \* ---- per connection
  link,         \* of the TCP connection and the controller's read loop
  pend,         \* the key of Channel.pending at the controller, 0 for none
  handler,      \* where _on_actor is
  toWorker,     \* sent by the controller, not yet read
  toController, \* sent by the worker, not yet read
  \* ---- workers
  proc,         \* the connection of the worker's latest process
  workerPrice,  \* BrokerWorker.price
  workerRow     \* SourceWorker.x_row

state == <<plan, prices, iteration>>
roundVars == <<skipped, newPrices, held, unsent, draining, untold, telemetry>>
requests == <<outcome, gotPrice, gotRow, pend, ids>>
network == <<link, toWorker, toController>>
registry == <<chan, handler, proc>>
workers == <<workerPrice, workerRow>>
vars == <<state, roundVars, pc, stop, raised, requests, network, registry, workers>>

Phases == {"idle", "prices", "responses", "routing", "shutdown", "stopping", "stopped"}
Links == {"unused", "up", "cut", "closed"}
Handlers == {"none", "ready", "starting", "serving", "done"}
Outcomes == {"none", "pending", "ok", "failed"}

ToBroker ==
  [type : {"price"}, req : Nat, price : Price, load : Load]
    \cup [type : {"assignment"}, price : Price]
    \cup [type : {"stop"}]

ToSource ==
  [type : {"best_response"}, req : Nat, prices : PriceVectors]
    \cup [type : {"routing", "assignment"}, row : Row]
    \cup [type : {"stop"}]

ToWorker(w) == IF w \in Brokers THEN ToBroker ELSE ToSource

FromBroker == [type : {"price"}, req : Nat, price : Price]

FromSource ==
  [type : {"ready"}]
    \cup [type : {"best_response"}, req : Nat, row : Row]
    \cup [type : {"failed"}, req : Nat]

FromWorker(w) == IF w \in Brokers THEN FromBroker ELSE FromSource

TypeOK ==
  /\ plan \in Plans /\ prices \in PriceVectors /\ iteration \in Nat
  /\ skipped \in Nat /\ pc \in Phases /\ newPrices \in PriceVectors
  /\ held \subseteq Sources /\ unsent \subseteq Sources
  /\ draining \in Conns \cup {NoConn} /\ untold \subseteq Workers
  /\ telemetry \in Seq([iteration : Nat, held : SUBSET Sources])
  /\ stop \in BOOLEAN /\ raised \in BOOLEAN
  /\ chan \in [Workers -> Conns \cup {NoConn}]
  /\ outcome \in [Workers -> Outcomes]
  /\ gotPrice \in PriceVectors /\ gotRow \in Plans /\ ids \in Nat
  /\ link \in [Conns -> Links] /\ pend \in [Conns -> Nat]
  /\ handler \in [Conns -> Handlers]
  /\ toWorker \in [Conns -> Seq(ToBroker \cup ToSource)]
  /\ toController \in [Conns -> Seq(FromBroker \cup FromSource)]
  /\ \A c \in Conns : /\ toWorker[c] \in Seq(ToWorker(Owner(c)))
                     /\ toController[c] \in Seq(FromWorker(Owner(c)))
  /\ proc \in [Workers -> Conns]
  /\ \A w \in Workers : Owner(proc[w]) = w /\ (chan[w] # NoConn => Owner(chan[w]) = w)
  /\ workerPrice \in PriceVectors /\ workerRow \in Plans

\* every worker registered, every source ready, start sent
Init ==
  /\ plan = InitialPlan /\ prices = InitialPrices /\ iteration = 0
  /\ skipped = 0 /\ pc = "idle" /\ newPrices = InitialPrices
  /\ held = {} /\ unsent = {} /\ draining = NoConn /\ untold = {} /\ telemetry = << >>
  /\ stop = FALSE /\ raised = FALSE
  /\ chan = [w \in Workers |-> FirstConn(w)]
  /\ outcome = [w \in Workers |-> "none"]
  /\ gotPrice = InitialPrices /\ gotRow = InitialPlan /\ ids = 0
  /\ link = [c \in Conns |-> IF c = FirstConn(Owner(c)) THEN "up" ELSE "unused"]
  /\ pend = [c \in Conns |-> 0]
  /\ handler = [c \in Conns |-> IF c = FirstConn(Owner(c)) THEN "serving" ELSE "none"]
  /\ toWorker = [c \in Conns |-> << >>]
  /\ toController = [c \in Conns |-> << >>]
  /\ proc = [w \in Workers |-> FirstConn(w)]
  /\ workerPrice = InitialPrices /\ workerRow = InitialPlan

-----------------------------------------------------------------------------
(***************************************************************************)
(* The controller's side of a connection.                                  *)
(***************************************************************************)

\* drain() waits: too much of what was written is unread.  What is unread on a
\* connection that is lost is gone, and so is the wait
Full(c) == Len(toWorker[c]) > Buffer

\* Channel.send to a peer that is gone: the bytes are lost, or drain() raises
MayRaise(c) == link[c] # "up"

\* the messages after controller sends msg[Owner(c)] on every c of cs; nothing
\* arrives on a connection that is not up
Sent(cs, msg) ==
  [c \in Conns |-> IF c \in cs /\ link[c] = "up"
                   THEN Append(toWorker[c], msg[Owner(c)]) ELSE toWorker[c]]

\* _gather: one request per worker of ws, all under a fresh id; a worker that
\* is not connected, and one whose send raises, fails at once
Gather(ws, msg) ==
  LET connected == {w \in ws : chan[w] # NoConn} IN
  \E broken \in SUBSET {w \in connected : MayRaise(chan[w])} :
    LET asked == connected \ broken
        via == {chan[w] : w \in asked}
    IN  /\ ids' = ids + 1
        /\ outcome' = [w \in Workers |-> IF w \in asked THEN "pending"
                                         ELSE IF w \in ws THEN "failed" ELSE outcome[w]]
        /\ pend' = [c \in Conns |-> IF c \in via THEN ids + 1 ELSE pend[c]]
        /\ toWorker' = Sent(via, msg)

\* mutant: the first outcome ends the gather
FirstGathered(ws) == \E w \in ws : outcome[w] # "pending"

\* gather has returned: every request of ws has an outcome
Gathered(ws) == \A w \in ws : outcome[w] # "pending"

Failed(ws) == {w \in ws : outcome[w] = "failed"}

\* _read_loop takes a message off connection c
Take(c) ==
  /\ link[c] \in {"up", "cut"}
  /\ toController[c] # << >>
  /\ toController' = [toController EXCEPT ![c] = Tail(@)]

\* mutant: any reply settles the request that is pending
AnyPendingMatches(c, m) == m.type # "ready" /\ pend[c] # 0

\* pending.pop(req): m answers the request that is pending on c
Matches(c, m) == m.type # "ready" /\ pend[c] # 0 /\ pend[c] = m.req

\* _read_loop: the reply to the request that is pending on c
ReceiveReply(c) ==
  LET m == Head(toController[c])
      w == Owner(c)
  IN  /\ Take(c)
      /\ Matches(c, m)
      /\ pend' = [pend EXCEPT ![c] = 0]
      /\ outcome' = [outcome EXCEPT ![w] = IF m.type = "failed" THEN "failed" ELSE "ok"]
      /\ gotPrice' = IF m.type = "price" THEN [gotPrice EXCEPT ![w] = m.price] ELSE gotPrice
      /\ gotRow' = IF m.type = "best_response" THEN [gotRow EXCEPT ![w] = m.row] ELSE gotRow
      /\ UNCHANGED <<state, roundVars, pc, stop, raised, ids, link, toWorker, registry, workers>>

\* _read_loop: no future waits for this req any more, the reply rests in inbox
ReceiveLateReply(c) ==
  LET m == Head(toController[c]) IN
  /\ Take(c)
  /\ m.type # "ready" /\ ~Matches(c, m)
  /\ UNCHANGED <<state, roundVars, pc, stop, raised, requests, link, toWorker, registry, workers>>

\* _on_actor gets a restarted source's ready and sends it start
ReceiveReady(c) ==
  /\ Take(c)
  /\ Head(toController[c]).type = "ready"
  /\ handler[c] = "ready"
  /\ handler' = [handler EXCEPT ![c] = "starting"]
  /\ UNCHANGED <<state, roundVars, pc, stop, raised, requests, link, toWorker, chan, proc, workers>>

\* that send returns; or it raises, and the handler ends there
StartSent(c) ==
  /\ handler[c] = "starting"
  /\ \/ ~Full(c) /\ handler' = [handler EXCEPT ![c] = "serving"]
     \/ MayRaise(c) /\ handler' = [handler EXCEPT ![c] = "done"]
  /\ UNCHANGED <<state, roundVars, pc, stop, raised, requests, network, chan, proc, workers>>

\* _read_loop ends: closed is set and the pending request fails; what the
\* worker sent last may be lost with the connection
ReadClosed(c) ==
  /\ link[c] = "cut"
  /\ link' = [link EXCEPT ![c] = "closed"]
  /\ toController' = [toController EXCEPT ![c] = << >>]
  /\ pend' = [pend EXCEPT ![c] = 0]
  /\ outcome' = IF pend[c] = 0 THEN outcome
                ELSE [outcome EXCEPT ![Owner(c)] = "failed"]
  /\ UNCHANGED <<state, roundVars, pc, stop, raised, gotPrice, gotRow, ids, toWorker, registry, workers>>

\* mutant: without "is channel"
ForgottenChannel(c) == [chan EXCEPT ![Owner(c)] = NoConn]

\* channels[role][index] after the handler of c has seen closed
ClearedChannel(c) ==
  IF chan[Owner(c)] = c THEN [chan EXCEPT ![Owner(c)] = NoConn] ELSE chan

\* _on_actor, after closed.wait(); a handler still waiting for ready never gets here
HandlerClosed(c) ==
  /\ link[c] = "closed" /\ handler[c] = "serving"
  /\ handler' = [handler EXCEPT ![c] = "done"]
  /\ chan' = ClearedChannel(c)
  /\ UNCHANGED <<state, roundVars, pc, stop, raised, requests, network, proc, workers>>

\* mutant: no timeout
WaitsForever(c) == FALSE /\ UNCHANGED vars

\* wait_for in Channel.request gives up on connection c; it waits for the reply
\* only, once the send before it is over
RequestTimeout(c) ==
  /\ pend[c] # 0 /\ ~Full(c)
  /\ pend' = [pend EXCEPT ![c] = 0]
  /\ outcome' = [outcome EXCEPT ![Owner(c)] = "failed"]
  /\ UNCHANGED <<state, roundVars, pc, stop, raised, gotPrice, gotRow, ids, network, registry, workers>>

-----------------------------------------------------------------------------
(***************************************************************************)
(* The controller's rounds.                                                *)
(***************************************************************************)

\* mutant: the load is left out
PriceOnlyRequest ==
  [j \in Brokers |-> [type |-> "price", req |-> ids + 1, price |-> prices[j]]]

\* the messages _round gathers prices with
PriceRequest ==
  [j \in Brokers |-> [type |-> "price", req |-> ids + 1, price |-> prices[j],
                      load |-> BrokerLoad(plan, j)]]

\* _rounds finds stop unset when the window is over; _round asks for prices
AskBrokers ==
  /\ pc = "idle" /\ ~stop
  /\ iteration + skipped < MaxRounds
  /\ pc' = "prices"
  /\ Gather(Brokers, PriceRequest)
  /\ UNCHANGED <<state, roundVars, stop, raised, gotPrice, gotRow, link, toController, registry, workers>>

\* the end of a pass of _rounds: on to the next window, or --duration is over
EndOfPass == pc' \in {"idle", "shutdown"}

\* no price from some broker: the round is skipped
SkipRound ==
  /\ pc = "prices" /\ Gathered(Brokers)
  /\ Failed(Brokers) # {}
  /\ skipped' = skipped + 1
  /\ EndOfPass
  /\ UNCHANGED <<state, newPrices, held, unsent, draining, untold, telemetry, stop, raised, requests,
                 network, registry, workers>>

\* all prices in: ask for best responses to them
AskSources ==
  /\ pc = "prices" /\ Gathered(Brokers)
  /\ Failed(Brokers) = {}
  /\ newPrices' = [j \in Brokers |-> gotPrice[j]]
  /\ pc' = "responses"
  /\ Gather(Sources, [i \in Sources |-> [type |-> "best_response", req |-> ids + 1,
                                         prices |-> newPrices']])
  /\ UNCHANGED <<state, skipped, held, unsent, draining, untold, telemetry, stop, raised, gotPrice,
                 gotRow, link, toController, registry, workers>>

\* mutant: a failed source moves to its previous best response
LastBR(failed) == gotRow

\* lambda_br of _round: a failed source holds its row
LambdaBR(failed) == [i \in Sources |-> IF i \in failed THEN plan[i] ELSE gotRow[i]]

\* apply_common_step
ApplyStep ==
  /\ pc = "responses" /\ Gathered(Sources)
  /\ held' = Failed(Sources)
  /\ plan' = CommonStep(plan, LambdaBR(Failed(Sources)))
  /\ prices' = newPrices
  /\ iteration' = iteration + 1
  /\ unsent' = Sources
  /\ pc' = "routing"
  /\ UNCHANGED <<skipped, newPrices, draining, untold, telemetry, stop, raised, requests, network,
                 registry, workers>>

\* one pass of the loop that sends each connected source its row, up to its
\* drain().  The code goes by index; here in any order
SendRouting(i) ==
  /\ pc = "routing" /\ draining = NoConn /\ i \in unsent
  /\ unsent' = unsent \ {i}
  /\ draining' = chan[i]
  /\ toWorker' = Sent({chan[i]}, [w \in Workers |-> [type |-> "routing", row |-> plan[i]]])
  /\ UNCHANGED <<state, skipped, newPrices, held, untold, telemetry, pc, stop, raised, requests, link,
                 toController, registry, workers>>

\* drain() returns, in that loop or in the one of _shutdown, where a send that
\* raises is as good
Drained ==
  /\ draining # NoConn /\ ~Full(draining)
  /\ draining' = NoConn
  /\ UNCHANGED <<state, skipped, newPrices, held, unsent, untold, telemetry, pc, stop, raised, requests,
                 network, registry, workers>>

\* drain() raises in the routing loop: nothing catches it before run()'s finally
RoutingRaises ==
  /\ pc = "routing" /\ draining # NoConn /\ MayRaise(draining)
  /\ raised' = TRUE
  /\ pc' = "shutdown"
  /\ draining' = NoConn
  /\ UNCHANGED <<state, skipped, newPrices, held, unsent, untold, telemetry, stop, requests, network,
                 registry, workers>>

\* _record, and back in _rounds
RecordRound ==
  /\ pc = "routing" /\ unsent = {} /\ draining = NoConn
  /\ telemetry' = Append(telemetry, [iteration |-> iteration, held |-> held])
  /\ EndOfPass
  /\ UNCHANGED <<state, skipped, newPrices, held, unsent, draining, untold, stop, raised, requests,
                 network, registry, workers>>

\* SIGTERM, SIGINT or a shutdown message; acted on between rounds only
RequestStop ==
  /\ ~stop /\ pc # "stopped"
  /\ stop' = TRUE
  /\ UNCHANGED <<state, roundVars, pc, raised, requests, network, registry, workers>>

\* mutant: stop is not seen between rounds
DeafShutDown ==
  /\ pc = "shutdown"
  /\ stop' = TRUE
  /\ untold' = Workers
  /\ pc' = "stopping"
  /\ UNCHANGED <<state, skipped, newPrices, held, unsent, draining, telemetry, raised, requests,
                 network, registry, workers>>

\* _shutdown sets stop
ShutDown ==
  /\ pc = "shutdown" \/ (pc = "idle" /\ stop)
  /\ stop' = TRUE
  /\ untold' = Workers
  /\ pc' = "stopping"
  /\ UNCHANGED <<state, skipped, newPrices, held, unsent, draining, telemetry, raised, requests,
                 network, registry, workers>>

\* ... and sends it to the sources, then to the brokers, waiting for each drain()
SendStop(w) ==
  /\ pc = "stopping" /\ draining = NoConn /\ w \in untold
  /\ w \in Brokers => untold \cap Sources = {}
  /\ untold' = untold \ {w}
  /\ draining' = chan[w]
  /\ toWorker' = Sent({chan[w]}, [v \in Workers |-> [type |-> "stop"]])
  /\ UNCHANGED <<state, skipped, newPrices, held, unsent, telemetry, pc, stop, raised, requests, link,
                 toController, registry, workers>>

\* the server closes and the process ends
Exit ==
  /\ pc = "stopping" /\ untold = {} /\ draining = NoConn
  /\ pc' = "stopped"
  /\ UNCHANGED <<state, roundVars, stop, raised, requests, network, registry, workers>>

-----------------------------------------------------------------------------
(***************************************************************************)
(* The workers.                                                            *)
(***************************************************************************)

\* the worker of c reads its next message
WorkerTakes(c) ==
  /\ proc[Owner(c)] = c /\ link[c] = "up"
  /\ toWorker[c] # << >>
  /\ toWorker' = [toWorker EXCEPT ![c] = Tail(@)]

Replies(c, m) == toController' = [toController EXCEPT ![c] = Append(@, m)]

\* mutant: the broker damps the price it holds itself
PriceFromOwn(j, m) == BrokerPrice(j, workerPrice[j], m.load)

\* BrokerWorker.run: the price it works out for a request
PriceAt(j, m) == BrokerPrice(j, m.price, m.load)

\* BrokerWorker.run, "price"
BrokerAnswers(c) ==
  LET m == Head(toWorker[c])
      j == Owner(c)
  IN  /\ WorkerTakes(c)
      /\ m.type = "price"
      /\ workerPrice' = [workerPrice EXCEPT ![j] = PriceAt(j, m)]
      /\ Replies(c, [type |-> "price", req |-> m.req, price |-> PriceAt(j, m)])
      /\ UNCHANGED <<state, roundVars, pc, stop, raised, requests, link, registry, workerRow>>

\* SourceWorker.run, "best_response": the solver succeeds or raises
SourceAnswers(c) ==
  LET m == Head(toWorker[c])
      i == Owner(c)
  IN  /\ WorkerTakes(c)
      /\ m.type = "best_response"
      /\ \/ Replies(c, [type |-> "best_response", req |-> m.req, row |-> BestResponse(i, m.prices)])
         \/ Replies(c, [type |-> "failed", req |-> m.req])
      /\ UNCHANGED <<state, roundVars, pc, stop, raised, requests, link, registry, workers>>

\* SourceWorker.run, "routing"
SourceReroutes(c) ==
  LET m == Head(toWorker[c]) IN
  /\ WorkerTakes(c)
  /\ m.type = "routing"
  /\ workerRow' = [workerRow EXCEPT ![Owner(c)] = m.row]
  /\ UNCHANGED <<state, roundVars, pc, stop, raised, requests, link, toController, registry, workerPrice>>

\* BrokerWorker.run on its assignment
BrokerAssigned(c) ==
  LET m == Head(toWorker[c]) IN
  /\ WorkerTakes(c)
  /\ Owner(c) \in Brokers /\ m.type = "assignment"
  /\ workerPrice' = [workerPrice EXCEPT ![Owner(c)] = m.price]
  /\ UNCHANGED <<state, roundVars, pc, stop, raised, requests, link, toController, registry, workerRow>>

\* SourceWorker.run on its assignment: it connects to the brokers and is ready
SourceAssigned(c) ==
  LET m == Head(toWorker[c]) IN
  /\ WorkerTakes(c)
  /\ Owner(c) \in Sources /\ m.type = "assignment"
  /\ workerRow' = [workerRow EXCEPT ![Owner(c)] = m.row]
  /\ Replies(c, [type |-> "ready"])
  /\ UNCHANGED <<state, roundVars, pc, stop, raised, requests, link, registry, workerPrice>>

\* the worker's process is over: on "stop", on the end of the connection once
\* the controller is gone, or because it fails, at any moment
Ends(c) ==
  /\ proc[Owner(c)] = c /\ link[c] = "up"
  /\ link' = [link EXCEPT ![c] = "cut"]
  /\ toWorker' = [toWorker EXCEPT ![c] = << >>]
  /\ UNCHANGED <<state, roundVars, pc, stop, raised, requests, toController, registry, workers>>

WorkerStops(c) == Ends(c) /\ toWorker[c] # << >> /\ Head(toWorker[c]).type = "stop"

WorkerSeesEof(c) == Ends(c) /\ toWorker[c] = << >> /\ pc = "stopped"

WorkerCrashes(c) == Ends(c)

\* mutant: the assignment is prepared once, at startup
FirstAssignment(w) ==
  IF w \in Brokers THEN [type |-> "assignment", price |-> InitialPrices[w]]
  ELSE [type |-> "assignment", row |-> InitialPlan[w]]

\* what _on_actor assigns to a worker that registers now
Assignment(w) ==
  IF w \in Brokers THEN [type |-> "assignment", price |-> prices[w]]
  ELSE [type |-> "assignment", row |-> plan[w]]

\* a worker that ended is started again under the same instance name and
\* registers over a new connection: _on_actor up to its next wait
Restart(c) ==
  LET w == Owner(c) IN
  /\ pc # "stopped"
  /\ link[c] = "unused" /\ link[proc[w]] # "up"
  /\ Cardinality({d \in Conns : link[d] # "unused"}) < MaxProcesses
  /\ link' = [link EXCEPT ![c] = "up"]
  /\ toWorker' = [toWorker EXCEPT ![c] = <<Assignment(w)>>]
  /\ chan' = [chan EXCEPT ![w] = c]
  /\ handler' = [handler EXCEPT ![c] = IF w \in Brokers THEN "serving" ELSE "ready"]
  /\ proc' = [proc EXCEPT ![w] = c]
  /\ UNCHANGED <<state, roundVars, pc, stop, raised, requests, toController, workers>>

-----------------------------------------------------------------------------
Controller ==
  \/ AskBrokers \/ SkipRound \/ AskSources \/ ApplyStep \/ RecordRound
  \/ \E i \in Sources : SendRouting(i)
  \/ Drained \/ RoutingRaises
  \/ ShutDown \/ (\E w \in Workers : SendStop(w)) \/ Exit

Reading(c) ==
  \/ ReceiveReply(c) \/ ReceiveLateReply(c) \/ ReceiveReady(c) \/ StartSent(c)
  \/ ReadClosed(c) \/ HandlerClosed(c)

Worker(c) ==
  \/ BrokerAnswers(c) \/ SourceAnswers(c) \/ SourceReroutes(c)
  \/ BrokerAssigned(c) \/ SourceAssigned(c)
  \/ WorkerStops(c) \/ WorkerSeesEof(c)

Next ==
  \/ Controller
  \/ RequestStop
  \/ \E c \in Conns : Reading(c) \/ RequestTimeout(c) \/ Worker(c) \/ WorkerCrashes(c) \/ Restart(c)

Spec == Init /\ [][Next]_vars

(***************************************************************************)
(* The event loop runs every step that stays possible, and a timer that is *)
(* set goes off.  Workers may hang.                                        *)
(***************************************************************************)
ControllerFairness ==
  /\ WF_vars(Controller)
  /\ \A c \in Conns : WF_vars(Reading(c)) /\ WF_vars(RequestTimeout(c))

FairSpec == Spec /\ ControllerFairness

-----------------------------------------------------------------------------
(***************************************************************************)
(* Properties.                                                             *)
(***************************************************************************)

A1 == INSTANCE Algorithm1

\* The distributed rounds ARE Algorithm 1 ("a round equals iteration_step"):
\* whatever is late, lost, skipped or restarted, plan and prices only ever
\* change together, by one iteration whose prices come from the plan and prices
\* it replaces and whose best responses answer those very prices.
RoundsAreIterations == A1!Spec

\* A reply the controller is about to use was computed from the present state:
\* prices from the present prices and loads while prices are collected, best
\* responses to the new prices while those are.
FreshReplies ==
  /\ pc = "prices" => \A j \in Brokers : outcome[j] = "ok" =>
       gotPrice[j] = BrokerPrice(j, prices[j], BrokerLoad(plan, j))
  /\ pc = "responses" => \A i \in Sources : outcome[i] = "ok" =>
       gotRow[i] = BestResponse(i, newPrices)

\* plan and prices after a record r, recomputed from those before it: the step
\* of scripts/verify_distributed_run.py, which gives up on a record with failures
\* where this goes on with the rows it says were held
Replayed(s, r) ==
  LET ps == [j \in Brokers |-> BrokerPrice(j, s.prices[j], BrokerLoad(s.plan, j))]
      br == [i \in Sources |-> IF i \in r.held THEN s.plan[i] ELSE BestResponse(i, ps)]
  IN  [plan |-> CommonStep(s.plan, br), prices |-> ps]

\* ... and after all the records of a telemetry, from the initial state
Replay(log) ==
  LET upTo[n \in 0 .. Len(log)] ==
        IF n = 0 THEN [plan |-> InitialPlan, prices |-> InitialPrices]
        ELSE Replayed(upTo[n - 1], log[n])
  IN  upTo[Len(log)]

\* A log of every iteration, numbered without gaps, whose replay leads to the
\* controller's plan and prices.
Complete(log) ==
  /\ Len(log) = iteration
  /\ \A n \in 1 .. Len(log) : log[n].iteration = n
  /\ Replay(log) = [plan |-> plan, prices |-> prices]

\* What metrics.jsonl says is enough to recompute the state: between rounds it
\* has one record per iteration (skipped rounds leave none), and replaying
\* Algorithm 1 with the recorded failures gives the controller's plan and prices.
TelemetryReplays == pc = "idle" => Complete(telemetry)

(***************************************************************************)
(* Why replies are fresh: the id of a gather is used in no other, so what  *)
(* is under way with the present id was computed for the present gather,   *)
(* and nothing a request is computed from changes before the gather is     *)
(* over.                                                                   *)
(***************************************************************************)

\* a pending request belongs to the gather under way and is the only one of a
\* worker it asks
PendingIsCurrent ==
  \A c \in Conns : pend[c] # 0 =>
    /\ pend[c] = ids
    /\ outcome[Owner(c)] = "pending"
    /\ \/ pc = "prices" /\ Owner(c) \in Brokers
       \/ pc = "responses" /\ Owner(c) \in Sources
    /\ \A d \in Conns : pend[d] # 0 /\ Owner(d) = Owner(c) => d = c

\* every worker of the gather under way was asked or has failed
EveryoneAsked ==
  /\ pc = "prices" => \A j \in Brokers : outcome[j] # "none"
  /\ pc = "responses" => \A i \in Sources : outcome[i] # "none"

CurrentRequest(c, m) ==
  /\ m.type \in {"price", "best_response"} => m.req <= ids
  /\ m.type = "price" /\ m.req = ids /\ pc = "prices" =>
       m.price = prices[Owner(c)] /\ m.load = BrokerLoad(plan, Owner(c))
  /\ m.type = "best_response" /\ m.req = ids /\ pc = "responses" => m.prices = newPrices

CurrentReply(c, m) ==
  /\ m.type # "ready" => m.req <= ids
  /\ m.type = "price" /\ m.req = ids /\ pc = "prices" =>
       m.price = BrokerPrice(Owner(c), prices[Owner(c)], BrokerLoad(plan, Owner(c)))
  /\ m.type = "best_response" /\ m.req = ids /\ pc = "responses" =>
       m.row = BestResponse(Owner(c), newPrices)

UnderwayIsCurrent ==
  \A c \in Conns :
    /\ \A n \in 1 .. Len(toWorker[c]) : CurrentRequest(c, toWorker[c][n])
    /\ \A n \in 1 .. Len(toController[c]) : CurrentReply(c, toController[c][n])

\* the prices the best responses are asked for are those of the iteration
NewPricesRight ==
  pc = "responses" => newPrices = [j \in Brokers |-> BrokerPrice(j, prices[j], BrokerLoad(plan, j))]

\* The inductive invariant behind FreshReplies and RoundsAreIterations.
RoundInv ==
  /\ TypeOK
  /\ PendingIsCurrent /\ EveryoneAsked /\ UnderwayIsCurrent
  /\ NewPricesRight /\ FreshReplies

IsRow(m) == m.type \in {"routing", "assignment"}

\* a source that routes by own ends up with row once it has read q
EndsUpWith(q, own, row) ==
  /\ (\A n \in 1 .. Len(q) : ~IsRow(q[n])) => own = row
  /\ \A n \in 1 .. Len(q) :
       IsRow(q[n]) /\ (\A k \in n + 1 .. Len(q) : ~IsRow(q[k])) => q[n].row = row

\* A live source ends up routing by the controller's plan: no round and no
\* restart leaves it with an older row, except while the routing loop of the
\* round that changed the plan has not reached it.
SourcesFollowPlan ==
  \A i \in Sources \ unsent :
    link[proc[i]] = "up" => EndsUpWith(toWorker[proc[i]], workerRow[i], plan[i])

\* A live worker is reachable: the late clean-up of a worker's old connection
\* (_on_actor after closed.wait) never unregisters its replacement.
LiveWorkersReachable ==
  \A w \in Workers : link[proc[w]] = "up" => chan[w] = proc[w]

\* no connection is full for ever: a worker that hangs before it has read what it
\* was sent ends at some time, or reads on
WorkersRead == \A c \in Conns : []<>~Full(c)

\* Every round comes to an end, however the workers answer: the request timeout
\* cuts the barrier on the brokers and the wait for the sources short, as long as
\* the sends before it get through.
RoundsEnd ==
  WorkersRead =>
    (pc \in {"prices", "responses", "routing"} ~> pc \in {"idle", "shutdown", "stopping"})

\* Once stop is requested the controller ends, also in mid-round and with workers
\* that answer nothing or are gone, as long as they read what they are sent.
StopEndsController == WorkersRead => (stop ~> pc = "stopped")

\* "stops everything on Ctrl+C, SIGTERM or --duration" (controller.py), and on
\* nothing else: the run does not end in an exception.
RunNeverRaises == ~raised
=============================================================================
