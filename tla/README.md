# Traffic emulator: TLA+ models, model checking and proofs

The traffic emulator (`../src`) runs Algorithm 1 of the paper, a distributed
flow-splitting algorithm for N sources and M brokers, in three ways: on the
analytic model, in a discrete-event simulation within one process, and with
real processes that exchange messages over TCP. Around these it has a command
that starts and stops an emulator, a dashboard, a configuration format, a
generator of topologies, certificates of optimality and a notebook with the
reference implementation. This directory holds TLA+ models of this logic, TLC
configurations that check them on small instances, and TLAPS proofs of the
central results for every instance.

Paths below are relative to `src/` of the repository.

## 1. Inventory

| component | code | state it keeps | operations | interacts with |
|---|---|---|---|---|
| controller, rounds | `src/distributed/controller.py` `_gather`, `_round`, `_rounds`, `_shutdown` | plan `state.lambda_ij`, `state.prices`, `state.iteration`, `skipped_rounds`, `stop` | ask the brokers for prices, ask the sources for best responses, common step, send routing, record, shut down | workers by requests over channels; telemetry |
| controller, registration | the same, `_assign`, `_on_actor`, `run` | `slots`, `channels`, `broker_addresses`, `ready_sources`, two events | one handler per connection: hello, slot, assignment, ready, start, clean-up | the rounds share `channels` with the handlers |
| connection | `protocol.py` | `pending` futures by request id, `inbox`, `closed` | send, recv, request with timeout, read loop | controller and workers |
| source worker | `source.py` | `x_row`, a FIFO and a wakeup per link, `routed` window | `_generate`, `_serve_access` per link, `best_response`, `routing`, `start`, `stop` | brokers over one data connection each |
| broker worker | `broker.py` | price, FIFO, window of samples | `_on_source`, `_serve`, `price`, `stop` | sources, controller |
| launcher | `src/distributed/launcher.py`, `runtime.py` | child processes, a compose project, `resolved_config.yaml` | prepare, check the ports, start, wait, ask to shut down, terminate; compose up, wait, down | its children by signals and the control port; other launchers on the machine by ports, files and the compose project |
| event simulation | `src/simulation/` | event heap, queues, busy flags, windows | one handler per event type, controller tick | `iteration_step`, telemetry |
| Algorithm 1 | `src/controller/synchronous.py` | `SystemState` | prices, best responses, safe step, step | best response, LP, dynamics |
| best response, initial LP, capacities | `best_response.py`, `feasibility.py`, `src/model/dynamics.py` | none (a generator of random numbers) | bisection, `linprog`, `topology_at` | Algorithm 1 |
| certificate, central solver, symmetric instance | `src/controller/diagnostics.py`, `central.py`, `src/model/marginal_costs.py`, `symmetric.py` | none | residuals and their tolerances, SLSQP with a polish, closed form | experiments, generator, every record |
| experiments | `src/runtime/experiments.py`, `metadata.py` | statistics of a run, `run.json` | `static_experiment`, `event_experiment`, seeds | Algorithm 1, certificate, central solver |
| topology generator | `src/model/generate.py` | scale of the links, history of measured balances | draw, check, `optimal_routing`, search for beta | LP, certificate, central solver |
| configuration | `src/model/config.py`, `topology.py`, `src/distributed/settings.py`, `cli.py` `configure` | the config, which commands pass on to each other | mode and its section, flags, resolved config, topology and its validation | every command |
| telemetry | `src/telemetry/metrics.py` | the file and its buffer; the reader's rows, offset and first line | record, flush, close; read | two processes that share a file |
| dashboard | `src/dashboard/app.py` | the holder of one process, shared by the threads of all tabs; the reader | launch, stop, clear, read rows and names, observe | `run` processes, `metrics.jsonl`, `run.json` |
| notebook | `WiOpt26JNSC_Extended.ipynb` | the reference of Algorithm 1 and of the windowed queues | | what the code is meant to do |
| plots and offline scripts | `scripts/` | | replay a run, trace, figures | finished runs |

What is hard to get right, and hard to test:

* **The rounds.** A reply may come after its timeout, from a process that has
  since been replaced, or not at all; a worker may restart between the step
  and the message that tells it of the step; `stop` may come at any await. A
  round must still be all or nothing, and equal one iteration of Algorithm 1.
  Only replies are timed: a send waits for a worker to read, however long that is.
* **The start.** Each connection has a handler of its own, in concurrent
  tasks; the loss of a connection is noticed later than it happens; sources
  wait for brokers, and everyone for the last `ready`.
* **The end.** Ctrl+C reaches the launcher and all its children at once, at any
  moment; workers that still connect heed neither signals nor the controller;
  and several `up` commands share ports, files and one compose project.
* **The traffic.** Two hand-written loops of a queue and an event (lost
  wakeups, a task that ends silently), and measurements that are reset when
  they are sent, by processes nobody stops for the purpose.
* **The event heap.** A server becomes busy in a later event of the same
  instant; the tick cuts windows between such events.
* **The step.** Capacities that drop below the flow, sources that are held,
  a starting point that lies within the margin.
* **The file.** A writer that is killed, truncates or replaces the file, and a
  reader that remembers an offset and a first line; a second file with the names.
* **The buttons.** One process behind a holder that all tabs share, a wait that
  times out.
* **The search.** A scale that wanders between feasible and infeasible, a
  continuation under capacities that are not the topology's.
* **The parameters.** `eta` means an inertia in one mode and a step in the other,
  and a config passes through several commands that rewrite it.

What makes each part correct is stated under "Properties" in its module; the
table of section 4 names all of them. `PROJECT.json` lists each hazard with its
line and the properties that would catch it.

## 2. Plan

Written, in this order:

1. `PlanData`, `Algorithm1` (abstract), `Rounds` (detailed), `RoundsProofs`.
2. `Registration`, which ends where `Rounds` begins.
3. `Tandem` (abstract), implemented by `EventSim` and by `DataPlane`.
4. `StaticRun`, the numeric step in exact arithmetic, and `Telemetry`.
5. `Launcher`, and `Dashboard` over `Telemetry`.
6. `Notebook` and `Windows` (abstract, from the notebook), which `StaticRun` and
   `EventSim` implement.
7. `Certificate`, and over it `Experiments`, `OptimalRouting`, `Generator`.
8. `Settings`, `TopologyConfig`.
9. `RegistrationProofs`, `DataPlaneProofs` with `Lemmas`, `CommandsProofs` (dashboard,
   telemetry file, launcher), `ConfigurationProofs` (generator, settings,
   reading a topology).
10. `StaticRunProofs`, `EventSimProofs` (queues, then windows), and the replay in
    `RoundsProofs`.
11. The optimality of certified routings, in `StaticRunProofs`.

What would come next: a measured round in `DataPlane` with sources that die and
return; the two tabs of the dashboard without `OneAtATime`, as a violation.

## 3. Modules and the code

`PROJECT.json` maps every definition to its lines.

### The distributed backend

**`PlanData`** declares what Algorithm 1 computes with: `BrokerLoad`,
`BrokerPrice`, `BestResponse` and `CommonStep` are uninterpreted functions. The
proofs hold for any of them; the small instances use arithmetic modulo 5 that
mixes all arguments, so that a stale argument shows.

**`Algorithm1`** is the abstract specification: plan, prices and iteration
change together, by one iteration in which any set of sources may be held, or
not at all.

**`Rounds`** starts with the traffic. A connection is a worker process; a
restarted worker has a new connection while the old one may still hold a late
reply, a request and a handler that has not noticed. Controller steps are the
stretches of `_rounds` and `_round` between awaits: `AskBrokers` (window timer
up to the gather), `AskSources` or `SkipRound`, `ApplyStep`, `SendRouting` one
source at a time, `RecordRound`, `ShutDown`, `SendStop` one worker at a time,
`Exit`. `ReceiveReply`, `ReceiveLateReply`, `ReadClosed`, `RequestTimeout`,
`StartSent` and `HandlerClosed` are the tasks of a channel. Workers answer, reroute,
stop, crash and restart.

Every send of the controller is `write` and then `await drain()` (`protocol.py:64-66`),
and no timer runs over that wait: `request` times the future only (105-106). A
connection is `Full` while more than `Buffer` messages to its worker are unread. A
request to it starts its timer once it is not; `_round` and `_shutdown`, which send
one message after the other, wait (`draining`) until it is not (`Drained`), or until
the connection is lost: then the send raises, in the routing loop out of `run`
(`RoutingRaises`). A worker that hangs for ever with a full buffer therefore blocks
the round, and then `stop` is not looked at either; see `WorkersRead` in section 4.

What is abstracted: the buffers are counted in messages, not in bytes; one number `ids`
serves all requests of a gather (in the code all channels draw from one counter of the
class, and a reply is only compared with the pending requests of its own channel); a
timer that runs may go off at any time; a stop that is set in the tick in which the window
timer goes off takes effect after the request; a restart is one step (hello to
`ready` of the new process: `Registration` takes it apart); half-open
connections, and two live processes with one instance name, are not modelled.

**`Registration`** has one `_on_actor` per connection, step by step: `Refuse`,
`RegisterBroker`, `RegisterSource`, `AssignSource`, `SourceReady`,
`HandlerClosed`; and `run` up to the rounds with the end (`StartTraffic`,
`ShutDown`, `Exit`). The processes of one instance name follow one another.
`PromptLoop` assumes that the controller handles the loss of a connection, and
events that are set, before the replacement process has come up (starting a
Python process takes long compared with an event loop's turn). The run
`reg_stale` shows what happens without it, `reg_live` does not assume it. The sends of
the startup are one or two short messages on a new connection and are taken not to
wait. `t0Set` is that `t0` has a value, whether or not the loop that sends the starts
comes to its end; that a source generates traffic is that its process has taken a start
(`starts`).

**`DataPlane`** has the asyncio tasks of the workers: a step is a stretch
between two awaits, delays of zero are folded into the step before, and `drain()`
may return at any time. It also carries the measurements: `metrics()` and its
reset, requests that are late or lost, and the records. What several links carry
together is a `SumFunction` of the community modules, so links and brokers are
finite sets, which is all the proofs assume of them.

**`Launcher`** has several `up` commands on one machine, each with a `--port`, a
`--dashboard-port` and an `--output-dir` of its own or another's, one independent of
the other. Commands meet at the ports they share, and all `docker` ones in the compose
project (`Meet`); that they share a directory nothing in the code looks at. The launcher
goes through `prepare_run`, the port check, one `Popen` after another,
`procs[0].wait()`, `request_shutdown` and `stop_local` child by child, or through
compose, which may fail or end at any moment. The controller in the containers loads the
config and opens the metrics file of the mounted directory (`ContainerOpens`) as a local
one does. Each child boots, connects with retries, registers, serves and ends by
the rules of its own module, as far as ports and signals go: a child that still
boots dies of a signal, one that runs has its `stop` set, and a worker looks at
`stop` only once it serves. `Interrupt` may come at every step but `compose down`. One broker and one
source stand for the workers.

### One process

**`Actors`** has the sources, the brokers and the links, which the event simulation
and the static run share.

**`Tandem`** is what both backends promise of the traffic: a unit passes its
access link, then its broker, each first in, first out with one server.
**`EventSim`** refines it with the event heap: the events due now, in any order,
and the later ones, which are random and so never fall on one instant together.
The flows a tick computes are left open (any routing over the links that exist).

**`Windows`** is cell 14 of the notebook, the windowed stochastic scheme over
queues, where one step is a window: arrivals allocated by the split, links served,
then brokers, then the update once warm. `EventSim` implements it with the records
of its telemetry (`IsWindowed`): counts, backlogs and totals of successive records
fit together as those of the notebook's windows do.

**`StaticRun`** is `iteration_step` and `run_static`. Flows are integers over a
common denominator, so the safe step is computed exactly. Prices only select
among the best responses, so any split that `best_response_available` may return
(the whole demand, strictly within the existing links, in whole units) is
allowed. The initial routing is any that passes the LP's final check, half the
margin included. Capacities change between iterations, as `CapacityVariation`
makes them; a best response that fails raises or is held.

**`Notebook`** is `distributed_flow_weighted` of the notebook, with its LP, best
response and random starts. What `safe_step_bounds` calls the notebook's variant
is shown to be the notebook's algorithm (`FollowsNotebook`).

**`Certificate`** has objective, marginal costs, residuals and certificate in exact
integers on a grid of flows, what `solve_central` may return after its polish, the
closed form of the symmetric instance, and the notebook's residuals. The grid is a
field of the topology; `Scale` is a multiple of whatever a feasible routing leaves of
a capacity (`Exact`), so costs are whole numbers. **`Experiments`** is
`static_experiment` over it. **`OptimalRouting`** is `optimal_routing` of the
generator, the fixed point with its continuation and its fallbacks;
**`Generator`** the search for the balance beta, on a grid of logarithms.

**`Settings`** follows a config through a sequence of `run`, `up` and dashboard
launches, each of which starts from what an earlier one left. A value is known by
the scheme it was chosen for and by the command that chose it.
**`TopologyConfig`** reads a topology entry by entry and validates it.

**`Telemetry`** is a file of lines of one or two pieces, a writer with a buffer,
and `JsonlTail.read` step by step (exists, open and readline, size and
identification, read and parse), while runs truncate, abandon or unlink the file.
`RecordsIn` is what the parser makes of a sequence of pieces, as a function that
is recursive over its prefixes.
**`Dashboard`** puts over it the processes that write the file: tabs that click,
wait, time out, clear and start, or runs started elsewhere, and `run.json`.

### Instances

`MC*` modules give the small instances. `MCOneProcess` and `MCCommands` put several
parts side by side that share no state: the variable `part` says which of them a
behaviour is one of, the others rest in an initial state. This is a packaging of
seven and of two checks in one run each, and no claim about interaction: TLC explores the
union of their state spaces. Modules that are packaged and proved about name their
specifications apart (`StaticSpec`, `ExperimentSpec`, `RoutingSpec`, `GenSpec`,
`SettingsSpec`, `ConfigSpec`, `UpSpec`, `DashboardSpec`), so that the instance extends
them and TLC evaluates their assumptions. Parts that do interact are composed in one
module: `Dashboard` extends `Telemetry`; `Experiments` and `OptimalRouting` extend
`Certificate`; `Launcher` has the processes of several commands; `Rounds` and
`DataPlane` have controller, connections and workers.

Definitions marked `mutant` are faulty versions of the definition they stand
before; no specification uses them. They are named in `PROJECT.json`, and each
makes its property fail.

## 4. Runs

| run | instance | checks |
|---|---|---|
| `rounds_restarts` | 1 source, 1 broker, each may crash; one restart; 2 rounds; buffers of 1 message | `TypeOK`, `FreshReplies`, `SourcesFollowPlan`, `LiveWorkersReachable`, `TelemetryReplays`, `RoundsAreIterations` |
| `rounds_live` | 2 sources, 1 broker, crash or hang; 1 round; buffers of 1 message; fair controller | `TelemetryReplays`, `RoundsEnd`, `StopEndsController` |
| `rounds_raises` | as the first, without a second process of the broker | `RunNeverRaises` is violated |
| `reg_start` | 2 sources, 1 broker, a name too many; one source process may fail and be replaced; `PromptLoop` | `TypeOK`, `OneNamePerSlot`, `ReadyIsServed`, `StartsOnce`, `RoundsCanBegin` |
| `reg_live` | 2 sources, 1 broker, one process that may fail; fair | `StartsEventually`, `EveryoneEnds` |
| `reg_stale` | 2 sources, 1 broker, any may fail | `StartOnlyWhenReady` is violated |
| `data_fork` | 1 source, 2 brokers, one may die; 4 units | `IsTandem`, `AllServed` |
| `data_rounds` | 1 source, 2 brokers, 2 units, 2 rounds with late and lost replies | `TypeOK`, `BrokersAccount`, `CausalCounts` |
| `data_lost` | 1 source, 1 broker, 2 units, 2 rounds | `RecordsCoverEveryUnit` is violated |
| `one_process` | the parts below, each on its own | `MCTypeOK` and the rest of the next table |
| `commands` | the parts below, each on its own | `MCTypeOK` and the rest of the next table |
| `gen_relief` | 2 sources, 2 brokers, 9 topologies | `ContinuationProceeds` is violated |

| run, part | instance | checks |
|---|---|---|
| `one_process`, simulation | 2 sources (one of rate 0, with a missing link), 2 brokers, 3 units, 2 ticks, 1 window of warm-up, both modes | `IsTandem`, `IsWindowed`, `AllServed` |
| steps | 2 sources, 2 brokers, with and without a missing link, 4 capacity settings, eta 1/2 and 1, both variants, 3 iterations | `RoutingFeasible`, `NoStepOverloads`, `FollowsNotebook` |
| experiment | 9 topologies of 2 sources and 2 brokers: symmetric, infeasible, idle, with missing links; 3 iterations | `CertifiedIsOptimal` |
| routing | 6 topologies of 2 and 2 at half load; small, medium, large | `ReturnedIsOptimal` |
| generator | 3 least scales, balances -2 to 2, 4 rounds | `GeneratedAsReported` |
| settings | 3 commands; every mode in the new and the old spelling, 4 sections, 4 sets of flags | `ParametersOfTheirMode` |
| config | up to 2 sources, 1 broker, lists of up to 2 links, NaN and text among the numbers | `AcceptedIsTyped` |
| `commands`, launcher | two `up` in 6 combinations: given twice, with another dashboard port, on the other backend, beside a running one with a directory of its own and in the same one, both in Docker | `OwnEmulator`, `NothingOutlivesUp` |
| dashboard | 2 tabs, 3 runs of up to 3 records, 2 rows kept; or runs started elsewhere; fair reader | `RowsAreOfTheFile`, `CatchesUp`, `OneSimulation`, `NamesNotStale` |

What they show: under every interleaving of the instance the property holds, or, for
the four violations, a trace in which the code does not do what a document says.

### Why the bounds are enough to be interesting

* `MaxRounds` 2: a reply of the first round can be late in the second, and the
  first may be skipped. `MaxProcesses` 3 lets one worker of two restart once, so
  that two connections of one worker are alive in the controller at a time.
  `rounds_live` has two sources, so that one is held while the other moves, and
  the loop over the sources can be interrupted. With `Buffer` 1 a second message to a
  worker that reads nothing already waits: the routing behind a request that timed
  out, the request behind a routing, the stop behind either. Two brokers with several sources
  and restarts are too many states for TLC; the proofs cover them.
* One broker in the registration runs: the wait for the brokers is one event,
  set by the last of them. A name too many (`X`) is refused, or comes first
  and takes the slot of another, which is refused then; a second process of `A`
  arrives before or after its first one's clean-up.
* Two units and two rounds in `data_rounds` put a unit on each side of every
  window boundary; four units in `data_fork` put two on a link while a third is
  served.
* Three units and two ticks in the simulation: a unit of the first window in a queue
  at the tick, one that arrives at that instant, and one after it.
* `Iterations` 3 in the steps: capacities drop, a step is frozen or a source
  held, and they recover. The capacities are chosen so that the links of `s1` can
  no longer carry its demand, and broker `b1` falls below its load.
* The grid of the certificate: flows on multiples of it, so that every topology has
  a few to some dozens of routings and the optimum on the grid is compared with all
  of them; two topologies have optima that use different links. `Scale` is 2520, which
  what is left of these capacities divides.
* Four rounds of the search: out of the feasible scales, back, a slope from two
  points, and giving up.
* Three commands in `Settings`: a config changes scheme, and changes back.
* Three runs of the dashboard, whose records have different lengths: an offset of
  one run falls inside a line of another, in both directions.
* Two commands of the launcher: each of the things they share is shared by two, and
  ports and directory are shared together and apart.

`CHECK_DEADLOCK FALSE` everywhere: every one of these systems stops in the end,
by its own shutdown or at a bound.

### Assumptions

They are constants or comments marked ASSUMPTION in the modules, and each hides
something that does happen when it is dropped:

* `WorkersRead` (`Rounds`, the premise of `RoundsEnd` and `StopEndsController`): no
  connection stays full for ever; a worker that hangs with its buffer full reads on at
  some time, or its process ends. A worker may still hang for ever with room in its
  buffer, and answer nothing. Without it TLC finds a round that never ends (section 6).
* `BufferTyped` (`Rounds`): a buffer takes at least one message.
* `PromptLoop` (`Registration`): see above; `reg_stale` drops it.
* `NoneLostAtStart` (`Registration`, the premise of `StartsEventually`): when `run()`
  wakes up to start the traffic, every source is still connected. Without it the loop
  of the starts may raise, and the run ends (section 6). Sources that fail before the
  last is ready, or after the start, are not excluded.
* `Attentive` (`Telemetry`): the file is not replaced twice around one incomplete
  first line. Without it rows of two runs mix (section 6).
* `Patient` (`Launcher`): a command is only given, and gets through its checks, while
  each emulator it could meet is gone or up and running. Without it two commands
  given at once pass the port check together.
* `OwnDirectory` (`Launcher`, the premise of what `OwnEmulator` says of files): commands
  that share a directory share a port or the compose project too, as with the default
  options. Without it the one overwrites the files of the other (section 6).
* `OneAtATime` (`Dashboard`): no button is pressed while another tab is busy with
  one. The code does not see to that: without it two tabs that launch at once orphan a
  process. `OneSimulation` is about the stop, timeout and launch of one tab after the
  other only, and is therefore checked and not listed as a theorem.
* `Interrupt` does not come during `docker compose down`, which would leave the
  containers; and the stop messages of an ending controller are not blocked
  (`ControllerEnds` of `Launcher`; `Rounds` has them).
* In `EventSim` eta is less than 1 in the windowed mode, as its default is, so that
  a row keeps the routes it has; in the run of `StaticRun` it is at most 1
  (`ConvexSteps`), and `Margin` is 1 (`MarginKept`).
* A user's config has parameters for the mode it names (`SettingsConstants`): what a
  person has typed under a wrong mode the code cannot know.

### Fairness

* `Rounds`: weak fairness of the controller's own steps, of its read loops and of
  the request timers. asyncio runs what is ready, and a timer that runs goes off. No
  fairness is assumed of the workers, only `WorkersRead` above.
* `Registration`: also of the workers' steps and of a supervisor that starts the
  next process of a name (Docker's restart policy or the operator), as long as
  there is one. A reliable process does not fail of itself; each name has one.
  That is the least under which the traffic can start at all.
* `DataPlane`: of the tasks and of the delivery by TCP between living processes.
* `EventSim`: the loop goes on while the heap is not empty.
* `Launcher`: the operating system schedules every process, a retry loop succeeds
  or runs out, and `docker compose` stops what it was told to stop. Nobody need
  give a command or press Ctrl+C.
* `Dashboard`: of the reader only, which is called with every refresh; a writer may
  stop at any moment.

## 5. Proofs

tlapm proves, for every value of the constants:

| module | theorem | statement |
|---|---|---|
| `RoundsProofs` | `Typing` | `Spec => []TypeOK`, messages under way included |
| | `RoundInvariant` | `Spec => []RoundInv` |
| | `Freshness` | `Spec => []FreshReplies` |
| | `Refinement` | `Spec => RoundsAreIterations`, that is `Algorithm1!Spec` |
| | `Replayable` | `Spec => []TelemetryReplays` |
| | `Reachability` | `Spec => []LiveWorkersReachable` |
| | `Delivery` | `Spec => []SourcesFollowPlan` |
| `RegistrationProofs` | `SlotsAreUnique` | `Spec => []OneNamePerSlot` |
| | `RegistrationTyped` | `Spec => []TypeOK` |
| | `RoundsBeginComplete` | `Spec => []RoundsCanBegin` |
| | `ReadySourcesServed` | `PromptLoop` implies `Spec => []ReadyIsServed` |
| | `NoSecondStart` | `PromptLoop` implies `Spec => []StartsOnce` |
| `DataPlaneProofs` | `Typing` | `Spec => []TypeOK` |
| | `Refinement` | `Spec => IsTandem`, that is `Tandem!Spec` |
| | `Causality` | `Spec => []CausalCounts` |
| | `Accounting` | `Spec => []BrokersAccount` |
| `StaticRunProofs` | `DemandIsKept` | `StaticSpec => []DemandKept`, for any eta |
| | `PaperSparesBrokers` | `StaticSpec => BrokersSpared`, for any eta |
| | `StaticTyped` | `ConvexSteps` implies `StaticSpec => []StaticTypeOK` |
| | `NoOverload` | `ConvexSteps` implies `StaticSpec => NoStepOverloads` |
| | `AlwaysFeasible` | `ConvexSteps`, `MarginKept` imply `StaticSpec => []RoutingFeasible` |
| | `ImplementsNotebook` | `StaticSpec => FollowsNotebook`, for any eta |
| | `ExperimentTyped` | `ExperimentSpec => []ExperimentTypeOK` |
| | `CertifiedOptimum` | `ExperimentSpec => []CertifiedIsOptimal` (Proposition 1) |
| | `RoutingTyped` | `RoutingSpec => []RoutingTypeOK` |
| | `ReturnedOptimum` | `RoutingSpec => []ReturnedIsOptimal` |
| `EventSimProofs` | `SimulationTyped` | `Spec => []TypeOK` |
| | `SimulationIsTandem` | `Spec => IsTandem`, that is `Tandem!Spec` |
| | `SimulationIsWindowed` | `Spec => IsWindowed`, that is `Windows!Spec` |
| `CommandsProofs` | `DashboardTyping` | `DashboardSpec => []DashboardTypeOK` |
| | `TailFollows`, `PagesFollow` | `Attentive` implies `Spec => []RowsAreOfTheFile`, and the same of `DashboardSpec` |
| | `DashboardTail` | `DashboardSpec => Spec`: the file and its reader, under the buttons |
| | `NamesFollow` | `DashboardSpec => []NamesNotStale` |
| | `LauncherTyped` | `UpSpec => []UpTypeOK` |
| | `OwnEmulators` | `Patient` implies `UpSpec => []OwnEmulator` |
| `ConfigurationProofs` | `GeneratorTyped` | `GenSpec => []GenTypeOK` |
| | `Generated` | `GenSpec => []GeneratedAsReported` |
| | `SettingsTyped` | `SettingsSpec => []SettingsTypeOK` |
| | `ParametersFit` | `SettingsSpec => []ParametersOfTheirMode` |
| | `TopologyTyped` | `ConfigSpec => []ConfigTypeOK` |
| | `OneTopologyOrNone` | `ConfigSpec => []AcceptedIsTyped` |

Those about `Rounds` hold for any sets of sources, brokers and connections, any
bounds and any functions of `PlanData`. They rest on the named assumptions
`ConnsTyped`, `BufferTyped` and `BoundsTyped` of `Rounds` and on those of `PlanData`, which say
what the functions map to what; those about `Registration` on `CountsTyped` and
`InstancesTyped`, those about `DataPlane` on its `ConstantsTyped` (finitely many
links and brokers, no name for two things), those about `Telemetry` and
`Dashboard` on its `ConstantsTyped` (lines of one or two pieces, as the model has
them), those about `StaticRun` on `StaticConstants` (finitely many links, capacities
and demands that are natural numbers in units), those about `Launcher` on
`UpConstants`, those about `Generator` on `GenConstants`, those about `Settings` on
`SettingsConstants`, those about `TopologyConfig` on `ConfigsTyped` (lists are finite,
their values numbers, NaN or text, and a key without two names is not a pair of
names) and those about `EventSim` on its `ConstantsTyped` (finitely many sources and
brokers, a link for every source that sends). Those about `Experiments` and
`OptimalRouting` rest on `CertificateConstants`, `ExperimentConstants` and
`RoutingConstants`: finitely many sources and brokers, demands and capacities that are
natural numbers, and a `Scale` that is exact. The last says how fine the model's unit of
cost is and nothing of the code: a topology has finitely many routings on the grid, so
any finite set of topologies has such a `Scale`. TLC evaluates all of these in the runs.
Where a theorem has a hypothesis, it is the ASSUMPTION of section 4 that its run makes too.

**`FreshReplies`** is not inductive: a reply under way may carry anything. `RoundInv`
adds why it does not matter. A pending request carries the id of the gather under
way, and its worker has no other (`PendingIsCurrent`); every worker of a gather
has been asked or has failed (`EveryoneAsked`); what is under way with the
present id was computed from the present plan and prices
(`UnderwayIsCurrent`), since those change only when the gather is over; and the
prices the sources are asked to answer are those of the iteration
(`NewPricesRight`). A late reply has a smaller id, and no future waits for it.
The steps of the proof are one per action; `QuietStep`, `GatherStep`,
`FailStep`, `AnswerStep` and `StepOutsideGather` cover what they have in common.
**`Refinement`** then needs a look at `ApplyStep` only, where the invariant says that
the prices and best responses are those of Algorithm 1; every other action leaves
plan, prices and iteration alone.

**`TelemetryReplays`** follows from `ReplayInv`, which says the same at every point of a round:
while the routing is sent, the step is taken but not recorded, and it is the log with the
record to come that replays. It rests on `RoundInv` for the prices and best responses. Replaying a longer
log is one more step (`Replay` is a function over its prefixes, and has one solution).

**`SourcesFollowPlan`** (`DeliveryInv`) is inductive together with the typing and
`LiveWorkersReachable`: the routing loop sends a row to the channel of a source, and
that must be the channel of its live process. `EndsUpWith` says what a source will
route by once it has read its queue; a row that is appended decides it, anything
else that is appended leaves it, and reading changes nothing.
`LiveWorkersReachable` holds since a handler clears a channel only when it is still
its own.

**`OneNamePerSlot`** needs `SlotsDense`: the names of a role that hold a slot are
finitely many and every slot is below their number. The number `_assign` gives the
next one, that of the holders, is therefore new.

**`ReadyIsServed` and `StartsOnce`** speak of the process that holds a channel, and of
the others of its name only because they cannot matter. `TypeInv` is the typing
with what it rests on (who has a slot, and what a handler that waits was given);
`StepInv` says how a process and its handler keep in step, message by message.
Neither needs `PromptLoop`. With it, of two processes of one name one is gone
(`OneLive`), which orders those that wait for the brokers (`WaitOrder`); the
process that may yet be ready is the one in `channels` (`ReadyChannel`); a slot
that is counted as ready has a handler that serves it, and no other process of the
name can still take the channel (`ReadyServed`); and when `run` is about to start
the traffic all of them do (`WhenReady`). `ToldOnce` then counts the starts taken and
under way together: `run` tells those that are served, once, and a handler tells the
one that rejoins after that. Without `PromptLoop` they are false, as `reg_stale` shows.

**`RoundsCanBegin`** holds without `PromptLoop`. That every source index is held by a name
and every broker's address known is claimed of all states, whatever processes have
ended: `SetUp` says so of the events that are set, and addresses and slots are never taken back.
The rest, that all are connected and running, is claimed as long as no process has
ended, and what its proof carries along (`Undisturbed`) is claimed of the same
states only: no name has had two processes (`Alone`); the addresses a source was
given, those it connects to and those the controller has are the same and all of
them; a source whose handler is past its assignment holds its channel; and when
`sources_ready` is set, every slot is counted as ready.

**`IsTandem`** follows from the typing (`TypeInv`), which says what a task that waits,
serves or drains holds (`LoopsTyped`): the refinement maps the queue of a link or a
broker and the unit its task serves to those of `Tandem`, and each step of a task to
an arrival, the end of a service or a stutter.

**`CausalCounts`** compares sums over the links to a broker with a number the broker
counts. `CountedWereRead` has the broker's side at every moment, its window that is
not yet sent included; `RoutedCounted` the source's side, request and reply under
way included, as long as no source was held, since a source that is held has reset
a window nobody will record; and `ReportsCausal` the moment between, when the
brokers have reported and a source has not: units go on moving meanwhile, but what
the broker counted had left the link before. **`BrokersAccount`** is the same for one
broker (`ArrivalsCounted`), as long as no round was skipped; it needs that a unit at
a broker was routed to it (`UnitsRouted`).

**`Lemmas`** has what these proofs need of sums. `SumFunction` is a fold, a recursion
that is `CHOOSE`n. `SumsExist` and `SumsUnique` show that there is exactly one
function that satisfies the recursion; that a sum is an integer, grows with its
summands, and changes by what one summand changes, follows by induction. The
induction theorems of the library take an operator as parameter, which the installed
provers cannot use; `Induction`, `SubsetInduction` and `SequenceInduction` are
instead stated of the *set* of values for which something holds.

**`RowsAreOfTheFile`** says what a finished `read()` has. Its invariant `FollowInv` says
what every pass may rely on: either it has the records of the file up to its offset
(`Follows`), or what it knows is the first line of an earlier run (`Old`), which
its next comparison will tell from the one in the file. `Inside` and `Lagging` take a
pass apart, over a file that is still there and over one that was replaced.
`Attentive` is used in two steps, a run that starts and an unlink: they must leave
the reader in one of the two cases. That reading up to the last line break and
continuing from there is reading the whole is a fact about `RecordsIn`, proved by
induction over the pieces (`UpToExist`, `UpToSame`: the recursion has one solution).
The theorem is about `Telemetry`; `DashboardTail` carries it over to the dashboard,
whose buttons change the files as the steps of `Telemetry` do.

**`NamesNotStale`** holds without any assumption on reader or buttons. One process at
most has the file open, and once it writes, `run.json` has its names
(`OneWriter`); what is in a file, in a buffer or in the rows is therefore of a run
that `run.json` has named, this one or an earlier (`AllNamed`).

**`NoStepOverloads` and `RoutingFeasible`**, in exact fractions: the flow of a broker after a
step is a mean of its load and its target, weighted by `eta * s_t`. `s_t` is at most
the bound of each broker (`Least` of finitely many fractions exists), and that bound
is what the headroom allows. In the paper's variant the weight itself is within the
bound, so brokers are spared for any eta; in the notebook's only eta times it is, and
links need a mean between two flows that fit, so both need `ConvexSteps`. That the
demand is kept holds for any weights, since every row of targets has the demand:
sums are linear (`SumFunctionLinear` of `Lemmas`). `RoutingFeasible` adds that a
routing within the capacities (`WithinCapacities`) has strict headroom everywhere, at
the start through half the margin. `FollowsNotebook` takes the notebook's witness from
the code's best responses, and both compute the same least bound.

**`IsTandem` of `EventSim`**: `SimInv` says that a link or broker has one event of a service
at most on the heap (`OneEach`); that one whose busy flag is not set has nothing waiting
and no event but a start (`IdleIsEmpty`); and that no arrival at it can be due while its
start is (`NoneBetween`), which is why a flag that is set only by the start is
enough. Each handler is then one step of the tandem queues or a stutter: `Generates`,
`Leaves`, `Delivers`, `Completes`.

**`IsWindowed`** compares records of two ticks, between which any number of events ran.
The invariant (`WindowInv`) keeps the account open: what a link had at the last record
and was sent since, less what it holds now, has been served, is not negative, and
summed over the links to a broker is what the broker counted, and one more while a
unit is on its way (`OnItsWay`); what the brokers have served, summed, is the number
of latencies (`Accounted`). Each handler moves one term on each side
(`ArrivalCounted`, `LeavingCounted`, `DeliveryCounted`, `CompletionCounted`). A tick
is alone on the heap, so nothing is on its way and the account closes (`TickServes`);
that the window's units went where its split gives flow (`Routed`) is why the record
is of this window and not of the one before.

**`OwnEmulator`** rests on `OneAtATimeHere`: of emulators that could meet, one at most is
not at rest, which is where `Patient` is used (`Resting` lets a launcher be prepared,
but not past its checks). From it the config of a directory that is its own
(`OwnDirectory`) is the launcher's until its controller, in a container too, has read it
(`ConfigOwn`), what a controller has opened stays its own
(`FilesOwn`), and whoever answers on a port is of the same launcher (`PeersOwn`,
`ToldOwn`); `BackendsApart` and `ProjectOwn` keep compose apart from local processes.

**`ParametersOfTheirMode`** needs that every config a command leaves behind has
parameters of the scheme of its mode (`OfItsScheme`), flags and rewrites included.

**`AcceptedIsTyped`** has the two loops of `topology_from_config` on one side and, on the
other, a statement about whole lists, that every pair is named in one place. The loops
are folds, again `CHOOSE`n: `FoldExists` gives the recursion a solution, and
`CapacitiesRead` and `UnavailableRead` make of it a sequence of reads, one per entry.
`AfterCapacities` and `AfterUnavailable` say what has been read after k entries: it
failed exactly when one of them cannot be part of a topology, and otherwise it names
the pairs seen and the links that exist. At the end that is `Given`, which
`GivenIsPlaced` shows to be the statement about the lists. A change of the capacities
goes through the same validation, so links keep existing or not (`LinkedAs`).

**`GeneratedAsReported`** is about the end of the search only; `SearchInv` adds that the
statistics are those of the last point of the history as long as there is one, and
that a search beyond its first round has one (an infeasible first round raises).

**`CertifiedIsOptimal`** compares a routing with every other one. Three facts carry it.
The delay of a link or a broker is convex: where *a* and *b* are the units of cost over
the headrooms at two flows *x* and *y*, its distance from the tangent is
*mu (mu - y) (b - a)^2*, which is not negative (`Tangent`, `QueueConvex`), and so the
objective of *y* is at least that of *x* and the marginal costs at *x* times what moved
(`LinkConvex`, `BrokerConvex`; the sums over links and over brokers are one sum in two
orders, `SumSwapped` of `Lemmas`). A row whose routes in use are all cheapest cannot gain
by moving its demand (`RowOptimal`: what it moves adds up to nothing, and goes to routes
that cost no less). And the residuals say just that of every row (`CertifiedMeans`), at
the prices of the loads, which `r_price` asks for. Together that is `BestIsOptimal`:
being a best response to its own prices is being optimal. In the symmetric
instance the equal split is feasible and a best response too (`EqualSplitIs`), so a
certified routing has its objective. What the central solver returns is feasible
(`CentralFeasible`), whatever SLSQP does, by the checks after the polish. That the notebook's
residuals certify the same routings (`NotebookCertifies`) is because a mean of the used
routes that are equally cheap is each of them (`MeanIsLeast`).

**`ReturnedIsOptimal`** adds that `optimal_routing` returns from the fixed point only
without relief, in the first solve or the last, and 10 tenths of a capacity are that
capacity (`NoRelief`); its certificate is then the one above. Of what the central
fallback returns it says feasibility and no more, as the code checks no more.

Only model-checked: liveness (`RoundsEnd`, `StopEndsController`, `StartsEventually`,
`EveryoneEnds`, `AllServed`, `CatchesUp`, `NothingOutlivesUp`), under fairness and out of
the reach of this prover. Every other invariant and step property that a run finds to hold is
proved, but for `OneSimulation`; the conjunction `MCTypeOK` of the packaged runs part by part, by the
typing theorems above. The inductive invariants are established by their proofs and not
by a run.

## 6. Where the code and its documents differ

* **A lost source can end the run** (`rounds_raises`). `_round` sends the routing
  with nothing around the send (`src/distributed/controller.py:165`), so a source
  that goes between its reply and its routing message ends `run()` with an
  exception, while `docs/distributed.md` says that traffic keeps flowing until
  Ctrl+C or the duration. The loop that sends
  `start` (line 248) has the same weakness; `NoneLostAtStart` rules it out.
* **`start` may go to a source that is not ready** (`reg_stale`). `ready_sources`
  still counts a source that has died until its handler has run.
* **Units of a skipped round are in no record** (`data_lost`). A broker resets its
  window with every price request it answers, while the controller drops all
  replies of a round in which one of the brokers failed.
* **The continuation of the generator stops at its first relief** (`gen_relief`).
  `solve` takes prices and loads from the relieved capacities but certifies against
  the topology (`src/model/generate.py:69-70`), so the broker prices never match. The
  docstring says that heavily loaded instances are reached by continuation; they
  are left to SLSQP, and large ones to a `RuntimeError`.

Others, met while modelling, which no run states:

* A worker that hangs without reading blocks the controller once its buffers are full:
  `drain()` has no timeout (`src/distributed/protocol.py:64-66`), so the round does not
  end, no later one begins, and neither does `_shutdown`, which waits in the same way.
  `docs/distributed.md:35` says that the round is skipped when a broker does not answer.
  `RoundsEnd` and `StopEndsController` hold under `WorkersRead`, and fail without.
* `up` looks at ports only (`src/distributed/launcher.py:178-181`), and advises to pass
  others. A second `up` with other ports and the same `--output-dir`, the default one
  for example, passes, overwrites `resolved_config.yaml` (47-50) and truncates
  `metrics.jsonl` (`controller.py:232`) of the emulator that runs. `OwnEmulator`
  excludes it by `OwnDirectory`, and fails without.
* Two tabs of the dashboard that launch at once orphan a process
  (`src/dashboard/app.py:50-55`): see `OneAtATime`.
* `JsonlTail` may mix the rows of two runs when a first line that was incomplete
  at `readline()` is completed before `read()`, and the file is replaced before
  the next read and outgrows the offset. `RowsAreOfTheFile` holds under the
  assumption `Attentive`, which rules out exactly this.
* `read()` raises `FileNotFoundError` when the file goes between `exists()` and
  `open()`; the next read recovers.
* A second `up` that is refused has already overwritten `resolved_config.yaml` of the
  emulator that runs (`prepare_run` comes before the port check). The running
  controller has loaded its own; a container that restarts would read the other's.
* `stop_local` returns when every child was waited for or told to terminate:
  workers that retry their connection are still there then, for a minute at most.
  A Ctrl+C while children are being started or stopped is not caught.
* The in-process `run` does not use `safe_step_variant` of the config.
* The controller that `up` starts computes its settings from the resolved config, so
  the notes on what was taken from where are empty in its `run.json`, while
  `docs/distributed.md` line 98 speaks of them.
* `simulation: null` in a config raises `AttributeError`; a `ValueError` of
  `compose_env` is raised outside the block that turns it into a usage error.
* A run with an idle source is never certified (its spread is infinite), and
  `solve_central` fails on it (a mean over no links).
* `optimal_routing` returns what SLSQP finds without a certificate, though it is
  said to raise `RuntimeError` when no certified optimum is found.
* `eta` is not required to be at most 1; a source of rate 0 without any link is a
  legal topology whose best response raises; a source of rate 0 still generates a
  unit at time 0, and divides by zero in the generator of the distributed worker;
  `run_static` without an iteration uses a record it does not have; two equal clock
  readings would make an applied round look skipped (the models assume they differ).
* In the notebook, rounding by `allocate_counts` in round-robin mode may give the
  remainder to a route of probability zero (the mode is not the one it sets).

## 7. Not modelled

* Floating point: the bisection of the best response, the LP solver, SLSQP and
  least squares. What they return is left open within what the code checks of it;
  rounding is the open end of `StaticRun` and `Certificate`, which are exact.
* Time: timers may go off at any moment; nothing is said of latencies.
* The framing of messages, and the contents of telemetry records beyond what the
  properties count.
* `DataPlane` leaves out sources that die, rerouting (`Generate` may take any
  link) and the end of the run; `EventSim` leaves out the end of the run, which
  drops the heap, and the round-robin routing mode.
* The statistics of `event_experiment`, its frozen mode among them: numerics over one run.
* The random draw of rates and links of the generator, and `max_multiplier`, a
  bisection on floats.
* The thread that announces the dashboard, argument parsing and printing.
* Charts and tables of the dashboard; plots, sweeps and outputs of the notebook;
  `azure_trace.py` and the other offline scripts. The step that
  `verify_distributed_run.py` replays is that of the property `TelemetryReplays`; the
  script gives up at a record with `br_failures` (lines 43-45), where the property goes
  on with the rows the record says were held.
* How many bytes a connection takes before `drain()` waits, and buffers in `Registration`,
  whose connections are new.
* An exception in `docker compose` or a signal to one process alone, apart from `Ctrl+C`.

## 8. Running

With TLC and the community modules on the path:

    tlc -config MCRounds_restarts.cfg MCRounds            # also _live, _raises
    tlc -config MCRegistration_start.cfg MCRegistration   # also _live, _stale
    tlc -config MCDataPlane_rounds.cfg MCDataPlane        # also _fork, _lost
    tlc -config MCOneProcess.cfg MCOneProcess
    tlc -config MCCommands.cfg MCCommands
    tlc -config MCOptimalRouting.cfg MCOptimalRouting
    for m in Rounds Registration DataPlane StaticRun EventSim Commands Configuration; do
      tlapm ${m}Proofs.tla
    done
    tlapm Lemmas.tla

Each run takes one to four minutes; the proofs take some fifteen minutes together.
