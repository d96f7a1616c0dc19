------------------------------ MODULE Launcher ------------------------------
(***************************************************************************)
(* The `up` command: prepare_run, run_local, start_local, stop_local and   *)
(* run_docker of src/distributed/launcher.py, and what the processes it    *)
(* starts do with the signals, ports and files they share.                 *)
(*                                                                         *)
(* One broker and one source stand for the workers of an emulator.         *)
(* Several `up' commands run on one machine, each with a --port, a         *)
(* --dashboard-port and an --output-dir that any other may have too.       *)
(***************************************************************************)
EXTENDS Integers, Sequences

CONSTANTS
  Ups,       \* the `up' commands given on the machine, 1 .. n
  Commands,  \* their arguments: the cases looked at, each a function on Ups
  Patient    \* see MayBegin

Kids == <<"controller", "broker", "source", "dashboard">>
Workers == {"broker", "source"}
Children == Workers \cup {"controller", "dashboard"}
Dirs == {given[u].dir : given \in Commands, u \in Ups}
Nobody == 0

\* emulators that are running already are local ones, and share nothing
ASSUME UpConstants ==
  /\ Ups \subseteq Nat \ {Nobody} /\ Patient \in BOOLEAN
  /\ \A given \in Commands, u \in Ups :
       /\ given[u].backend \in {"local", "docker"}
       /\ {given[u].finite, given[u].running} \subseteq BOOLEAN
       /\ given[u].running => given[u].backend = "local"
       /\ \A v \in Ups \ {u} : given[u].running /\ given[v].running =>
            /\ given[u].port # given[v].port /\ given[u].dashboardPort # given[v].dashboardPort
            /\ given[u].dir # given[v].dir

VARIABLES
  args,        \* per command, its arguments
  launcher,    \* per command, where its launcher is
  turn,        \* per command, the child start_local or stop_local is at
  proc,        \* per command and child, the life of the process
  told,        \* per command, its children whose `stop' event is set
  peer,        \* per command and worker, whose controller it has reached
  config,      \* per directory, who wrote resolved_config.yaml
  loaded,      \* per command, whose config its controller has loaded
  metrics,     \* per directory, whose controller opened metrics.jsonl
  project      \* whose containers run in the one compose project

launchers == <<launcher, turn>>
upFiles == <<config, loaded, metrics>>
upVars == <<args, launchers, proc, told, peer, upFiles, project>>

Dir(u) == args[u].dir
Over == {"new", "refused", "over"}
Dead == {"none", "ended"}

UpTypeOK ==
  /\ args \in Commands
  /\ launcher \in [Ups -> Over \cup {"prepared", "starting", "waiting", "asking", "stopping",
                                     "composing", "attached", "detaching", "down"}]
  /\ turn \in [Ups -> 1 .. Len(Kids)]
  /\ proc \in [Ups -> [Children -> Dead \cup {"booting", "opened", "retrying", "registered",
                                              "linking", "serving", "closing"}]]
  /\ told \in [Ups -> SUBSET Children]
  /\ peer \in [Ups -> [Workers -> Ups \cup {Nobody}]]
  /\ {config, metrics} \subseteq [Dirs -> Ups \cup {Nobody}]
  /\ loaded \in [Ups -> Ups \cup {Nobody}] /\ project \in Ups \cup {Nobody}

\* An emulator that is `running' was started before, is up, and is left running.
UpInit ==
  /\ args \in Commands
  /\ LET running(u) == args[u].running
         last(d) == IF \E u \in Ups : running(u) /\ Dir(u) = d
                    THEN CHOOSE u \in Ups : running(u) /\ Dir(u) = d ELSE Nobody
     IN  /\ launcher = [u \in Ups |-> IF running(u) THEN "waiting" ELSE "new"]
         /\ proc = [u \in Ups |-> [c \in Children |-> IF running(u) THEN "serving" ELSE "none"]]
         /\ peer = [u \in Ups |-> [w \in Workers |-> IF running(u) THEN u ELSE Nobody]]
         /\ loaded = [u \in Ups |-> IF running(u) THEN u ELSE Nobody]
         /\ config = [d \in Dirs |-> last(d)] /\ metrics = config
  /\ turn = [u \in Ups |-> 1]
  /\ told = [u \in Ups |-> {}] /\ project = Nobody

-----------------------------------------------------------------------------
(***************************************************************************)
(* Ports, signals and the patience of the user.                            *)
(***************************************************************************)

\* the controller of v accepts connections
Listens(v) == proc[v]["controller"] \in {"serving", "closing"}

\* the controllers that answer on the control port of u; those in containers do not,
\* docker-compose.yml publishes no port of theirs
Answering(u) == {v \in Ups : args[v].port = args[u].port /\ Listens(v)}

\* the dashboard port of u is taken, by a process or by a container
DashboardPortTaken(u) ==
  \E v \in Ups : /\ args[v].dashboardPort = args[u].dashboardPort
                 /\ proc[v]["dashboard"] = "serving" \/ project = v

\* u and v use a port of the machine, or the compose project, together
Meet(u, v) ==
  \/ args[u].dashboardPort = args[v].dashboardPort
  \/ /\ args[u].backend = args[v].backend
     /\ args[u].backend = "docker" \/ args[u].port = args[v].port

\* the controller in the containers of v has its files open
ContainerUp(v) == project = v /\ loaded[v] # Nobody

Gone(v) == launcher[v] \in Over /\ project # v /\ \A c \in Children : proc[v][c] \in Dead

Settled(v) ==
  \/ launcher[v] = "waiting" /\ \A c \in Children : proc[v][c] = "serving"
  \/ launcher[v] = "attached" /\ ContainerUp(v)

\* ASSUMPTION, when Patient: an `up' is only given, and gets through its checks,
\* while each emulator it could meet is gone or up and running.  Without it
\* OwnEmulator fails: two commands pass the port check before either controller
\* listens; a worker left over from the last emulator, which retries for a
\* minute whatever it is told, registers with the next; a launcher that was
\* interrupted asks whoever listens by then to shut down.
MayBegin(u) == Patient => \A v \in Ups \ {u} : Meet(u, v) => Gone(v) \/ Settled(v)

\* SIGINT or SIGTERM to the children cs of u: one that still boots dies of it, the
\* others have their `stop' set
Signalled(u, cs) ==
  LET booting == {c \in cs : proc[u][c] = "booting"}
  IN  /\ proc' = [proc EXCEPT ![u] = [c \in Children |-> IF c \in booting THEN "ended" ELSE @[c]]]
      /\ told' = [told EXCEPT ![u] = @ \cup {c \in cs \ booting : proc[u][c] \notin Dead}]

-----------------------------------------------------------------------------
(***************************************************************************)
(* The launcher, local backend.                                            *)
(***************************************************************************)

PortsTaken(u) == Answering(u) # {} \/ DashboardPortTaken(u)

Goes(u, where) ==
  /\ launcher' = [launcher EXCEPT ![u] = where]
  /\ UNCHANGED <<args, turn, peer>>

\* prepare_run: the config is written before anything is checked, whoever uses the
\* directory
Prepare(u) ==
  /\ launcher[u] = "new" /\ MayBegin(u)
  /\ Goes(u, "prepared")
  /\ config' = [config EXCEPT ![Dir(u)] = u]
  /\ UNCHANGED <<proc, told, loaded, metrics, project>>

\* run_local: port_in_use for both ports, and nothing about the directory
CheckPorts(u) ==
  /\ launcher[u] = "prepared" /\ args[u].backend = "local" /\ MayBegin(u)
  /\ Goes(u, IF PortsTaken(u) THEN "refused" ELSE "starting")
  /\ UNCHANGED <<proc, told, upFiles, project>>

\* start_local: the next Popen
StartChild(u) ==
  /\ launcher[u] = "starting"
  /\ proc' = [proc EXCEPT ![u][Kids[turn[u]]] = "booting"]
  /\ IF turn[u] = Len(Kids)
     THEN /\ launcher' = [launcher EXCEPT ![u] = "waiting"]
          /\ turn' = [turn EXCEPT ![u] = 1]
     ELSE turn' = [turn EXCEPT ![u] = @ + 1] /\ UNCHANGED launcher
  /\ UNCHANGED <<args, told, peer, upFiles, project>>

\* procs[0].wait() returns: stop_local finds the controller ended and asks nobody
ControllerReturned(u) ==
  /\ launcher[u] = "waiting" /\ proc[u]["controller"] = "ended"
  /\ Goes(u, "stopping")
  /\ UNCHANGED <<proc, told, upFiles, project>>

\* mutant: CONTROL_PORT, whatever --port says
AskedAnywhere(u) == {v \in Ups : Listens(v)}

\* request_shutdown(port)
Asked(u) == Answering(u)

\* stop_local after Ctrl+C: the controller is asked to shut down, unless the controller has ended
RequestShutdown(u) ==
  /\ launcher[u] = "asking"
  /\ Goes(u, "stopping")
  /\ told' = IF proc[u]["controller"] = "ended" THEN told
             ELSE [v \in Ups |-> told[v] \cup {c \in {"controller"} : v \in Asked(u)}]
  /\ UNCHANGED <<proc, upFiles, project>>

\* mutant: a child that misses the deadline is left alone
LeftAlone(u, c) == UNCHANGED <<proc, told>>

\* p.terminate()
Terminate(u, c) == Signalled(u, {c})

\* stop_local: the next child has ended, or the deadline has passed
StopChild(u) ==
  LET c == Kids[turn[u]]
  IN  /\ launcher[u] = "stopping"
      /\ IF proc[u][c] = "ended" THEN UNCHANGED <<proc, told>> ELSE Terminate(u, c)
      /\ IF turn[u] = Len(Kids)
         THEN launcher' = [launcher EXCEPT ![u] = "over"] /\ UNCHANGED turn
         ELSE turn' = [turn EXCEPT ![u] = @ + 1] /\ UNCHANGED launcher
      /\ UNCHANGED <<args, peer, upFiles, project>>

\* Ctrl+C reaches the launcher and every process it has started.  It is caught in
\* the two waits only.  ASSUMPTION: not during docker compose down.
Interrupt(u) ==
  /\ launcher[u] \notin Over \cup {"down"} /\ ~args[u].running
  /\ Goes(u, CASE launcher[u] = "waiting" -> "asking"
                [] launcher[u] = "attached" -> "detaching"
                [] launcher[u] = "detaching" -> "down"
                [] OTHER -> "over")
  /\ Signalled(u, Children)
  /\ UNCHANGED <<upFiles, project>>

-----------------------------------------------------------------------------
(***************************************************************************)
(* The launcher, docker backend: containers of one compose project.        *)
(***************************************************************************)

\* compose ps -q, then the dashboard port
CheckProject(u) ==
  /\ launcher[u] = "prepared" /\ args[u].backend = "docker" /\ MayBegin(u)
  /\ Goes(u, IF project # Nobody \/ DashboardPortTaken(u) THEN "refused" ELSE "composing")
  /\ UNCHANGED <<proc, told, upFiles, project>>

\* run_docker: Popen of compose up, which takes over the containers that run
ComposeUp(u) ==
  /\ launcher[u] = "composing"
  /\ Goes(u, "attached")
  /\ project' = u
  /\ UNCHANGED <<proc, told, upFiles>>

\* the images are built, and the controller of the containers reads the config and
\* opens its files in the mounted directory
ContainerOpens(u) ==
  /\ project = u /\ loaded[u] = Nobody
  /\ loaded' = [loaded EXCEPT ![u] = config[Dir(u)]]
  /\ metrics' = [metrics EXCEPT ![Dir(u)] = u]
  /\ UNCHANGED <<args, launchers, proc, told, peer, config, project>>

\* proc.wait(): compose fails, its containers end or, with a --duration, the
\* controller does; after Ctrl+C it stops the containers, or wait(60) gives up on it
ComposeReturns(u) ==
  /\ launcher[u] \in {"attached", "detaching"}
  /\ project' \in {Nobody, project}
  /\ Goes(u, "down")
  /\ UNCHANGED <<proc, told, upFiles>>

\* docker compose down removes the containers of the project, whoever started them
ComposeDown(u) ==
  /\ launcher[u] = "down"
  /\ project' = Nobody
  /\ Goes(u, "over")
  /\ UNCHANGED <<proc, told, upFiles>>

-----------------------------------------------------------------------------
(***************************************************************************)
(* The processes.                                                          *)
(***************************************************************************)

Becomes(u, c, state) ==
  /\ proc' = [proc EXCEPT ![u][c] = state]
  /\ told' = IF state = "ended" THEN [told EXCEPT ![u] = @ \ {c}] ELSE told
  /\ peer' = IF c \in Workers /\ state = "ended" THEN [peer EXCEPT ![u][c] = Nobody] ELSE peer
  /\ UNCHANGED <<args, launchers, upFiles, project>>

\* main: the config is loaded; run: metrics.jsonl and run.json are opened before
\* the port is bound
ControllerOpens(u) ==
  /\ proc[u]["controller"] = "booting"
  /\ proc' = [proc EXCEPT ![u]["controller"] = "opened"]
  /\ loaded' = [loaded EXCEPT ![u] = config[Dir(u)]]
  /\ metrics' = [metrics EXCEPT ![Dir(u)] = u]
  /\ UNCHANGED <<args, launchers, told, peer, config, project>>

\* asyncio.start_server raises OSError when the port is taken
ControllerBinds(u) ==
  /\ proc[u]["controller"] = "opened"
  /\ Becomes(u, "controller", IF Answering(u) = {} THEN "serving" ELSE "ended")

\* its `stop' is set, or its duration is over
ControllerStops(u) ==
  /\ proc[u]["controller"] = "serving"
  /\ "controller" \in told[u] \/ args[u].finite
  /\ Becomes(u, "controller", "closing")

\* the stop messages, whose sends are taken to return (WorkersRead of Rounds),
\* server.close() and the end of the process
ControllerEnds(u) ==
  /\ proc[u]["controller"] = "closing"
  /\ Becomes(u, "controller", "ended")

\* asyncio.run installs the stop handlers and connects, with retries
WorkerBoots(u, w) ==
  /\ proc[u][w] = "booting"
  /\ Becomes(u, w, "retrying")

\* connect_with_retry succeeds, whatever `stop' says
WorkerConnects(u, w) ==
  /\ proc[u][w] = "retrying"
  /\ \E v \in Answering(u) : peer' = [peer EXCEPT ![u][w] = v]
  /\ proc' = [proc EXCEPT ![u][w] = "registered"]
  /\ UNCHANGED <<args, launchers, told, upFiles, project>>

\* the brokers registered with the controller the source of u has reached
BrokersOf(u) == {v \in Ups : peer[v]["broker"] = peer[u]["source"]}

\* the broker is assigned at once, the source once the broker has registered
WorkerAssigned(u, w) ==
  /\ proc[u][w] = "registered" /\ proc[peer[u][w]]["controller"] = "serving"
  /\ w = "source" => BrokersOf(u) # {}
  /\ Becomes(u, w, IF w = "source" THEN "linking" ELSE "serving")

\* connect_with_retry to the broker
SourceLinks(u) ==
  /\ proc[u]["source"] = "linking" /\ BrokersOf(u) # {}
  /\ Becomes(u, "source", "serving")

\* the attempts are used up: nobody has listened for a minute
WorkerGivesUp(u, w) ==
  /\ \/ proc[u][w] = "retrying" /\ Answering(u) = {}
     \/ proc[u][w] = "linking" /\ BrokersOf(u) = {}
  /\ Becomes(u, w, "ended")

\* a stop, or the end of the connection, where either is looked for: `stop' only
\* by the loop that serves
WorkerEnds(u, w) ==
  /\ \/ proc[u][w] = "serving" /\ w \in told[u]
     \/ proc[u][w] \in {"registered", "serving"} /\ proc[peer[u][w]]["controller"] # "serving"
  /\ Becomes(u, w, "ended")

\* streamlit: the port, then until it is told
DashboardBoots(u) ==
  /\ proc[u]["dashboard"] = "booting"
  /\ Becomes(u, "dashboard", IF DashboardPortTaken(u) THEN "ended" ELSE "serving")

DashboardEnds(u) ==
  /\ proc[u]["dashboard"] = "serving" /\ "dashboard" \in told[u]
  /\ Becomes(u, "dashboard", "ended")

-----------------------------------------------------------------------------
LauncherSteps(u) ==
  \/ CheckPorts(u) \/ StartChild(u) \/ ControllerReturned(u) \/ RequestShutdown(u) \/ StopChild(u)
  \/ CheckProject(u) \/ ComposeUp(u) \/ ContainerOpens(u) \/ ComposeDown(u)

ControllerSteps(u) ==
  ControllerOpens(u) \/ ControllerBinds(u) \/ ControllerStops(u) \/ ControllerEnds(u)

WorkerSteps(u, w) ==
  \/ WorkerBoots(u, w) \/ WorkerConnects(u, w) \/ WorkerAssigned(u, w)
  \/ WorkerGivesUp(u, w) \/ WorkerEnds(u, w) \/ (w = "source" /\ SourceLinks(u))

DashboardSteps(u) == DashboardBoots(u) \/ DashboardEnds(u)

UpNext ==
  \E u \in Ups :
    \/ Prepare(u) \/ Interrupt(u) \/ ComposeReturns(u)
    \/ LauncherSteps(u) \/ ControllerSteps(u) \/ DashboardSteps(u)
    \/ \E w \in Workers : WorkerSteps(u, w)

UpSpec == UpInit /\ [][UpNext]_upVars

\* Every process is scheduled, docker compose stops what it was told to stop, and
\* nobody need give a command or press Ctrl+C.
UpFairness ==
  \A u \in Ups :
    /\ WF_upVars(LauncherSteps(u)) /\ WF_upVars(ControllerSteps(u)) /\ WF_upVars(DashboardSteps(u))
    /\ WF_upVars(ComposeReturns(u) /\ launcher[u] = "detaching")
    /\ \A w \in Workers : WF_upVars(WorkerSteps(u, w))

UpFairSpec == UpSpec /\ UpFairness

-----------------------------------------------------------------------------
(***************************************************************************)
(* Properties.                                                             *)
(***************************************************************************)

\* Commands that share the directory of u also share a port or the compose project
\* with it, as with the default options, so that they are checked against u.
OwnDirectory(u) == \A v \in Ups \ {u} : Dir(v) = Dir(u) => Meet(u, v)

\* Emulators that run side by side, or one that is refused while another runs,
\* leave each other alone: a controller that serves, in a container too, runs the
\* config its launcher wrote and writes the metrics file its dashboard reads, its
\* workers are its launcher's, nobody else asks it to stop, and compose up and down
\* are only applied to a launcher's own containers.  The files are only safe in a
\* directory of its own: the second of two commands with other ports and the same
\* --output-dir passes every check and overwrites those of the first.
OwnEmulator ==
  \A u \in Ups :
    /\ OwnDirectory(u) /\ (Listens(u) \/ ContainerUp(u)) => loaded[u] = u /\ metrics[Dir(u)] = u
    /\ \A w \in Workers : peer[u][w] \in {u, Nobody}
    /\ "controller" \in told[u] => launcher[u] \in {"asking", "stopping", "over"}
    /\ launcher[u] = "attached" => project = u

\* Once every `up' has ended, by Ctrl+C at any moment, a duration or a refusal, so
\* does every process and container it started ("Ctrl+C stops everything"), the
\* workers too that do not heed signals while they connect.
NothingOutlivesUp ==
  <>[](\A u \in Ups : launcher[u] \in Over)
    => <>[](project = Nobody /\ \A u \in Ups, c \in Children : proc[u][c] \in Dead)
=============================================================================
