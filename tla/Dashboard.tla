----------------------------- MODULE Dashboard -----------------------------
(***************************************************************************)
(* The dashboard (src/dashboard/app.py): the simulation process it starts  *)
(* and stops, or only watches, and the pages it renders, over the files of *)
(* Telemetry.                                                              *)
(*                                                                         *)
(* Every browser tab runs the script in a thread of its own; they share    *)
(* the holder of the process.  A run opens metrics.jsonl, writes run.json  *)
(* and then its records; a page reads the records and then run.json.  What *)
(* a tab draws is left out, and one reader stands for the tabs.            *)
(***************************************************************************)
EXTENDS Telemetry

CONSTANTS
  Tabs,
  OneAtATime  \* see Click

VARIABLES
  observer,  \* TRAFFIC_EMULATOR_OBSERVER: the runs are started elsewhere
  tab,       \* per tab, where launch_simulation or stop_simulation is
  life,      \* per process started, its life
  holder,    \* the process in holder["proc"], 0 for None
  names      \* the run whose run.json is in the directory

telemetry == <<files, path, writer, reader>>
dashboard == <<observer, tab, life, holder, names>>

DashboardTypeOK ==
  /\ TypeOK
  /\ observer \in BOOLEAN
  /\ tab \in [Tabs -> {"idle", "stops", "relaunches", "stopped", "cleared"}]
  /\ life \in [Runs -> {"none", "booting", "opened", "writing", "ended"}]
  /\ holder \in Runs \cup {0}
  /\ names \in Runs \cup {0}

DashboardInit ==
  /\ Init
  /\ observer \in BOOLEAN
  /\ tab = [t \in Tabs |-> "idle"]
  /\ life = [p \in Runs |-> "none"] /\ holder = 0
  /\ names = 0

Alive == {p \in Runs : life[p] \notin {"none", "ended"}}
Started == {p \in Runs : life[p] # "none"}

-----------------------------------------------------------------------------
(***************************************************************************)
(* The buttons.                                                            *)
(***************************************************************************)

\* is_running: poll() is None
IsRunning == holder \in Alive

\* ASSUMPTION, when OneAtATime: a button is pressed while no tab is busy with one.
\* Without it OneSimulation fails: of two tabs that launch at once, each stops
\* what runs, then each starts a process, and the holder forgets the first.
Click(t) ==
  /\ ~observer /\ tab[t] = "idle"
  /\ OneAtATime => \A other \in Tabs : tab[other] = "idle"
  /\ \E button \in {"stops", "relaunches"} :
       /\ button = "stops" => IsRunning
       /\ tab' = [tab EXCEPT ![t] = button]
  /\ UNCHANGED <<telemetry, observer, life, holder, names>>

\* mutant: terminate() without wait()
NotWaitedFor == TRUE

\* wait(timeout=10) returns
HasEnded == ~IsRunning

Stopped(t) ==
  /\ tab[t] \in {"stops", "relaunches"} /\ HasEnded
  /\ tab' = [tab EXCEPT ![t] = IF @ = "stops" THEN "idle" ELSE "stopped"]
  /\ UNCHANGED <<telemetry, observer, life, holder, names>>

\* TimeoutExpired ends the rerun of the script: nothing is launched
StopTimesOut(t) ==
  /\ tab[t] \in {"stops", "relaunches"} /\ IsRunning
  /\ tab' = [tab EXCEPT ![t] = "idle"]
  /\ UNCHANGED <<telemetry, observer, life, holder, names>>

\* the config is written and the old metrics are unlinked
Clear(t) ==
  /\ tab[t] = "stopped"
  /\ Unlink \/ (path = 0 /\ UNCHANGED telemetry)
  /\ tab' = [tab EXCEPT ![t] = "cleared"]
  /\ UNCHANGED <<observer, life, holder, names>>

Boots(p) == p \notin Started /\ life' = [life EXCEPT ![p] = "booting"]

\* subprocess.Popen
Popen(t) ==
  /\ tab[t] = "cleared"
  /\ \E p \in Runs : Boots(p) /\ p - 1 \in Started \cup {0} /\ holder' = p
  /\ tab' = [tab EXCEPT ![t] = "idle"]
  /\ UNCHANGED <<telemetry, observer, names>>

\* an observer's runs come from the launcher, one after the other
StartedElsewhere ==
  /\ observer /\ Alive = {}
  /\ \E p \in Runs : Boots(p) /\ p - 1 \in Started \cup {0}
  /\ UNCHANGED <<telemetry, observer, tab, holder, names>>

-----------------------------------------------------------------------------
(***************************************************************************)
(* A run, and a page.                                                      *)
(***************************************************************************)

\* run_simulation opens metrics.jsonl
Opens(p) ==
  /\ life[p] = "booting" /\ StartRun
  /\ life' = [life EXCEPT ![p] = "opened"]
  /\ UNCHANGED <<observer, tab, holder, names>>

\* write_run_metadata
WritesMetadata(p) ==
  /\ life[p] = "opened"
  /\ life' = [life EXCEPT ![p] = "writing"] /\ names' = run
  /\ UNCHANGED <<telemetry, observer, tab, holder>>

\* mutant: run.json is written beside the records
MayRecordOnceOpen(p) == life[p] \in {"opened", "writing"}

MayRecord(p) == life[p] = "writing"

Writes(p) == MayRecord(p) /\ Record /\ UNCHANGED dashboard

Finishes(p) ==
  /\ life[p] = "writing" /\ Close
  /\ life' = [life EXCEPT ![p] = "ended"]
  /\ UNCHANGED <<observer, tab, holder, names>>

\* a run does not handle the SIGTERM of terminate(), and any run may raise
Dies(p) ==
  /\ p \in Alive
  /\ IF life[p] = "booting" THEN UNCHANGED telemetry ELSE Killed
  /\ life' = [life EXCEPT ![p] = "ended"]
  /\ UNCHANGED <<observer, tab, holder, names>>

Reads == Read /\ UNCHANGED dashboard

DashboardNext ==
  \/ \E t \in Tabs : Click(t) \/ Stopped(t) \/ StopTimesOut(t) \/ Clear(t) \/ Popen(t)
  \/ StartedElsewhere
  \/ \E p \in Runs : Opens(p) \/ WritesMetadata(p) \/ Writes(p) \/ Finishes(p) \/ Dies(p)
  \/ Reads

DashboardSpec == DashboardInit /\ [][DashboardNext]_<<telemetry, dashboard>>

FairDashboard == DashboardSpec /\ WF_<<telemetry, dashboard>>(Reads)

-----------------------------------------------------------------------------
(***************************************************************************)
(* Properties.                                                             *)
(***************************************************************************)

\* The simulation the buttons act on is the only one that runs, also while it is
\* replaced and when it does not end in time.
OneSimulation == ~observer => Alive \subseteq {holder}

\* Rows of a run are never labelled with the names of an earlier one: when a page
\* has its rows, and from then on, run.json is of that run or a later one.
NamesNotStale == rows # << >> => Last(rows)[1] <= names
=============================================================================
