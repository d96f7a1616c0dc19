----------------------------- MODULE MCCommands -----------------------------
(***************************************************************************)
(* What a user starts, on small instances: the `up' command, and the       *)
(* dashboard.  The two share no state here, so a behaviour is one of one   *)
(* part, which `part' names; the other rests in an initial state of its.   *)
(***************************************************************************)
EXTENDS Dashboard, Launcher

VARIABLES part

\* The runs write records of different lengths, so the offset in one run falls
\* inside a line of another.
MCWidth(r, k) == IF r = 2 /\ k = 1 THEN 2 ELSE IF (r + k) % 2 = 0 THEN 2 ELSE 1

Command(backend, ports, dir, finite, running) ==
  [backend |-> backend, port |-> ports[1], dashboardPort |-> ports[2], dir |-> dir,
   finite |-> finite, running |-> running]

Default == <<7000, 8501>>
First == Command("local", Default, "here", FALSE, FALSE)
Again == Command("local", Default, "here", TRUE, FALSE)

\* A command given twice, also with the one port changed or on the other backend; one
\* beside a running emulator, with a directory of its own and in the same one; and
\* two in the one compose project
MCCommands ==
  {<<First, Again>>,
   <<First, Command("local", <<7000, 8502>>, "here", FALSE, FALSE)>>,
   <<First, Command("docker", Default, "here", FALSE, FALSE)>>,
   <<First, Command("local", <<7001, 8502>>, "there", FALSE, TRUE)>>,
   <<First, Command("local", <<7001, 8502>>, "here", FALSE, TRUE)>>,
   <<Command("docker", Default, "here", FALSE, FALSE),
     Command("docker", <<7000, 8502>>, "there", TRUE, FALSE)>>}

MCInit ==
  /\ part \in {"launcher", "dashboard"}
  /\ IF part = "launcher" THEN TRUE ELSE args = <<First, Again>>
  /\ UpInit
  /\ IF part = "dashboard" THEN TRUE ELSE observer = FALSE
  /\ DashboardInit

Launches == part = "launcher" /\ UpNext /\ UNCHANGED <<part, telemetry, dashboard>>

Dashes == part = "dashboard" /\ DashboardNext /\ UNCHANGED <<part, upVars>>

MCSpec == MCInit /\ [][Launches \/ Dashes]_<<part, telemetry, dashboard, upVars>>

\* The fairness of both: the part that rests has no action that could be due.
MCFairSpec == MCSpec /\ WF_<<telemetry, dashboard>>(Reads) /\ UpFairness

-----------------------------------------------------------------------------
\* Both parts have values of the kinds their modules say.
MCTypeOK == DashboardTypeOK /\ UpTypeOK
=============================================================================
