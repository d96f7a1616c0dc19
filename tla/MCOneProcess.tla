---------------------------- MODULE MCOneProcess -----------------------------
(***************************************************************************)
(* What runs in one process, on small instances: the two run loops, what   *)
(* configures them, and the experiments and generated topologies built on  *)
(* them.  The parts share no state, so a behaviour is one of one part,     *)
(* which `part' names; the others rest in an initial state of theirs.      *)
(***************************************************************************)
EXTENDS EventSim, StaticRun, Experiments, OptimalRouting, Generator, Settings, TopologyConfig

CONSTANTS s1, s2, s3, b1, b2

VARIABLE part

LinksFrom(first, second) == [l \in Links |-> IF l[1] = s1 THEN first[l[2]] ELSE second[l[2]]]
To(p, q) == [j \in Brokers |-> IF j = b1 THEN p ELSE q]
From(a, b) == [i \in Sources |-> IF i = s1 THEN a ELSE b]

\* EventSim: s2 has rate 0 and no link to b1
MCMissing == {<<s2, b1>>}

\* StaticRun: without the link from s2 to b2, where broker b1 drops to its floor or
\* the links of s1 below its demand; and with every link
MCDemand == From(6, 3)
MCEtas == {<<1, 2>>, <<1, 1>>}
MCBases == {[link |-> LinksFrom(To(8, 6), To(7, 0)), broker |-> To(8, 7)],
            [link |-> LinksFrom(To(5, 4), To(3, 3)), broker |-> To(7, 6)]}
MCVaried == {[link |-> LinksFrom(To(8, 6), To(7, 0)), broker |-> To(4, 9)],
             [link |-> LinksFrom(To(3, 3), To(7, 0)), broker |-> To(8, 5)]}

Instance(grid, demand, first, second, broker) ==
  [grid |-> grid, demand |-> demand, link |-> From(first, second), broker |-> broker]

\* Experiments: two symmetric instances, one that is infeasible, one with an idle
\* source, and others with missing links or two optima that use different links
MCExperimentTopologies ==
  {Instance(1, From(2, 2), To(4, 4), To(4, 4), To(6, 6)),
   Instance(1, From(2, 2), To(3, 5), To(4, 6), To(6, 5)),
   Instance(1, From(3, 1), To(6, 4), To(3, 0), To(6, 5)),
   Instance(1, From(2, 0), To(3, 3), To(3, 3), To(4, 4)),
   Instance(1, From(3, 2), To(2, 2), To(4, 4), To(6, 6)),
   Instance(1, From(3, 2), To(4, 6), To(5, 6), To(6, 4)),
   Instance(1, From(6, 1), To(4, 10), To(0, 3), To(4, 11)),
   Instance(1, From(2, 1), To(6, 6), To(0, 6), To(5, 3)),
   Instance(1, From(2, 1), To(10, 2), To(2, 10), To(10, 10))}

\* OptimalRouting: loads of half the server capacity, where both reliefs and the
\* links decide
MCGeneratedTopologies ==
  {Instance(5, From(5, 5), To(20, 1), To(1, 20), To(10, 10)),
   Instance(5, From(5, 5), To(20, 0), To(12, 20), To(10, 10)),
   Instance(5, From(5, 5), To(12, 12), To(12, 12), To(10, 10)),
   Instance(5, From(10, 0), To(20, 20), To(20, 20), To(10, 10)),
   Instance(5, From(5, 5), To(20, 10), To(2, 12), To(10, 10)),
   Instance(5, From(5, 5), To(20, 6), To(6, 20), To(10, 10))}

\* Generator
MCBetas == -2 .. 2

\* Settings: every mode written in the present or the old way, with none, some or all
\* keys of its section
Sections(c) ==
  LET all == [k \in Keys |-> [family |-> Family(ControllerMode(c)), by |-> 0]]
  IN  {[c EXCEPT !.algorithm = [k \in keys |-> all[k]]] :
         keys \in {{}, {"eta"}, {"eta", "delta_s"}, Keys}}

MCUserConfigs ==
  UNION {Sections(c) :
           c \in [controller_mode : ControllerModes \cup {Absent, "unknown"},
                  mode : {Absent, "static", "synchronous"}, algorithm : {<< >>},
                  seed : {Default, 0}, varies : BOOLEAN]}

MCFlags == {{}, {"eta"}, {"gamma", "beta"}, {"delta_s"}}

Items(ids, values) == [k \in DOMAIN ids |-> [id |-> ids[k], value |-> values[k]]]
Numbers == {2, 0, -1, -2, -3}  \* the last two stand for NaN and for text
Entries == [link : {<<s1, b1>>, <<s2, b1>>, <<s3, b1>>}, value : Numbers]

\* TopologyConfig: one or two sources and a broker, named twice, not at all or well,
\* with up to two entries in each list of links
MCConfigs ==
  [sections : {TRUE}, brokers : {Items(<<b1>>, <<2>>)},
   sources : {Items(<<s1>>, <<v>>) : v \in Numbers}
               \cup {Items(<<s1, s2>>, <<1, v>>) : v \in {1, 0}}
               \cup {Items(<<s1, s1>>, <<1, 1>>), << >>},
   access_capacities : {<< >>} \cup {<<e>> : e \in Entries} \cup (Entries \X Entries),
   unavailable_links : {<< >>, <<Malformed>>, <<<<s1, b1>>>>, <<<<s2, b1>>>>,
                        <<<<s1, b1>>, <<s2, b1>>>>, <<<<s2, b1>>, <<s2, b1>>>>}]
  \cup
  [sections : BOOLEAN, sources : {Items(<<s1>>, <<1>>)},
   brokers : {Items(<<b1>>, <<v>>) : v \in Numbers} \cup {Items(<<b1, b1>>, <<1, 1>>)},
   access_capacities : {<<[link |-> <<s1, b1>>, value |-> 2]>>}, unavailable_links : {<< >>}]

MCNewCapacities == {1, 0, -2}

-----------------------------------------------------------------------------
MCInit ==
  /\ part \in {"simulation", "steps", "experiment", "routing", "generator", "settings", "config"}
  /\ Init
  /\ \/ part = "simulation"
     \/ mode = "windowed_stochastic" /\ routes = [i \in Sources |-> IF i \in Idle THEN {} ELSE {b1}]
  /\ IF part = "steps" THEN TRUE
     ELSE /\ params = [eta |-> <<1, 1>>, variant |-> "paper", mode |-> "raise"]
          /\ base = [link |-> LinksFrom(To(8, 6), To(7, 0)), broker |-> To(8, 7)]
          /\ lambda = LinksFrom(To(3, 3), To(3, 0))
  /\ StaticInit
  /\ IF part = "experiment" THEN TRUE
     ELSE topo = Instance(1, From(2, 2), To(4, 4), To(4, 4), To(6, 6))
  /\ ExperimentInit
  /\ IF part = "routing" THEN TRUE
     ELSE size = "large" /\ generated = Instance(5, From(5, 5), To(12, 12), To(12, 12), To(10, 10))
  /\ RoutingInit
  /\ IF part = "generator" THEN TRUE ELSE asked = FALSE /\ least = 0 /\ scale = 0
  /\ GenInit
  /\ IF part = "settings" THEN TRUE ELSE file = CHOOSE c \in MCUserConfigs : TRUE
  /\ SettingsInit
  /\ IF part = "config" THEN TRUE ELSE cfg = CHOOSE c \in MCConfigs : TRUE
  /\ ConfigInit

Simulates ==
  /\ part = "simulation" /\ Next
  /\ UNCHANGED <<part, staticVars, experimentVars, routingVars, genVars, settingsVars,
                 configVars>>

MCNext ==
  \/ Simulates
  \/ /\ part = "steps" /\ StaticNext
     /\ UNCHANGED <<part, vars, experimentVars, routingVars, genVars, settingsVars,
                    configVars>>
  \/ /\ part = "experiment" /\ ExperimentNext
     /\ UNCHANGED <<part, vars, staticVars, routingVars, genVars, settingsVars, configVars>>
  \/ /\ part = "routing" /\ RoutingNext
     /\ UNCHANGED <<part, vars, staticVars, experimentVars, genVars, settingsVars, configVars>>
  \/ /\ part = "generator" /\ GenNext
     /\ UNCHANGED <<part, vars, staticVars, experimentVars, routingVars, settingsVars, configVars>>
  \/ /\ part = "settings" /\ SettingsNext
     /\ UNCHANGED <<part, vars, staticVars, experimentVars, routingVars, genVars, configVars>>
  \/ /\ part = "config" /\ ConfigNext
     /\ UNCHANGED <<part, vars, staticVars, experimentVars, routingVars, genVars, settingsVars>>

MCSpec == MCInit /\ [][MCNext]_<<part, vars, staticVars, experimentVars, routingVars, genVars,
                                 settingsVars, configVars>>

\* EventSim's fairness
MCFairSpec == MCSpec /\ WF_vars(part = "simulation" /\ Next)

-----------------------------------------------------------------------------
\* The part that runs has values of the kinds its module says.
MCTypeOK ==
  CASE part = "simulation" -> TypeOK
    [] part = "steps" -> StaticTypeOK
    [] part = "experiment" -> ExperimentTypeOK
    [] part = "routing" -> RoutingTypeOK
    [] part = "generator" -> GenTypeOK
    [] part = "settings" -> SettingsTypeOK
    [] part = "config" -> ConfigTypeOK
=============================================================================
