---------------------------- MODULE TopologyConfig ----------------------------
(***************************************************************************)
(* Reading a topology: topology_from_config of src/model/config.py, the    *)
(* validation of src/model/topology.py, and with_capacities, by which the  *)
(* capacities of a topology vary.                                          *)
(*                                                                         *)
(* Names are model values.  A link key is the pair it names after its      *)
(* spaces are stripped, so two keys of the mapping may name one pair;      *)
(* Malformed stands for a key without two names.                           *)
(***************************************************************************)
EXTENDS Integers, Sequences, SequencesExt

CONSTANTS
  TopologyConfigs,  \* the configs read
  NewCapacities,    \* what capacities vary to
  Malformed

NaN == -2
Text == -3  \* no number; a Boolean is none either

Ids(items) == [k \in 1 .. Len(items) |-> items[k].id]
Pairs(c) == Range(Ids(c.sources)) \X Range(Ids(c.brokers))
Numbered(items) == \A k \in 1 .. Len(items) : items[k].value \in Int

\* What a config is: each list is one, a value a number, NaN or text, and no pair of
\* names is malformed.
ConfigTyped(c) ==
  /\ c.sections \in BOOLEAN
  /\ c.sources \in Seq(Range(c.sources)) /\ Numbered(c.sources)
  /\ c.brokers \in Seq(Range(c.brokers)) /\ Numbered(c.brokers)
  /\ c.access_capacities \in Seq(Range(c.access_capacities)) /\ Numbered(c.access_capacities)
  /\ c.unavailable_links \in Seq(Range(c.unavailable_links))
  /\ Malformed \notin Pairs(c)

ASSUME ConfigsTyped ==
  NewCapacities \subseteq Int /\ \A c \in TopologyConfigs : ConfigTyped(c)

VARIABLES
  cfg,
  reading,  \* "config", "topology" or "ValueError"
  parsed    \* the topology that was read

configVars == <<cfg, reading, parsed>>

NoTopology == [sources |-> << >>]

ConfigTypeOK ==
  /\ cfg \in TopologyConfigs /\ reading \in {"config", "topology", "ValueError"}
  /\ parsed # NoTopology => DOMAIN parsed.mu_links = Pairs(cfg)

ConfigInit == cfg \in TopologyConfigs /\ reading = "config" /\ parsed = NoTopology

-----------------------------------------------------------------------------
(***************************************************************************)
(* topology_from_config.                                                   *)
(***************************************************************************)

\* entries(): ids and values of topology.sources or topology.brokers
EntriesFail(items) ==
  items = << >> \/ ~IsInjective(Ids(items)) \/ \E k \in 1 .. Len(items) : items[k].value = Text

\* mutant: a pair may be given twice
LinkIndexFailsIfUnknown(c, read, link) == link = Malformed \/ link \notin Pairs(c)

\* link_index(); read.specified holds the pairs seen so far
LinkIndexFails(c, read, link) ==
  link = Malformed \/ link \notin Pairs(c) \/ link \in read.specified

\* one entry of access_capacities, then one of unavailable_links
ReadCapacity(c, read, entry) ==
  IF read.failed \/ LinkIndexFails(c, read, entry.link) \/ entry.value = Text
  THEN [read EXCEPT !.failed = TRUE]
  ELSE [read EXCEPT !.specified = @ \cup {entry.link}, !.mu_links[entry.link] = entry.value]

ReadUnavailable(c, read, link) ==
  IF read.failed \/ LinkIndexFails(c, read, link) THEN [read EXCEPT !.failed = TRUE]
  ELSE [read EXCEPT !.specified = @ \cup {link}, !.route_mask[link] = FALSE]

\* both loops
ReadLinks(c) ==
  LET none == [failed |-> FALSE, specified |-> {}, mu_links |-> [l \in Pairs(c) |-> 0],
               route_mask |-> [l \in Pairs(c) |-> TRUE]]
      capacities == FoldLeft(LAMBDA read, e : ReadCapacity(c, read, e), none, c.access_capacities)
  IN  FoldLeft(LAMBDA read, l : ReadUnavailable(c, read, l), capacities, c.unavailable_links)

ValuesOf(items) ==
  [id \in Range(Ids(items)) |-> items[CHOOSE k \in 1 .. Len(items) : items[k].id = id].value]

\* Topology.__post_init__, the ids being distinct already
Validates(t) ==
  /\ \A i \in DOMAIN t.lambdas_total : t.lambdas_total[i] >= 0
  /\ \A l \in DOMAIN t.mu_links : t.route_mask[l] => t.mu_links[l] > 0
  /\ \A i \in DOMAIN t.lambdas_total :
       t.lambdas_total[i] > 0 => \E l \in DOMAIN t.mu_links : l[1] = i /\ t.route_mask[l]
  /\ \A j \in DOMAIN t.mu_brokers : t.mu_brokers[j] > 0

\* missing links have no capacity
Masked(t) == [t EXCEPT !.mu_links = [l \in DOMAIN @ |-> IF t.route_mask[l] THEN @[l] ELSE 0]]

Construct(t) ==
  IF Validates(Masked(t)) THEN reading' = "topology" /\ parsed' = Masked(t)
  ELSE reading' = "ValueError" /\ UNCHANGED parsed

TopologyFromConfig ==
  /\ reading = "config"
  /\ IF ~cfg.sections \/ EntriesFail(cfg.sources) \/ EntriesFail(cfg.brokers)
     THEN reading' = "ValueError" /\ UNCHANGED parsed
     ELSE LET read == ReadLinks(cfg)
          IN  IF read.failed \/ read.specified # Pairs(cfg)
              THEN reading' = "ValueError" /\ UNCHANGED parsed
              ELSE Construct([sources |-> Ids(cfg.sources), lambdas_total |-> ValuesOf(cfg.sources),
                              mu_brokers |-> ValuesOf(cfg.brokers), mu_links |-> read.mu_links,
                              route_mask |-> read.route_mask])
  /\ UNCHANGED cfg

\* the capacities drift, or a run with a schedule sets them
WithCapacities ==
  /\ reading = "topology"
  /\ \E link, broker \in NewCapacities :
       Construct([parsed EXCEPT !.mu_links = [l \in DOMAIN @ |-> link],
                                !.mu_brokers = [j \in DOMAIN @ |-> broker]])
  /\ UNCHANGED cfg

ConfigNext == TopologyFromConfig \/ WithCapacities

ConfigSpec == ConfigInit /\ [][ConfigNext]_configVars

-----------------------------------------------------------------------------
(***************************************************************************)
(* Properties.                                                             *)
(***************************************************************************)

\* A config that means one topology: every pair is in exactly one of the two lists,
\* once, nothing else is, and every number can be a rate or a capacity.
Named(c, l) ==
  {<<"capacity", k>> :
     k \in {k \in 1 .. Len(c.access_capacities) : c.access_capacities[k].link = l}}
  \cup {<<"unavailable", k>> :
          k \in {k \in 1 .. Len(c.unavailable_links) : c.unavailable_links[k] = l}}

Listed(c) == {c.access_capacities[k].link : k \in 1 .. Len(c.access_capacities)}

MeansOneTopology(c) ==
  /\ c.sections /\ c.sources # << >> /\ c.brokers # << >>
  /\ IsInjective(Ids(c.sources)) /\ IsInjective(Ids(c.brokers))
  /\ Listed(c) \cup Range(c.unavailable_links) \subseteq Pairs(c)
  /\ \A l \in Pairs(c) : \E entry \in Named(c, l) : Named(c, l) = {entry}
  /\ \A k \in 1 .. Len(c.sources) : c.sources[k].value >= 0
  /\ \A k \in 1 .. Len(c.brokers) : c.brokers[k].value > 0
  /\ \A k \in 1 .. Len(c.access_capacities) : c.access_capacities[k].value > 0
  /\ \A k \in 1 .. Len(c.sources) :
       c.sources[k].value > 0 => \E l \in Listed(c) : l[1] = c.sources[k].id

\* Exactly the configs that mean one topology are accepted ("every pair must appear
\* in exactly one of the two"); whatever its capacities become, a link that does not
\* exist has none, and every other one has more than zero.
AcceptedIsTyped ==
  /\ reading = "topology" => MeansOneTopology(cfg)
  /\ reading = "ValueError" /\ parsed = NoTopology => ~MeansOneTopology(cfg)
  /\ parsed # NoTopology =>
       \A l \in Pairs(cfg) :
         /\ parsed.route_mask[l] <=> l \in Listed(cfg)
         /\ parsed.mu_links[l] > 0 <=> l \in Listed(cfg)
==============================================================================
