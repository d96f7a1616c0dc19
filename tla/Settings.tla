------------------------------ MODULE Settings ------------------------------
(***************************************************************************)
(* Which parameters a run takes: src/model/config.py, configure and the    *)
(* parameters of run_simulation in src/cli.py, and                         *)
(* src/distributed/settings.py, over commands that each start from the     *)
(* config file an earlier one has left.                                    *)
(*                                                                         *)
(* A value is known by what it was chosen for: the windowed scheme, whose  *)
(* eta is an inertia, or Algorithm 1, whose eta is a step; and by the      *)
(* command that chose it, 0 for the user's file.  eps goes with delta_s.   *)
(***************************************************************************)
EXTENDS Integers

CONSTANTS
  UserConfigs,  \* the configs users write
  Flags,        \* the sets of keys given as flags
  MaxCommands   \* BOUND: commands

Algorithm1Modes == {"static_algorithm1", "capacity_safe_event_driven"}
ControllerModes == Algorithm1Modes \cup {"windowed_stochastic"}
Absent == "absent"
Default == -1

Family(mode) == IF mode \in Algorithm1Modes THEN "step" ELSE "inertia"

Values == [family : {"step", "inertia"}, by : Default .. MaxCommands]
Chosen(mode, by) == [family |-> Family(mode), by |-> by]

Keys == {"eta", "gamma", "delta_s", "beta", "safe_step_variant"}

\* the keys that are not chosen for a scheme
Shared == {"beta", "safe_step_variant"}

\* the keys of MODE_DEFAULTS[mode]
ModeKeys(mode) ==
  CASE mode = "static_algorithm1" -> {"eta", "gamma", "delta_s"}
    [] mode = "capacity_safe_event_driven" -> {"eta", "gamma", "delta_s", "beta"}
    [] mode = "windowed_stochastic" -> {"eta", "gamma", "beta"}

ModeDefaults(mode) == [k \in ModeKeys(mode) |-> Chosen(mode, Default)]

VARIABLES
  file,      \* the config the next command is given
  commands,  \* the commands so far
  last       \* the last command: what was asked of it and what its run uses

settingsVars == <<file, commands, last>>

\* `algorithm' holds the keys of its section, `seed' the command that chose it,
\* Default for none
Configs ==
  [controller_mode : ControllerModes \cup {Absent, "unknown"}, mode : {Absent, "static", "synchronous"},
   algorithm : UNION {[keys -> Values] : keys \in SUBSET Keys},
   seed : Default .. MaxCommands, varies : BOOLEAN]

Nothing == [kind |-> "none"]

SettingsTypeOK ==
  /\ file \in Configs /\ commands \in 0 .. MaxCommands
  /\ last = Nothing \/ (last.kind \in {"run", "up", "raised"} /\ last.mode \in ControllerModes \cup {Absent})

SettingsInit == file \in UserConfigs /\ commands = 0 /\ last = Nothing

-----------------------------------------------------------------------------
(***************************************************************************)
(* src/model/config.py.                                                    *)
(***************************************************************************)

\* _LEGACY_MODES, with its default
Legacy(mode) == IF mode = "static" THEN "static_algorithm1" ELSE "windowed_stochastic"

\* controller_mode; anything but a mode is a ValueError
ControllerMode(config) ==
  IF config.controller_mode = Absent THEN Legacy(config.mode) ELSE config.controller_mode

Valid(config) == ControllerMode(config) \in ControllerModes

\* its parameters are for the scheme of its mode
OfItsScheme(config) ==
  Valid(config) => \A k \in DOMAIN config.algorithm \ Shared :
                     config.algorithm[k].family = Family(ControllerMode(config))

\* a user writes parameters for the mode the file names
ASSUME SettingsConstants ==
  /\ UserConfigs \subseteq Configs /\ \A config \in UserConfigs : OfItsScheme(config)
  /\ Flags \subseteq SUBSET (Keys \ {"safe_step_variant"}) /\ MaxCommands \in Nat

\* mutant: what the file has is kept, whatever it was written for
KeptSection(previous, current, mode) ==
  [k \in ModeKeys(mode) |-> IF k \in DOMAIN previous THEN previous[k] ELSE ModeDefaults(mode)[k]]

\* the algorithm section under another mode
Section(previous, current, mode) ==
  [k \in ModeKeys(mode) |->
     IF {current, mode} \subseteq Algorithm1Modes /\ k \in DOMAIN previous
     THEN previous[k] ELSE ModeDefaults(mode)[k]]

WithControllerMode(config, mode) ==
  LET current == ControllerMode(config)
  IN  [config EXCEPT !.mode = Absent, !.controller_mode = mode,
                     !.algorithm = IF mode = current THEN @ ELSE Section(@, current, mode)]

-----------------------------------------------------------------------------
(***************************************************************************)
(* src/cli.py: one process.                                                *)
(***************************************************************************)

Get(config, k, default) == IF k \in DOMAIN config.algorithm THEN config.algorithm[k] ELSE default

\* configure; by is the number of the command
Flagged(config, flags, mode, by) ==
  [config EXCEPT !.algorithm =
     [k \in flags \cup DOMAIN @ |-> IF k \in flags THEN Chosen(mode, by) ELSE @[k]]]

\* the parameters of run_simulation: the paper's step unless the mode is windowed
RunParameters(config) ==
  LET mode == ControllerMode(config)
  IN  [k \in ModeKeys(mode) |-> Get(config, k, Chosen(mode, Default))]

Seed(config, by) == IF config.seed = Default THEN by ELSE config.seed

Ran(config, flags) ==
  /\ last' = [kind |-> "run", mode |-> ControllerMode(config), flags |-> flags,
              params |-> RunParameters(config), seed |-> Seed(config, commands + 1)]
  /\ file' = config
  /\ commands' = commands + 1

Raises ==
  /\ last' = [kind |-> "raised", mode |-> Absent]
  /\ commands' = commands + 1
  /\ UNCHANGED file

\* run --config, with --controller or without
Run(controller, flags) ==
  /\ commands < MaxCommands
  /\ LET config == IF controller = Absent THEN file ELSE WithControllerMode(file, controller)
         mode == ControllerMode(config)
     IN  IF Valid(file) /\ flags \subseteq ModeKeys(mode)
         THEN Ran(Flagged(config, flags, mode, commands + 1), flags) ELSE Raises

Written(mode, algorithm) ==
  [controller_mode |-> mode, mode |-> Absent, algorithm |-> algorithm,
   seed |-> commands + 1, varies |-> FALSE]

\* run --sources: generated_config
RunGenerated(controller, flags) ==
  /\ commands < MaxCommands
  /\ LET mode == IF controller = Absent THEN "windowed_stochastic" ELSE controller
     IN  IF flags \subseteq ModeKeys(mode)
         THEN Ran(Flagged(Written(mode, ModeDefaults(mode)), flags, mode, commands + 1), flags)
         ELSE Raises

\* Launch of the dashboard: a config file under some mode, or sliders for the
\* keys of the mode, but for the beta of Algorithm 1
Launch(mode) ==
  /\ commands < MaxCommands
  /\ \/ IF Valid(file) THEN Ran(WithControllerMode(file, mode), {}) ELSE Raises
     \/ LET sliders == ModeKeys(mode) \ (IF mode \in Algorithm1Modes THEN {"beta"} ELSE {})
        IN  Ran(Flagged(Written(mode, << >>), sliders, mode, commands + 1), sliders)

-----------------------------------------------------------------------------
(***************************************************************************)
(* src/distributed/settings.py.                                            *)
(***************************************************************************)

Distributed == "capacity_safe_event_driven"

\* the parameters of distributed_settings
DistributedParameters(config, overrides, by) ==
  [k \in Keys |->
     IF k \in overrides THEN Chosen(Distributed, by)
     ELSE IF k \in Shared \/ ControllerMode(config) \in Algorithm1Modes
          THEN Get(config, k, Chosen(Distributed, Default))
          ELSE Chosen(Distributed, Default)]

\* resolved_config
Resolved(params, seed) ==
  [controller_mode |-> Distributed, mode |-> Absent, seed |-> seed, varies |-> FALSE,
   algorithm |-> params]

\* up, for the config of a file or of a generated topology; its controller reads
\* the parameters and the seed from the file again
Up(config, overrides) ==
  /\ commands < MaxCommands
  /\ IF ~Valid(config) \/ config.varies THEN Raises
     ELSE LET params == DistributedParameters(config, overrides, commands + 1)
              resolved == Resolved(params, Seed(config, commands + 1))
          IN  /\ file' = resolved
              /\ commands' = commands + 1
              /\ last' = [kind |-> "up", mode |-> Distributed, flags |-> overrides,
                          params |-> params, seed |-> Seed(config, commands + 1),
                          controller |-> DistributedParameters(resolved, {}, Default),
                          controllerSeed |-> Seed(resolved, Default)]

SettingsNext ==
  \/ \E controller \in ControllerModes \cup {Absent}, flags \in Flags :
       Run(controller, flags) \/ RunGenerated(controller, flags)
  \/ \E mode \in ControllerModes : Launch(mode)
  \/ \E overrides \in {f \in Flags : "beta" \notin f} :
       Up(file, overrides) \/ Up(Written(Distributed, << >>), overrides)

SettingsSpec == SettingsInit /\ [][SettingsNext]_settingsVars

-----------------------------------------------------------------------------
(***************************************************************************)
(* Properties.                                                             *)
(***************************************************************************)

\* However the config a run starts from came about, its eta, gamma and delta_s were
\* chosen for the scheme it runs (an inertia is never taken for a step), and a flag
\* of the command itself is in effect.  The controller of an `up', which reads
\* resolved_config.yaml, uses the parameters and the seed its launcher has described.
ParametersOfTheirMode ==
  /\ last.kind \in {"run", "up"} =>
       /\ \A k \in DOMAIN last.params \ Shared : last.params[k].family = Family(last.mode)
       /\ \A k \in last.flags : last.params[k].by = commands
  /\ last.kind = "up" => last.controller = last.params /\ last.controllerSeed = last.seed
=============================================================================
