---------------------------- MODULE ConfigurationProofs ----------------------------
(***************************************************************************)
(* Why a run has what its configuration says: a generated topology the     *)
(* balance reported for it, for any grid of scales and balances, any       *)
(* number of rounds and whatever is measured; and parameters that were     *)
(* chosen for its mode, for any commands one after the other; and a        *)
(* topology that its config means, for any lists of entries and links.     *)
(*                                                                         *)
(* GeneratedAsReported says nothing of the rounds in between; the report   *)
(* is the last point of the history there, and a search that goes on to a  *)
(* second round has measured one.                                          *)
(***************************************************************************)
EXTENDS Generator, Settings, TopologyConfig, Lemmas

\* what check() and the rounds leave behind, at the head of the loop and after it
SearchInv ==
  /\ GenTypeOK
  /\ search = "round" => round <= Rounds
  /\ search # "returned" /\ history # << >> => measured.beta = Last(history)[2]
  /\ round > 1 => history # << >>
  /\ search = "not reached" => history # << >>
  /\ search = "returned" => instance >= least
  /\ search = "returned" /\ asked => measured = [beta |-> 0, beta_rounds |-> round]

\* The last points of a history, of any kind.
LEMMA LastPoints ==
  ASSUME NEW S, NEW h \in Seq(S), h # << >>
  PROVE  /\ Len(h) \in 1 .. Len(h) /\ Last(h) = h[Len(h)] /\ Last(h) \in S
         /\ Len(h) # 1 => h[Len(h) - 1] \in S
<1>1. Len(h) \in Nat /\ Len(h) # 0 /\ \A n \in 1 .. Len(h) : h[n] \in S
  OBVIOUS
<1> QED
  BY <1>1 DEF Last

\* A point of the history is a scale and a balance.
LEMMA PointTyped ==
  ASSUME NEW p \in Int \X Betas
  PROVE  p[1] \in Int /\ p[2] \in Betas /\ p[2] \in Int /\ p[2] # None
  BY GenConstants

\* The secant step is a whole number on the grid, whatever the points of the history.
LEMMA SecantTyped ==
  ASSUME NEW h \in Seq(Int \X Betas), h # << >>
  PROVE  Secant(h) \in Int
<1> DEFINE got == Last(h)[2]
           before == h[Len(h) - 1]
           dx == Last(h)[1] - before[1]
           fall == IF dx > 0 THEN before[2] - got ELSE got - before[2]
           width == IF dx > 0 THEN dx ELSE -dx
<1>1. Last(h) \in Int \X Betas /\ got \in Int
  BY LastPoints, PointTyped
<1>2. CASE Len(h) = 1
  BY <1>1, <1>2 DEF Secant
<1>3. CASE Len(h) # 1
  <2>1. before \in Int \X Betas
    BY <1>3, LastPoints
  <2>2. before[1] \in Int /\ before[2] \in Int /\ Last(h)[1] \in Int
    BY <1>1, <2>1, PointTyped
  <2>9. dx \in Int
    BY <2>2
  <2> HIDE DEF got, before, dx
  <2>3. fall \in Int /\ width \in Int /\ (dx # 0 => width > 0)
    BY <1>1, <2>2, <2>9
  <2> HIDE DEF fall, width
  <2>4. Secant(h) = IF Len(h) = 1 \/ dx = 0 THEN got
                    ELSE IF 2 * fall < width THEN 2 * got
                    ELSE IF fall > 3 * width THEN got \div 3
                    ELSE (got * width) \div fall
    BY Zenon DEF Secant, got, before, dx, fall, width
  <2>5. CASE Len(h) = 1 \/ dx = 0
    BY <1>1, <2>4, <2>5
  <2>6. CASE ~(Len(h) = 1 \/ dx = 0) /\ 2 * fall < width
    BY <1>1, <2>4, <2>6
  <2>7. CASE ~(Len(h) = 1 \/ dx = 0) /\ ~(2 * fall < width) /\ fall > 3 * width
    BY <1>1, <2>4, <2>7
  <2>8. CASE ~(Len(h) = 1 \/ dx = 0) /\ ~(2 * fall < width) /\ ~(fall > 3 * width)
    <3>1. fall > 0 /\ got * width \in Int
      BY <1>1, <2>3, <2>8
    <3>2. (got * width) \div fall \in Int
      BY <2>3, <3>1
    <3> QED
      BY <2>4, <2>8, <3>2
  <2> QED
    BY <2>5, <2>6, <2>7, <2>8
<1> QED
  BY <1>2, <1>3

\* The midpoint BackOff tries next is a scale again.
LEMMA HalfTyped == ASSUME NEW a \in Int PROVE a \div 2 \in Int
  OBVIOUS

\* NextRound leaves room for as many points as there were rounds.
LEMMA RoundAfter ==
  ASSUME NEW r \in 1 .. Rounds, NEW n \in Nat, n < r
  PROVE  /\ r \in 0 .. Rounds /\ r + 1 \in 1 .. Rounds + 1
         /\ r + 1 > 1 /\ n + 1 < r + 1 /\ n < r + 1
  BY GenConstants

\* A point more.
LEMMA OneMore ==
  ASSUME NEW S, NEW h \in Seq(S), NEW p \in S
  PROVE  /\ Append(h, p) \in Seq(S) /\ Append(h, p) # << >>
         /\ Len(Append(h, p)) = Len(h) + 1 /\ Last(Append(h, p)) = p
<1>1. /\ Len(h) \in Nat /\ Append(h, p) \in Seq(S) /\ Len(Append(h, p)) = Len(h) + 1
      /\ Append(h, p)[Len(h) + 1] = p
  OBVIOUS
<1>2. Append(h, p) # << >>
  BY <1>1
<1> QED
  BY <1>1, <1>2 DEF Last

\* The search begins without a measurement.
LEMMA SearchInit == GenInit => SearchInv
<1>1. << >> \in Seq(Int \X Betas)
  OBVIOUS
<1>2. None \in Int
  BY DEF None
<1> QED
  BY <1>1, <1>2, GenConstants DEF GenInit, SearchInv, GenTypeOK

\* One step per branch of the loop body.
LEMMA SearchStep == ASSUME SearchInv, [GenNext]_genVars PROVE SearchInv'
<1>0. /\ asked \in BOOLEAN /\ least \in Scales /\ scale \in Int /\ round \in 1 .. Rounds + 1
      /\ history \in Seq(Int \X Betas) /\ Len(history) \in Nat /\ Len(history) < round
      /\ search = "round" => round \in 1 .. Rounds
      /\ Rounds \in Nat /\ \A x \in Betas : x \in Int
  <2>1. /\ asked \in BOOLEAN /\ least \in Scales /\ scale \in Int /\ round \in 1 .. Rounds + 1
        /\ history \in Seq(Int \X Betas) /\ Len(history) < round
        /\ search = "round" => round <= Rounds
    BY DEF SearchInv, GenTypeOK
  <2>2. Rounds \in Nat /\ \A x \in Betas : x \in Int
    BY GenConstants
  <2>3. Len(history) \in Nat
    BY <2>1
  <2>4. search = "round" => round \in 1 .. Rounds
    BY <2>1, <2>2
  <2> QED
    BY <2>1, <2>2, <2>3, <2>4
<1>1. CASE Plain
  BY <1>1 DEF Plain, Returns, Fits, SearchInv, GenTypeOK
<1>2. CASE BackOff
  <2>1. CASE history = << >>
    BY <1>2, <2>1 DEF BackOff, SearchInv, GenTypeOK
  <2>2. CASE history # << >>
    <3>1. Last(history)[1] \in Int
      BY <1>0, <2>2, LastPoints, PointTyped
    <3>2. scale' \in Int
      <4>1. scale + Last(history)[1] \in Int
        BY <1>0, <3>1
      <4>2. scale' = (scale + Last(history)[1]) \div 2
        BY <1>2, <2>2 DEF BackOff
      <4> QED
        BY <4>1, <4>2, HalfTyped
    <3>3. /\ round' = round + 1 /\ search' \in {"round", "not reached"} /\ round \in 1 .. Rounds
          /\ round = Rounds => search' = "not reached"
          /\ UNCHANGED <<asked, least, history, measured, instance>>
      BY <1>0, <1>2, <2>2 DEF BackOff, NextRound
    <3>4. round' \in 1 .. Rounds + 1 /\ Len(history) < round' /\ round' > 1
      BY <1>0, <3>3, RoundAfter
    <3>5. history' \in Seq(Int \X Betas) /\ Len(history') < round'
      BY <1>0, <3>3, <3>4
    <3>6. GenTypeOK'
      BY <1>0, <3>2, <3>3, <3>4, <3>5 DEF SearchInv, GenTypeOK
    <3>7. search' = "round" => round' <= Rounds
      BY <1>0, <3>3
    <3> QED
      BY <1>0, <1>2, <2>2, <3>3, <3>6, <3>7 DEF SearchInv, BackOff
  <2> QED
    BY <2>1, <2>2
<1>3. CASE Measure
  <2>1. PICK got \in Betas :
          /\ measured' = [beta |-> got, beta_rounds |-> round]
          /\ IF got = 0 THEN Returns /\ UNCHANGED <<round, scale, history>>
             ELSE /\ history' = Append(history, <<scale, got>>)
                  /\ scale' = scale + Clip(Secant(history'), -Quadruple, Quadruple)
                  /\ NextRound
    BY <1>3 DEF Measure, StatsWith
  <2>2. /\ search = "round" /\ scale >= least /\ UNCHANGED <<asked, least>>
        /\ round \in 1 .. Rounds
    BY <1>0, <1>3 DEF Measure, Fits
  <2>3. CASE got = 0
    <3>1. /\ search' = "returned" /\ instance' = scale /\ UNCHANGED <<round, scale, history>>
          /\ measured' = [beta |-> 0, beta_rounds |-> round]
      BY <2>1, <2>3 DEF Returns
    <3>2. GenTypeOK'
      BY <1>0, <2>2, <2>3, <3>1 DEF SearchInv, GenTypeOK
    <3> QED
      BY <2>2, <3>1, <3>2 DEF SearchInv
  <2>4. CASE got # 0
    <3>1. /\ history' = Append(history, <<scale, got>>) /\ <<scale, got>> \in Int \X Betas
      BY <1>0, <2>1, <2>4
    <3>2. /\ history' \in Seq(Int \X Betas) /\ history' # << >>
          /\ Len(history') = Len(history) + 1 /\ Last(history') = <<scale, got>>
      <4> DEFINE p == <<scale, got>>
      <4>1. history' = Append(history, p) /\ p \in Int \X Betas
        BY <3>1
      <4>2. history \in Seq(Int \X Betas)
        BY <1>0 DEF SearchInv, GenTypeOK
      <4> HIDE DEF p
      <4>3. /\ history' \in Seq(Int \X Betas) /\ history' # << >>
            /\ Len(history') = Len(history) + 1 /\ Last(history') = p
        BY <4>1, <4>2, OneMore
      <4> QED
        BY <4>3 DEF p
    <3>3. Clip(Secant(history'), -Quadruple, Quadruple) \in Int
      <4>1. Secant(history') \in Int
        BY <3>2, SecantTyped
      <4>2. Quadruple \in Int /\ -Quadruple \in Int
        BY GenConstants
      <4> QED
        BY <4>1, <4>2 DEF Clip
    <3>4. scale' \in Int
      BY <1>0, <2>1, <2>4, <3>3
    <3>5. /\ round' = round + 1 /\ instance' = instance /\ search' \in {"round", "not reached"}
          /\ round = Rounds => search' = "not reached"
      BY <2>1, <2>2, <2>4 DEF NextRound
    <3>6. measured'.beta = got /\ measured'.beta_rounds = round /\ Last(history')[2] = got
      BY <2>1, <3>2
    <3>7. round' \in 1 .. Rounds + 1 /\ Len(history') < round'
      BY <1>0, <2>2, <3>2, <3>5, RoundAfter
    <3>8. /\ instance' \in Int /\ asked' \in BOOLEAN /\ least' \in Scales
          /\ measured'.beta \in Betas \cup {None} /\ measured'.beta_rounds \in 0 .. Rounds
      BY <1>0, <2>2, <3>5, <3>6, RoundAfter DEF SearchInv, GenTypeOK
    <3>9. GenTypeOK'
      BY <1>0, <2>2, <3>2, <3>4, <3>5, <3>6, <3>7, <3>8 DEF GenTypeOK
    <3>10. search' = "round" => round' <= Rounds
      BY <1>0, <2>2, <3>5
    <3> QED
      BY <3>2, <3>5, <3>6, <3>9, <3>10 DEF SearchInv
  <2> QED
    BY <2>3, <2>4
<1>4. CASE NoOptimum
  BY <1>4 DEF NoOptimum, SearchInv, GenTypeOK
<1>5. CASE UNCHANGED genVars
  BY <1>5 DEF genVars, SearchInv, GenTypeOK
<1> QED
  BY <1>1, <1>2, <1>3, <1>4, <1>5 DEF GenNext

\* The history of the search has points with a measured balance, fewer than the rounds.
THEOREM GeneratorTyped == GenSpec => []GenTypeOK
<1>1. SearchInv => GenTypeOK BY DEF SearchInv
<1> QED BY <1>1, SearchInit, SearchStep, PTL DEF GenSpec

\* What generate_instance returns can be routed, and its beta and beta_rounds are
\* those of the topology it returns; when it gives up it has measured something.
THEOREM Generated ==
  GenSpec => []GeneratedAsReported
<1>1. SearchInv => GeneratedAsReported
  <2> SUFFICES ASSUME SearchInv PROVE GeneratedAsReported
    OBVIOUS
  <2>1. ASSUME search = "not reached"
        PROVE  measured.beta # None /\ \E k \in 1 .. Len(history) : history[k][2] = measured.beta
    <3>1. history # << >> /\ measured.beta = Last(history)[2]
      BY <2>1 DEF SearchInv
    <3>2. /\ Len(history) \in 1 .. Len(history) /\ Last(history) = history[Len(history)]
          /\ Last(history) \in Int \X Betas
      BY <3>1, LastPoints DEF SearchInv, GenTypeOK
    <3>3. Last(history)[2] # None
      BY <3>2, PointTyped
    <3> QED
      BY <3>1, <3>2, <3>3
  <2> QED
    BY <2>1 DEF SearchInv, GeneratedAsReported
<1> QED
  BY <1>1, SearchInit, SearchStep, PTL DEF GenSpec

-----------------------------------------------------------------------------
(***************************************************************************)
(* Settings: the parameters of a run were chosen for its mode.  It holds   *)
(* for the next command as the file each one leaves names its mode and has *)
(* parameters for that mode only.                                          *)
(***************************************************************************)

SettingsInv == SettingsTypeOK /\ OfItsScheme(file) /\ ParametersOfTheirMode

Algorithms == UNION {[keys -> Values] : keys \in SUBSET Keys}

\* The keys of the modes are keys, and what is chosen is a value.
LEMMA KeysTyped ==
  /\ \A mode \in ControllerModes : ModeKeys(mode) \subseteq Keys
  /\ \A mode, by : by \in Default .. MaxCommands => Chosen(mode, by) \in Values
  /\ \A mode, by : Chosen(mode, by).family = Family(mode) /\ Chosen(mode, by).by = by
<1>1. \A mode \in ControllerModes : ModeKeys(mode) \subseteq Keys
  BY DEF ControllerModes, Algorithm1Modes, ModeKeys, Keys
<1> QED BY <1>1 DEF Chosen, Values, Family

\* A section is a function from some of the keys to values.
LEMMA SectionTyped ==
  ASSUME NEW a
  PROVE  a \in Algorithms <=> \E keys \in SUBSET Keys : a \in [keys -> Values]
BY DEF Algorithms

\* The fields of a config.
LEMMA ConfigFields ==
  ASSUME NEW config \in Configs
  PROVE  /\ config = [controller_mode |-> config.controller_mode, mode |-> config.mode,
                      algorithm |-> config.algorithm, seed |-> config.seed, varies |-> config.varies]
         /\ config.algorithm \in Algorithms /\ DOMAIN config.algorithm \subseteq Keys
         /\ \A k \in DOMAIN config.algorithm : config.algorithm[k] \in Values
         /\ config.seed \in Default .. MaxCommands /\ config.varies \in BOOLEAN
<1>1. config.algorithm \in Algorithms BY DEF Configs, Algorithms
<1>2. PICK keys \in SUBSET Keys : config.algorithm \in [keys -> Values] BY <1>1, SectionTyped
<1> QED BY <1>1, <1>2 DEF Configs

\* A config is used under another mode: its section keeps what was chosen for the scheme.
LEMMA ModeChanged ==
  ASSUME MaxCommands \in Nat, NEW config \in Configs, Valid(config), OfItsScheme(config),
         NEW mode \in ControllerModes
  PROVE  /\ WithControllerMode(config, mode) \in Configs
         /\ ControllerMode(WithControllerMode(config, mode)) = mode
         /\ OfItsScheme(WithControllerMode(config, mode))
<1> DEFINE now == ControllerMode(config)
           section == IF mode = now THEN config.algorithm ELSE Section(config.algorithm, now, mode)
           changed == WithControllerMode(config, mode)
<1>1. /\ changed.controller_mode = mode /\ changed.mode = Absent /\ changed.algorithm = section
      /\ changed.seed = config.seed /\ changed.varies = config.varies
      /\ changed = [controller_mode |-> mode, mode |-> Absent, algorithm |-> section,
                    seed |-> config.seed, varies |-> config.varies]
  <2>1. changed = [config EXCEPT !.mode = Absent, !.controller_mode = mode, !.algorithm = section]
    BY DEF WithControllerMode
  <2>2. config \in [controller_mode : ControllerModes \cup {Absent, "unknown"},
                    mode : {Absent, "static", "synchronous"},
                    algorithm : Algorithms, seed : Default .. MaxCommands, varies : BOOLEAN]
    BY DEF Configs, Algorithms
  <2> HIDE DEF changed, section
  <2> QED BY <2>1, <2>2
<1>2. ControllerMode(changed) = mode
  BY <1>1 DEF ControllerMode, ControllerModes, Algorithm1Modes, Absent
<1>3. section \in Algorithms
      /\ \A k \in DOMAIN section \ Shared : section[k].family = Family(mode)
  <2>1. CASE mode = now BY <2>1, ConfigFields DEF OfItsScheme
  <2>2. CASE mode # now
    <3>1. section = [k \in ModeKeys(mode) |->
                       IF {now, mode} \subseteq Algorithm1Modes /\ k \in DOMAIN config.algorithm
                       THEN config.algorithm[k] ELSE Chosen(mode, Default)]
      BY <2>2 DEF Section, ModeDefaults
    <3>2. Chosen(mode, Default) \in Values /\ Chosen(mode, Default).family = Family(mode)
      BY KeysTyped DEF Default
    <3>3. \A k \in DOMAIN config.algorithm : config.algorithm[k] \in Values BY ConfigFields
    <3>4. section \in [ModeKeys(mode) -> Values] /\ ModeKeys(mode) \subseteq Keys
      BY <3>1, <3>2, <3>3, KeysTyped
    <3>5. \A k \in DOMAIN config.algorithm \ Shared :
            {now, mode} \subseteq Algorithm1Modes => config.algorithm[k].family = Family(mode)
      BY DEF OfItsScheme, Family
    <3> HIDE DEF section, now
    <3> QED BY <3>1, <3>2, <3>4, <3>5, SectionTyped
  <2> QED BY <2>1, <2>2
<1>4. changed \in Configs
  <2> HIDE DEF section
  <2> QED BY <1>1, <1>3, ConfigFields DEF Configs, Algorithms
<1>5. OfItsScheme(changed)
  <2> HIDE DEF section
  <2> QED BY <1>1, <1>2, <1>3 DEF OfItsScheme
<1> QED BY <1>2, <1>4, <1>5

\* Flags are in the section, and of the scheme.
LEMMA FlagsTaken ==
  ASSUME MaxCommands \in Nat, NEW config \in Configs, OfItsScheme(config),
         NEW mode \in ControllerModes, ControllerMode(config) = mode,
         NEW flags \in SUBSET Keys, NEW by \in Default .. MaxCommands
  PROVE  /\ Flagged(config, flags, mode, by) \in Configs
         /\ ControllerMode(Flagged(config, flags, mode, by)) = mode
         /\ OfItsScheme(Flagged(config, flags, mode, by))
         /\ flags \subseteq DOMAIN Flagged(config, flags, mode, by).algorithm
         /\ \A k \in flags : Flagged(config, flags, mode, by).algorithm[k].by = by
<1> DEFINE taken == Flagged(config, flags, mode, by)
           section == [k \in flags \cup DOMAIN config.algorithm |->
                         IF k \in flags THEN Chosen(mode, by) ELSE config.algorithm[k]]
<1>1. /\ taken.controller_mode = config.controller_mode /\ taken.mode = config.mode
      /\ taken.algorithm = section
      /\ taken = [controller_mode |-> config.controller_mode, mode |-> config.mode,
                  algorithm |-> section, seed |-> config.seed, varies |-> config.varies]
  BY DEF Flagged, Configs
<1>2. ControllerMode(taken) = mode BY <1>1 DEF ControllerMode
<1>3. section = [k \in flags \cup DOMAIN config.algorithm |->
                   IF k \in flags THEN Chosen(mode, by) ELSE config.algorithm[k]]
  OBVIOUS
<1>4. Chosen(mode, by) \in Values /\ Chosen(mode, by).family = Family(mode) /\ Chosen(mode, by).by = by
  BY KeysTyped
<1>5. /\ DOMAIN config.algorithm \subseteq Keys
      /\ \A k \in DOMAIN config.algorithm : config.algorithm[k] \in Values
  BY ConfigFields
<1>6. section \in Algorithms
  <2>1. section \in [flags \cup DOMAIN config.algorithm -> Values] BY <1>3, <1>4, <1>5
  <2> HIDE DEF section
  <2> QED BY <1>5, <2>1, SectionTyped
<1>7. \A k \in DOMAIN section \ Shared : section[k].family = Family(mode)
  <2>1. \A k \in DOMAIN config.algorithm \ Shared : config.algorithm[k].family = Family(mode)
    BY DEF OfItsScheme, Valid
  <2> HIDE DEF section
  <2> QED BY <1>3, <1>4, <2>1
<1>8. flags \subseteq DOMAIN section /\ \A k \in flags : section[k].by = by
  <2> HIDE DEF section
  <2> QED BY <1>3, <1>4
<1> HIDE DEF section
<1>9. taken \in Configs BY <1>1, <1>6 DEF Configs, Algorithms
<1> QED BY <1>1, <1>2, <1>7, <1>8, <1>9 DEF OfItsScheme

\* What a run takes from a config that has parameters of its scheme only.
LEMMA RunTakes ==
  ASSUME NEW config, NEW mode \in ControllerModes, ControllerMode(config) = mode,
         OfItsScheme(config), NEW flags \in SUBSET ModeKeys(mode),
         flags \subseteq DOMAIN config.algorithm
  PROVE  /\ \A k \in DOMAIN RunParameters(config) \ Shared : RunParameters(config)[k].family = Family(mode)
         /\ \A k \in flags : RunParameters(config)[k] = config.algorithm[k]
<1>1. RunParameters(config) =
        [k \in ModeKeys(mode) |-> IF k \in DOMAIN config.algorithm THEN config.algorithm[k]
                                  ELSE Chosen(mode, Default)]
  BY DEF RunParameters, Get
<1>2. \A k \in DOMAIN config.algorithm \ Shared : config.algorithm[k].family = Family(mode)
  BY DEF OfItsScheme, Valid
<1> QED BY <1>1, <1>2, KeysTyped

\* A run of a config of its scheme, whose flags are in it.
LEMMA RanKept ==
  ASSUME SettingsTypeOK, MaxCommands \in Nat, commands < MaxCommands,
         NEW config \in Configs, NEW mode \in ControllerModes, ControllerMode(config) = mode,
         OfItsScheme(config), NEW flags \in SUBSET ModeKeys(mode),
         flags \subseteq DOMAIN config.algorithm,
         \A k \in flags : config.algorithm[k].by = commands + 1, Ran(config, flags)
  PROVE  SettingsInv'
<1>1. /\ last'.kind = "run" /\ last'.mode = mode /\ last'.flags = flags
      /\ last'.params = RunParameters(config) /\ file' = config /\ commands' = commands + 1
  BY DEF Ran
<1>2. commands' \in 0 .. MaxCommands BY <1>1 DEF SettingsTypeOK
<1>3. SettingsTypeOK' BY <1>1, <1>2 DEF SettingsTypeOK
<1>4. ParametersOfTheirMode' BY <1>1, RunTakes DEF ParametersOfTheirMode
<1>5. OfItsScheme(file)' BY <1>1 DEF OfItsScheme, Valid, ControllerMode
<1> QED BY <1>3, <1>4, <1>5 DEF SettingsInv

\* A command that is refused.
LEMMA RaisesKept ==
  ASSUME SettingsInv, MaxCommands \in Nat, commands < MaxCommands, Raises
  PROVE  SettingsInv'
<1>1. last'.kind = "raised" /\ last'.mode = Absent /\ file' = file /\ commands' = commands + 1 BY DEF Raises
<1>2. commands' \in 0 .. MaxCommands BY <1>1 DEF SettingsInv, SettingsTypeOK
<1>3. SettingsTypeOK' BY <1>1, <1>2 DEF SettingsInv, SettingsTypeOK
<1>4. ParametersOfTheirMode' BY <1>1 DEF ParametersOfTheirMode
<1>5. OfItsScheme(file)' BY <1>1 DEF SettingsInv, OfItsScheme, Valid, ControllerMode
<1> QED BY <1>3, <1>4, <1>5 DEF SettingsInv

\* A section with every key of its mode for the mode, or an empty one.
LEMMA WrittenTyped ==
  ASSUME SettingsTypeOK, MaxCommands \in Nat, commands < MaxCommands, NEW mode \in ControllerModes,
         NEW algorithm, algorithm = ModeDefaults(mode) \/ algorithm = << >>
  PROVE  /\ Written(mode, algorithm) \in Configs /\ ControllerMode(Written(mode, algorithm)) = mode
         /\ OfItsScheme(Written(mode, algorithm))
<1> DEFINE config == Written(mode, algorithm)
<1>1. /\ config.controller_mode = mode /\ config.mode = Absent /\ config.algorithm = algorithm
      /\ config = [controller_mode |-> mode, mode |-> Absent, algorithm |-> algorithm,
                   seed |-> commands + 1, varies |-> FALSE]
  BY DEF Written
<1>2. ControllerMode(config) = mode
  BY <1>1 DEF ControllerMode, ControllerModes, Algorithm1Modes, Absent
<1>3. algorithm \in Algorithms /\ \A k \in DOMAIN algorithm \ Shared : algorithm[k].family = Family(mode)
  <2>1. CASE algorithm = ModeDefaults(mode)
    <3>1. ModeDefaults(mode) \in [ModeKeys(mode) -> Values] /\ ModeKeys(mode) \subseteq Keys
          /\ \A k \in ModeKeys(mode) : ModeDefaults(mode)[k].family = Family(mode)
      BY KeysTyped DEF ModeDefaults, Default
    <3> QED BY <2>1, <3>1, SectionTyped
  <2>2. CASE algorithm = << >>
    <3>1. algorithm \in [{} -> Values] /\ DOMAIN algorithm = {} BY <2>2
    <3>2. {} \in SUBSET Keys OBVIOUS
    <3> QED BY <3>1, <3>2, SectionTyped
  <2> QED BY <2>1, <2>2
<1>4. commands + 1 \in Default .. MaxCommands BY DEF SettingsTypeOK, Default
<1>5. config \in Configs BY <1>1, <1>3, <1>4 DEF Configs, Algorithms
<1> QED BY <1>1, <1>2, <1>3, <1>5 DEF OfItsScheme

\* What `up' and its controller use.
LEMMA UpKept ==
  ASSUME SettingsInv, MaxCommands \in Nat, NEW config \in Configs, OfItsScheme(config),
         NEW overrides \in SUBSET Keys, Up(config, overrides)
  PROVE  SettingsInv'
<1>1. commands < MaxCommands BY DEF Up
<1>2. CASE ~Valid(config) \/ config.varies BY <1>1, <1>2, RaisesKept DEF Up
<1>3. CASE Valid(config) /\ ~config.varies
  <2> DEFINE now == commands + 1
             params == DistributedParameters(config, overrides, now)
             seed == Seed(config, now)
             resolved == Resolved(params, seed)
  <2>1. /\ file' = resolved /\ commands' = now
        /\ last' = [kind |-> "up", mode |-> Distributed, flags |-> overrides, params |-> params,
                    seed |-> seed, controller |-> DistributedParameters(resolved, {}, Default),
                    controllerSeed |-> Seed(resolved, Default)]
    BY <1>3 DEF Up
  <2>2. now \in 0 .. MaxCommands /\ now \in Default .. MaxCommands
    BY <1>1 DEF SettingsInv, SettingsTypeOK, Default
  <2>3. Distributed \in Algorithm1Modes /\ Distributed \in ControllerModes /\ Distributed # Absent
    BY DEF Distributed, Algorithm1Modes, ControllerModes, Absent
  <2>4. \A by \in Default .. MaxCommands : Chosen(Distributed, by) \in Values
                                           /\ Chosen(Distributed, by).family = Family(Distributed)
                                           /\ Chosen(Distributed, by).by = by
    BY KeysTyped
  <2>5. Default \in Default .. MaxCommands BY DEF Default
  <2>6. params = [k \in Keys |->
                    IF k \in overrides THEN Chosen(Distributed, now)
                    ELSE IF k \in Shared \/ ControllerMode(config) \in Algorithm1Modes
                         THEN IF k \in DOMAIN config.algorithm THEN config.algorithm[k]
                              ELSE Chosen(Distributed, Default)
                         ELSE Chosen(Distributed, Default)]
    BY DEF DistributedParameters, Get
  <2>7. \A k \in DOMAIN config.algorithm : config.algorithm[k] \in Values BY ConfigFields
  <2>8. \A k \in DOMAIN config.algorithm \ Shared :
          ControllerMode(config) \in Algorithm1Modes => config.algorithm[k].family = Family(Distributed)
    BY <1>3, <2>3 DEF OfItsScheme, Family
  <2> HIDE DEF params, now
  <2>9. params \in [Keys -> Values] BY <2>2, <2>4, <2>5, <2>6, <2>7
  <2>10. \A k \in Keys \ Shared : params[k].family = Family(Distributed)
    BY <2>2, <2>4, <2>5, <2>6, <2>8
  <2>11. \A k \in overrides : params[k].by = now BY <2>2, <2>4, <2>6
  <2>12. /\ resolved.controller_mode = Distributed /\ resolved.algorithm = params /\ resolved.seed = seed
         /\ resolved = [controller_mode |-> Distributed, mode |-> Absent, algorithm |-> params,
                        seed |-> seed, varies |-> FALSE]
    BY DEF Resolved
  <2>13. seed \in Default .. MaxCommands BY <2>2, ConfigFields DEF Seed
  <2> HIDE DEF resolved, seed
  <2>14. ControllerMode(resolved) = Distributed BY <2>3, <2>12 DEF ControllerMode
  <2>15. resolved \in Configs
    <3>1. params \in Algorithms BY <2>9, SectionTyped
    <3> QED BY <2>3, <2>12, <2>13, <3>1 DEF Configs, Algorithms
  <2>16. OfItsScheme(resolved) BY <2>9, <2>10, <2>12, <2>14 DEF OfItsScheme
  <2>17. DistributedParameters(resolved, {}, Default) = params
    <3>1. DistributedParameters(resolved, {}, Default) =
            [k \in Keys |-> Get(resolved, k, Chosen(Distributed, Default))]
      BY <2>3, <2>14 DEF DistributedParameters
    <3>2. \A k \in Keys : Get(resolved, k, Chosen(Distributed, Default)) = params[k]
      BY <2>9, <2>12 DEF Get
    <3> QED BY <2>9, <3>1, <3>2
  <2>18. Seed(resolved, Default) = seed BY <2>12 DEF Seed
  <2>19. SettingsTypeOK' BY <2>1, <2>2, <2>3, <2>15 DEF SettingsTypeOK
  <2>20. ParametersOfTheirMode'
    <3>1. DOMAIN params = Keys BY <2>9
    <3>2. /\ last'.kind = "up" /\ last'.mode = Distributed /\ last'.flags = overrides /\ last'.params = params
          /\ last'.seed = seed /\ last'.controller = params /\ last'.controllerSeed = seed
      BY <2>1, <2>17, <2>18
    <3> QED BY <2>1, <2>10, <2>11, <3>1, <3>2 DEF ParametersOfTheirMode
  <2>21. OfItsScheme(file)' BY <2>1, <2>16 DEF OfItsScheme, Valid, ControllerMode
  <2> QED BY <2>19, <2>20, <2>21 DEF SettingsInv
<1> QED BY <1>2, <1>3

\* A user's file is of its scheme.
LEMMA SettingsInvInit == SettingsInit => SettingsInv
<1> SUFFICES ASSUME SettingsInit PROVE SettingsInv OBVIOUS
<1>1. file \in Configs /\ OfItsScheme(file) /\ MaxCommands \in Nat BY SettingsConstants DEF SettingsInit
<1>2. commands = 0 /\ last = [kind |-> "none"] BY DEF SettingsInit, Nothing
<1> QED BY <1>1, <1>2 DEF SettingsInv, SettingsTypeOK, ParametersOfTheirMode, Nothing

\* One step per command.
LEMMA SettingsInvStep ==
  ASSUME SettingsInv, [SettingsNext]_settingsVars
  PROVE  SettingsInv'
<1>1. /\ MaxCommands \in Nat /\ \A flags \in Flags : flags \subseteq Keys
  BY SettingsConstants
<1>2. SettingsTypeOK /\ file \in Configs /\ OfItsScheme(file) BY DEF SettingsInv, SettingsTypeOK
<1>3. \A mode \in ControllerModes : ModeKeys(mode) \subseteq Keys BY KeysTyped
<1>4. commands < MaxCommands => commands + 1 \in Default .. MaxCommands
  BY <1>1, <1>2 DEF SettingsTypeOK, Default
<1>5. Absent \notin ControllerModes BY DEF Absent, ControllerModes, Algorithm1Modes
<1>6. ASSUME NEW controller \in ControllerModes \cup {Absent}, NEW flags \in Flags, Run(controller, flags)
      PROVE  SettingsInv'
  <2> DEFINE config == IF controller = Absent THEN file ELSE WithControllerMode(file, controller)
             mode == ControllerMode(config)
  <2>1. commands < MaxCommands BY <1>6 DEF Run
  <2>2. CASE Valid(file) /\ flags \subseteq ModeKeys(mode)
    <3>1. config \in Configs /\ mode \in ControllerModes /\ OfItsScheme(config)
      BY <1>1, <1>2, <1>5, <2>2, ModeChanged DEF Valid
    <3>2. Ran(Flagged(config, flags, mode, commands + 1), flags) BY <1>6, <2>2 DEF Run
    <3>3. flags \in SUBSET Keys BY <1>1
    <3>4. mode = ControllerMode(config) OBVIOUS
    <3> HIDE DEF config, mode
    <3>5. /\ Flagged(config, flags, mode, commands + 1) \in Configs
          /\ ControllerMode(Flagged(config, flags, mode, commands + 1)) = mode
          /\ OfItsScheme(Flagged(config, flags, mode, commands + 1))
          /\ flags \subseteq DOMAIN Flagged(config, flags, mode, commands + 1).algorithm
          /\ \A k \in flags : Flagged(config, flags, mode, commands + 1).algorithm[k].by = commands + 1
      <4>1. PICK by \in Default .. MaxCommands : by = commands + 1 BY <1>4, <2>1
      <4>2. MaxCommands \in Nat BY <1>1
      <4> DEFINE taken == Flagged(config, flags, mode, by)
      <4>3. /\ taken \in Configs /\ ControllerMode(taken) = mode /\ OfItsScheme(taken)
            /\ flags \subseteq DOMAIN taken.algorithm /\ \A k \in flags : taken.algorithm[k].by = by
        <5>1. taken \in Configs BY <3>1, <3>3, <3>4, <4>2, FlagsTaken
        <5>2. ControllerMode(taken) = mode BY <3>1, <3>3, <3>4, <4>2, FlagsTaken
        <5>3. OfItsScheme(taken) BY <3>1, <3>3, <3>4, <4>2, FlagsTaken
        <5>4. flags \subseteq DOMAIN taken.algorithm BY <3>1, <3>3, <3>4, <4>2, FlagsTaken
        <5>5. ASSUME NEW k \in flags PROVE taken.algorithm[k].by = by
          BY SMTT(20), <3>1, <3>3, <3>4, <4>2, FlagsTaken
        <5> QED BY <5>1, <5>2, <5>3, <5>4, <5>5
      <4> QED BY <4>1, <4>3
    <3> QED BY <1>1, <1>2, <2>1, <2>2, <3>1, <3>2, <3>5, RanKept
  <2>3. CASE ~(Valid(file) /\ flags \subseteq ModeKeys(mode))
    <3>1. Raises BY <1>6, <2>3 DEF Run
    <3> QED BY <1>1, <2>1, <3>1, RaisesKept
  <2> QED BY <2>2, <2>3
<1>7. ASSUME NEW mode \in ControllerModes, commands < MaxCommands, NEW flags \in SUBSET ModeKeys(mode),
             NEW algorithm, algorithm = ModeDefaults(mode) \/ algorithm = << >>,
             Ran(Flagged(Written(mode, algorithm), flags, mode, commands + 1), flags)
      PROVE  SettingsInv'
  <2>1. /\ Written(mode, algorithm) \in Configs /\ ControllerMode(Written(mode, algorithm)) = mode
        /\ OfItsScheme(Written(mode, algorithm))
    BY <1>1, <1>2, <1>7, WrittenTyped
  <2>2. flags \in SUBSET Keys BY <1>3
  <2>3. /\ Flagged(Written(mode, algorithm), flags, mode, commands + 1) \in Configs
        /\ ControllerMode(Flagged(Written(mode, algorithm), flags, mode, commands + 1)) = mode
        /\ OfItsScheme(Flagged(Written(mode, algorithm), flags, mode, commands + 1))
        /\ flags \subseteq DOMAIN Flagged(Written(mode, algorithm), flags, mode, commands + 1).algorithm
        /\ \A k \in flags :
             Flagged(Written(mode, algorithm), flags, mode, commands + 1).algorithm[k].by = commands + 1
    <3>1. PICK by \in Default .. MaxCommands : by = commands + 1 BY <1>4, <1>7
    <3>2. MaxCommands \in Nat BY <1>1
    <3> DEFINE config == Written(mode, algorithm)
               taken == Flagged(config, flags, mode, by)
    <3>3. config \in Configs /\ ControllerMode(config) = mode /\ OfItsScheme(config) BY <2>1
    <3>4. /\ taken \in Configs /\ ControllerMode(taken) = mode /\ OfItsScheme(taken)
          /\ flags \subseteq DOMAIN taken.algorithm /\ \A k \in flags : taken.algorithm[k].by = by
      <4> HIDE DEF config
      <4>1. taken \in Configs BY <2>2, <3>2, <3>3, FlagsTaken
      <4>2. ControllerMode(taken) = mode BY <2>2, <3>2, <3>3, FlagsTaken
      <4>3. OfItsScheme(taken) BY <2>2, <3>2, <3>3, FlagsTaken
      <4>4. flags \subseteq DOMAIN taken.algorithm BY <2>2, <3>2, <3>3, FlagsTaken
      <4>5. ASSUME NEW k \in flags PROVE taken.algorithm[k].by = by BY <2>2, <3>2, <3>3, FlagsTaken
      <4> QED BY <4>1, <4>2, <4>3, <4>4, <4>5
    <3> QED BY <3>1, <3>4
  <2> QED BY <1>1, <1>2, <1>7, <2>3, RanKept
<1>8. ASSUME NEW controller \in ControllerModes \cup {Absent}, NEW flags \in Flags,
             RunGenerated(controller, flags)
      PROVE  SettingsInv'
  <2> DEFINE mode == IF controller = Absent THEN "windowed_stochastic" ELSE controller
  <2>1. commands < MaxCommands /\ mode \in ControllerModes BY <1>8 DEF RunGenerated, ControllerModes
  <2>2. CASE flags \subseteq ModeKeys(mode)
    <3>1. Ran(Flagged(Written(mode, ModeDefaults(mode)), flags, mode, commands + 1), flags)
      BY <1>8, <2>2 DEF RunGenerated
    <3> HIDE DEF mode
    <3> QED BY <1>7, <2>1, <2>2, <3>1
  <2>3. CASE ~(flags \subseteq ModeKeys(mode))
    <3>1. Raises BY <1>8, <2>3 DEF RunGenerated
    <3> QED BY <1>1, <2>1, <3>1, RaisesKept
  <2> QED BY <2>2, <2>3
<1>9. ASSUME NEW mode \in ControllerModes, Launch(mode) PROVE SettingsInv'
  <2>1. commands < MaxCommands BY <1>9 DEF Launch
  <2>2. CASE Valid(file) /\ Ran(WithControllerMode(file, mode), {})
    <3>1. /\ WithControllerMode(file, mode) \in Configs /\ OfItsScheme(WithControllerMode(file, mode))
          /\ ControllerMode(WithControllerMode(file, mode)) = mode
      BY <1>1, <1>2, <2>2, ModeChanged
    <3>2. {} \in SUBSET ModeKeys(mode) /\ {} \subseteq DOMAIN WithControllerMode(file, mode).algorithm
      OBVIOUS
    <3>3. \A k \in {} : WithControllerMode(file, mode).algorithm[k].by = commands + 1 OBVIOUS
    <3> QED BY <1>1, <1>2, <2>1, <2>2, <3>1, <3>2, <3>3, RanKept
  <2>3. CASE Raises BY <1>1, <2>1, <2>3, RaisesKept
  <2> DEFINE sliders == ModeKeys(mode) \ (IF mode \in Algorithm1Modes THEN {"beta"} ELSE {})
  <2>4. CASE Ran(Flagged(Written(mode, << >>), sliders, mode, commands + 1), sliders)
    <3>1. sliders \in SUBSET ModeKeys(mode) OBVIOUS
    <3> HIDE DEF sliders
    <3> QED BY <1>7, <2>1, <2>4, <3>1
  <2> QED BY <1>9, <2>2, <2>3, <2>4 DEF Launch
<1>10. ASSUME NEW overrides \in Flags, Up(file, overrides) \/ Up(Written(Distributed, << >>), overrides)
       PROVE  SettingsInv'
  <2>1. commands < MaxCommands BY <1>10 DEF Up
  <2>2. Distributed \in ControllerModes BY DEF Distributed, ControllerModes, Algorithm1Modes
  <2>3. /\ Written(Distributed, << >>) \in Configs /\ OfItsScheme(Written(Distributed, << >>))
    BY <1>1, <1>2, <2>1, <2>2, WrittenTyped
  <2>4. overrides \in SUBSET Keys BY <1>1
  <2> QED BY <1>1, <1>2, <1>10, <2>3, <2>4, UpKept
<1>11. CASE UNCHANGED settingsVars
    BY <1>11 DEF settingsVars, SettingsInv, SettingsTypeOK, OfItsScheme, Valid, ControllerMode,
                 ParametersOfTheirMode
<1> QED BY <1>6, <1>8, <1>9, <1>10, <1>11 DEF SettingsNext

\* Whatever the commands, what they leave is a config as load_config reads one, with a
\* section of known keys or none.
THEOREM SettingsTyped == SettingsSpec => []SettingsTypeOK
<1>1. SettingsInv => SettingsTypeOK BY DEF SettingsInv
<1> QED BY SettingsInvInit, SettingsInvStep, <1>1, PTL DEF SettingsSpec

\* Whatever commands led to the config a run starts from, its eta, gamma and delta_s were
\* chosen for the scheme it runs, its own flags are in effect, and the controller of an
\* `up' uses the parameters and the seed its launcher has described.
THEOREM ParametersFit == SettingsSpec => []ParametersOfTheirMode
<1>1. SettingsInv => ParametersOfTheirMode BY DEF SettingsInv
<1> QED BY SettingsInvInit, SettingsInvStep, <1>1, PTL DEF SettingsSpec

-----------------------------------------------------------------------------
(***************************************************************************)
(* Reading a topology.  Both loops of topology_from_config are folds: the  *)
(* library's fold is a function CHOOSEn to satisfy a recursion over sets   *)
(* of positions, which has a solution (FoldExists), so what is read of the *)
(* first k entries is a step from what is read of the first k - 1.         *)
(***************************************************************************)
\* The last of some positions is the largest.
LEMMA MaxIs ==
  \A n \in Nat : \A s \in SUBSET (1 .. n) : s # {} => Max(s) \in s /\ \A x \in s : Max(s) >= x
<1>1. TAKE n \in Nat
<1>2. TAKE s \in SUBSET (1 .. n)
<1>3. HAVE s # {}
<1>4. \E x \in s : \A y \in s : x >= y BY <1>3, BoundsExist
<1> QED BY <1>4 DEF Max

\* The last of the first k positions is k.
LEMMA MaxOfFirst == \A k \in Nat \ {0} : Max(1 .. k) = k
<1>1. TAKE k \in Nat \ {0}
<1>2. k \in 1 .. k /\ 1 .. k \in SUBSET (1 .. k) /\ k \in Nat OBVIOUS
<1>3. Max(1 .. k) \in 1 .. k /\ \A x \in 1 .. k : Max(1 .. k) >= x
  <2>1. 1 .. k # {} BY <1>2
  <2> QED BY <1>2, <2>1, MaxIs
<1>4. Max(1 .. k) >= k BY <1>2, <1>3
<1> QED BY <1>3, <1>4

\* the recursion a fold over n positions is defined by, its operation a function
Folds(g, op, base, n) ==
  g = [s \in SUBSET (1 .. n) |-> IF s = {} THEN base ELSE op[<<g[s \ {Max(s)}], Max(s)>>]]

\* A solution goes on over one more position.
LEMMA FoldExtended ==
  ASSUME NEW V, NEW N \in Nat, NEW n \in Nat, n < N, NEW op \in [V \X (1 .. N) -> V], NEW base \in V,
         NEW g \in [SUBSET (1 .. n) -> V], Folds(g, op, base, n)
  PROVE  \E h \in [SUBSET (1 .. n + 1) -> V] : Folds(h, op, base, n + 1)
<1> DEFINE h == [s \in SUBSET (1 .. n + 1) |->
                   IF n + 1 \in s THEN op[<<g[s \ {n + 1}], n + 1>>] ELSE g[s]]
<1>1. ASSUME NEW s \in SUBSET (1 .. n + 1)
      PROVE  h[s] = IF s = {} THEN base ELSE op[<<h[s \ {Max(s)}], Max(s)>>]
  <2>1. CASE s = {}
    <3>1. s \in SUBSET (1 .. n) /\ n + 1 \notin s BY <2>1
    <3> QED BY <2>1, <3>1 DEF Folds
  <2>2. CASE n + 1 \in s
    <3>0. n + 1 \in Nat /\ s # {} /\ \A x \in s : x \in Nat /\ x <= n + 1 BY <2>2
    <3>1. Max(s) \in s /\ Max(s) >= n + 1 BY <2>2, <3>0, MaxIs
    <3>2. Max(s) = n + 1
      <4>1. Max(s) \in Nat /\ Max(s) <= n + 1 BY <3>0, <3>1
      <4> QED BY <3>0, <3>1, <4>1
    <3>3. s \ {n + 1} \in SUBSET (1 .. n + 1) /\ n + 1 \notin s \ {n + 1} OBVIOUS
    <3>4. h[s \ {n + 1}] = g[s \ {n + 1}] BY <3>3
    <3>5. h[s] = op[<<g[s \ {n + 1}], n + 1>>] BY <2>2
    <3> HIDE DEF h
    <3> QED BY <2>2, <3>2, <3>4, <3>5
  <2>3. CASE s # {} /\ n + 1 \notin s
    <3>1. s \in SUBSET (1 .. n) BY <2>3
    <3>2. Max(s) \in s BY <2>3, <3>1, MaxIs
    <3>3. s \ {Max(s)} \in SUBSET (1 .. n + 1) /\ n + 1 \notin s \ {Max(s)} BY <2>3
    <3>4. h[s \ {Max(s)}] = g[s \ {Max(s)}] BY <3>3
    <3>5. h[s] = g[s] BY <2>3
    <3>6. g[s] = op[<<g[s \ {Max(s)}], Max(s)>>] BY <2>3, <3>1 DEF Folds
    <3> HIDE DEF h
    <3> QED BY <2>3, <3>4, <3>5, <3>6
  <2> QED BY <2>1, <2>2, <2>3
<1>2. h = [s \in SUBSET (1 .. n + 1) |-> h[s]] OBVIOUS
<1>3. ASSUME NEW s \in SUBSET (1 .. n + 1) PROVE h[s] \in V
  <2>1. CASE n + 1 \in s
    <3>1. s \ {n + 1} \in SUBSET (1 .. n) /\ n + 1 \in 1 .. N OBVIOUS
    <3>2. g[s \ {n + 1}] \in V BY <3>1
    <3>3. <<g[s \ {n + 1}], n + 1>> \in V \X (1 .. N) BY <3>1, <3>2
    <3>4. h[s] = op[<<g[s \ {n + 1}], n + 1>>] BY <2>1
    <3> HIDE DEF h
    <3> QED BY <3>3, <3>4
  <2>2. CASE n + 1 \notin s
    <3>1. s \in SUBSET (1 .. n) BY <2>2
    <3> QED BY <2>2, <3>1
  <2> QED BY <2>1, <2>2
<1> HIDE DEF h
<1>4. Folds(h, op, base, n + 1) BY <1>1, <1>2 DEF Folds
<1>5. h \in [SUBSET (1 .. n + 1) -> V] BY <1>2, <1>3
<1> QED BY <1>4, <1>5

Foldable(V, op, base, n) == \E g \in [SUBSET (1 .. n) -> V] : Folds(g, op, base, n)

\* So there is one for any number of positions.
LEMMA FoldExists ==
  ASSUME NEW V, NEW n \in Nat, NEW op \in [V \X (1 .. n) -> V], NEW base \in V
  PROVE  Foldable(V, op, base, n)
<1> DEFINE N == {m \in Nat : m <= n => Foldable(V, op, base, m)}
<1>1. 0 \in N
  <2> DEFINE g == [s \in SUBSET (1 .. 0) |-> base]
  <2>1. \A s \in SUBSET (1 .. 0) : s = {} OBVIOUS
  <2>2. Folds(g, op, base, 0) BY <2>1 DEF Folds
  <2>3. g \in [SUBSET (1 .. 0) -> V] OBVIOUS
  <2> HIDE DEF g
  <2> QED BY <2>2, <2>3 DEF Foldable
<1>2. ASSUME NEW m \in N PROVE m + 1 \in N
  <2>1. SUFFICES ASSUME m + 1 <= n PROVE Foldable(V, op, base, m + 1) OBVIOUS
  <2>2. m \in Nat /\ m < n BY <2>1
  <2>3. Foldable(V, op, base, m) BY <2>2
  <2>4. PICK g \in [SUBSET (1 .. m) -> V] : Folds(g, op, base, m) BY <2>3 DEF Foldable
  <2> HIDE DEF N
  <2> QED BY <2>2, <2>4, FoldExtended DEF Foldable
<1>3. N \in SUBSET Nat OBVIOUS
<1> HIDE DEF N
<1>4. N = Nat BY <1>1, <1>2, <1>3, Induction
<1> QED BY <1>4 DEF N

\* The first k positions are the first k - 1 and k.
LEMMA FirstPositions ==
  \A n \in Nat : \A k \in 1 .. n :
    1 .. k \in SUBSET (1 .. n) /\ 1 .. k # {} /\ (1 .. k) \ {k} = 1 .. k - 1 /\ Max(1 .. k) = k
  BY MaxOfFirst

\* A solution, position by position.
LEMMA FoldSteps ==
  ASSUME NEW n \in Nat, NEW op, NEW base, NEW g, Folds(g, op, base, n)
  PROVE  /\ g[1 .. 0] = base
         /\ \A k \in 1 .. n : g[1 .. k] = op[<<g[1 .. k - 1], k>>]
<1>1. g[1 .. 0] = base
  <2>1. 1 .. 0 = {} OBVIOUS
  <2> QED BY <2>1 DEF Folds
<1>2. ASSUME NEW k \in 1 .. n PROVE g[1 .. k] = op[<<g[1 .. k - 1], k>>]
  <2>1. 1 .. k \in SUBSET (1 .. n) /\ 1 .. k # {} /\ (1 .. k) \ {k} = 1 .. k - 1 /\ Max(1 .. k) = k
    BY FirstPositions
  <2> QED BY <2>1 DEF Folds
<1> QED BY <1>1, <1>2

\* what has been read
Reads(c) ==
  [failed : BOOLEAN, specified : SUBSET Pairs(c), mu_links : [Pairs(c) -> Int],
   route_mask : [Pairs(c) -> BOOLEAN]]

\* An entry leaves it typed.
LEMMA CapacityTyped ==
  ASSUME NEW c, Malformed \notin Pairs(c), NEW read \in Reads(c), NEW e, e.value \in Int
  PROVE  ReadCapacity(c, read, e) \in Reads(c)
  BY DEF ReadCapacity, LinkIndexFails, Reads

\* So does a link that is not available.
LEMMA UnavailableTyped ==
  ASSUME NEW c, NEW read \in Reads(c), NEW l
  PROVE  ReadUnavailable(c, read, l) \in Reads(c)
  BY DEF ReadUnavailable, LinkIndexFails, Reads

\* What is read of each number of positions is typed, when every step is.
LEMMA PrefixesTyped ==
  ASSUME NEW V, NEW n \in Nat, NEW g, g[1 .. 0] \in V,
         \A k \in 1 .. n : g[1 .. k - 1] \in V => g[1 .. k] \in V
  PROVE  \A k \in 0 .. n : g[1 .. k] \in V
<1> DEFINE N == {m \in Nat : m <= n => g[1 .. m] \in V}
<1>1. 0 \in N OBVIOUS
<1>2. ASSUME NEW m \in N PROVE m + 1 \in N
  <2>1. SUFFICES ASSUME m + 1 <= n PROVE g[1 .. m + 1] \in V OBVIOUS
  <2>2. m + 1 \in 1 .. n /\ (m + 1) - 1 = m /\ m <= n BY <2>1
  <2> QED BY <2>2
<1>3. N \in SUBSET Nat OBVIOUS
<1> HIDE DEF N
<1>4. N = Nat BY <1>1, <1>2, <1>3, Induction
<1> QED BY <1>4 DEF N

\* the two loops
FirstLoop(c, base, s) == FoldLeft(LAMBDA read, e : ReadCapacity(c, read, e), base, s)
SecondLoop(c, base, s) == FoldLeft(LAMBDA read, l : ReadUnavailable(c, read, l), base, s)

\* What the first loop reads of k entries comes of what it reads of k - 1 and the last.
LEMMA CapacitiesRead ==
  ASSUME NEW c, Malformed \notin Pairs(c), NEW s, Len(s) \in Nat, DOMAIN s = 1 .. Len(s), Numbered(s),
         NEW base \in Reads(c)
  PROVE  \E t \in [0 .. Len(s) -> Reads(c)] :
           /\ t[0] = base
           /\ \A k \in 1 .. Len(s) : t[k] = ReadCapacity(c, t[k - 1], s[k])
           /\ FirstLoop(c, base, s) = t[Len(s)]
<1> DEFINE V == Reads(c)
           n == Len(s)
           op == [p \in V \X (1 .. n) |-> ReadCapacity(c, p[1], s[p[2]])]
           Solves(g) == g = [w \in SUBSET DOMAIN s |->
                               IF w = {} THEN base ELSE ReadCapacity(c, g[w \ {Max(w)}], s[Max(w)])]
<1>1. ASSUME NEW r \in V, NEW k \in 1 .. n PROVE ReadCapacity(c, r, s[k]) \in V
  <2>1. s[k].value \in Int BY DEF Numbered
  <2> QED BY <2>1, CapacityTyped
<1>2. op \in [V \X (1 .. n) -> V] BY <1>1
<1>3. \A r \in V, k \in 1 .. n : op[<<r, k>>] = ReadCapacity(c, r, s[k]) OBVIOUS
<1> HIDE DEF op, V
<1>4. PICK f \in [SUBSET (1 .. n) -> V] : Folds(f, op, base, n)
  <2>1. base \in V BY DEF V
  <2> QED BY <1>2, <2>1, FoldExists DEF Foldable
<1>5. Solves(f)
  <2>1. ASSUME NEW w \in SUBSET (1 .. n)
        PROVE  f[w] = IF w = {} THEN base ELSE ReadCapacity(c, f[w \ {Max(w)}], s[Max(w)])
    <3>1. CASE w = {} BY <1>4, <3>1 DEF Folds
    <3>2. CASE w # {}
      <4>1. Max(w) \in w BY <3>2, MaxIs
      <4>2. f[w \ {Max(w)}] \in V /\ Max(w) \in 1 .. n BY <4>1
      <4>3. f[w] = op[<<f[w \ {Max(w)}], Max(w)>>] BY <1>4, <3>2 DEF Folds
      <4> QED BY <1>3, <3>2, <4>2, <4>3
    <3> QED BY <3>1, <3>2
  <2>2. f = [w \in SUBSET DOMAIN s |-> f[w]] BY <1>4
  <2> QED BY <2>1, <2>2
<1> DEFINE g == CHOOSE it : Solves(it)
<1>6. Solves(g) BY <1>5
<1>7. FirstLoop(c, base, s) = g[DOMAIN s]
  BY DEF FirstLoop, FoldLeft, MapThenFoldSet
<1> HIDE DEF g
<1>8. ASSUME NEW k \in 1 .. n PROVE g[1 .. k] = ReadCapacity(c, g[1 .. k - 1], s[k])
  <2>1. 1 .. k \in SUBSET (1 .. n) /\ 1 .. k # {} /\ (1 .. k) \ {k} = 1 .. k - 1 /\ Max(1 .. k) = k
    BY FirstPositions
  <2> QED BY <1>6, <2>1
<1>9. g[1 .. 0] = base
  <2>1. 1 .. 0 = {} OBVIOUS
  <2> QED BY <1>6, <2>1
<1>10. \A k \in 0 .. n : g[1 .. k] \in V
  <2>1. g[1 .. 0] \in V BY <1>9 DEF V
  <2>2. \A k \in 1 .. n : g[1 .. k - 1] \in V => g[1 .. k] \in V BY <1>1, <1>8
  <2> QED BY <2>1, <2>2, PrefixesTyped
<1> DEFINE t == [k \in 0 .. n |-> g[1 .. k]]
<1>11. t \in [0 .. n -> V] BY <1>10
<1>12. t[0] = base BY <1>9
<1>13. \A k \in 1 .. n : t[k] = ReadCapacity(c, t[k - 1], s[k]) BY <1>8
<1>14. g[DOMAIN s] = t[n] OBVIOUS
<1> HIDE DEF t
<1> QED BY <1>7, <1>11, <1>12, <1>13, <1>14 DEF V

\* The second loop, likewise.
LEMMA UnavailableRead ==
  ASSUME NEW c, NEW s, Len(s) \in Nat, DOMAIN s = 1 .. Len(s),
         NEW base \in Reads(c)
  PROVE  \E t \in [0 .. Len(s) -> Reads(c)] :
           /\ t[0] = base
           /\ \A k \in 1 .. Len(s) : t[k] = ReadUnavailable(c, t[k - 1], s[k])
           /\ SecondLoop(c, base, s) = t[Len(s)]
<1> DEFINE V == Reads(c)
           n == Len(s)
           op == [p \in V \X (1 .. n) |-> ReadUnavailable(c, p[1], s[p[2]])]
           Solves(g) == g = [w \in SUBSET DOMAIN s |->
                               IF w = {} THEN base ELSE ReadUnavailable(c, g[w \ {Max(w)}], s[Max(w)])]
<1>1. ASSUME NEW r \in V, NEW k \in 1 .. n PROVE ReadUnavailable(c, r, s[k]) \in V
  BY UnavailableTyped
<1>2. op \in [V \X (1 .. n) -> V] BY <1>1
<1>3. \A r \in V, k \in 1 .. n : op[<<r, k>>] = ReadUnavailable(c, r, s[k]) OBVIOUS
<1> HIDE DEF op, V
<1>4. PICK f \in [SUBSET (1 .. n) -> V] : Folds(f, op, base, n)
  <2>1. base \in V BY DEF V
  <2> QED BY <1>2, <2>1, FoldExists DEF Foldable
<1>5. Solves(f)
  <2>1. ASSUME NEW w \in SUBSET (1 .. n)
        PROVE  f[w] = IF w = {} THEN base ELSE ReadUnavailable(c, f[w \ {Max(w)}], s[Max(w)])
    <3>1. CASE w = {} BY <1>4, <3>1 DEF Folds
    <3>2. CASE w # {}
      <4>1. Max(w) \in w BY <3>2, MaxIs
      <4>2. f[w \ {Max(w)}] \in V /\ Max(w) \in 1 .. n BY <4>1
      <4>3. f[w] = op[<<f[w \ {Max(w)}], Max(w)>>] BY <1>4, <3>2 DEF Folds
      <4> QED BY <1>3, <3>2, <4>2, <4>3
    <3> QED BY <3>1, <3>2
  <2>2. f = [w \in SUBSET DOMAIN s |-> f[w]] BY <1>4
  <2> QED BY <2>1, <2>2
<1> DEFINE g == CHOOSE it : Solves(it)
<1>6. Solves(g) BY <1>5
<1>7. SecondLoop(c, base, s) = g[DOMAIN s]
  BY DEF SecondLoop, FoldLeft, MapThenFoldSet
<1> HIDE DEF g
<1>8. ASSUME NEW k \in 1 .. n PROVE g[1 .. k] = ReadUnavailable(c, g[1 .. k - 1], s[k])
  <2>1. 1 .. k \in SUBSET (1 .. n) /\ 1 .. k # {} /\ (1 .. k) \ {k} = 1 .. k - 1 /\ Max(1 .. k) = k
    BY FirstPositions
  <2> QED BY <1>6, <2>1
<1>9. g[1 .. 0] = base
  <2>1. 1 .. 0 = {} OBVIOUS
  <2> QED BY <1>6, <2>1
<1>10. \A k \in 0 .. n : g[1 .. k] \in V
  <2>1. g[1 .. 0] \in V BY <1>9 DEF V
  <2>2. \A k \in 1 .. n : g[1 .. k - 1] \in V => g[1 .. k] \in V BY <1>1, <1>8
  <2> QED BY <2>1, <2>2, PrefixesTyped
<1> DEFINE t == [k \in 0 .. n |-> g[1 .. k]]
<1>11. t \in [0 .. n -> V] BY <1>10
<1>12. t[0] = base BY <1>9
<1>13. \A k \in 1 .. n : t[k] = ReadUnavailable(c, t[k - 1], s[k]) BY <1>8
<1>14. g[DOMAIN s] = t[n] OBVIOUS
<1> HIDE DEF t
<1> QED BY <1>7, <1>11, <1>12, <1>13, <1>14 DEF V

-----------------------------------------------------------------------------
\* One entry of each list that a topology can have, after the entries before it.
CapacityFine(c, k) ==
  LET e == c.access_capacities[k]
  IN  /\ e.link \in Pairs(c) /\ e.value # Text
      /\ \A j \in 1 .. k - 1 : c.access_capacities[j].link # e.link

UnavailableFine(c, k) ==
  LET l == c.unavailable_links[k]
  IN  l \in Pairs(c) /\ l \notin Listed(c) /\ \A j \in 1 .. k - 1 : c.unavailable_links[j] # l

\* what the first loop has read after k entries
AfterCapacities(c, r, k) ==
  /\ r \in Reads(c)
  /\ r.failed <=> \E j \in 1 .. k : ~CapacityFine(c, j)
  /\ ~r.failed =>
       /\ r.specified = {c.access_capacities[j].link : j \in 1 .. k}
       /\ \A j \in 1 .. k : r.mu_links[c.access_capacities[j].link] = c.access_capacities[j].value
       /\ \A l \in Pairs(c) : r.route_mask[l]

CapacitiesFine(c) == \A j \in 1 .. Len(c.access_capacities) : CapacityFine(c, j)

\* what the second has
AfterUnavailable(c, r, k) ==
  /\ r \in Reads(c)
  /\ ~r.failed <=> CapacitiesFine(c) /\ \A j \in 1 .. k : UnavailableFine(c, j)
  /\ ~r.failed =>
       /\ r.specified = Listed(c) \cup {c.unavailable_links[j] : j \in 1 .. k}
       /\ \A j \in 1 .. Len(c.access_capacities) :
            r.mu_links[c.access_capacities[j].link] = c.access_capacities[j].value
       /\ \A l \in Pairs(c) : r.route_mask[l] <=> l \notin {c.unavailable_links[j] : j \in 1 .. k}

\* One more entry.
LEMMA AnotherCapacity ==
  ASSUME NEW c, ConfigTyped(c), NEW k \in 1 .. Len(c.access_capacities), NEW r,
         AfterCapacities(c, r, k - 1)
  PROVE  AfterCapacities(c, ReadCapacity(c, r, c.access_capacities[k]), k)
<1> DEFINE e == c.access_capacities[k]
           q == ReadCapacity(c, r, e)
<1> SUFFICES AfterCapacities(c, q, k) OBVIOUS
<1>1. Len(c.access_capacities) \in Nat BY LenProperties DEF ConfigTyped
<1>2. k \in Nat /\ \A j \in 1 .. k : j = k \/ j \in 1 .. k - 1 BY <1>1
<1>3. k \in 1 .. k /\ \A j \in 1 .. k - 1 : j \in 1 .. k BY <1>1
<1>4. r \in Reads(c) BY DEF AfterCapacities
<1>5. q \in Reads(c)
  <2>1. e.value \in Int BY DEF ConfigTyped, Numbered
  <2> QED BY <1>4, <2>1, CapacityTyped DEF ConfigTyped
<1>6. CASE r.failed
  <2>1. q.failed BY <1>4, <1>6 DEF ReadCapacity, Reads
  <2>2. \E j \in 1 .. k - 1 : ~CapacityFine(c, j) BY <1>6 DEF AfterCapacities
  <2> HIDE DEF q
  <2> QED BY <1>3, <1>5, <2>1, <2>2 DEF AfterCapacities
<1>7. CASE ~r.failed /\ ~CapacityFine(c, k)
  <2>1. r.specified = {c.access_capacities[j].link : j \in 1 .. k - 1} BY <1>7 DEF AfterCapacities
  <2>2. LinkIndexFails(c, r, e.link) \/ e.value = Text
    BY <1>7, <2>1 DEF LinkIndexFails, CapacityFine
  <2>3. q.failed BY <1>4, <2>2 DEF ReadCapacity, Reads
  <2> HIDE DEF q
  <2> QED BY <1>3, <1>5, <1>7, <2>3 DEF AfterCapacities
<1>8. CASE ~r.failed /\ CapacityFine(c, k)
  <2>1. /\ r.specified = {c.access_capacities[j].link : j \in 1 .. k - 1}
        /\ \A j \in 1 .. k - 1 : r.mu_links[c.access_capacities[j].link] = c.access_capacities[j].value
        /\ \A l \in Pairs(c) : r.route_mask[l]
        /\ \A j \in 1 .. k - 1 : CapacityFine(c, j)
    BY <1>8 DEF AfterCapacities
  <2>2. ~LinkIndexFails(c, r, e.link) /\ e.value # Text /\ e.link \in Pairs(c)
    BY <1>8, <2>1 DEF LinkIndexFails, CapacityFine, ConfigTyped
  <2>3. q = [r EXCEPT !.specified = @ \cup {e.link}, !.mu_links[e.link] = e.value]
    BY <1>8, <2>2 DEF ReadCapacity
  <2>4. /\ ~q.failed /\ q.specified = r.specified \cup {e.link} /\ q.route_mask = r.route_mask
        /\ q.mu_links = [r.mu_links EXCEPT ![e.link] = e.value]
    BY <1>4, <1>8, <2>3 DEF Reads
  <2>5. \A j \in 1 .. k - 1 : c.access_capacities[j].link # e.link BY <1>8 DEF CapacityFine
  <2>6. r.mu_links \in [Pairs(c) -> Int] BY <1>4 DEF Reads
  <2>7. \A j \in 1 .. k - 1 : c.access_capacities[j].link \in Pairs(c) BY <2>1 DEF CapacityFine
  <2> HIDE DEF q
  <2>8. q.specified = {c.access_capacities[j].link : j \in 1 .. k} BY <1>2, <1>3, <2>1, <2>4
  <2>9. \A j \in 1 .. k : q.mu_links[c.access_capacities[j].link] = c.access_capacities[j].value
    <3>1. ASSUME NEW j \in 1 .. k - 1
          PROVE  q.mu_links[c.access_capacities[j].link] = c.access_capacities[j].value
      BY <2>1, <2>4, <2>5, <2>6, <2>7
    <3>2. q.mu_links[e.link] = e.value BY <2>2, <2>4, <2>6
    <3> QED BY <1>2, <3>1, <3>2
  <2>10. \A j \in 1 .. k : CapacityFine(c, j) BY <1>2, <1>8, <2>1
  <2> QED BY <1>5, <2>1, <2>4, <2>8, <2>9, <2>10 DEF AfterCapacities
<1> QED BY <1>4, <1>6, <1>7, <1>8

\* One more link that is not available.
LEMMA AnotherUnavailable ==
  ASSUME NEW c, ConfigTyped(c), NEW k \in 1 .. Len(c.unavailable_links), NEW r,
         AfterUnavailable(c, r, k - 1)
  PROVE  AfterUnavailable(c, ReadUnavailable(c, r, c.unavailable_links[k]), k)
<1> DEFINE l == c.unavailable_links[k]
           q == ReadUnavailable(c, r, l)
           seen == {c.unavailable_links[j] : j \in 1 .. k - 1}
<1> SUFFICES AfterUnavailable(c, q, k) OBVIOUS
<1>1. Len(c.unavailable_links) \in Nat BY LenProperties DEF ConfigTyped
<1>2. k \in Nat /\ \A j \in 1 .. k : j = k \/ j \in 1 .. k - 1 BY <1>1
<1>3. k \in 1 .. k /\ \A j \in 1 .. k - 1 : j \in 1 .. k BY <1>1
<1>4. r \in Reads(c) BY DEF AfterUnavailable
<1>5. q \in Reads(c) BY <1>4, UnavailableTyped
<1>6. CASE r.failed
  <2>1. q.failed BY <1>4, <1>6 DEF ReadUnavailable, Reads
  <2>2. ~(CapacitiesFine(c) /\ \A j \in 1 .. k - 1 : UnavailableFine(c, j))
    BY <1>6 DEF AfterUnavailable
  <2> HIDE DEF q
  <2> QED BY <1>3, <1>5, <2>1, <2>2 DEF AfterUnavailable
<1>7. CASE ~r.failed /\ ~UnavailableFine(c, k)
  <2>1. r.specified = Listed(c) \cup seen BY <1>7 DEF AfterUnavailable
  <2>2. LinkIndexFails(c, r, l) BY <1>7, <2>1 DEF LinkIndexFails, UnavailableFine
  <2>3. q.failed BY <1>4, <2>2 DEF ReadUnavailable, Reads
  <2> HIDE DEF q
  <2> QED BY <1>3, <1>5, <1>7, <2>3 DEF AfterUnavailable
<1>8. CASE ~r.failed /\ UnavailableFine(c, k)
  <2>1. /\ r.specified = Listed(c) \cup seen
        /\ \A j \in 1 .. Len(c.access_capacities) :
             r.mu_links[c.access_capacities[j].link] = c.access_capacities[j].value
        /\ \A m \in Pairs(c) : r.route_mask[m] <=> m \notin seen
        /\ CapacitiesFine(c) /\ \A j \in 1 .. k - 1 : UnavailableFine(c, j)
    BY <1>8 DEF AfterUnavailable
  <2>2. ~LinkIndexFails(c, r, l) /\ l \in Pairs(c)
    BY <1>8, <2>1 DEF LinkIndexFails, UnavailableFine, ConfigTyped
  <2>3. q = [r EXCEPT !.specified = @ \cup {l}, !.route_mask[l] = FALSE]
    BY <1>8, <2>2 DEF ReadUnavailable
  <2>4. /\ ~q.failed /\ q.specified = r.specified \cup {l} /\ q.mu_links = r.mu_links
        /\ q.route_mask = [r.route_mask EXCEPT ![l] = FALSE]
    BY <1>4, <1>8, <2>3 DEF Reads
  <2>5. r.route_mask \in [Pairs(c) -> BOOLEAN] BY <1>4 DEF Reads
  <2>6. {c.unavailable_links[j] : j \in 1 .. k} = seen \cup {l} BY <1>2, <1>3
  <2>7. \A j \in 1 .. k : UnavailableFine(c, j) BY <1>2, <1>8, <2>1
  <2> HIDE DEF q, seen, l
  <2>8. \A m \in Pairs(c) : q.route_mask[m] <=> m \notin seen \cup {l}
    BY <2>1, <2>2, <2>4, <2>5
  <2> QED BY <1>5, <2>1, <2>4, <2>6, <2>7, <2>8 DEF AfterUnavailable
<1> QED BY <1>4, <1>6, <1>7, <1>8

\* Both loops, to the end.
LEMMA ReadIs ==
  ASSUME NEW c, ConfigTyped(c)
  PROVE  AfterUnavailable(c, ReadLinks(c), Len(c.unavailable_links))
<1> DEFINE none == [failed |-> FALSE, specified |-> {}, mu_links |-> [l \in Pairs(c) |-> 0],
                    route_mask |-> [l \in Pairs(c) |-> TRUE]]
           caps == c.access_capacities
           uns == c.unavailable_links
           first == FirstLoop(c, none, caps)
           second == SecondLoop(c, first, uns)
<1>1. ReadLinks(c) = second BY DEF ReadLinks, FirstLoop, SecondLoop
<1>2. /\ Len(caps) \in Nat /\ DOMAIN caps = 1 .. Len(caps) /\ Numbered(caps)
      /\ Len(uns) \in Nat /\ DOMAIN uns = 1 .. Len(uns) /\ Malformed \notin Pairs(c)
  BY LenProperties DEF ConfigTyped
<1>3. none \in Reads(c) BY DEF Reads
<1>4. AfterCapacities(c, none, 0)
  <2>1. \A j \in 1 .. 0 : FALSE OBVIOUS
  <2> QED BY <1>3, <2>1 DEF AfterCapacities
<1> HIDE DEF none
<1>5. PICK t \in [0 .. Len(caps) -> Reads(c)] :
        /\ t[0] = none
        /\ \A k \in 1 .. Len(caps) : t[k] = ReadCapacity(c, t[k - 1], caps[k])
        /\ first = t[Len(caps)]
  BY <1>2, <1>3, CapacitiesRead
<1> HIDE DEF first
<1>6. AfterCapacities(c, first, Len(caps))
  <2> DEFINE N == {m \in Nat : m <= Len(caps) => AfterCapacities(c, t[m], m)}
  <2>1. 0 \in N BY <1>4, <1>5
  <2>2. ASSUME NEW m \in N PROVE m + 1 \in N
    <3>1. SUFFICES ASSUME m + 1 <= Len(caps) PROVE AfterCapacities(c, t[m + 1], m + 1) OBVIOUS
    <3>2. m + 1 \in 1 .. Len(caps) /\ (m + 1) - 1 = m /\ AfterCapacities(c, t[m], m) BY <1>2, <3>1
    <3> HIDE DEF N
    <3>3. AfterCapacities(c, ReadCapacity(c, t[m], caps[m + 1]), m + 1) BY <3>2, AnotherCapacity
    <3> QED BY <1>5, <3>2, <3>3
  <2>3. N \in SUBSET Nat OBVIOUS
  <2> HIDE DEF N
  <2>4. Len(caps) \in N BY <1>2, <2>1, <2>2, <2>3, Induction
  <2> QED BY <1>2, <1>5, <2>4 DEF N
<1>7. AfterUnavailable(c, first, 0)
  <2>1. Listed(c) = {caps[j].link : j \in 1 .. Len(caps)} BY DEF Listed
  <2>2. \A j \in 1 .. 0 : FALSE OBVIOUS
  <2>3. {uns[j] : j \in 1 .. 0} = {} BY <2>2
  <2>4. ~first.failed <=> CapacitiesFine(c) BY <1>6 DEF AfterCapacities, CapacitiesFine
  <2>5. first \in Reads(c) BY <1>6 DEF AfterCapacities
  <2>6. ~first.failed =>
          /\ first.specified = Listed(c)
          /\ \A j \in 1 .. Len(caps) : first.mu_links[caps[j].link] = caps[j].value
          /\ \A l \in Pairs(c) : first.route_mask[l]
    BY <1>6, <2>1 DEF AfterCapacities
  <2> QED BY <2>2, <2>3, <2>4, <2>5, <2>6 DEF AfterUnavailable
<1>8. first \in Reads(c) BY <1>7 DEF AfterUnavailable
<1>9. PICK u \in [0 .. Len(uns) -> Reads(c)] :
        /\ u[0] = first
        /\ \A k \in 1 .. Len(uns) : u[k] = ReadUnavailable(c, u[k - 1], uns[k])
        /\ second = u[Len(uns)]
  BY <1>2, <1>8, UnavailableRead
<1> HIDE DEF second
<1>10. AfterUnavailable(c, second, Len(uns))
  <2> DEFINE N == {m \in Nat : m <= Len(uns) => AfterUnavailable(c, u[m], m)}
  <2>1. 0 \in N BY <1>7, <1>9
  <2>2. ASSUME NEW m \in N PROVE m + 1 \in N
    <3>1. SUFFICES ASSUME m + 1 <= Len(uns) PROVE AfterUnavailable(c, u[m + 1], m + 1) OBVIOUS
    <3>2. m + 1 \in 1 .. Len(uns) /\ (m + 1) - 1 = m /\ AfterUnavailable(c, u[m], m) BY <1>2, <3>1
    <3> HIDE DEF N
    <3>3. AfterUnavailable(c, ReadUnavailable(c, u[m], uns[m + 1]), m + 1) BY <3>2, AnotherUnavailable
    <3> QED BY <1>9, <3>2, <3>3
  <2>3. N \in SUBSET Nat OBVIOUS
  <2> HIDE DEF N
  <2>4. Len(uns) \in N BY <1>2, <2>1, <2>2, <2>3, Induction
  <2> QED BY <1>2, <1>9, <2>4 DEF N
<1> QED BY <1>1, <1>10

-----------------------------------------------------------------------------
\* What the pairs of a config are given by.
Given(c) ==
  /\ CapacitiesFine(c)
  /\ \A j \in 1 .. Len(c.unavailable_links) : UnavailableFine(c, j)
  /\ Listed(c) \cup Range(c.unavailable_links) = Pairs(c)

\* every pair is named in one place
Placed(c) ==
  /\ Listed(c) \cup Range(c.unavailable_links) \subseteq Pairs(c)
  /\ \A l \in Pairs(c) : \E entry \in Named(c, l) : Named(c, l) = {entry}
  /\ \A k \in 1 .. Len(c.access_capacities) : c.access_capacities[k].value # Text

\* Who names a pair.
LEMMA NamedBy ==
  ASSUME NEW c, NEW l
  PROVE  /\ \A k \in 1 .. Len(c.access_capacities) :
              <<"capacity", k>> \in Named(c, l) <=> c.access_capacities[k].link = l
         /\ \A k \in 1 .. Len(c.unavailable_links) :
              <<"unavailable", k>> \in Named(c, l) <=> c.unavailable_links[k] = l
         /\ \A x \in Named(c, l) :
              \/ \E k \in 1 .. Len(c.access_capacities) :
                   x = <<"capacity", k>> /\ c.access_capacities[k].link = l
              \/ \E k \in 1 .. Len(c.unavailable_links) :
                   x = <<"unavailable", k>> /\ c.unavailable_links[k] = l
  BY DEF Named

\* What the two loops check is that every pair is named in exactly one place.
LEMMA GivenIsPlaced ==
  ASSUME NEW c, ConfigTyped(c)
  PROVE  Given(c) <=> Placed(c)
<1> DEFINE caps == c.access_capacities
           uns == c.unavailable_links
<1>1. /\ Len(caps) \in Nat /\ Len(uns) \in Nat /\ DOMAIN uns = 1 .. Len(uns)
  BY LenProperties DEF ConfigTyped
<1>2. \A l \in Listed(c) : \E k \in 1 .. Len(caps) : caps[k].link = l BY DEF Listed
<1>3. \A k \in 1 .. Len(caps) : caps[k].link \in Listed(c) BY DEF Listed
<1>4. \A l \in Range(uns) : \E k \in 1 .. Len(uns) : uns[k] = l BY <1>1 DEF Range
<1>5. \A k \in 1 .. Len(uns) : uns[k] \in Range(uns) BY <1>1 DEF Range
<1>6. ASSUME Given(c) PROVE Placed(c)
  <2>1. ASSUME NEW k \in 1 .. Len(caps), NEW j \in 1 .. Len(caps), caps[k].link = caps[j].link
        PROVE  k = j
    <3>1. CapacityFine(c, k) /\ CapacityFine(c, j) BY <1>6 DEF Given, CapacitiesFine
    <3>2. ~(j \in 1 .. k - 1) /\ ~(k \in 1 .. j - 1) BY <2>1, <3>1 DEF CapacityFine
    <3> QED BY <1>1, <3>2
  <2>2. ASSUME NEW k \in 1 .. Len(uns), NEW j \in 1 .. Len(uns), uns[k] = uns[j]
        PROVE  k = j
    <3>1. UnavailableFine(c, k) /\ UnavailableFine(c, j) BY <1>6 DEF Given
    <3>2. ~(j \in 1 .. k - 1) /\ ~(k \in 1 .. j - 1) BY <2>2, <3>1 DEF UnavailableFine
    <3> QED BY <1>1, <3>2
  <2>3. \A k \in 1 .. Len(uns) : uns[k] \notin Listed(c) BY <1>6 DEF Given, UnavailableFine
  <2>4. ASSUME NEW l \in Pairs(c) PROVE \E entry \in Named(c, l) : Named(c, l) = {entry}
    <3>1. CASE l \in Listed(c)
      <4>1. PICK k \in 1 .. Len(caps) : caps[k].link = l BY <1>2, <3>1
      <4>2. <<"capacity", k>> \in Named(c, l) BY <4>1, NamedBy
      <4>3. ASSUME NEW x \in Named(c, l) PROVE x = <<"capacity", k>>
        <5>1. ~\E j \in 1 .. Len(uns) : uns[j] = l BY <2>3, <3>1
        <5>2. PICK j \in 1 .. Len(caps) : x = <<"capacity", j>> /\ caps[j].link = l BY <5>1, NamedBy
        <5> QED BY <2>1, <4>1, <5>2
      <4> QED BY <4>2, <4>3
    <3>2. CASE l \notin Listed(c)
      <4>0. l \in Range(uns) BY <1>6, <3>2 DEF Given
      <4>1. PICK k \in 1 .. Len(uns) : uns[k] = l BY <1>4, <4>0
      <4>2. <<"unavailable", k>> \in Named(c, l) BY <4>1, NamedBy
      <4>3. ASSUME NEW x \in Named(c, l) PROVE x = <<"unavailable", k>>
        <5>1. ~\E j \in 1 .. Len(caps) : caps[j].link = l BY <1>3, <3>2
        <5>2. PICK j \in 1 .. Len(uns) : x = <<"unavailable", j>> /\ uns[j] = l BY <5>1, NamedBy
        <5> QED BY <2>2, <4>1, <5>2
      <4> QED BY <4>2, <4>3
    <3> QED BY <3>1, <3>2
  <2>5. \A k \in 1 .. Len(caps) : caps[k].value # Text
    BY <1>6 DEF Given, CapacitiesFine, CapacityFine
  <2> QED BY <1>6, <2>4, <2>5 DEF Given, Placed
<1>7. ASSUME Placed(c) PROVE Given(c)
  <2>1. \A l \in Pairs(c) : \A x, y \in Named(c, l) : x = y BY <1>7 DEF Placed
  <2>2. \A k \in 1 .. Len(caps) : caps[k].link \in Pairs(c) BY <1>3, <1>7 DEF Placed
  <2>3. \A k \in 1 .. Len(uns) : uns[k] \in Pairs(c) BY <1>5, <1>7 DEF Placed
  <2>4. ASSUME NEW k \in 1 .. Len(caps) PROVE CapacityFine(c, k)
    <3>1. ASSUME NEW j \in 1 .. k - 1, caps[j].link = caps[k].link PROVE FALSE
      <4>1. j \in 1 .. Len(caps) /\ j # k BY <1>1
      <4>2. <<"capacity", j>> \in Named(c, caps[k].link) /\ <<"capacity", k>> \in Named(c, caps[k].link)
        BY <3>1, <4>1, NamedBy
      <4>3. <<"capacity", j>> = <<"capacity", k>> BY <2>1, <2>2, <4>2
      <4> QED BY <4>1, <4>3
    <3>2. caps[k].value # Text BY <1>7 DEF Placed
    <3> QED BY <2>2, <3>1, <3>2 DEF CapacityFine
  <2>5. ASSUME NEW k \in 1 .. Len(uns) PROVE UnavailableFine(c, k)
    <3>1. ASSUME NEW j \in 1 .. k - 1, uns[j] = uns[k] PROVE FALSE
      <4>1. j \in 1 .. Len(uns) /\ j # k BY <1>1
      <4>2. <<"unavailable", j>> \in Named(c, uns[k]) /\ <<"unavailable", k>> \in Named(c, uns[k])
        BY <3>1, <4>1, NamedBy
      <4>3. <<"unavailable", j>> = <<"unavailable", k>> BY <2>1, <2>3, <4>2
      <4> QED BY <4>1, <4>3
    <3>2. ASSUME uns[k] \in Listed(c) PROVE FALSE
      <4>1. PICK j \in 1 .. Len(caps) : caps[j].link = uns[k] BY <1>2, <3>2
      <4>2. <<"capacity", j>> \in Named(c, uns[k]) /\ <<"unavailable", k>> \in Named(c, uns[k])
        BY <4>1, NamedBy
      <4>3. <<"capacity", j>> = <<"unavailable", k>> BY <2>1, <2>3, <4>2
      <4> QED BY <4>3
    <3> QED BY <2>3, <3>1, <3>2 DEF UnavailableFine
  <2>6. ASSUME NEW l \in Pairs(c) PROVE l \in Listed(c) \cup Range(uns)
    <3>1. PICK x \in Named(c, l) : TRUE BY <1>7 DEF Placed
    <3>2. \/ \E k \in 1 .. Len(caps) : caps[k].link = l
          \/ \E k \in 1 .. Len(uns) : uns[k] = l
      BY <3>1, NamedBy
    <3> QED BY <1>3, <1>5, <3>2
  <2>7. Listed(c) \cup Range(uns) \subseteq Pairs(c) BY <1>7 DEF Placed
  <2> QED BY <2>4, <2>5, <2>6, <2>7 DEF Given, CapacitiesFine
<1> QED BY <1>6, <1>7

\* What is read of a config that is given: its links, and what they carry.
LEMMA GivenIsRead ==
  ASSUME NEW c, ConfigTyped(c)
  PROVE  LET read == ReadLinks(c)
         IN  /\ read \in Reads(c)
             /\ (~read.failed /\ read.specified = Pairs(c)) <=> Given(c)
             /\ Given(c) => /\ \A j \in 1 .. Len(c.access_capacities) :
                                 read.mu_links[c.access_capacities[j].link] = c.access_capacities[j].value
                            /\ \A l \in Pairs(c) : read.route_mask[l] <=> l \in Listed(c)
<1> DEFINE read == ReadLinks(c)
           uns == c.unavailable_links
<1>1. AfterUnavailable(c, read, Len(uns)) BY ReadIs
<1>2. DOMAIN uns = 1 .. Len(uns) BY LenProperties DEF ConfigTyped
<1>3. {uns[j] : j \in 1 .. Len(uns)} = Range(uns) BY <1>2 DEF Range
<1> HIDE DEF read
<1>4. read \in Reads(c) BY <1>1 DEF AfterUnavailable
<1>5. ~read.failed => read.specified = Listed(c) \cup Range(uns) BY <1>1, <1>3 DEF AfterUnavailable
<1>6. ~read.failed <=> CapacitiesFine(c) /\ \A j \in 1 .. Len(uns) : UnavailableFine(c, j)
  BY <1>1 DEF AfterUnavailable
<1>7. (~read.failed /\ read.specified = Pairs(c)) <=> Given(c) BY <1>5, <1>6 DEF Given
<1>8. ASSUME Given(c)
      PROVE  /\ \A j \in 1 .. Len(c.access_capacities) :
                  read.mu_links[c.access_capacities[j].link] = c.access_capacities[j].value
             /\ \A l \in Pairs(c) : read.route_mask[l] <=> l \in Listed(c)
  <2>1. ~read.failed BY <1>7, <1>8
  <2>2. \A j \in 1 .. Len(c.access_capacities) :
          read.mu_links[c.access_capacities[j].link] = c.access_capacities[j].value
    BY <1>1, <2>1 DEF AfterUnavailable
  <2>3. \A l \in Pairs(c) : read.route_mask[l] <=> l \notin Range(uns)
    BY <1>1, <1>3, <2>1 DEF AfterUnavailable
  <2>4. \A l \in Range(uns) : l \notin Listed(c)
    <3>1. \A j \in 1 .. Len(uns) : uns[j] \notin Listed(c) BY <1>8 DEF Given, UnavailableFine
    <3> QED BY <1>2, <3>1 DEF Range
  <2>5. \A l \in Pairs(c) : l \notin Range(uns) <=> l \in Listed(c) BY <1>8, <2>4 DEF Given
  <2> QED BY <2>2, <2>3, <2>5
<1> QED BY <1>4, <1>7, <1>8 DEF read

-----------------------------------------------------------------------------
\* The value of each id, when the ids differ.
LEMMA ValuesAre ==
  ASSUME NEW items, items \in Seq(Range(items)), Numbered(items), IsInjective(Ids(items))
  PROVE  /\ Range(Ids(items)) = {items[k].id : k \in 1 .. Len(items)}
         /\ ValuesOf(items) \in [Range(Ids(items)) -> Int]
         /\ \A k \in 1 .. Len(items) : ValuesOf(items)[items[k].id] = items[k].value
<1> DEFINE ids == Range(Ids(items))
           place(id) == CHOOSE k \in 1 .. Len(items) : items[k].id = id
<1>1. /\ DOMAIN Ids(items) = 1 .. Len(items)
      /\ \A k \in 1 .. Len(items) : Ids(items)[k] = items[k].id
  BY DEF Ids
<1>2. ids = {items[k].id : k \in 1 .. Len(items)} BY <1>1 DEF Range
<1>3. \A k, j \in 1 .. Len(items) : items[k].id = items[j].id => k = j BY <1>1 DEF IsInjective
<1>4. ASSUME NEW id \in ids PROVE place(id) \in 1 .. Len(items) /\ items[place(id)].id = id
  BY <1>2
<1>5. ValuesOf(items) = [id \in ids |-> items[place(id)].value] BY DEF ValuesOf
<1> HIDE DEF place, ids
<1>6. ValuesOf(items) \in [ids -> Int] BY <1>4, <1>5 DEF Numbered
<1>7. ASSUME NEW k \in 1 .. Len(items) PROVE ValuesOf(items)[items[k].id] = items[k].value
  <2>1. items[k].id \in ids BY <1>2
  <2>2. place(items[k].id) = k BY <1>3, <1>4, <2>1
  <2> QED BY <1>5, <2>1, <2>2
<1> QED BY <1>2, <1>6, <1>7 DEF ids

\* the topologies of a config, whatever their capacities
TopologiesOf(c) ==
  [sources : {Ids(c.sources)}, lambdas_total : {ValuesOf(c.sources)},
   mu_brokers : [Range(Ids(c.brokers)) -> Int], mu_links : [Pairs(c) -> Int],
   route_mask : [Pairs(c) -> BOOLEAN]]

\* Its links exist, and one that does not has no capacity.
LinkedAs(t, c) ==
  /\ \A l \in Pairs(c) : t.route_mask[l] <=> l \in Listed(c)
  /\ \A l \in Pairs(c) : t.mu_links[l] > 0 <=> l \in Listed(c)

\* Masked() keeps a topology one, and takes the capacities of links that do not exist.
LEMMA MaskedIs ==
  ASSUME NEW c, NEW t \in TopologiesOf(c)
  PROVE  /\ Masked(t) \in TopologiesOf(c)
         /\ Masked(t).lambdas_total = t.lambdas_total /\ Masked(t).mu_brokers = t.mu_brokers
         /\ Masked(t).route_mask = t.route_mask /\ Masked(t).sources = t.sources
         /\ DOMAIN Masked(t).mu_links = Pairs(c)
         /\ \A l \in Pairs(c) :
              Masked(t).mu_links[l] = IF t.route_mask[l] THEN t.mu_links[l] ELSE 0
  BY DEF Masked, TopologiesOf

\* What is validated has the links of its config.
LEMMA ValidIsLinked ==
  ASSUME NEW c, NEW t \in TopologiesOf(c), \A l \in Pairs(c) : t.route_mask[l] <=> l \in Listed(c),
         Validates(Masked(t))
  PROVE  LinkedAs(Masked(t), c)
<1>1. \A l \in Pairs(c) : t.route_mask[l] => Masked(t).mu_links[l] > 0 BY MaskedIs DEF Validates
<1>2. \A l \in Pairs(c) : ~t.route_mask[l] => Masked(t).mu_links[l] = 0 BY MaskedIs
<1>3. Masked(t).route_mask = t.route_mask BY MaskedIs
<1> QED BY <1>1, <1>2, <1>3 DEF LinkedAs

\* What topology_from_config constructs.
Read(c) ==
  LET read == ReadLinks(c)
  IN  [sources |-> Ids(c.sources), lambdas_total |-> ValuesOf(c.sources),
       mu_brokers |-> ValuesOf(c.brokers), mu_links |-> read.mu_links,
       route_mask |-> read.route_mask]

\* The entries can be read.
EntriesRead(c) == c.sections /\ ~EntriesFail(c.sources) /\ ~EntriesFail(c.brokers)

\* The values of a topology that can be one.
Rated(c) ==
  /\ \A k \in 1 .. Len(c.sources) : c.sources[k].value >= 0
  /\ \A k \in 1 .. Len(c.brokers) : c.brokers[k].value > 0
  /\ \A k \in 1 .. Len(c.access_capacities) : c.access_capacities[k].value > 0
  /\ \A k \in 1 .. Len(c.sources) :
       c.sources[k].value > 0 => \E l \in Listed(c) : l[1] = c.sources[k].id

\* A config means one topology when each of the checks says so.
LEMMA MeansAll ==
  ASSUME NEW c, ConfigTyped(c)
  PROVE  MeansOneTopology(c) <=> EntriesRead(c) /\ Given(c) /\ Rated(c)
<1>1. /\ Len(c.sources) \in Nat /\ Len(c.brokers) \in Nat /\ Len(c.access_capacities) \in Nat
      /\ \A k \in 1 .. Len(c.sources) : c.sources[k].value \in Int
      /\ \A k \in 1 .. Len(c.brokers) : c.brokers[k].value \in Int
      /\ \A k \in 1 .. Len(c.access_capacities) : c.access_capacities[k].value \in Int
      /\ c.sections \in BOOLEAN
  BY LenProperties DEF ConfigTyped, Numbered
<1>2. \A v \in Int : v >= 0 => v # Text BY DEF Text
<1>3. \A v \in Int : v > 0 => v # Text BY DEF Text
<1>4. ASSUME Rated(c)
      PROVE  /\ \A k \in 1 .. Len(c.sources) : c.sources[k].value # Text
             /\ \A k \in 1 .. Len(c.brokers) : c.brokers[k].value # Text
             /\ \A k \in 1 .. Len(c.access_capacities) : c.access_capacities[k].value # Text
  BY <1>1, <1>2, <1>3, <1>4 DEF Rated
<1>5. Rated(c) => (EntriesRead(c) <=> /\ c.sections /\ c.sources # << >> /\ c.brokers # << >>
                                      /\ IsInjective(Ids(c.sources)) /\ IsInjective(Ids(c.brokers)))
  BY <1>4 DEF EntriesRead, EntriesFail
<1>6. Rated(c) => (Given(c) <=>
                     /\ Listed(c) \cup Range(c.unavailable_links) \subseteq Pairs(c)
                     /\ \A l \in Pairs(c) : \E entry \in Named(c, l) : Named(c, l) = {entry})
  BY <1>4, GivenIsPlaced DEF Placed
<1> QED BY <1>5, <1>6 DEF MeansOneTopology, Rated

\* What is constructed is a topology of its config, and is valid when its values are.
LEMMA ReadIsValid ==
  ASSUME NEW c, ConfigTyped(c), EntriesRead(c), Given(c)
  PROVE  /\ Read(c) \in TopologiesOf(c)
         /\ \A l \in Pairs(c) : Read(c).route_mask[l] <=> l \in Listed(c)
         /\ Validates(Masked(Read(c))) <=> Rated(c)
<1> DEFINE t == Read(c)
           m == Masked(t)
           caps == c.access_capacities
           link(j) == caps[j].link
<1>1. /\ c.sources \in Seq(Range(c.sources)) /\ Numbered(c.sources) /\ IsInjective(Ids(c.sources))
      /\ c.brokers \in Seq(Range(c.brokers)) /\ Numbered(c.brokers) /\ IsInjective(Ids(c.brokers))
  BY DEF ConfigTyped, EntriesRead, EntriesFail
<1>2. /\ Range(Ids(c.sources)) = {c.sources[k].id : k \in 1 .. Len(c.sources)}
      /\ ValuesOf(c.sources) \in [Range(Ids(c.sources)) -> Int]
      /\ \A k \in 1 .. Len(c.sources) : ValuesOf(c.sources)[c.sources[k].id] = c.sources[k].value
  BY <1>1, ValuesAre
<1>3. /\ Range(Ids(c.brokers)) = {c.brokers[k].id : k \in 1 .. Len(c.brokers)}
      /\ ValuesOf(c.brokers) \in [Range(Ids(c.brokers)) -> Int]
      /\ \A k \in 1 .. Len(c.brokers) : ValuesOf(c.brokers)[c.brokers[k].id] = c.brokers[k].value
  BY <1>1, ValuesAre
<1>4. /\ ReadLinks(c) \in Reads(c)
      /\ \A j \in 1 .. Len(caps) : ReadLinks(c).mu_links[link(j)] = caps[j].value
      /\ \A l \in Pairs(c) : ReadLinks(c).route_mask[l] <=> l \in Listed(c)
  BY GivenIsRead
<1>5. /\ t.sources = Ids(c.sources) /\ t.lambdas_total = ValuesOf(c.sources)
      /\ t.mu_brokers = ValuesOf(c.brokers) /\ t.mu_links = ReadLinks(c).mu_links
      /\ t.route_mask = ReadLinks(c).route_mask
  BY DEF Read
<1>6. t \in TopologiesOf(c)
  <2>1. ReadLinks(c).mu_links \in [Pairs(c) -> Int] /\ ReadLinks(c).route_mask \in [Pairs(c) -> BOOLEAN]
    BY <1>4 DEF Reads
  <2> QED BY <1>3, <2>1 DEF Read, TopologiesOf
<1> HIDE DEF t
<1>7. /\ m.lambdas_total = ValuesOf(c.sources) /\ m.mu_brokers = ValuesOf(c.brokers)
      /\ m.route_mask = ReadLinks(c).route_mask /\ DOMAIN m.mu_links = Pairs(c)
      /\ \A l \in Pairs(c) : m.mu_links[l] = IF t.route_mask[l] THEN t.mu_links[l] ELSE 0
  BY <1>5, <1>6, MaskedIs
<1> HIDE DEF m
<1>8. DOMAIN m.lambdas_total = Range(Ids(c.sources)) /\ DOMAIN m.mu_brokers = Range(Ids(c.brokers))
  BY <1>2, <1>3, <1>7
<1>9. (\A i \in DOMAIN m.lambdas_total : m.lambdas_total[i] >= 0)
        <=> \A k \in 1 .. Len(c.sources) : c.sources[k].value >= 0
  BY <1>2, <1>7, <1>8
<1>10. (\A j \in DOMAIN m.mu_brokers : m.mu_brokers[j] > 0)
         <=> \A k \in 1 .. Len(c.brokers) : c.brokers[k].value > 0
  BY <1>3, <1>7, <1>8
<1>11. /\ Listed(c) \subseteq Pairs(c) /\ \A j \in 1 .. Len(caps) : link(j) \in Listed(c)
       /\ \A l \in Listed(c) : \E j \in 1 .. Len(caps) : link(j) = l
  BY DEF Given, Listed
<1>12. (\A l \in DOMAIN m.mu_links : m.route_mask[l] => m.mu_links[l] > 0)
         <=> \A j \in 1 .. Len(caps) : caps[j].value > 0
  <2>1. \A l \in Pairs(c) : m.route_mask[l] <=> l \in Listed(c) BY <1>4, <1>7
  <2>2. \A j \in 1 .. Len(caps) : m.mu_links[link(j)] = caps[j].value
    BY <1>4, <1>5, <1>7, <1>11
  <2> HIDE DEF link
  <2> QED BY <1>7, <1>11, <2>1, <2>2
<1>13. (\A i \in DOMAIN m.lambdas_total :
          m.lambdas_total[i] > 0 => \E l \in DOMAIN m.mu_links : l[1] = i /\ m.route_mask[l])
         <=> \A k \in 1 .. Len(c.sources) :
               c.sources[k].value > 0 => \E l \in Listed(c) : l[1] = c.sources[k].id
  <2> DEFINE Has(i) == \E l \in Listed(c) : l[1] = i
             HasNow(i) == \E l \in DOMAIN m.mu_links : l[1] = i /\ m.route_mask[l]
  <2>1. \A i : HasNow(i) <=> Has(i) BY <1>4, <1>7, <1>11
  <2> HIDE DEF Has, HasNow
  <2>2. (\A i \in DOMAIN m.lambdas_total : m.lambdas_total[i] > 0 => HasNow(i))
          <=> \A k \in 1 .. Len(c.sources) : c.sources[k].value > 0 => Has(c.sources[k].id)
    BY <1>2, <1>7, <1>8, <2>1
  <2> QED BY <2>2 DEF Has, HasNow
<1>14. Validates(m) <=> Rated(c) BY <1>9, <1>10, <1>12, <1>13 DEF Validates, Rated
<1> QED BY <1>4, <1>5, <1>6, <1>14 DEF t, m

\* Only a config that means one topology has one; a config that was refused means none.
ReadingInv ==
  /\ cfg \in TopologyConfigs /\ reading \in {"config", "topology", "ValueError"}
  /\ reading = "topology" => parsed # NoTopology
  /\ reading = "ValueError" /\ parsed = NoTopology => ~MeansOneTopology(cfg)
  /\ parsed # NoTopology =>
       MeansOneTopology(cfg) /\ parsed \in TopologiesOf(cfg) /\ LinkedAs(parsed, cfg)

\* No topology is the one there is none of.
LEMMA TopologyIsOne ==
  ASSUME NEW c, EntriesRead(c), NEW t \in TopologiesOf(c)
  PROVE  t # NoTopology
<1>1. t.sources = Ids(c.sources) BY DEF TopologiesOf
<1>2. "route_mask" \in DOMAIN t BY DEF TopologiesOf
<1>3. "route_mask" \notin DOMAIN NoTopology BY DEF NoTopology
<1> QED BY <1>2, <1>3

\* Reading the file keeps it.
LEMMA ReadingKept ==
  ASSUME ReadingInv, TopologyFromConfig
  PROVE  ReadingInv'
<1>1. ConfigTyped(cfg) /\ cfg' = cfg /\ cfg \in TopologyConfigs
  BY ConfigsTyped DEF ReadingInv, TopologyFromConfig
<1>2. MeansOneTopology(cfg) <=> EntriesRead(cfg) /\ Given(cfg) /\ Rated(cfg) BY <1>1, MeansAll
<1>3. ASSUME reading' = "ValueError", parsed' = parsed, ~MeansOneTopology(cfg) PROVE ReadingInv'
  BY <1>1, <1>3 DEF ReadingInv
<1>4. CASE ~EntriesRead(cfg)
  <2>1. reading' = "ValueError" /\ parsed' = parsed
    BY <1>4 DEF TopologyFromConfig, EntriesRead
  <2> QED BY <1>2, <1>3, <1>4, <2>1
<1>5. CASE EntriesRead(cfg) /\ ~Given(cfg)
  <2>1. ReadLinks(cfg).failed \/ ReadLinks(cfg).specified # Pairs(cfg) BY <1>1, <1>5, GivenIsRead
  <2>2. reading' = "ValueError" /\ parsed' = parsed
    BY <1>5, <2>1 DEF TopologyFromConfig, EntriesRead
  <2> QED BY <1>2, <1>3, <1>5, <2>2
<1>6. CASE EntriesRead(cfg) /\ Given(cfg)
  <2>1. ~ReadLinks(cfg).failed /\ ReadLinks(cfg).specified = Pairs(cfg) BY <1>1, <1>6, GivenIsRead
  <2>2. Construct(Read(cfg)) BY <1>6, <2>1 DEF TopologyFromConfig, EntriesRead, Read
  <2>3. /\ Read(cfg) \in TopologiesOf(cfg)
        /\ \A l \in Pairs(cfg) : Read(cfg).route_mask[l] <=> l \in Listed(cfg)
        /\ Validates(Masked(Read(cfg))) <=> Rated(cfg)
    BY <1>1, <1>6, ReadIsValid
  <2>4. CASE Rated(cfg)
    <3>1. reading' = "topology" /\ parsed' = Masked(Read(cfg)) BY <2>2, <2>3, <2>4 DEF Construct
    <3>2. Masked(Read(cfg)) \in TopologiesOf(cfg) BY <2>3, MaskedIs
    <3>3. Masked(Read(cfg)) # NoTopology BY <1>6, <3>2, TopologyIsOne
    <3>4. LinkedAs(Masked(Read(cfg)), cfg) BY <2>3, <2>4, ValidIsLinked
    <3>5. MeansOneTopology(cfg) BY <1>2, <1>6, <2>4
    <3> QED BY <1>1, <3>1, <3>2, <3>3, <3>4, <3>5 DEF ReadingInv
  <2>5. CASE ~Rated(cfg)
    <3>1. reading' = "ValueError" /\ parsed' = parsed BY <2>2, <2>3, <2>5 DEF Construct
    <3> QED BY <1>2, <1>3, <2>5, <3>1
  <2> QED BY <2>4, <2>5
<1> QED BY <1>4, <1>5, <1>6

\* So does a change of the capacities.
LEMMA CapacitiesKept ==
  ASSUME ReadingInv, WithCapacities
  PROVE  ReadingInv'
<1>1. parsed \in TopologiesOf(cfg) /\ MeansOneTopology(cfg) /\ LinkedAs(parsed, cfg)
      /\ parsed # NoTopology /\ cfg' = cfg /\ cfg \in TopologyConfigs /\ ConfigTyped(cfg)
  BY ConfigsTyped DEF ReadingInv, WithCapacities
<1>2. PICK link, broker \in NewCapacities :
        Construct([parsed EXCEPT !.mu_links = [l \in DOMAIN @ |-> link],
                                   !.mu_brokers = [j \in DOMAIN @ |-> broker]])
  BY DEF WithCapacities
<1> DEFINE t == [parsed EXCEPT !.mu_links = [l \in DOMAIN @ |-> link],
                                 !.mu_brokers = [j \in DOMAIN @ |-> broker]]
<1>3. link \in Int /\ broker \in Int BY ConfigsTyped
<1>4. t \in TopologiesOf(cfg) /\ t.route_mask = parsed.route_mask BY <1>1, <1>3 DEF TopologiesOf
<1>5. Construct(t) BY <1>2
<1> HIDE DEF t
<1>6. CASE Validates(Masked(t))
  <2>1. reading' = "topology" /\ parsed' = Masked(t) BY <1>5, <1>6 DEF Construct
  <2>2. \A l \in Pairs(cfg) : t.route_mask[l] <=> l \in Listed(cfg) BY <1>1, <1>4 DEF LinkedAs
  <2>3. LinkedAs(Masked(t), cfg) BY <1>4, <1>6, <2>2, ValidIsLinked
  <2>4. Masked(t) \in TopologiesOf(cfg) BY <1>4, MaskedIs
  <2>5. EntriesRead(cfg) BY <1>1, MeansAll
  <2>6. Masked(t) # NoTopology BY <2>4, <2>5, TopologyIsOne
  <2> QED BY <1>1, <2>1, <2>3, <2>4, <2>6 DEF ReadingInv
<1>7. CASE ~Validates(Masked(t))
  <2>1. reading' = "ValueError" /\ parsed' = parsed BY <1>5, <1>7 DEF Construct
  <2> QED BY <1>1, <2>1 DEF ReadingInv
<1> QED BY <1>6, <1>7

\* It holds always.
LEMMA ReadingAlways == ConfigSpec => []ReadingInv
<1>1. ConfigInit => ReadingInv BY DEF ConfigInit, ReadingInv
<1>2. ReadingInv /\ [ConfigNext]_configVars => ReadingInv'
  <2> SUFFICES ASSUME ReadingInv, [ConfigNext]_configVars PROVE ReadingInv' OBVIOUS
  <2>1. CASE TopologyFromConfig BY <2>1, ReadingKept
  <2>2. CASE WithCapacities BY <2>2, CapacitiesKept
  <2>3. CASE UNCHANGED configVars BY <2>3 DEF ReadingInv, configVars
  <2> QED BY <2>1, <2>2, <2>3 DEF ConfigNext
<1> QED BY <1>1, <1>2, PTL DEF ConfigSpec

\* A topology that was read has a rate for every pair of its sources and brokers.
THEOREM TopologyTyped == ConfigSpec => []ConfigTypeOK
<1>1. ReadingInv => ConfigTypeOK BY DEF ReadingInv, ConfigTypeOK, TopologiesOf
<1> QED BY <1>1, ReadingAlways, PTL

\* Exactly the configs that mean one topology are accepted, and a link that does not
\* exist has no capacity, whatever capacities become: topology_from_config,
\* Topology.__post_init__ and with_capacities, for any configs with their lists.
THEOREM OneTopologyOrNone == ConfigSpec => []AcceptedIsTyped
<1>1. ReadingInv => AcceptedIsTyped BY DEF ReadingInv, AcceptedIsTyped, LinkedAs
<1> QED BY <1>1, ReadingAlways, PTL
==============================================================================
