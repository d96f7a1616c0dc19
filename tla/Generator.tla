------------------------------ MODULE Generator ------------------------------
(***************************************************************************)
(* generate_instance of src/model/generate.py: the links are scaled until  *)
(* the balance beta measured at the optimum is the one asked for.          *)
(*                                                                         *)
(* Scale and beta are logarithms on a grid, beta relative to the one asked *)
(* for: 0 is within its tolerance.  Routings fit from some scale on, and a *)
(* topology has one optimum and so one measured beta, which is arbitrary.  *)
(***************************************************************************)
EXTENDS Integers, Sequences, SequencesExt

CONSTANTS
  Scales,   \* the scales the matched utilization may begin with
  Betas,    \* the betas measured
  Quadruple, \* log 4
  Rounds    \* rounds of the adjust loop

None == 1000

ASSUME GenConstants ==
  /\ Scales \subseteq Int /\ Betas \subseteq Int /\ None \notin Betas
  /\ Quadruple \in Int /\ Rounds \in Nat \ {0}

VARIABLES
  asked,    \* a beta is asked for
  least,    \* the least scale at which a routing fits
  search,    \* "round", "returned", "ValueError", "RuntimeError" or "not reached"
  round, scale, history,
  measured,  \* beta and beta_rounds
  instance   \* the scale of what is returned

genVars == <<asked, least, search, round, scale, history, measured, instance>>

GenTypeOK ==
  /\ asked \in BOOLEAN /\ least \in Scales
  /\ search \in {"round", "returned", "ValueError", "RuntimeError", "not reached"}
  /\ round \in 1 .. Rounds + 1 /\ scale \in Int
  /\ history \in Seq(Int \X Betas) /\ Len(history) < round
  /\ measured.beta \in Betas \cup {None} /\ measured.beta_rounds \in 0 .. Rounds
  /\ instance \in Int

GenInit ==
  /\ asked \in BOOLEAN /\ least \in Scales
  /\ search = "round" /\ round = 1 /\ scale \in Scales /\ history = << >>
  /\ measured = [beta |-> None, beta_rounds |-> 0] /\ instance = None

\* check(): what is read back has a routing that fits
Fits == scale >= least

Returns == search' = "returned" /\ instance' = scale

\* without a beta the links stay as they are drawn
Plain ==
  /\ search = "round" /\ ~asked
  /\ IF Fits THEN Returns ELSE search' = "ValueError" /\ UNCHANGED instance
  /\ UNCHANGED <<asked, least, round, scale, history, measured>>

NextRound ==
  /\ round' = round + 1
  /\ search' = IF round = Rounds THEN "not reached" ELSE search
  /\ UNCHANGED instance

\* a scale too small backs off toward the last feasible one, where there is one
BackOff ==
  /\ search = "round" /\ asked /\ ~Fits
  /\ IF history = << >> THEN search' = "ValueError" /\ UNCHANGED <<round, scale, instance>>
     ELSE scale' = (scale + Last(history)[1]) \div 2 /\ NextRound
  /\ UNCHANGED <<asked, least, history, measured>>

Clip(x, low, high) == IF x < low THEN low ELSE IF x > high THEN high ELSE x

\* -diff / slope for the last two points of h, the slope clipped to -3 .. -0.5, and
\* for a slope of -1 while there is no other
Secant(h) ==
  LET got == Last(h)[2]
      before == h[Len(h) - 1]
      dx == Last(h)[1] - before[1]
      fall == IF dx > 0 THEN before[2] - got ELSE got - before[2]
      width == IF dx > 0 THEN dx ELSE -dx
  IN  IF Len(h) = 1 \/ dx = 0 THEN got
      ELSE IF 2 * fall < width THEN 2 * got
      ELSE IF fall > 3 * width THEN got \div 3
      ELSE (got * width) \div fall

\* mutant: a measurement is only noted when it is not the last
StatsAfterwards(got) == IF got = 0 THEN measured ELSE [beta |-> got, beta_rounds |-> round]

StatsWith(got) == [beta |-> got, beta_rounds |-> round]

\* the optimum is found and beta measured
Measure ==
  /\ search = "round" /\ asked /\ Fits
  /\ \E got \in Betas :
       /\ \A k \in 1 .. Len(history) : history[k][1] = scale => history[k][2] = got
       /\ measured' = StatsWith(got)
       /\ IF got = 0 THEN Returns /\ UNCHANGED <<round, scale, history>>
          ELSE /\ history' = Append(history, <<scale, got>>)
               /\ scale' = scale + Clip(Secant(history'), -Quadruple, Quadruple)
               /\ NextRound
  /\ UNCHANGED <<asked, least>>

\* optimal_routing finds no certified optimum
NoOptimum ==
  /\ search = "round" /\ asked /\ Fits
  /\ search' = "RuntimeError"
  /\ UNCHANGED <<asked, least, round, scale, history, measured, instance>>

GenNext == Plain \/ BackOff \/ Measure \/ NoOptimum

GenSpec == GenInit /\ [][GenNext]_genVars

-----------------------------------------------------------------------------
(***************************************************************************)
(* Properties.                                                             *)
(***************************************************************************)

\* However the scale wandered, an instance that is returned can be routed, and the
\* beta and rounds reported are those of that instance and within the tolerance; a
\* search that gives up has measured something to report.
GeneratedAsReported ==
  /\ search = "returned" => instance >= least
  /\ search = "returned" /\ asked => measured = [beta |-> 0, beta_rounds |-> round]
  /\ search = "not reached" =>
       measured.beta # None /\ \E k \in 1 .. Len(history) : history[k][2] = measured.beta
==============================================================================
