--------------------------- MODULE StaticRunProofs ---------------------------
(***************************************************************************)
(* Why the safe step keeps the planned flows feasible, and why what is     *)
(* certified is optimal, for any numbers of sources, brokers and           *)
(* iterations, any capacities and any step sizes.                          *)
(*                                                                         *)
(* An iteration moves the routing a fraction n / d of the way to a target, *)
(* n the numerator of eta s_t and d its denominator: every sum over links  *)
(* moves by the same fraction (Moved).  What a broker grows by is then     *)
(* within its headroom, by its s_j (WithinHeadroom), and a link keeps      *)
(* between its flow and its target.                                        *)
(*                                                                         *)
(* The delay of a queue is convex in its flow (Tangent, QueueConvex).  So  *)
(* the objective grows from a routing to another by what the marginal      *)
(* costs of the first make of the difference of the two at least, which is *)
(* not negative where every route in use is a cheapest one (RowOptimal):   *)
(* a best response to its own prices is an optimum (BestIsOptimal).        *)
(***************************************************************************)
EXTENDS StaticRun, Experiments, OptimalRouting, Lemmas

-----------------------------------------------------------------------------
(***************************************************************************)
(* Fractions.                                                              *)
(***************************************************************************)

Fractions == Int \X (Nat \ {0})

\* A factor that is not negative keeps an order.
LEMMA Scaled ==
  ASSUME NEW a \in Int, NEW b \in Int, NEW c \in Nat, a <= b
  PROVE  a * c <= b * c
<1>1. \A u, v \in Nat : u * v \in Nat OBVIOUS
<1>2. b - a \in Nat OBVIOUS
<1>3. (b - a) * c \in Nat BY <1>1, <1>2
<1>4. (b - a) * c = b * c - a * c OBVIOUS
<1> QED BY <1>3, <1>4

\* A positive factor keeps a strict order.
LEMMA ScaledStrictly ==
  ASSUME NEW a \in Int, NEW b \in Int, NEW c \in Nat \ {0}, a < b
  PROVE  a * c < b * c
<1>1. a + 1 <= b OBVIOUS
<1>2. (a + 1) * c <= b * c BY <1>1, Scaled
<1>3. (a + 1) * c = a * c + c OBVIOUS
<1>4. a * c \in Int /\ b * c \in Int OBVIOUS
<1> QED BY <1>2, <1>3, <1>4

\* Products of integers.
LEMMA ProductTyped ==
  /\ \A a, b \in Int : a * b \in Int /\ a * b = b * a
  /\ \A a, b \in Nat : a * b \in Nat
  /\ \A a, b \in Nat \ {0} : a * b \in Nat \ {0}
  /\ \A a, b, c \in Int : (a * b) * c = a * (b * c)
OBVIOUS

\* A positive factor may be cancelled.
LEMMA Cancelled ==
  ASSUME NEW a \in Int, NEW b \in Int, NEW c \in Nat \ {0}
  PROVE  (a * c <= b * c => a <= b) /\ (a * c < b * c => a < b)
<1>1. ASSUME b < a PROVE b * c < a * c BY <1>1, ScaledStrictly
<1>2. ASSUME b <= a PROVE b * c <= a * c BY <1>2, Scaled
<1>3. a * c \in Int /\ b * c \in Int BY ProductTyped
<1> QED BY <1>1, <1>2, <1>3

\* The order of the fractions.
LEMMA FractionsOrdered ==
  ASSUME NEW a \in Fractions, NEW b \in Fractions, NEW c \in Fractions
  PROVE  /\ AtMost(a, b) \/ AtMost(b, a)
         /\ AtMost(a, a)
         /\ AtMost(a, b) /\ AtMost(b, c) => AtMost(a, c)
<1>1. /\ a[1] \in Int /\ b[1] \in Int /\ c[1] \in Int
      /\ a[2] \in Nat \ {0} /\ b[2] \in Nat \ {0} /\ c[2] \in Nat \ {0}
  BY DEF Fractions
<1>2. \A p, q, r, s \in Int : p * q <= r * s \/ r * s <= p * q OBVIOUS
<1>3. ASSUME a[1] * b[2] <= b[1] * a[2], b[1] * c[2] <= c[1] * b[2] PROVE a[1] * c[2] <= c[1] * a[2]
  <2>1. \A p, q, r \in Int : (p * q) * r = (p * r) * q BY ProductTyped
  <2>2. (a[1] * b[2]) * c[2] <= (b[1] * a[2]) * c[2] BY <1>1, <1>3, Scaled, ProductTyped
  <2>3. (b[1] * c[2]) * a[2] <= (c[1] * b[2]) * a[2] BY <1>1, <1>3, Scaled, ProductTyped
  <2>4. /\ (a[1] * b[2]) * c[2] = (a[1] * c[2]) * b[2]
        /\ (b[1] * a[2]) * c[2] = (b[1] * c[2]) * a[2]
        /\ (c[1] * b[2]) * a[2] = (c[1] * a[2]) * b[2]
    BY <1>1, <2>1
  <2>5. a[1] * c[2] \in Int /\ c[1] * a[2] \in Int BY <1>1, ProductTyped
  <2>6. (b[1] * c[2]) * a[2] \in Int /\ (a[1] * c[2]) * b[2] \in Int /\ (c[1] * a[2]) * b[2] \in Int
    BY <1>1, ProductTyped
  <2>7. (a[1] * c[2]) * b[2] <= (c[1] * a[2]) * b[2] BY <2>2, <2>3, <2>4, <2>6
  <2> QED BY <1>1, <2>5, <2>7, Cancelled
<1>4. a[1] * a[2] <= a[1] * a[2] BY <1>1, ProductTyped
<1> QED BY <1>1, <1>2, <1>3, <1>4 DEF AtMost

\* Finitely many fractions have a least one.
LEMMA LeastIs ==
  ASSUME NEW U \in SUBSET Fractions, IsFiniteSet(U), U # {}
  PROVE  Least(U) \in U /\ \A b \in U : AtMost(Least(U), b)
<1> DEFINE C == {S \in SUBSET U : S # {} => \E a \in S : \A b \in S : AtMost(a, b)}
<1>1. {} \in C OBVIOUS
<1>2. ASSUME NEW S \in SUBSET U, S # {}, \A x \in S : S \ {x} \in C PROVE S \in C
  <2>1. PICK x \in S : TRUE BY <1>2
  <2>2. CASE S \ {x} = {} BY <2>1, <2>2, FractionsOrdered
  <2>3. CASE S \ {x} # {}
    <3>1. PICK a \in S \ {x} : \A b \in S \ {x} : AtMost(a, b) BY <1>2, <2>1, <2>3
    <3>2. CASE AtMost(a, x) BY <3>1, <3>2
    <3>3. CASE AtMost(x, a) BY <3>1, <3>3, <2>1, FractionsOrdered
    <3> QED BY <3>2, <3>3, <3>1, <2>1, FractionsOrdered
  <2> QED BY <2>2, <2>3
<1> HIDE DEF C
<1>3. U \in C BY <1>1, <1>2, SubsetInduction
<1>4. \E a \in U : \A b \in U : AtMost(a, b) BY <1>3 DEF C
<1> QED BY <1>4 DEF Least

-----------------------------------------------------------------------------
(***************************************************************************)
(* The safe step.                                                          *)
(***************************************************************************)

\* A step is a fraction of the way, and exceeds a bound only when it is zero.
LEMMA SafeStepIs ==
  ASSUME NEW B \in SUBSET Fractions, IsFiniteSet(B)
  PROVE  LET s == SafeStep(B)
         IN  /\ s \in Nat \X (Nat \ {0}) /\ s[1] <= s[2]
             /\ \A b \in B : s[1] = 0 \/ AtMost(s, b)
<1> DEFINE one == <<1, 1>> U == B \cup {one} s == Least(U)
<1>1. one \in Fractions BY DEF Fractions
<1>2. IsFiniteSet(U) BY FS_AddElement
<1>3. s \in U /\ \A b \in U : AtMost(s, b)
  <2>1. U \in SUBSET Fractions /\ U # {} BY <1>1
  <2> HIDE DEF U
  <2> QED BY <1>2, <2>1, LeastIs
<1>4. s \in Fractions BY <1>1, <1>3
<1>5. AtMost(s, one) BY <1>3
<1>6. SafeStep(B) = IF s[1] < 0 THEN <<0, 1>> ELSE s BY DEF SafeStep
<1> HIDE DEF s
<1>7. CASE s[1] < 0 BY <1>6, <1>7
<1>8. CASE ~(s[1] < 0)
  <2>1. s[1] \in Nat /\ s[2] \in Nat \ {0} /\ s = <<s[1], s[2]>> BY <1>4, <1>8 DEF Fractions
  <2>2. s[1] <= s[2] BY <1>5, <2>1 DEF AtMost
  <2> QED BY <1>6, <1>8, <2>1, <2>2, <1>3
<1> QED BY <1>7, <1>8

Variants == {"paper", "notebook"}

\* s_j is a fraction.
LEMMA StepBoundTyped ==
  ASSUME NEW mu \in Int, NEW load \in Int, NEW growth \in Int, unit \in Nat \ {0}, Margin \in Nat,
         params.eta \in (Nat \ {0}) \X (Nat \ {0})
  PROVE  StepBound(mu, load, growth) \in Fractions
<1> DEFINE h == (mu - Margin) * unit - load
           e == params.eta
<1>1. h \in Int /\ e[1] \in Nat \ {0} /\ e[2] \in Nat \ {0} OBVIOUS
<1>2. CASE growth <= 0 BY <1>2 DEF StepBound, Fractions
<1>3. CASE ~(growth <= 0)
  <2>1. StepBound(mu, load, growth)
          \in {<<1, 1>>, <<h * e[2], growth * e[1]>>, <<h, growth>>}
    BY <1>3 DEF StepBound, Smaller
  <2> HIDE DEF h, e
  <2>2. h * e[2] \in Int /\ growth * e[1] \in Nat \ {0}
    <3>1. growth \in Nat \ {0} /\ e[2] \in Int BY <1>1, <1>3
    <3>2. \A a, b \in Int : a * b \in Int BY ProductTyped
    <3>3. \A a, b \in Nat \ {0} : a * b \in Nat \ {0} BY ProductTyped
    <3>4. h * e[2] \in Int BY <1>1, <3>1, <3>2
    <3> QED BY <1>1, <3>1, <3>3, <3>4
  <2> QED BY <1>1, <1>3, <2>1, <2>2 DEF Fractions
<1> QED BY <1>2, <1>3

\* What a broker grows by in a step within its s_j is within its headroom.  The
\* notebook's s_j leaves eta out, so it needs eta to be at most 1.
LEMMA WithinHeadroom ==
  ASSUME NEW mu \in Int, NEW load \in Int, NEW growth \in Int, unit \in Nat \ {0}, Margin \in Nat,
         params.eta \in (Nat \ {0}) \X (Nat \ {0}),
         params.variant = "paper" \/ params.eta[1] <= params.eta[2],
         NEW s \in Nat \X (Nat \ {0}), s[1] <= s[2], growth > 0, s[1] # 0,
         AtMost(s, StepBound(mu, load, growth))
  PROVE  (params.eta[1] * s[1]) * growth <= ((mu - Margin) * unit - load) * (params.eta[2] * s[2])
<1> DEFINE h == (mu - Margin) * unit - load
           p == params.eta[1] q == params.eta[2] n == s[1] d == s[2] g == growth
<1>1. /\ h \in Int /\ p \in Nat \ {0} /\ q \in Nat \ {0} /\ g \in Nat \ {0}
      /\ n \in Nat \ {0} /\ d \in Nat \ {0} /\ n <= d
  OBVIOUS
<1>2. StepBound(mu, load, growth) =
        Smaller(<<1, 1>>, IF params.variant = "paper" THEN <<h * q, g * p>> ELSE <<h, g>>)
  BY DEF StepBound
<1>3. AtMost(s, Smaller(<<1, 1>>, IF params.variant = "paper" THEN <<h * q, g * p>> ELSE <<h, g>>))
  BY <1>2
<1> SUFFICES (p * n) * g <= h * (q * d) OBVIOUS
<1> HIDE DEF h, p, q, n, d, g
<1>4. CASE params.variant = "paper"
  <2>1. g * p \in Nat \ {0} /\ h * q \in Int BY <1>1, ProductTyped
  <2>2. n * (g * p) <= (h * q) * d
    <3>1. CASE 1 * (g * p) <= (h * q) * 1
      <4>1. g * p <= h * q BY <3>1, <2>1
      <4>2. n * (g * p) <= d * (g * p) BY <1>1, <2>1, Scaled
      <4>3. (g * p) * d <= (h * q) * d BY <1>1, <2>1, <4>1, Scaled
      <4>4. d * (g * p) = (g * p) * d /\ n * (g * p) \in Int /\ (g * p) * d \in Int /\ (h * q) * d \in Int
        BY <1>1, <2>1, ProductTyped
      <4> QED BY <4>2, <4>3, <4>4
    <3>2. CASE ~(1 * (g * p) <= (h * q) * 1)
      <4>1. AtMost(s, <<h * q, g * p>>) BY <1>3, <1>4, <3>2 DEF Smaller, AtMost
      <4> QED BY <4>1 DEF AtMost, n, d
    <3> QED BY <3>1, <3>2
  <2>3. \A a, b, c \in Int : (a * b) * c = b * (c * a) BY ProductTyped
  <2>4. \A a, b, c \in Int : (a * b) * c = a * (b * c) BY ProductTyped
  <2>5. (p * n) * g = n * (g * p) /\ (h * q) * d = h * (q * d) BY <1>1, <2>3, <2>4
  <2> QED BY <2>2, <2>5
<1>5. CASE params.variant # "paper"
  <2>1. p <= q BY <1>5 DEF p, q
  <2>2. n * g <= h * d
    <3>1. CASE 1 * g <= h * 1
      <4>1. g <= h /\ h \in Nat BY <3>1, <1>1
      <4>2. n * g <= d * g /\ g * d <= h * d BY <1>1, <4>1, Scaled
      <4>3. d * g = g * d /\ n * g \in Int /\ g * d \in Int /\ h * d \in Int BY <1>1, ProductTyped
      <4> QED BY <4>2, <4>3
    <3>2. CASE ~(1 * g <= h * 1)
      <4>1. AtMost(s, <<h, g>>) BY <1>3, <1>5, <3>2 DEF Smaller, AtMost
      <4> QED BY <4>1 DEF AtMost, n, d
    <3> QED BY <3>1, <3>2
  <2>3. n * g \in Nat \ {0} /\ h * d \in Nat BY <1>1, <2>2, ProductTyped
  <2>4. (n * g) * p <= (h * d) * p /\ p * (h * d) <= q * (h * d) BY <1>1, <2>1, <2>2, <2>3, Scaled
  <2>5. \A a, b, c \in Int : (a * b) * c = (b * c) * a /\ a * (b * c) = b * (a * c) BY ProductTyped
  <2>6. (n * g) * p = (p * n) * g /\ (h * d) * p = p * (h * d) /\ q * (h * d) = h * (q * d)
    BY <1>1, <2>3, <2>5, ProductTyped
  <2>7. (p * n) * g \in Int /\ p * (h * d) \in Int /\ h * (q * d) \in Int BY <1>1, ProductTyped
  <2> QED BY <2>4, <2>6, <2>7
<1> QED BY <1>4, <1>5

-----------------------------------------------------------------------------
(***************************************************************************)
(* One step.                                                               *)
(***************************************************************************)

\* A sum that moves the fraction n / d of the way from a to b, in units d times as
\* fine, stays within a capacity c: it does if b - a is within what is left, and
\* grows no further if a is not below b.
LEMMA SumMoves ==
  ASSUME NEW a \in Int, NEW b \in Int, NEW c \in Int, NEW u \in Nat \ {0}, NEW n \in Nat,
         NEW d \in Nat \ {0}
  PROVE  LET m == (d - n) * a + n * b
         IN  /\ m \in Int
             /\ n * (b - a) <= (c * u - a) * d => m <= c * (u * d)
             /\ n = 0 \/ b - a <= 0 => m * u <= a * (u * d)
<1> DEFINE m == (d - n) * a + n * b
           g == b - a
<1>1. g \in Int /\ g * n \in Int /\ a * d \in Int /\ c * u \in Int /\ m \in Int
  BY ProductTyped
<1>2. \A v, w, x, y \in Int : (v - w) * x + w * y = x * v + w * (y - x) OBVIOUS
<1>3. m = a * d + n * g BY <1>2
<1>4. ASSUME n * g <= (c * u - a) * d PROVE m <= c * (u * d)
  <2>1. \A v, w, x \in Int : (v - w) * x = v * x - w * x OBVIOUS
  <2>2. (c * u - a) * d = (c * u) * d - a * d BY <1>1, <2>1
  <2>3. (c * u) * d = c * (u * d) /\ (c * u) * d \in Int BY <1>1, ProductTyped
  <2>4. n * g \in Int BY <1>1, ProductTyped
  <2> HIDE DEF g, m
  <2> QED BY <1>1, <1>3, <1>4, <2>2, <2>3, <2>4
<1>5. ASSUME n = 0 \/ g <= 0 PROVE m * u <= a * (u * d)
  <2>1. n * g <= 0
    <3>1. CASE n = 0 BY <1>1, <3>1
    <3>2. CASE g <= 0
      <4>1. g * n <= 0 * n BY <1>1, <3>2, Scaled
      <4> QED BY <1>1, <4>1, ProductTyped
    <3> QED BY <1>5, <3>1, <3>2
  <2>2. n * g \in Int BY <1>1, ProductTyped
  <2>3. m <= a * d BY <1>1, <1>3, <2>1, <2>2
  <2>4. m * u <= (a * d) * u BY <1>1, <2>3, Scaled
  <2>5. (a * d) * u = a * (d * u) /\ d * u = u * d BY ProductTyped
  <2> QED BY <2>4, <2>5
<1> QED BY <1>1, <1>4, <1>5

\* A flow that moves the fraction n / d <= 1 of the way to a target that is zero or
\* below the capacity c of its link.
LEMMA FlowMoves ==
  ASSUME NEW a \in Nat, NEW b \in Nat, NEW c \in Nat, NEW u \in Nat \ {0}, NEW n \in Nat,
         NEW d \in Nat \ {0}, n <= d, b = 0 \/ b < c * u
  PROVE  LET m == (d - n) * a + n * b
         IN  /\ m \in Nat
             /\ m <= c * (u * d) \/ m * u <= a * (u * d)
             /\ a < c * u => m < c * (u * d)
<1> DEFINE m == (d - n) * a + n * b
           k == d - n
           cu == c * u
<1>1. k \in Nat /\ cu \in Nat /\ k * a \in Nat /\ n * b \in Nat /\ k * cu \in Nat /\ n * cu \in Nat
      /\ m \in Nat
  BY ProductTyped
<1>2. k * cu + n * cu = c * (u * d)
  <2>1. \A v, w, x \in Int : (v - w) * x + w * x = x * v OBVIOUS
  <2>2. k * cu + n * cu = cu * d BY <1>1, <2>1
  <2> QED BY <2>2, ProductTyped
<1>3. b <= cu BY <1>1
<1>4. n * b <= n * cu
  <2>1. b * n <= cu * n BY <1>1, <1>3, Scaled
  <2> QED BY <1>1, <2>1, ProductTyped
<1>5. CASE a < cu
  <2>1. k * a <= k * cu
    <3>1. a * k <= cu * k BY <1>1, <1>5, Scaled
    <3> QED BY <1>1, <3>1, ProductTyped
  <2>2. k * a < k * cu \/ n * b < n * cu
    <3>1. CASE k # 0
      <4>1. a * k < cu * k BY <1>1, <1>5, <3>1, ScaledStrictly
      <4> QED BY <1>1, <4>1, ProductTyped
    <3>2. CASE k = 0
      <4>1. n \in Nat \ {0} /\ b < cu BY <1>1, <1>5, <3>2
      <4>2. b * n < cu * n BY <1>1, <4>1, ScaledStrictly
      <4> QED BY <1>1, <4>2, ProductTyped
    <3> QED BY <3>1, <3>2
  <2>3. m < c * (u * d)
    <3> HIDE DEF k, cu
    <3>1. k * a + n * b < k * cu + n * cu BY <1>1, <1>4, <2>1, <2>2
    <3> QED BY <3>1, <1>2 DEF k
  <2>4. c * (u * d) \in Nat BY ProductTyped
  <2> QED BY <1>1, <2>3, <2>4
<1>6. CASE ~(a < cu)
  <2>1. b - a <= 0 BY <1>1, <1>3, <1>6
  <2>2. m * u <= a * (u * d) BY <2>1, SumMoves
  <2> QED BY <1>1, <1>6, <2>2
<1> QED BY <1>5, <1>6

-----------------------------------------------------------------------------
(***************************************************************************)
(* The demand, for step sizes of any size.                                 *)
(***************************************************************************)

\* What holds whatever the step sizes: beyond 1 a step overshoots the target, and a
\* flow may be negative.
DemandKept ==
  /\ \A i \in Sources : Sent(lambda, i) = Demand[i] * unit
  /\ \A l \in Links : base.link[l] = 0 => lambda[l] = 0

\* the types, with any integers for the flows
Typed ==
  /\ lambda \in [Links -> Int] /\ unit \in Nat \ {0}
  /\ base \in Bases /\ topology \in Topologies
  /\ iteration \in 0 .. Iterations
  /\ failures \subseteq Sources /\ (failures # {} => params.mode # "raise")
  /\ params \in [eta : Etas, variant : Variants, mode : FailureModes]
  /\ status \in {"running", "done", "raised"}

DemandInv ==
  /\ Typed
  /\ DemandKept
  /\ params.mode # "varying" => topology = base

\* Capacities of a topology, and which links it has.
LEMMA TopologyTyped ==
  ASSUME base \in Bases, NEW t \in Topologies
  PROVE  /\ t.link \in [Links -> Nat] /\ t.broker \in [Brokers -> Nat \ {0}]
         /\ \A l \in Links : t.link[l] = 0 <=> base.link[l] = 0
<1>1. t \in Bases \cup Varied BY DEF Topologies
<1>2. t \in [link : [Links -> Nat], broker : [Brokers -> Nat \ {0}]] BY <1>1, StaticConstants
<1> QED BY <1>2 DEF Topologies

\* The parameters of a run.
LEMMA ParamsTyped ==
  ASSUME params \in [eta : Etas, variant : Variants, mode : FailureModes]
  PROVE  /\ params.eta \in Etas /\ params.eta \in (Nat \ {0}) \X (Nat \ {0})
         /\ params.eta[1] \in Nat \ {0} /\ params.eta[2] \in Nat \ {0}
BY StaticConstants

\* The sums over a routing are integers.
LEMMA LoadTyped ==
  ASSUME NEW r \in [Links -> Int]
  PROVE  (\A j \in Brokers : Load(r, j) \in Int) /\ (\A i \in Sources : Sent(r, i) \in Int)
<1>1. \A i \in Sources, j \in Brokers : r[i, j] \in Int BY DEF Links
<1>2. \A j \in Brokers : [i \in Sources |-> r[i, j]] \in [Sources -> Int] BY <1>1
<1>3. \A i \in Sources : [j \in Brokers |-> r[i, j]] \in [Brokers -> Int] BY <1>1
<1> QED BY <1>2, <1>3, StaticConstants, SumFunctionInt DEF Load, Sent

\* a times the one routing and b times the other
Mixed(r, t, a, b) == [l \in Links |-> a * r[l] + b * t[l]]

\* Every sum over a routing moves as its flows do.
LEMMA Moved ==
  ASSUME NEW r \in [Links -> Int], NEW t \in [Links -> Int], NEW a \in Int, NEW b \in Int
  PROVE  /\ \A j \in Brokers : Load(Mixed(r, t, a, b), j) = a * Load(r, j) + b * Load(t, j)
         /\ \A i \in Sources : Sent(Mixed(r, t, a, b), i) = a * Sent(r, i) + b * Sent(t, i)
         /\ Mixed(r, t, a, b) \in [Links -> Int]
<1> DEFINE m == Mixed(r, t, a, b)
<1>1. \A i \in Sources, j \in Brokers :
        r[i, j] \in Int /\ t[i, j] \in Int /\ m[i, j] = a * r[i, j] + b * t[i, j]
  BY DEF Links, Mixed
<1>4. m \in [Links -> Int]
  <2>1. \A l \in Links : a * r[l] + b * t[l] \in Int BY ProductTyped
  <2> QED BY <2>1 DEF Mixed
<1> HIDE DEF m
<1>2. ASSUME NEW j \in Brokers PROVE Load(m, j) = a * Load(r, j) + b * Load(t, j)
  <2> DEFINE f == [i \in Sources |-> r[i, j]] g == [i \in Sources |-> t[i, j]]
             h == [i \in Sources |-> m[i, j]]
  <2>1. f \in [Sources -> Int] /\ g \in [Sources -> Int] BY <1>1
  <2>2. h = [i \in Sources |-> a * f[i] + b * g[i]] BY <1>1
  <2> HIDE DEF f, g, h
  <2>3. SumFunction(h) = a * SumFunction(f) + b * SumFunction(g)
    BY <2>1, <2>2, StaticConstants, SumFunctionLinear
  <2> QED BY <2>3 DEF Load, f, g, h
<1>3. ASSUME NEW i \in Sources PROVE Sent(m, i) = a * Sent(r, i) + b * Sent(t, i)
  <2> DEFINE f == [j \in Brokers |-> r[i, j]] g == [j \in Brokers |-> t[i, j]]
             h == [j \in Brokers |-> m[i, j]]
  <2>1. f \in [Brokers -> Int] /\ g \in [Brokers -> Int] BY <1>1
  <2>2. h = [j \in Brokers |-> a * f[j] + b * g[j]] BY <1>1
  <2> HIDE DEF f, g, h
  <2>3. SumFunction(h) = a * SumFunction(f) + b * SumFunction(g)
    BY <2>1, <2>2, StaticConstants, SumFunctionLinear
  <2> QED BY <2>3 DEF Sent, f, g, h
<1> QED BY <1>2, <1>3, <1>4 DEF m

\* What a source may answer.
LEMMA ResponseTyped ==
  ASSUME NEW t, NEW failed \in SUBSET Sources, NEW x \in Responses(failed, t), NEW i \in Sources \ failed
  PROVE  /\ x[i] \in [Brokers -> Nat] /\ SumFunction(x[i]) = Demand[i]
         /\ \A j \in Brokers : x[i][j] = 0 \/ x[i][j] < t.link[i, j]
<1>1. i \in Sources \ failed /\ Demand[i] \in Nat BY StaticConstants
<1>2. x[i] \in BestResponses(i, t) BY <1>1 DEF Responses
<1>3. /\ x[i] \in [Brokers -> 0 .. Demand[i]] /\ SumFunction(x[i]) = Demand[i]
      /\ \A j \in Brokers : x[i][j] = 0 \/ x[i][j] < t.link[i, j]
  BY <1>2 DEF BestResponses
<1>4. \A n \in 0 .. Demand[i] : n \in Nat BY <1>1
<1> QED BY <1>3, <1>4

\* The target carries every demand, over links that can.
LEMMA TargetIs ==
  ASSUME DemandInv, NEW t \in Topologies, NEW failed \in SUBSET Sources, NEW x \in Responses(failed, t),
         NEW target, target = Targets(failed, x)
  PROVE  /\ target \in [Links -> Int]
         /\ \A i \in Sources : Sent(target, i) = Demand[i] * unit
         /\ \A l \in Links : \/ target[l] = lambda[l]
                             \/ \E y \in Nat : target[l] = unit * y /\ (y = 0 \/ y < t.link[l])
<1>1. lambda \in [Links -> Int] /\ unit \in Nat \ {0} BY DEF DemandInv, Typed
<1>2. \A l \in Links :
        l[1] \in Sources /\ l[2] \in Brokers /\ l = <<l[1], l[2]>>
        /\ target[l] = IF l[1] \in failed THEN lambda[l] ELSE unit * x[l[1]][l[2]]
  BY DEF Targets, Links
<1>3. ASSUME NEW l \in Links
      PROVE  /\ target[l] \in Int
             /\ \/ target[l] = lambda[l]
                \/ \E y \in Nat : target[l] = unit * y /\ (y = 0 \/ y < t.link[l])
  <2>1. CASE l[1] \in failed BY <1>1, <1>2, <2>1
  <2>2. CASE l[1] \notin failed
    <3> DEFINE y == x[l[1]][l[2]]
    <3>1. y \in Nat /\ (y = 0 \/ y < t.link[l])
      <4>1. l[1] \in Sources \ failed /\ l[2] \in Brokers /\ l = <<l[1], l[2]>> BY <1>2, <2>2
      <4>2. /\ x[l[1]] \in [Brokers -> Nat]
            /\ \A j \in Brokers : x[l[1]][j] = 0 \/ x[l[1]][j] < t.link[l[1], j]
        BY <4>1, ResponseTyped
      <4>3. y \in Nat /\ (y = 0 \/ y < t.link[l[1], l[2]]) BY <4>1, <4>2
      <4> QED BY <4>1, <4>3
    <3>2. target[l] = unit * y BY <1>2, <2>2
    <3> HIDE DEF y
    <3>3. unit \in Int /\ y \in Int BY <1>1, <3>1
    <3>4. unit * y \in Int BY <3>3, ProductTyped
    <3> QED BY <1>2, <3>1, <3>2, <3>4
  <2> QED BY <2>1, <2>2
<1>4. target \in [Links -> Int] BY <1>3 DEF Targets
<1>5. ASSUME NEW i \in Sources PROVE Sent(target, i) = Demand[i] * unit
  <2>1. \A j \in Brokers : <<i, j>> \in Links BY DEF Links
  <2>2. CASE i \in failed
    <3>1. [j \in Brokers |-> target[i, j]] = [j \in Brokers |-> lambda[i, j]] BY <1>2, <2>1, <2>2
    <3> QED BY <3>1 DEF Sent, DemandInv, DemandKept
  <2>3. CASE i \notin failed
    <3>1. x[i] \in [Brokers -> Int] /\ SumFunction(x[i]) = Demand[i]
      <4>1. i \in Sources \ failed BY <2>3
      <4>2. x[i] \in [Brokers -> Nat] BY <4>1, ResponseTyped
      <4>3. x[i] \in BestResponses(i, t) BY <4>1 DEF Responses
      <4>4. SumFunction(x[i]) = Demand[i] BY <4>3 DEF BestResponses
      <4> QED BY <4>2, <4>4
    <3>2. [j \in Brokers |-> target[i, j]] = [j \in Brokers |-> unit * x[i][j] + 0 * x[i][j]]
      <4>1. \A j \in Brokers : target[i, j] = unit * x[i][j] BY <1>2, <2>1, <2>3
      <4>2. \A j \in Brokers : x[i][j] \in Int BY <3>1
      <4>3. \A n \in Int : unit * n = unit * n + 0 * n BY <1>1
      <4>4. \A j \in Brokers : target[i, j] = unit * x[i][j] + 0 * x[i][j] BY <4>1, <4>2, <4>3
      <4> QED BY <4>4
    <3>3. Sent(target, i) = unit * SumFunction(x[i]) + 0 * SumFunction(x[i])
      <4> DEFINE h == [j \in Brokers |-> target[i, j]] f == x[i]
      <4>1. unit \in Int /\ 0 \in Int /\ IsFiniteSet(Brokers) BY <1>1, StaticConstants
      <4>2. f \in [Brokers -> Int] /\ h = [j \in Brokers |-> unit * f[j] + 0 * f[j]] BY <3>1, <3>2
      <4> HIDE DEF h, f
      <4>3. SumFunction(h) = unit * SumFunction(f) + 0 * SumFunction(f)
        BY <4>1, <4>2, SumFunctionLinear
      <4> QED BY <4>3 DEF Sent, h, f
    <3>4. Demand[i] \in Nat BY StaticConstants
    <3>5. unit * Demand[i] \in Int /\ unit * Demand[i] = Demand[i] * unit BY <1>1, <3>4, ProductTyped
    <3> QED BY <3>1, <3>3, <3>4, <3>5
  <2> QED BY <2>2, <2>3
<1> QED BY <1>3, <1>4, <1>5

\* The bounds of the brokers are finitely many fractions.
LEMMA BoundsTyped ==
  ASSUME DemandInv, NEW t \in Topologies, NEW target \in [Links -> Int]
  PROVE  Bounds(t, target) \in SUBSET Fractions /\ IsFiniteSet(Bounds(t, target))
<1> DEFINE f == [j \in Brokers |-> StepBound(t.broker[j], Load(lambda, j),
                                             Load(target, j) - Load(lambda, j))]
<1>1. Bounds(t, target) = {f[j] : j \in Brokers} BY DEF Bounds
<1>2. \A j \in Brokers : f[j] \in Fractions
  <2>1. t.broker \in [Brokers -> Nat \ {0}] BY TopologyTyped DEF DemandInv, Typed
  <2>2. \A j \in Brokers : Load(lambda, j) \in Int /\ Load(target, j) \in Int
    BY LoadTyped DEF DemandInv, Typed
  <2>3. \A j \in Brokers : Load(target, j) - Load(lambda, j) \in Int BY <2>2
  <2>4. unit \in Nat \ {0} /\ Margin \in Nat BY StaticConstants DEF DemandInv, Typed
  <2>5. params.eta \in (Nat \ {0}) \X (Nat \ {0}) BY ParamsTyped DEF DemandInv, Typed
  <2>6. \A j \in Brokers : t.broker[j] \in Int BY <2>1
  <2> QED BY <2>2, <2>3, <2>4, <2>5, <2>6, StepBoundTyped
<1>3. IsFiniteSet({f[j] : j \in Brokers})
  <2> HIDE DEF f
  <2> QED BY StaticConstants, ImageFinite
<1> QED BY <1>1, <1>2, <1>3

\* The step of an iteration: the fraction n / d of the way to a target, which no
\* broker's bound is exceeded by.
Moves(target, s, n, d) ==
  /\ target \in [Links -> Int]
  /\ s \in Nat \X (Nat \ {0}) /\ s[1] <= s[2]
  /\ n = params.eta[1] * s[1] /\ n \in Nat
  /\ d = params.eta[2] * s[2] /\ d \in Nat \ {0}
  /\ lambda' = Mixed(lambda, target, d - n, n)
  /\ unit' = unit * d
  /\ \A j \in Brokers :
       s[1] = 0 \/ AtMost(s, StepBound(topology'.broker[j], Load(lambda, j),
                                       Load(target, j) - Load(lambda, j)))
  /\ \A i \in Sources : Sent(target, i) = Demand[i] * unit
  /\ \A l \in Links : \/ target[l] = lambda[l]
                      \/ \E y \in Nat : target[l] = unit * y /\ (y = 0 \/ y < topology'.link[l])
  /\ topology' \in Topologies /\ (params.mode # "varying" => topology' = base)

\* An iteration that goes through moves the flows from where they are towards targets
\* that carry the same demand, by a fraction that the safe step bounds.
LEMMA StepMoves ==
  ASSUME DemandInv, Step
  PROVE  \E target, s, n, d : Moves(target, s, n, d)
<1>1. topology' \in Topologies /\ (params.mode # "varying" => topology' = base)
  BY DEF Step, Capacities, Topologies
<1>2. PICK failed \in Failing(topology') : \E x \in Responses(failed, topology') : Iterate(failed, x)
  BY DEF Step
<1>3. PICK x \in Responses(failed, topology') : Iterate(failed, x) BY <1>2
<1>4. failed \in SUBSET Sources BY DEF Failing
<1> DEFINE target == Targets(failed, x)
           B == Bounds(topology', target)
           s == SafeStep(B)
           n == params.eta[1] * s[1] d == params.eta[2] * s[2]
<1>5. /\ target \in [Links -> Int]
      /\ \A i \in Sources : Sent(target, i) = Demand[i] * unit
      /\ \A l \in Links : \/ target[l] = lambda[l]
                          \/ \E y \in Nat : target[l] = unit * y /\ (y = 0 \/ y < topology'.link[l])
  <2> HIDE DEF target
  <2>1. target = Targets(failed, x) BY DEF target
  <2> QED BY <1>1, <1>4, <2>1, TargetIs
<1>6. lambda' = Mixed(lambda, target, d - n, n) /\ unit' = unit * d
  BY <1>3 DEF Iterate, Mixed
<1> HIDE DEF target
<1>7. B \in SUBSET Fractions /\ IsFiniteSet(B) BY <1>1, <1>5, BoundsTyped
<1>8. /\ s \in Nat \X (Nat \ {0}) /\ s[1] <= s[2]
      /\ \A b \in B : s[1] = 0 \/ AtMost(s, b)
  <2> HIDE DEF B
  <2> QED BY <1>7, SafeStepIs
<1>9. \A j \in Brokers :
        s[1] = 0 \/ AtMost(s, StepBound(topology'.broker[j], Load(lambda, j),
                                        Load(target, j) - Load(lambda, j)))
  <2> HIDE DEF s
  <2> QED BY <1>8 DEF Bounds
<1> HIDE DEF s
<1>10. n \in Nat /\ d \in Nat \ {0}
  <2>1. params.eta[1] \in Nat \ {0} /\ params.eta[2] \in Nat \ {0} BY ParamsTyped DEF DemandInv, Typed
  <2>2. s[1] \in Nat /\ s[2] \in Nat \ {0} BY <1>8
  <2> QED BY <2>1, <2>2, ProductTyped
<1> HIDE DEF n, d
<1>11. Moves(target, s, n, d)
  BY <1>1, <1>5, <1>6, <1>8, <1>9, <1>10 DEF Moves, n, d
<1> QED BY <1>11

\* A finite set of integers has a largest.
LEMMA MaxIn ==
  ASSUME NEW U \in SUBSET Int, IsFiniteSet(U), U # {}
  PROVE  Max(U) \in U
<1> DEFINE C == {S \in SUBSET U : S # {} => \E a \in S : \A b \in S : a >= b}
<1>1. {} \in C OBVIOUS
<1>2. ASSUME NEW S \in SUBSET U, S # {}, \A x \in S : S \ {x} \in C PROVE S \in C
  <2>1. PICK x \in S : TRUE BY <1>2
  <2>2. CASE S \ {x} = {}
    <3>1. \A b \in S : x >= b BY <2>1, <2>2
    <3> QED BY <2>1, <3>1
  <2>3. CASE S \ {x} # {}
    <3>1. PICK a \in S \ {x} : \A b \in S \ {x} : a >= b BY <1>2, <2>1, <2>3
    <3>2. CASE a >= x
      <4>1. \A b \in S : a >= b BY <3>1, <3>2
      <4> QED BY <4>1
    <3>3. CASE ~(a >= x)
      <4>1. \A b \in S : b \in Int OBVIOUS
      <4>2. \A b \in S : x >= b BY <3>1, <3>3, <2>1, <4>1
      <4> QED BY <2>1, <4>2
    <3> QED BY <3>2, <3>3
  <2> QED BY <2>2, <2>3
<1> HIDE DEF C
<1>3. U \in C BY <1>1, <1>2, SubsetInduction
<1>4. \E a \in U : \A b \in U : a >= b BY <1>3 DEF C
<1> QED BY <1>4 DEF Max

\* The flows of the LP.
LEMMA InitialFlows ==
  ASSUME StaticInit
  PROVE  lambda \in [Links -> Nat] /\ Feasible(lambda) /\ unit = 1
<1>1. lambda \in [Links -> 0 .. Max({Demand[i] : i \in Sources})] /\ Feasible(lambda) /\ unit = 1
  BY DEF StaticInit
<1>2. ASSUME NEW l \in Links PROVE lambda[l] \in Nat
  <2> DEFINE U == {Demand[i] : i \in Sources}
  <2>1. l[1] \in Sources BY DEF Links
  <2>2. U \in SUBSET Int /\ U # {} BY <2>1, StaticConstants
  <2>3. IsFiniteSet(U) BY ImageFinite, StaticConstants
  <2>4. Max(U) \in Int
    <3> HIDE DEF U
    <3> QED BY <2>2, <2>3, MaxIn
  <2>5. lambda[l] \in 0 .. Max(U) BY <1>1
  <2> HIDE DEF U
  <2> QED BY <2>4, <2>5
<1> QED BY <1>1, <1>2

\* The initial routing of the LP sends every demand whole, over links that exist.
LEMMA DemandInit ==
  ASSUME StaticInit
  PROVE  DemandInv
<1>1. lambda \in [Links -> Nat] /\ Feasible(lambda) /\ unit = 1 BY InitialFlows
<1>2. DemandKept
  <2>1. \A i \in Sources : Demand[i] * unit = Demand[i] BY <1>1, StaticConstants
  <2> QED BY <1>1, <2>1 DEF DemandKept, Feasible
<1>3. lambda \in [Links -> Int] BY <1>1
<1>4. base \in Bases /\ topology = base /\ iteration = 0 /\ failures = {} /\ status = "running"
      /\ params \in [eta : Etas, variant : Variants, mode : FailureModes]
  BY DEF StaticInit, Variants
<1>5. 0 \in 0 .. Iterations /\ topology \in Topologies BY <1>4, StaticConstants DEF Topologies
<1> QED BY <1>1, <1>2, <1>3, <1>4, <1>5 DEF DemandInv, Typed

\* What an iteration changes besides the flows.
LEMMA StepTyped ==
  ASSUME DemandInv, Step
  PROVE  /\ base' = base /\ params' = params /\ status' = status /\ Topologies' = Topologies
         /\ iteration' \in 0 .. Iterations /\ iteration' # iteration
         /\ failures' \subseteq Sources /\ (failures' # {} => params.mode # "raise")
<1>1. base' = base /\ params' = params /\ status' = status BY DEF Step
<1>2. PICK failed \in Failing(topology') :
        (failed # {} => params.mode # "raise") /\ failures' = failed /\ iteration' = iteration + 1
  BY DEF Step, Iterate
<1>3. iteration \in 0 .. Iterations /\ iteration < Iterations /\ Iterations \in Nat
  BY StaticConstants DEF DemandInv, Typed, Step
<1> QED BY <1>1, <1>2, <1>3 DEF Failing, Topologies

\* An iteration, with responses that are held or not, keeps the demand: flows and
\* targets carry it, and so does any mixture of the two.
LEMMA DemandStep ==
  ASSUME DemandInv, [StaticNext]_staticVars
  PROVE  DemandInv'
<1>1. CASE Step
  <2>1. PICK target, s, n, d : Moves(target, s, n, d) BY <1>1, StepMoves
  <2>2. /\ lambda \in [Links -> Int] /\ target \in [Links -> Int] /\ n \in Nat /\ d \in Nat \ {0}
        /\ unit \in Nat \ {0} /\ lambda' = Mixed(lambda, target, d - n, n) /\ unit' = unit * d
    BY <2>1 DEF Moves, DemandInv, Typed
  <2>3. n \in Int /\ d - n \in Int BY <2>2
  <2>4. lambda' \in [Links -> Int] /\ unit' \in Nat \ {0} BY <2>2, <2>3, Moved, ProductTyped
  <2>5. ASSUME NEW i \in Sources PROVE Sent(lambda', i) = Demand[i] * unit'
    <3>1. Sent(lambda', i) = (d - n) * Sent(lambda, i) + n * Sent(target, i) BY <2>2, <2>3, Moved
    <3>2. Sent(lambda, i) = Demand[i] * unit /\ Sent(target, i) = Demand[i] * unit
      BY <2>1 DEF Moves, DemandInv, DemandKept
    <3>3. Demand[i] \in Int /\ Demand[i] * unit \in Int BY <2>2, StaticConstants, ProductTyped
    <3>4. \A a \in Int : (d - n) * a + n * a = a * d BY <2>2
    <3>5. (Demand[i] * unit) * d = Demand[i] * (unit * d) BY <2>2, <3>3, ProductTyped
    <3> QED BY <2>2, <3>1, <3>2, <3>3, <3>4, <3>5
  <2>6. ASSUME NEW l \in Links, base.link[l] = 0 PROVE lambda'[l] = 0
    <3>1. lambda[l] = 0 BY <2>6 DEF DemandInv, DemandKept
    <3>2. topology'.link[l] = 0 BY <2>1, <2>6, TopologyTyped DEF Moves, DemandInv, Typed
    <3>3. target[l] = lambda[l] \/ \E y \in Nat : target[l] = unit * y /\ (y = 0 \/ y < topology'.link[l])
      BY <2>1 DEF Moves
    <3>4. target[l] = 0 BY <2>2, <3>1, <3>2, <3>3
    <3> QED BY <2>2, <3>1, <3>4 DEF Mixed
  <2>7. base' = base BY <1>1, StepTyped
  <2>8. DemandKept' BY <2>5, <2>6, <2>7 DEF DemandKept
  <2>9. Typed'
    BY <1>1, <2>1, <2>4, StepTyped DEF Typed, DemandInv, Moves
  <2> QED BY <1>1, <2>1, <2>8, <2>9, StepTyped DEF DemandInv, Moves
<1>2. CASE Raise
  <2>1. topology' \in Topologies /\ (params.mode # "varying" => topology' = base)
    BY <1>2 DEF Raise, Capacities, Topologies
  <2>2. UNCHANGED <<lambda, unit, base, iteration, failures, params>> /\ status' = "raised" BY <1>2 DEF Raise
  <2>3. Typed' BY <2>1, <2>2 DEF DemandInv, Typed, Topologies
  <2> QED BY <2>1, <2>2, <2>3 DEF DemandInv, DemandKept
<1>3. CASE Stop BY <1>3 DEF Stop, DemandInv, Typed, DemandKept, Topologies
<1>4. CASE UNCHANGED staticVars BY <1>4 DEF staticVars, DemandInv, Typed, DemandKept, Topologies
<1> QED BY <1>1, <1>2, <1>3, <1>4 DEF StaticNext

\* The demand and the types it needs hold throughout a run.
LEMMA DemandAlways == StaticSpec => []DemandInv
<1>1. StaticInit => DemandInv BY DemandInit
<1>2. DemandInv /\ [StaticNext]_staticVars => DemandInv' BY DemandStep
<1> QED BY <1>1, <1>2, PTL DEF StaticSpec

\* Every source keeps sending its whole demand, over links that exist, whatever the
\* step sizes, however many best responses are held and capacities change.
THEOREM DemandIsKept == StaticSpec => []DemandKept
<1>1. DemandInv => DemandKept BY DEF DemandInv
<1> QED BY <1>1, DemandAlways, PTL

-----------------------------------------------------------------------------
(***************************************************************************)
(* The flows, for step sizes up to 1.                                      *)
(***************************************************************************)

\* A step goes at most the whole way.
LEMMA ConvexStep ==
  ASSUME ConvexSteps, DemandInv, NEW target, NEW s, NEW n, NEW d, Moves(target, s, n, d)
  PROVE  params.eta[1] <= params.eta[2] /\ n <= d
<1> DEFINE p == params.eta[1] q == params.eta[2]
<1>1. p \in Nat \ {0} /\ q \in Nat \ {0} /\ p <= q
  BY ParamsTyped DEF ConvexSteps, DemandInv, Typed
<1>2. s[1] \in Nat /\ s[2] \in Nat \ {0} /\ s[1] <= s[2] /\ n = p * s[1] /\ d = q * s[2]
  BY DEF Moves
<1> HIDE DEF p, q
<1>3. p * s[1] <= q * s[1] /\ s[1] * q <= s[2] * q BY <1>1, <1>2, Scaled
<1>4. s[1] * q = q * s[1] /\ s[2] * q = q * s[2] /\ p * s[1] \in Int /\ q * s[1] \in Int /\ q * s[2] \in Int
  BY <1>1, <1>2, ProductTyped
<1> QED BY <1>1, <1>2, <1>3, <1>4 DEF p, q

\* A target is not negative.
LEMMA TargetNatural ==
  ASSUME DemandInv, lambda \in [Links -> Nat], NEW target, NEW s, NEW n, NEW d, Moves(target, s, n, d),
         NEW l \in Links
  PROVE  /\ target[l] \in Nat
         /\ target[l] = lambda[l] \/ target[l] = 0 \/ target[l] < topology'.link[l] * unit
<1>1. unit \in Nat \ {0} /\ topology'.link[l] \in Nat
  BY TopologyTyped DEF Moves, DemandInv, Typed
<1>2. CASE target[l] = lambda[l] BY <1>2
<1>3. CASE target[l] # lambda[l]
  <2>1. PICK y \in Nat : target[l] = unit * y /\ (y = 0 \/ y < topology'.link[l])
    BY <1>3 DEF Moves
  <2>2. unit * y \in Nat /\ unit * y = y * unit BY <1>1, <2>1, ProductTyped
  <2>3. y < topology'.link[l] => y * unit < topology'.link[l] * unit BY <1>1, <2>1, ScaledStrictly
  <2>4. y = 0 => unit * y = 0 BY <1>1
  <2> QED BY <2>1, <2>2, <2>3, <2>4
<1> QED BY <1>2, <1>3

\* What a step does to the flow of a link.
LEMMA LinkMoves ==
  ASSUME ConvexSteps, DemandInv, lambda \in [Links -> Nat], NEW target, NEW s, NEW n, NEW d,
         Moves(target, s, n, d), NEW l \in Links
  PROVE  /\ lambda'[l] \in Nat
         /\ \/ lambda'[l] <= topology'.link[l] * unit'
            \/ lambda'[l] * unit <= lambda[l] * unit'
         /\ topology'.link[l] > 0 /\ lambda[l] < topology'.link[l] * unit =>
              lambda'[l] < topology'.link[l] * unit'
<1> DEFINE a == lambda[l] b == target[l] c == topology'.link[l]
<1>1. /\ a \in Nat /\ b \in Nat /\ c \in Nat /\ unit \in Nat \ {0} /\ n \in Nat /\ d \in Nat \ {0} /\ n <= d
      /\ lambda'[l] = (d - n) * a + n * b /\ unit' = unit * d
  BY ZenonT(40), TargetNatural, ConvexStep, TopologyTyped DEF Moves, DemandInv, Typed, Mixed
<1>2. b = a \/ b = 0 \/ b < c * unit BY TargetNatural
<1> HIDE DEF a, b, c
<1>3. CASE b = 0 \/ b < c * unit
  BY <1>1, <1>3, FlowMoves DEF a, c
<1>4. CASE b = a
  <2>1. (d - n) * a + n * a = a * d BY <1>1
  <2>2. lambda'[l] = a * d BY <1>1, <1>4, <2>1
  <2>3. a * d \in Nat BY <1>1, ProductTyped
  <2>4. (a * d) * unit = a * (unit * d) /\ a * (unit * d) \in Nat
    <3>1. (a * d) * unit = a * (d * unit) /\ d * unit = unit * d BY <1>1, ProductTyped
    <3> QED BY <1>1, <3>1, ProductTyped
  <2>5. a < c * unit => a * d < (c * unit) * d BY <1>1, ScaledStrictly, ProductTyped
  <2>6. (c * unit) * d = c * (unit * d) BY <1>1, ProductTyped
  <2> QED BY <1>1, <2>2, <2>3, <2>4, <2>5, <2>6 DEF a, c
<1> QED BY <1>2, <1>3, <1>4

\* What a step does to the load of a broker.
LEMMA BrokerMoves ==
  ASSUME DemandInv, NEW target, NEW s, NEW n, NEW d, Moves(target, s, n, d), NEW j \in Brokers,
         params.variant = "paper" \/ params.eta[1] <= params.eta[2]
  PROVE  /\ Load(lambda', j) \in Int
         /\ \/ Load(lambda', j) <= (topology'.broker[j] - Margin) * unit'
            \/ Load(lambda', j) * unit <= Load(lambda, j) * unit'
<1> DEFINE a == Load(lambda, j) b == Load(target, j) mu == topology'.broker[j] c == mu - Margin
<1>1. /\ lambda \in [Links -> Int] /\ target \in [Links -> Int] /\ n \in Nat /\ d \in Nat \ {0}
      /\ unit \in Nat \ {0} /\ unit' = unit * d /\ lambda' = Mixed(lambda, target, d - n, n)
      /\ n = params.eta[1] * s[1] /\ d = params.eta[2] * s[2]
      /\ s \in Nat \X (Nat \ {0}) /\ s[1] <= s[2]
  BY DEF Moves, DemandInv, Typed
<1>2. mu \in Nat \ {0}
  <2>1. topology' \in Topologies /\ base \in Bases BY DEF Moves, DemandInv, Typed
  <2> QED BY <2>1, TopologyTyped
<1>3. a \in Int /\ b \in Int BY <1>1, LoadTyped
<1>4. n \in Int /\ d - n \in Int BY <1>1
<1>5. Load(lambda', j) = (d - n) * a + n * b BY <1>1, <1>4, Moved
<1>6. s[1] = 0 \/ AtMost(s, StepBound(mu, a, b - a)) BY DEF Moves
<1>7. params.eta \in (Nat \ {0}) \X (Nat \ {0}) /\ Margin \in Nat
  BY ParamsTyped, StaticConstants DEF DemandInv, Typed
<1> HIDE DEF a, b, mu
<1>8. s[1] # 0 /\ b - a > 0 => n * (b - a) <= (c * unit - a) * d
  <2>1. b - a \in Int /\ mu \in Int BY <1>2, <1>3
  <2> QED BY <1>1, <1>3, <1>6, <1>7, <2>1, WithinHeadroom
<1>9. s[1] = 0 => n = 0 BY <1>1, <1>7
<1>10. c \in Int BY <1>2, <1>7
<1> HIDE DEF c
<1>11. /\ (d - n) * a + n * b \in Int
       /\ n * (b - a) <= (c * unit - a) * d => (d - n) * a + n * b <= c * (unit * d)
       /\ n = 0 \/ b - a <= 0 => ((d - n) * a + n * b) * unit <= a * (unit * d)
  BY <1>1, <1>3, <1>10, SumMoves
<1>12. b - a \in Int BY <1>3
<1>13. \/ Load(lambda', j) <= c * unit'
       \/ Load(lambda', j) * unit <= a * unit'
  BY <1>1, <1>5, <1>8, <1>9, <1>11, <1>12
<1> QED BY <1>5, <1>11, <1>13 DEF a, c, mu

FlowsInv == DemandInv /\ lambda \in [Links -> Nat]

\* With steps of at most the whole way no flow ever becomes negative.
LEMMA FlowsAlways == ConvexSteps => (StaticSpec => []FlowsInv)
<1> SUFFICES ASSUME ConvexSteps PROVE StaticSpec => []FlowsInv OBVIOUS
<1>1. StaticInit => FlowsInv BY DemandInit, InitialFlows DEF FlowsInv
<1>2. ASSUME FlowsInv, [StaticNext]_staticVars PROVE FlowsInv'
  <2>1. DemandInv /\ DemandInv' /\ lambda \in [Links -> Nat] BY <1>2, DemandStep DEF FlowsInv
  <2>2. CASE Step
    <3>1. PICK target, s, n, d : Moves(target, s, n, d) BY <2>1, <2>2, StepMoves
    <3>2. \A l \in Links : lambda'[l] \in Nat BY <2>1, <3>1, LinkMoves
    <3>3. lambda' \in [Links -> Nat] BY <2>1, <3>2 DEF DemandInv, Typed
    <3> QED BY <2>1, <3>3 DEF FlowsInv
  <2>3. CASE lambda' = lambda BY <2>1, <2>3 DEF FlowsInv
  <2> QED BY <1>2, <2>2, <2>3 DEF StaticNext, Raise, Stop, staticVars
<1> QED BY <1>1, <1>2, PTL DEF StaticSpec

\* What the paper's safe step promises of the brokers, and it does for any step size.
BrokersSpared ==
  [][iteration' # iteration /\ params.variant = "paper" =>
       \A j \in Brokers :
         \/ Load(lambda', j) <= (topology'.broker[j] - Margin) * unit'
         \/ Load(lambda', j) * unit <= Load(lambda, j) * unit']_staticVars

\* With the paper's safe step no iteration takes a broker past its capacity less the
\* margin, whatever the step sizes; the links need them to be at most 1.
THEOREM PaperSparesBrokers == StaticSpec => BrokersSpared
<1>1. ASSUME DemandInv, StaticNext, iteration' # iteration, params.variant = "paper"
      PROVE  \A j \in Brokers :
               \/ Load(lambda', j) <= (topology'.broker[j] - Margin) * unit'
               \/ Load(lambda', j) * unit <= Load(lambda, j) * unit'
  <2>1. Step BY <1>1 DEF StaticNext, Raise, Stop
  <2>2. PICK target, s, n, d : Moves(target, s, n, d) BY <1>1, <2>1, StepMoves
  <2> QED BY <1>1, <2>2, BrokerMoves
<1> QED BY <1>1, DemandAlways, PTL DEF StaticSpec, BrokersSpared

\* The variables have values of the kinds their comments say, if no step size is
\* above 1.
THEOREM StaticTyped == ConvexSteps => (StaticSpec => []StaticTypeOK)
<1>1. FlowsInv => StaticTypeOK BY DEF FlowsInv, DemandInv, Typed, StaticTypeOK, Variants
<1> QED BY <1>1, FlowsAlways, PTL

\* No iteration takes a broker past its capacity less the margin or a link past its
\* own, or adds to one a capacity drop left beyond.
THEOREM NoOverload == ConvexSteps => (StaticSpec => NoStepOverloads)
<1> SUFFICES ASSUME ConvexSteps PROVE StaticSpec => NoStepOverloads OBVIOUS
<1>1. ASSUME FlowsInv, StaticNext, iteration' # iteration
      PROVE  /\ \A j \in Brokers :
                  \/ Load(lambda', j) <= (topology'.broker[j] - Margin) * unit'
                  \/ Load(lambda', j) * unit <= Load(lambda, j) * unit'
             /\ \A l \in Links :
                  \/ lambda'[l] <= topology'.link[l] * unit'
                  \/ lambda'[l] * unit <= lambda[l] * unit'
  <2>1. Step BY <1>1 DEF StaticNext, Raise, Stop
  <2>2. DemandInv /\ lambda \in [Links -> Nat] BY <1>1 DEF FlowsInv
  <2>3. PICK target, s, n, d : Moves(target, s, n, d) BY <2>1, <2>2, StepMoves
  <2>4. params.eta[1] <= params.eta[2] BY <2>2, <2>3, ConvexStep
  <2> QED BY <2>2, <2>3, <2>4, BrokerMoves, LinkMoves
<1> QED BY <1>1, FlowsAlways, PTL DEF StaticSpec, NoStepOverloads

\* With fixed capacities the routing is strictly within them.
WithinCapacities ==
  params.mode # "varying" =>
    /\ \A j \in Brokers : Load(lambda, j) < base.broker[j] * unit
    /\ \A l \in Links : base.link[l] > 0 => lambda[l] < base.link[l] * unit

FeasibleInv == FlowsInv /\ WithinCapacities

\* The LP's check leaves half the margin, so the first routing is within the capacities.
LEMMA FeasibleInit ==
  ASSUME MarginKept, StaticInit
  PROVE  FeasibleInv
<1>1. FlowsInv /\ Feasible(lambda) /\ unit = 1 BY DemandInit, InitialFlows DEF FlowsInv
<1>2. Margin \in Nat \ {0} BY StaticConstants DEF MarginKept
<1>3. base \in Topologies /\ base \in Bases BY DEF StaticInit, Topologies
<1>4. ASSUME NEW j \in Brokers PROVE Load(lambda, j) < base.broker[j] * unit
  <2>1. Load(lambda, j) \in Int BY <1>1, LoadTyped DEF FlowsInv, DemandInv, Typed
  <2>2. base.broker[j] \in Nat BY <1>3, TopologyTyped
  <2>3. 2 * (base.broker[j] - Load(lambda, j)) >= Margin BY <1>1 DEF Feasible
  <2> QED BY <1>1, <1>2, <2>1, <2>2, <2>3
<1>5. ASSUME NEW l \in Links, base.link[l] > 0 PROVE lambda[l] < base.link[l] * unit
  <2>1. lambda[l] \in Nat /\ base.link[l] \in Nat BY <1>1, <1>3, TopologyTyped DEF FlowsInv
  <2>2. 2 * (base.link[l] - lambda[l]) >= Margin BY <1>1, <1>5, <2>1 DEF Feasible
  <2> QED BY <1>1, <1>2, <2>1, <2>2
<1> QED BY <1>1, <1>4, <1>5 DEF FeasibleInv, WithinCapacities

\* One iteration keeps within the capacities: the safe step leaves a part of the
\* headroom at every broker and link whose load grows.
LEMMA FeasibleStep ==
  ASSUME ConvexSteps, MarginKept, FeasibleInv, FlowsInv', Step
  PROVE  WithinCapacities'
<1>1. DemandInv /\ lambda \in [Links -> Nat] BY DEF FeasibleInv, FlowsInv
<1>2. PICK target, s, n, d : Moves(target, s, n, d) BY <1>1, StepMoves
<1>3. params.eta[1] <= params.eta[2] BY <1>1, <1>2, ConvexStep
<1>4. base' = base /\ params' = params BY <1>1, StepTyped
<1> SUFFICES ASSUME params.mode # "varying"
             PROVE  /\ \A j \in Brokers : Load(lambda', j) < base.broker[j] * unit'
                    /\ \A l \in Links : base.link[l] > 0 => lambda'[l] < base.link[l] * unit'
  BY <1>4 DEF WithinCapacities
<1>5. topology' = base /\ base \in Bases /\ base \in Topologies
  BY <1>1, <1>2 DEF Moves, DemandInv, Typed, Topologies
<1>6. unit \in Nat \ {0} /\ unit' \in Nat \ {0} BY <1>1 DEF DemandInv, Typed, FlowsInv
<1>7. ASSUME NEW j \in Brokers PROVE Load(lambda', j) < base.broker[j] * unit'
  <2> DEFINE m == Load(lambda', j) a == Load(lambda, j) mu == base.broker[j] u == unit v == unit'
  <2>1. /\ m \in Int /\ a \in Int
        /\ m <= (mu - Margin) * v \/ m * u <= a * v
    BY <1>1, <1>2, <1>3, <1>5, BrokerMoves, LoadTyped DEF DemandInv, Typed
  <2>2. mu \in Nat \ {0} /\ u \in Nat \ {0} /\ v \in Nat \ {0} /\ Margin \in Nat \ {0}
    BY <1>5, <1>6, TopologyTyped, StaticConstants DEF MarginKept
  <2>3. a < mu * u BY DEF FeasibleInv, WithinCapacities
  <2> HIDE DEF m, a, mu, u, v
  <2>4. mu * u \in Int /\ mu * v \in Int /\ (mu - Margin) * v \in Int
    BY <2>2, ProductTyped
  <2>5. CASE m <= (mu - Margin) * v
    <3>1. (mu - Margin) * v < mu * v
      <4>1. mu - Margin < mu /\ mu - Margin \in Int BY <2>2
      <4> QED BY <2>2, <4>1, ScaledStrictly
    <3> QED BY <2>1, <2>4, <2>5, <3>1 DEF m, mu, v
  <2>6. CASE m * u <= a * v
    <3>1. a * v < (mu * u) * v BY <2>1, <2>2, <2>3, <2>4, ScaledStrictly
    <3>2. (mu * u) * v = (mu * v) * u BY <2>2
    <3>3. a * v \in Int /\ m * u \in Int /\ (mu * v) * u \in Int BY <2>1, <2>2, <2>4, ProductTyped
    <3>4. m * u < (mu * v) * u BY <2>6, <3>1, <3>2, <3>3
    <3>5. m < mu * v BY <2>1, <2>2, <2>4, <3>4, Cancelled
    <3> QED BY <3>5 DEF m, mu, v
  <2> QED BY <2>1, <2>5, <2>6
<1>8. ASSUME NEW l \in Links, base.link[l] > 0 PROVE lambda'[l] < base.link[l] * unit'
  <2>1. lambda[l] < base.link[l] * unit BY <1>8 DEF FeasibleInv, WithinCapacities
  <2> QED BY <1>1, <1>2, <1>5, <1>8, <2>1, LinkMoves
<1> QED BY <1>7, <1>8

\* The planned flows stay feasible: every demand is sent, no flow is negative or over
\* a missing link, and fixed capacities are never reached, if no step size is above 1
\* and a margin is kept.
THEOREM AlwaysFeasible == ConvexSteps /\ MarginKept => (StaticSpec => []RoutingFeasible)
<1> SUFFICES ASSUME ConvexSteps, MarginKept PROVE StaticSpec => []RoutingFeasible OBVIOUS
<1>1. StaticInit => FeasibleInv BY FeasibleInit
<1>2. ASSUME FeasibleInv, FlowsInv', [StaticNext]_staticVars PROVE FeasibleInv'
  <2>1. CASE Step BY <1>2, <2>1, FeasibleStep DEF FeasibleInv
  <2>2. CASE UNCHANGED <<lambda, unit, base, params>>
    BY <1>2, <2>2 DEF FeasibleInv, WithinCapacities
  <2> QED BY <1>2, <2>1, <2>2 DEF StaticNext, Raise, Stop, staticVars
<1>3. FeasibleInv => RoutingFeasible
  <2>1. ASSUME FeasibleInv, NEW l \in Links PROVE lambda[l] >= 0
    BY <2>1 DEF FeasibleInv, FlowsInv
  <2> QED BY <2>1 DEF FeasibleInv, FlowsInv, DemandInv, DemandKept, WithinCapacities, RoutingFeasible
<1> QED BY <1>1, <1>2, <1>3, FlowsAlways, PTL DEF StaticSpec

-----------------------------------------------------------------------------
(***************************************************************************)
(* The notebook's run.                                                     *)
(***************************************************************************)

\* The two modules add up in the same way.
LEMMA SameSums ==
  /\ \A f : N!SumFunction(f) = SumFunction(f)
  /\ \A r, j : N!Load(r, j) = Load(r, j)
<1>1. \A f : N!SumFunction(f) = SumFunction(f)
  BY DEF N!SumFunction, SumFunction, N!SumFunctionOnSet, SumFunctionOnSet,
         N!FoldFunctionOnSet, FoldFunctionOnSet, N!MapThenFoldSet, MapThenFoldSet
<1> QED BY <1>1 DEF N!Load, Load

\* The bounds of the notebook are those of its growing brokers.
LEMMA SameBounds ==
  ASSUME DemandInv, params.variant = "notebook", NEW target \in [Links -> Int]
  PROVE  N!SafeFraction([j \in Brokers |-> Load(target, j) - Load(lambda, j)])
           = SafeStep(Bounds(base, target))
<1> DEFINE growth == [j \in Brokers |-> Load(target, j) - Load(lambda, j)]
           headroom(j) == (base.broker[j] - Margin) * unit - Load(lambda, j)
           bound(j) == Smaller(<<1, 1>>, <<headroom(j), growth[j]>>)
           growing == {j \in Brokers : growth[j] > 0}
           U == {bound(j) : j \in growing} \cup {<<1, 1>>}
           V == Bounds(base, target) \cup {<<1, 1>>}
<1>1. \A j \in Brokers : Load(lambda, j) \in Int /\ Load(target, j) \in Int
  BY LoadTyped DEF DemandInv, Typed
<1>2. \A j \in Brokers : growth[j] \in Int /\ growth[j] = Load(target, j) - Load(lambda, j) BY <1>1
<1>3. \A j \in Brokers : StepBound(base.broker[j], Load(lambda, j), growth[j]) =
                         IF growth[j] <= 0 THEN <<1, 1>> ELSE bound(j)
  BY DEF StepBound
<1>4. \A j \in Brokers : growth[j] > 0 <=> ~(growth[j] <= 0) BY <1>2
<1>5. Bounds(base, target) = {StepBound(base.broker[j], Load(lambda, j), growth[j]) : j \in Brokers}
  BY DEF Bounds
<1>6. U = V
  <2> HIDE DEF growth, bound
  <2> QED BY <1>3, <1>4, <1>5
<1>7. \A a, b : N!AtMost(a, b) <=> AtMost(a, b) BY DEF N!AtMost, AtMost
<1>8. \A a, b : N!Smaller(a, b) = Smaller(a, b) BY <1>7 DEF N!Smaller, Smaller
<1>9. \A S : N!Least(S) = Least(S) BY <1>7 DEF N!Least, Least
<1>10. \A r, j : N!Load(r, j) = Load(r, j) BY SameSums
<1>11. N!SafeFraction(growth) =
         LET s == N!Least({N!Smaller(<<1, 1>>, <<(base.broker[j] - Margin) * unit - N!Load(lambda, j),
                                              growth[j]>>) : j \in growing} \cup {<<1, 1>>})
         IN  IF s[1] < 0 THEN <<0, 1>> ELSE s
  BY DEF N!SafeFraction
<1>12. N!SafeFraction(growth) = LET s == Least(U) IN IF s[1] < 0 THEN <<0, 1>> ELSE s
  BY <1>8, <1>9, <1>10, <1>11
<1>13. SafeStep(Bounds(base, target)) = LET s == Least(V) IN IF s[1] < 0 THEN <<0, 1>> ELSE s
  BY DEF SafeStep
<1> HIDE DEF U, V
<1> QED BY <1>6, <1>12, <1>13

\* An iteration of the notebook's variant, with nothing held and capacities that stay,
\* is an iteration of the notebook's algorithm.
LEMMA NotebookStep ==
  ASSUME DemandInv, Comparable, Step, failures' = {}
  PROVE  N!Iterate
<1>1. DemandInv /\ params.variant = "notebook" /\ params.mode # "varying" BY DEF Comparable
<1>2. topology' = base BY <1>1 DEF Step, Capacities
<1>3. PICK x \in Responses({}, base) : Iterate({}, x)
  <2>1. PICK failed \in Failing(topology') : \E x \in Responses(failed, topology') : Iterate(failed, x)
    BY DEF Step
  <2>2. failed = {} BY <2>1 DEF Iterate
  <2> QED BY <1>2, <2>1, <2>2
<1>4. \A i \in Sources : N!BestResponses(i) = BestResponses(i, base)
  BY SameSums DEF N!BestResponses, BestResponses
<1>5. /\ x \in [Sources -> UNION {N!BestResponses(i) : i \in Sources}]
      /\ \A i \in Sources : x[i] \in N!BestResponses(i)
  <2>1. \A i \in Sources : x[i] \in BestResponses(i, base) BY DEF Responses
  <2>2. \A i \in Sources : x[i] \in N!BestResponses(i) BY <1>4, <2>1
  <2>3. DOMAIN x = Sources /\ x = [i \in Sources |-> x[i]] BY DEF Responses
  <2> QED BY <2>2, <2>3
<1> DEFINE target == [k \in Links |-> unit * x[k[1]][k[2]]]
           growth == [j \in Brokers |-> Load(target, j) - Load(lambda, j)]
           s == N!SafeFraction(growth)
           p == params.eta[1] q == params.eta[2]
<1>6. target = Targets({}, x) BY DEF Targets
<1>7. base \in Topologies BY DEF Topologies
<1>8. target \in [Links -> Int] /\ {} \in SUBSET Sources
  <2> HIDE DEF target
  <2> QED BY <1>1, <1>6, <1>7, TargetIs
<1>9. s = SafeStep(Bounds(base, target))
  <2> HIDE DEF target
  <2> QED BY <1>1, <1>8, SameBounds
<1>10. /\ lambda' = [l \in Links |-> (q * s[2] - p * s[1]) * lambda[l] + (p * s[1]) * target[l]]
       /\ unit' = unit * (q * s[2]) /\ iteration' = iteration + 1
  <2> HIDE DEF target, s
  <2>1. Iterate({}, x) BY <1>3
  <2> QED BY <1>2, <1>6, <1>9, <2>1 DEF Iterate
<1>11. s \in Nat \X (Nat \ {0})
  <2> HIDE DEF target, s
  <2>1. Bounds(base, target) \in SUBSET Fractions /\ IsFiniteSet(Bounds(base, target))
    BY <1>1, <1>7, <1>8, BoundsTyped
  <2> QED BY <1>9, <2>1, SafeStepIs
<1>12. /\ lambda \in [Links -> Int] /\ unit \in Nat \ {0} /\ p \in Nat \ {0} /\ q \in Nat \ {0}
  BY ParamsTyped DEF DemandInv, Typed
<1>13. unit' = unit * q * s[2]
  <2> HIDE DEF s
  <2>1. unit * (q * s[2]) = unit * q * s[2] BY <1>11, <1>12, ProductTyped
  <2> QED BY <1>10, <2>1
<1>14. lambda' = [l \in Links |-> q * s[2] * lambda[l] + p * s[1] * (target[l] - lambda[l])]
  <2> HIDE DEF s, target
  <2>1. \A a, b, c, e \in Int : (a - b) * c + b * e = a * c + b * (e - c) OBVIOUS
  <2>2. q * s[2] \in Int /\ p * s[1] \in Int
    <3>1. p \in Int /\ q \in Int /\ s[1] \in Int /\ s[2] \in Int BY <1>11, <1>12
    <3>2. \A a, b \in Int : a * b \in Int BY ProductTyped
    <3> QED BY <3>1, <3>2
  <2>3. \A l \in Links : lambda[l] \in Int /\ target[l] \in Int BY <1>8, <1>12
  <2>4. \A l \in Links : (q * s[2] - p * s[1]) * lambda[l] + (p * s[1]) * target[l] =
                        q * s[2] * lambda[l] + p * s[1] * (target[l] - lambda[l])
    BY <2>1, <2>2, <2>3
  <2> QED BY <1>10, <2>4
<1>15. N!Links = Links BY DEF N!Links, Links
<1>16. growth = [j \in Brokers |-> N!Load(target, j) - N!Load(lambda, j)] BY SameSums
<1>17. status = "running" /\ base' = base /\ params' = params /\ status' = status BY DEF Step
<1>18. \E br \in [Sources -> UNION {N!BestResponses(i) : i \in Sources}] :
         /\ \A i \in Sources : br[i] \in N!BestResponses(i)
         /\ LET tt == [k \in N!Links |-> unit * br[k[1]][k[2]]]
                ss == N!SafeFraction([j \in Brokers |-> N!Load(tt, j) - N!Load(lambda, j)])
            IN  /\ unit' = unit * q * ss[2]
                /\ lambda' = [k \in N!Links |-> q * ss[2] * lambda[k] + p * ss[1] * (tt[k] - lambda[k])]
  <2>1. target = [k \in N!Links |-> unit * x[k[1]][k[2]]] BY <1>15
  <2> HIDE DEF target
  <2> DEFINE ss == N!SafeFraction([j \in Brokers |-> N!Load(target, j) - N!Load(lambda, j)])
  <2>2. ss = s BY <1>16
  <2> HIDE DEF s, ss
  <2>3. /\ unit' = unit * q * ss[2]
        /\ lambda' = [k \in N!Links |-> q * ss[2] * lambda[k] + p * ss[1] * (target[k] - lambda[k])]
    BY <1>13, <1>14, <1>15, <2>2
  <2> QED BY <1>5, <2>1, <2>3 DEF ss
<1> QED BY <1>10, <1>17, <1>18 DEF N!Iterate

\* What safe_step_bounds calls the notebook's form is the notebook's: with it a run
\* is one of the reference implementation, as long as no best response is held.
THEOREM ImplementsNotebook == StaticSpec => FollowsNotebook
<1>1. ASSUME StaticInit, N!Transports(lambda, unit) PROVE N!Init
  <2>1. /\ base \in Bases /\ iteration = 0 /\ status = "running" /\ params.eta \in Etas /\ unit = 1
        /\ lambda \in [Links -> 0 .. Max({Demand[i] : i \in Sources})]
    BY <1>1 DEF StaticInit
  <2>2. N!Whole = 0 .. Max({Demand[i] : i \in Sources}) BY DEF N!Whole, N!Max, Max
  <2>3. lambda \in [N!Links -> N!Whole] BY <2>1, <2>2 DEF N!Links, Links
  <2> QED BY <1>1, <2>1, <2>3 DEF N!Init
<1>2. ASSUME DemandInv, StaticNext, Comparable, failures' = {} PROVE N!Next
  <2>1. CASE Step BY <1>2, <2>1, NotebookStep DEF N!Next
  <2>2. CASE Raise BY <2>2 DEF Raise, N!Next, N!Raise
  <2>3. CASE Stop BY <2>3 DEF Stop, N!Next, N!Stop
  <2> QED BY <1>2, <2>1, <2>2, <2>3 DEF StaticNext
<1>3. UNCHANGED staticVars => UNCHANGED N!vars BY DEF staticVars, N!vars
<1> QED BY <1>1, <1>2, <1>3, DemandAlways, PTL DEF StaticSpec, FollowsNotebook

-----------------------------------------------------------------------------
(***************************************************************************)
(* The certificate: the cost of a queue, and of a routing.                 *)
(***************************************************************************)

\* The delay of a queue is convex, and its marginal cost the slope: with a and b the
\* scaled delays where u and v are left of the capacity, a flow of mu - v costs at least
\* what the tangent at mu - u says.
LEMMA Tangent ==
  ASSUME NEW mu \in Nat, NEW u \in Nat \ {0}, NEW v \in Nat \ {0}, NEW a \in Nat, NEW b \in Nat,
         a * u = b * v
  PROVE  (mu * a * a) * (u - v) <= (a * u) * ((mu - v) * b - (mu - u) * a)
<1> DEFINE s == a * u w == b - a
<1>1. s \in Nat /\ mu * v \in Nat /\ w \in Int BY ProductTyped
<1>2. s * ((mu - v) * b - (mu - u) * a) = mu * (s * w)
  <2>1. (mu - v) * b = mu * b - s /\ (mu - u) * a = mu * a - s OBVIOUS
  <2>2. (mu - v) * b - (mu - u) * a = mu * w BY <2>1, <1>1, ProductTyped
  <2> HIDE DEF s, w
  <2>3. s * (mu * w) = mu * (s * w) BY <1>1
  <2> QED BY <2>2, <2>3
<1>3. (mu * a * a) * (u - v) = mu * (a * (s - a * v))
  OBVIOUS
<1>4. s * w - a * (s - a * v) = v * (w * w)
  <2>1. s * w = (v * b) * w BY ProductTyped
  <2>2. s - a * v = v * w BY <1>1
  <2> HIDE DEF s
  <2>3. a * (s - a * v) = (v * a) * w BY <1>1, <2>2
  <2>4. (v * b) * w - (v * a) * w = v * (w * w) OBVIOUS
  <2> QED BY <2>1, <2>3, <2>4
<1>5. w * w \in Nat
  <2>1. \A i \in Int : i * i \in Nat OBVIOUS
  <2> QED BY <1>1, <2>1
<1>6. v * (w * w) \in Nat BY <1>5, ProductTyped
<1>7. s * w \in Int /\ a * (s - a * v) \in Int BY <1>1
<1> HIDE DEF s, w
<1>8. a * (s - a * v) <= s * w BY <1>4, <1>6, <1>7
<1>9. mu * (a * (s - a * v)) <= mu * (s * w) BY <1>7, <1>8, Scaled, ProductTyped
<1> QED BY <1>2, <1>3, <1>9 DEF s

\* What a queue costs is a natural number.
LEMMA CostTyped ==
  ASSUME NEW mu \in Nat, NEW x \in Nat
  PROVE  /\ Cost(mu, x) \in Nat
         /\ x < mu => WeightedDelay(mu, x) \in Nat
<1>1. ASSUME x < mu PROVE Scale \div (mu - x) \in Nat
  <2>1. mu - x \in Nat \ {0} BY <1>1
  <2> QED BY <2>1, CertificateConstants
<1>2. CASE x < mu
  <2>1. Cost(mu, x) = mu * (Scale \div (mu - x)) * (Scale \div (mu - x)) BY <1>2 DEF Cost
  <2> QED BY <1>1, <1>2, <2>1, ProductTyped DEF WeightedDelay
<1>3. CASE ~(x < mu) BY <1>3 DEF Cost, Huge
<1> QED BY <1>2, <1>3

\* From one flow to another a queue's weighted delay grows by the marginal cost of
\* the first at least.
LEMMA QueueConvex ==
  ASSUME NEW mu \in Nat, NEW x \in Nat, NEW y \in Nat, x < mu, y < mu,
         Scale % (mu - x) = 0, Scale % (mu - y) = 0
  PROVE  Cost(mu, x) * (y - x) <= Scale * (WeightedDelay(mu, y) - WeightedDelay(mu, x))
<1> DEFINE u == mu - x v == mu - y a == Scale \div u b == Scale \div v
<1>1. u \in Nat \ {0} /\ v \in Nat \ {0} /\ Scale \in Nat BY CertificateConstants
<1>2. \A n \in Nat, d \in Nat \ {0} : n \div d \in Nat /\ (n % d = 0 => n = (n \div d) * d)
  OBVIOUS
<1>3. a \in Nat /\ b \in Nat /\ a * u = Scale /\ b * v = Scale
  <2> HIDE DEF u, v
  <2>1. Scale % u = 0 /\ Scale % v = 0 BY DEF u, v
  <2> QED BY <1>1, <1>2, <2>1
<1>4. mu - v = y /\ mu - u = x /\ u - v = y - x OBVIOUS
<1>5. Cost(mu, x) = mu * a * a BY DEF Cost
<1>6. WeightedDelay(mu, y) = y * b /\ WeightedDelay(mu, x) = x * a
  <2> HIDE DEF a, b
  <2>1. \A k \in Nat : 0 * k = 0 OBVIOUS
  <2> QED BY <1>3, <2>1 DEF WeightedDelay, a, b, u, v
<1> HIDE DEF u, v, a, b
<1>7. (mu * a * a) * (u - v) <= (a * u) * ((mu - v) * b - (mu - u) * a)
  BY <1>1, <1>3, Tangent
<1> QED BY <1>3, <1>4, <1>5, <1>6, <1>7

-----------------------------------------------------------------------------
\* What a routing of the whole demand is made of.
LEMMA RowTyped ==
  ASSUME NEW t, IsTopology(t), NEW r \in RoutingsOf(t), NEW i \in Sources
  PROVE  /\ r[i] \in [Brokers -> Nat] /\ r[i] \in Rows(t, i)
         /\ SumFunction(r[i]) = t.demand[i] /\ t.demand[i] \in Nat
         /\ \A j \in Brokers : /\ r[i][j] \in 0 .. t.demand[i] /\ r[i][j] % t.grid = 0
                               /\ t.link[i][j] \in Nat
                               /\ j \notin Available(t, i) => r[i][j] = 0 /\ t.link[i][j] = 0
<1>1. r[i] \in Rows(t, i) BY DEF RoutingsOf
<1>2. /\ r[i] \in [Brokers -> {x \in 0 .. t.demand[i] : x % t.grid = 0}]
      /\ RowSum(r[i]) = t.demand[i] /\ \A j \in Brokers \ Available(t, i) : r[i][j] = 0
  BY <1>1 DEF Rows
<1>3. t.demand[i] \in Nat /\ \A j \in Brokers : t.link[i][j] \in Nat BY DEF IsTopology
<1>4. r[i] = [j \in Brokers |-> r[i][j]] BY <1>2
<1>5. SumFunction(r[i]) = t.demand[i] BY <1>2, <1>4 DEF RowSum
<1>6. \A j \in Brokers : r[i][j] \in 0 .. t.demand[i] /\ r[i][j] % t.grid = 0 BY <1>2
<1>7. r[i] \in [Brokers -> Nat] BY <1>3, <1>4, <1>6
<1>8. \A j \in Brokers : j \notin Available(t, i) => t.link[i][j] = 0
  BY <1>3 DEF Available
<1> QED BY <1>1, <1>2, <1>3, <1>5, <1>6, <1>7, <1>8

\* The load of a broker.
LEMMA BrokerLoadTyped ==
  ASSUME NEW t, IsTopology(t), NEW r \in RoutingsOf(t), NEW j \in Brokers
  PROVE  BrokerLoad(r, j) \in Nat
<1>1. [i \in Sources |-> r[i][j]] \in [Sources -> Nat] BY RowTyped
<1> QED BY <1>1, SumNatural, CertificateConstants DEF BrokerLoad

\* A feasible routing is below the capacities it uses, and below the others too.
LEMMA FeasibleTyped ==
  ASSUME NEW t, IsTopology(t), NEW r \in FeasibleRoutings(t)
  PROVE  /\ r \in RoutingsOf(t) /\ BelowCapacities(t, r)
         /\ \A i \in Sources : \A j \in Available(t, i) : j \in Brokers /\ r[i][j] < t.link[i][j]
         /\ \A j \in Brokers : /\ BrokerLoad(r, j) \in Nat /\ t.broker[j] \in Nat
                               /\ BrokerLoad(r, j) < t.broker[j]
<1>1. r \in RoutingsOf(t) /\ BelowCapacities(t, r) BY DEF FeasibleRoutings
<1>2. ASSUME NEW i \in Sources, NEW j \in Available(t, i)
      PROVE  j \in Brokers /\ r[i][j] < t.link[i][j]
  <2>1. j \in Brokers /\ t.link[i][j] > 0 BY DEF Available
  <2>2. r[i][j] \in Nat BY <1>1, <2>1, RowTyped
  <2>3. r[i][j] > 0 => r[i][j] < t.link[i][j] BY <1>1, <2>1 DEF BelowCapacities
  <2>4. t.link[i][j] \in Nat BY <2>1 DEF IsTopology
  <2> QED BY <2>1, <2>2, <2>3, <2>4
<1>3. \A j \in Brokers : BrokerLoad(r, j) < t.broker[j] BY <1>1 DEF BelowCapacities
<1>4. \A j \in Brokers : BrokerLoad(r, j) \in Nat BY <1>1, BrokerLoadTyped
<1>5. \A j \in Brokers : t.broker[j] \in Nat BY DEF IsTopology
<1> QED BY <1>1, <1>2, <1>3, <1>4, <1>5

\* The two sums of the objective.
AccessDelays(t, r) ==
  SumFunction([i \in Sources |-> SumFunction([j \in Brokers |-> WeightedDelay(t.link[i][j], r[i][j])])])
BrokerDelays(t, r) == SumFunction([j \in Brokers |-> WeightedDelay(t.broker[j], BrokerLoad(r, j))])

\* The objective of a feasible routing is their sum, a natural number.
LEMMA ObjectiveIs ==
  ASSUME NEW t, IsTopology(t), NEW r \in FeasibleRoutings(t)
  PROVE  /\ \A i \in Sources :
              [j \in Brokers |-> WeightedDelay(t.link[i][j], r[i][j])] \in [Brokers -> Nat]
         /\ [j \in Brokers |-> WeightedDelay(t.broker[j], BrokerLoad(r, j))] \in [Brokers -> Nat]
         /\ AccessDelays(t, r) \in Nat /\ BrokerDelays(t, r) \in Nat
         /\ SystemObjective(t, r) = AccessDelays(t, r) + BrokerDelays(t, r)
<1>1. ASSUME NEW i \in Sources, NEW j \in Brokers
      PROVE  WeightedDelay(t.link[i][j], r[i][j]) \in Nat
  <2>1. r \in RoutingsOf(t) BY FeasibleTyped
  <2>2. r[i][j] \in Nat /\ t.link[i][j] \in Nat BY <2>1, RowTyped
  <2>3. CASE j \in Available(t, i) BY <2>2, <2>3, FeasibleTyped, CostTyped
  <2>4. CASE j \notin Available(t, i)
    <3>1. r[i][j] = 0 BY <2>1, <2>4, RowTyped
    <3> QED BY <3>1 DEF WeightedDelay
  <2> QED BY <2>3, <2>4
<1>2. \A j \in Brokers : WeightedDelay(t.broker[j], BrokerLoad(r, j)) \in Nat
  BY FeasibleTyped, CostTyped
<1>3. \A i \in Sources : [j \in Brokers |-> WeightedDelay(t.link[i][j], r[i][j])] \in [Brokers -> Nat]
  BY <1>1
<1>4. [j \in Brokers |-> WeightedDelay(t.broker[j], BrokerLoad(r, j))] \in [Brokers -> Nat] BY <1>2
<1>5. \A i \in Sources : SumFunction([j \in Brokers |-> WeightedDelay(t.link[i][j], r[i][j])]) \in Nat
  BY <1>3, SumNatural, CertificateConstants
<1>6. AccessDelays(t, r) \in Nat
  <2> DEFINE row(i) == SumFunction([j \in Brokers |-> WeightedDelay(t.link[i][j], r[i][j])])
             f == [i \in Sources |-> row(i)]
  <2>1. \A i \in Sources : row(i) \in Nat BY <1>5
  <2> HIDE DEF row
  <2>2. f \in [Sources -> Nat] BY <2>1
  <2> HIDE DEF f
  <2>3. SumFunction(f) \in Nat BY <2>2, SumNatural, CertificateConstants
  <2> QED BY <2>3 DEF AccessDelays, f, row
<1>7. BrokerDelays(t, r) \in Nat BY <1>4, SumNatural, CertificateConstants DEF BrokerDelays
<1>8. BelowCapacities(t, r) BY FeasibleTyped
<1> QED BY <1>3, <1>4, <1>6, <1>7, <1>8 DEF SystemObjective, AccessDelays, BrokerDelays

-----------------------------------------------------------------------------
\* No row is cheaper than the best response, at the marginal costs and prices of it:
\* what is moved to a route costs what its cheapest route does at least.
LEMMA RowOptimal ==
  ASSUME NEW t, IsTopology(t), NEW r \in FeasibleRoutings(t), NEW z \in FeasibleRoutings(t),
         NEW p \in [Brokers -> Int], NEW i \in Sources, IsBestResponse(t, r, i, p)
  PROVE  0 <= SumFunction([j \in Brokers |-> (AccessCost(t, r, i, j) + p[j]) * (z[i][j] - r[i][j])])
<1> DEFINE M(j) == AccessCost(t, r, i, j) + p[j]
           h == [j \in Brokers |-> M(j) * (z[i][j] - r[i][j])]
<1>1. r \in RoutingsOf(t) /\ z \in RoutingsOf(t) BY FeasibleTyped
<1>2. /\ r[i] \in [Brokers -> Nat] /\ z[i] \in [Brokers -> Nat]
      /\ SumFunction(r[i]) = t.demand[i] /\ SumFunction(z[i]) = t.demand[i] /\ t.demand[i] \in Nat
  BY <1>1, RowTyped
<1>3. r[i] \in [Brokers -> Int] /\ z[i] \in [Brokers -> Int] BY <1>2
<1>4. \A j \in Brokers : /\ r[i][j] \in Nat /\ z[i][j] \in Nat /\ z[i][j] <= t.demand[i]
                         /\ j \notin Available(t, i) => r[i][j] = 0 /\ z[i][j] = 0
  <2>1. TAKE j \in Brokers
  <2>2. z[i][j] \in 0 .. t.demand[i] BY <1>1, RowTyped
  <2> QED BY <1>1, <1>2, <2>2, RowTyped
<1>5. \A j \in Brokers : M(j) \in Int
  <2>1. TAKE j \in Brokers
  <2>2. AccessCost(t, r, i, j) \in Nat BY <1>1, RowTyped, CostTyped DEF AccessCost
  <2>3. p[j] \in Int OBVIOUS
  <2> QED BY <2>2, <2>3
<1>6. \A j \in Available(t, i) : j \in Brokers BY DEF Available
<1>7. \A j \in Used(t, r, i) : j \in Available(t, i) BY DEF Used
<1>8. \A j \in Used(t, r, i), k \in Available(t, i) : M(j) <= M(k) BY DEF IsBestResponse
<1>9. \A j \in Available(t, i) : j \notin Used(t, r, i) => r[i][j] = 0
  <2>1. \A j \in Available(t, i) : j \notin Used(t, r, i) => ~(r[i][j] > 0) BY DEF Used
  <2> QED BY <1>4, <1>6, <2>1
<1> HIDE DEF M
<1>10. h \in [Brokers -> Int] BY <1>4, <1>5
<1>11. \E m \in Int : \A j \in Brokers : m * (z[i][j] - r[i][j]) <= h[j]
  <2>1. CASE Used(t, r, i) = {}
    <3>1. \A j \in Brokers : r[i][j] = 0 BY <1>4, <1>9, <2>1
    <3>2. r[i] = [j \in Brokers |-> 0] BY <1>2, <3>1
    <3>3. t.demand[i] = 0 BY <1>2, <3>2, SumFunctionZero, CertificateConstants
    <3>4. \A j \in Brokers : z[i][j] = 0 BY <1>4, <3>3
    <3>5. \A j \in Brokers : 0 * (z[i][j] - r[i][j]) = 0 /\ h[j] = 0
      <4>1. TAKE j \in Brokers
      <4>2. z[i][j] - r[i][j] = 0 BY <3>1, <3>4
      <4>3. M(j) * 0 = 0 BY <1>5
      <4> QED BY <4>2, <4>3
    <3> HIDE DEF h
    <3> QED BY <3>5
  <2>2. CASE Used(t, r, i) # {}
    <3>1. PICK k \in Used(t, r, i) : TRUE BY <2>2
    <3>2. M(k) \in Int /\ k \in Brokers BY <1>5, <1>6, <1>7, <3>1
    <3>3. ASSUME NEW j \in Brokers PROVE M(k) * (z[i][j] - r[i][j]) <= M(j) * (z[i][j] - r[i][j])
      <4>1. z[i][j] - r[i][j] \in Int /\ M(j) \in Int BY <1>4, <1>5
      <4>2. CASE j \in Used(t, r, i)
        <5>1. M(j) = M(k) BY <1>5, <1>6, <1>7, <1>8, <3>1, <3>2, <4>2
        <5>2. M(k) * (z[i][j] - r[i][j]) \in Int BY <3>2, <4>1, ProductTyped
        <5> QED BY <5>1, <5>2
      <4>3. CASE j \in Available(t, i) /\ j \notin Used(t, r, i)
        <5>1. r[i][j] = 0 BY <1>9, <4>3
        <5>2. z[i][j] - r[i][j] \in Nat BY <1>4, <5>1
        <5>3. M(k) <= M(j) BY <1>8, <3>1, <4>3
        <5> QED BY <3>2, <4>1, <5>2, <5>3, Scaled
      <4>4. CASE j \notin Available(t, i)
        <5>1. z[i][j] - r[i][j] = 0 BY <1>4, <4>4
        <5>2. M(k) * 0 = 0 /\ M(j) * 0 = 0 BY <3>2, <4>1
        <5> QED BY <5>1, <5>2
      <4> QED BY <4>2, <4>3, <4>4
    <3> QED BY <3>2, <3>3
  <2> QED BY <2>1, <2>2
<1>12. PICK m \in Int : \A j \in Brokers : m * (z[i][j] - r[i][j]) <= h[j] BY <1>11
<1> HIDE DEF h
<1>13. m * (SumFunction(z[i]) - SumFunction(r[i])) <= SumFunction(h)
  BY <1>3, <1>10, <1>12, SumOfDifferences, CertificateConstants
<1>14. SumFunction(z[i]) - SumFunction(r[i]) = 0 BY <1>2
<1>15. m * 0 = 0 OBVIOUS
<1>16. 0 <= SumFunction(h) BY <1>13, <1>14, <1>15
<1> QED BY <1>16 DEF h, M

\* What an access delay grows by, from one feasible routing to another.
LEMMA LinkConvex ==
  ASSUME NEW t, IsTopology(t), Exact(t), NEW r \in FeasibleRoutings(t),
         NEW z \in FeasibleRoutings(t), NEW i \in Sources, NEW j \in Brokers
  PROVE  /\ AccessCost(t, r, i, j) \in Int /\ z[i][j] - r[i][j] \in Int
         /\ AccessCost(t, r, i, j) * (z[i][j] - r[i][j])
              <= Scale * (WeightedDelay(t.link[i][j], z[i][j]) - WeightedDelay(t.link[i][j], r[i][j]))
<1>1. r \in RoutingsOf(t) /\ z \in RoutingsOf(t) BY FeasibleTyped
<1>2. r[i][j] \in Nat /\ z[i][j] \in Nat /\ t.link[i][j] \in Nat BY <1>1, RowTyped
<1>3. AccessCost(t, r, i, j) \in Nat BY <1>2, CostTyped DEF AccessCost
<1>4. CASE j \in Available(t, i)
  <2>1. r[i][j] < t.link[i][j] /\ z[i][j] < t.link[i][j] BY <1>4, FeasibleTyped
  <2>2. Scale % (t.link[i][j] - r[i][j]) = 0 /\ Scale % (t.link[i][j] - z[i][j]) = 0
    BY <1>4 DEF Exact
  <2> QED BY <1>2, <1>3, <2>1, <2>2, QueueConvex DEF AccessCost
<1>5. CASE j \notin Available(t, i)
  <2>1. r[i][j] = 0 /\ z[i][j] = 0 BY <1>1, <1>5, RowTyped
  <2>2. WeightedDelay(t.link[i][j], 0) = 0 BY DEF WeightedDelay
  <2>3. AccessCost(t, r, i, j) * 0 = 0 /\ Scale * 0 = 0 BY <1>3, CertificateConstants
  <2> QED BY <1>3, <2>1, <2>2, <2>3
<1> QED BY <1>4, <1>5

\* What a broker's delay grows by.
LEMMA BrokerConvex ==
  ASSUME NEW t, IsTopology(t), Exact(t), NEW r \in FeasibleRoutings(t),
         NEW z \in FeasibleRoutings(t), NEW j \in Brokers
  PROVE  /\ Prices(t, r)[j] \in Int /\ BrokerLoad(z, j) \in Int /\ BrokerLoad(r, j) \in Int
         /\ Prices(t, r)[j] * (BrokerLoad(z, j) - BrokerLoad(r, j))
              <= Scale * (WeightedDelay(t.broker[j], BrokerLoad(z, j))
                            - WeightedDelay(t.broker[j], BrokerLoad(r, j)))
<1>1. /\ BrokerLoad(r, j) \in Nat /\ BrokerLoad(z, j) \in Nat /\ t.broker[j] \in Nat
      /\ BrokerLoad(r, j) < t.broker[j] /\ BrokerLoad(z, j) < t.broker[j]
  BY FeasibleTyped
<1>2. Scale % (t.broker[j] - BrokerLoad(r, j)) = 0 /\ Scale % (t.broker[j] - BrokerLoad(z, j)) = 0
  BY DEF Exact
<1>3. Prices(t, r)[j] = Cost(t.broker[j], BrokerLoad(r, j)) BY DEF Prices
<1>4. Prices(t, r)[j] \in Nat BY <1>1, <1>3, CostTyped
<1> QED BY <1>1, <1>2, <1>3, <1>4, QueueConvex

\* Proposition 1: a feasible routing that is a best response to its own prices has the
\* least objective of all.
LEMMA BestIsOptimal ==
  ASSUME NEW t, IsTopology(t), Exact(t), NEW r \in FeasibleRoutings(t),
         \A i \in Sources : IsBestResponse(t, r, i, Prices(t, r)), NEW z \in FeasibleRoutings(t)
  PROVE  SystemObjective(t, r) <= SystemObjective(t, z)
<1> DEFINE p == Prices(t, r)
           A(i, j) == AccessCost(t, r, i, j)
           d(i, j) == z[i][j] - r[i][j]
           w(x, i) == [j \in Brokers |-> WeightedDelay(t.link[i][j], x[i][j])]
           links == [i \in Sources |-> [j \in Brokers |-> A(i, j) * d(i, j)]]
           brokers == [i \in Sources |-> [j \in Brokers |-> p[j] * d(i, j)]]
           both == [i \in Sources |-> [j \in Brokers |-> (A(i, j) + p[j]) * d(i, j)]]
           Sum(f) == SumFunction([i \in Sources |-> SumFunction(f[i])])
<1>1. IsFiniteSet(Sources) /\ IsFiniteSet(Brokers) /\ Scale \in Nat \ {0} BY CertificateConstants
<1>2. \A i \in Sources, j \in Brokers : A(i, j) \in Int /\ d(i, j) \in Int BY LinkConvex
<1>3. p \in [Brokers -> Int]
  <2>1. \A j \in Brokers : p[j] \in Int BY BrokerConvex
  <2>2. p = [j \in Brokers |-> p[j]] BY DEF Prices
  <2> QED BY <2>1, <2>2
<1>4. \A i \in Sources : 0 <= SumFunction(both[i]) BY <1>3, RowOptimal
<1>5. \A i \in Sources : /\ links[i] \in [Brokers -> Int] /\ brokers[i] \in [Brokers -> Int]
                         /\ both[i] \in [Brokers -> Int]
                         /\ both[i] = [j \in Brokers |-> 1 * links[i][j] + 1 * brokers[i][j]]
  <2>1. \A a, b, c \in Int : (a + b) * c = 1 * (a * c) + 1 * (b * c) /\ a * c \in Int OBVIOUS
  <2>2. \A j \in Brokers : p[j] \in Int BY <1>3
  <2> HIDE DEF p, A, d
  <2>3. TAKE i \in Sources
  <2>4. \A j \in Brokers : /\ A(i, j) * d(i, j) \in Int /\ p[j] * d(i, j) \in Int
                           /\ (A(i, j) + p[j]) * d(i, j) \in Int
                           /\ (A(i, j) + p[j]) * d(i, j) = 1 * (A(i, j) * d(i, j)) + 1 * (p[j] * d(i, j))
    BY <1>2, <2>1, <2>2
  <2> QED BY <2>4
<1>6. \A i \in Sources : /\ SumFunction(links[i]) \in Int /\ SumFunction(brokers[i]) \in Int
                         /\ SumFunction(both[i]) = SumFunction(links[i]) + SumFunction(brokers[i])
  <2>1. TAKE i \in Sources
  <2> HIDE DEF links, brokers, both
  <2>2. SumFunction(both[i]) = 1 * SumFunction(links[i]) + 1 * SumFunction(brokers[i])
    <3> DEFINE f == links[i] g == brokers[i] h == both[i]
    <3>1. /\ f \in [Brokers -> Int] /\ g \in [Brokers -> Int]
          /\ h = [j \in Brokers |-> 1 * f[j] + 1 * g[j]]
      BY <1>5
    <3> HIDE DEF f, g, h
    <3>2. SumFunction(h) = 1 * SumFunction(f) + 1 * SumFunction(g)
      BY <1>1, <3>1, SumFunctionLinear
    <3> QED BY <3>2 DEF f, g, h
  <2>3. SumFunction(links[i]) \in Int /\ SumFunction(brokers[i]) \in Int BY <1>1, <1>5, SumFunctionInt
  <2> QED BY <2>2, <2>3
<1>7. \A i \in Sources :
        SumFunction(links[i]) <= Scale * (SumFunction(w(z, i)) - SumFunction(w(r, i)))
  <2>1. TAKE i \in Sources
  <2>2. w(z, i) \in [Brokers -> Int] /\ w(r, i) \in [Brokers -> Int]
    <3>1. w(z, i) \in [Brokers -> Nat] /\ w(r, i) \in [Brokers -> Nat] BY ObjectiveIs
    <3> HIDE DEF w
    <3> QED BY <3>1
  <2>3. \A j \in Brokers : links[i][j] <= Scale * (w(z, i)[j] - w(r, i)[j]) BY LinkConvex
  <2> HIDE DEF links, w
  <2> QED BY <1>1, <1>5, <2>2, <2>3, SumOfDifferences
<1>8. Sum(links) <= Scale * (AccessDelays(t, z) - AccessDelays(t, r))
  <2> DEFINE W(x) == [i \in Sources |-> SumFunction(w(x, i))]
             L == [i \in Sources |-> SumFunction(links[i])]
  <2>1. \A i \in Sources : SumFunction(w(z, i)) \in Int /\ SumFunction(w(r, i)) \in Int
    <3>1. \A i \in Sources : w(z, i) \in [Brokers -> Nat] /\ w(r, i) \in [Brokers -> Nat]
      BY ObjectiveIs
    <3> HIDE DEF w
    <3>2. \A i \in Sources : SumFunction(w(z, i)) \in Nat /\ SumFunction(w(r, i)) \in Nat
      BY <1>1, <3>1, SumNatural
    <3> QED BY <3>2
  <2>2. AccessDelays(t, z) = SumFunction(W(z)) /\ AccessDelays(t, r) = SumFunction(W(r))
    BY DEF AccessDelays
  <2> HIDE DEF w, links
  <2>3. W(z) \in [Sources -> Int] /\ W(r) \in [Sources -> Int] /\ L \in [Sources -> Int]
    BY <1>6, <2>1
  <2>4. \A i \in Sources : L[i] <= Scale * (W(z)[i] - W(r)[i]) BY <1>7
  <2> HIDE DEF W, L
  <2>5. SumFunction(L) <= Scale * (SumFunction(W(z)) - SumFunction(W(r)))
    BY <1>1, <2>3, <2>4, SumOfDifferences
  <2> QED BY <2>2, <2>5 DEF L
<1>9. \A j \in Brokers :
        SumFunction([i \in Sources |-> brokers[i][j]]) = p[j] * (BrokerLoad(z, j) - BrokerLoad(r, j))
  <2>1. TAKE j \in Brokers
  <2> DEFINE c == [i \in Sources |-> brokers[i][j]]
             Z == [i \in Sources |-> z[i][j]] R == [i \in Sources |-> r[i][j]]
  <2>2. Z \in [Sources -> Int] /\ R \in [Sources -> Int]
    <3>1. \A i \in Sources : z[i][j] \in Nat /\ r[i][j] \in Nat BY RowTyped, FeasibleTyped
    <3> QED BY <3>1
  <2>3. \A i \in Sources : c[i] = p[j] * (Z[i] - R[i]) OBVIOUS
  <2>4. p[j] \in Int BY <1>3
  <2>5. c \in [Sources -> Int]
    <3>1. \A i \in Sources : brokers[i][j] \in Int BY <1>5
    <3> HIDE DEF brokers
    <3> QED BY <3>1
  <2> HIDE DEF c, Z, R, p
  <2>6. SumFunction(c) = p[j] * (SumFunction(Z) - SumFunction(R))
    BY <1>1, <2>2, <2>3, <2>4, <2>5, SumOfDifferences
  <2> QED BY <2>6 DEF c, Z, R, BrokerLoad
<1>10. Sum(brokers) <= Scale * (BrokerDelays(t, z) - BrokerDelays(t, r))
  <2> DEFINE B(x) == [j \in Brokers |-> WeightedDelay(t.broker[j], BrokerLoad(x, j))]
             c == [j \in Brokers |-> SumFunction([i \in Sources |-> brokers[i][j]])]
  <2>1. brokers \in [Sources -> [Brokers -> Int]]
    <3>1. \A i \in Sources : brokers[i] \in [Brokers -> Int] BY <1>5
    <3> QED BY <3>1
  <2>2. B(z) \in [Brokers -> Int] /\ B(r) \in [Brokers -> Int]
    <3>1. B(z) \in [Brokers -> Nat] /\ B(r) \in [Brokers -> Nat] BY ObjectiveIs
    <3> HIDE DEF B
    <3> QED BY <3>1
  <2>3. \A j \in Brokers : c[j] = p[j] * (BrokerLoad(z, j) - BrokerLoad(r, j)) BY <1>9
  <2>4. \A j \in Brokers : c[j] \in Int /\ c[j] <= Scale * (B(z)[j] - B(r)[j])
    <3>1. TAKE j \in Brokers
    <3>2. p[j] \in Int /\ BrokerLoad(z, j) - BrokerLoad(r, j) \in Int BY BrokerConvex
    <3>3. p[j] * (BrokerLoad(z, j) - BrokerLoad(r, j)) <= Scale * (B(z)[j] - B(r)[j]) BY BrokerConvex
    <3>4. c[j] = p[j] * (BrokerLoad(z, j) - BrokerLoad(r, j)) BY <2>3
    <3> HIDE DEF p, B, c
    <3> QED BY <3>2, <3>3, <3>4, ProductTyped
  <2>5. c \in [Brokers -> Int] BY <2>4
  <2> HIDE DEF brokers
  <2>6. Sum(brokers) = SumFunction(c) BY <1>1, <2>1, SumSwapped
  <2>7. BrokerDelays(t, z) = SumFunction(B(z)) /\ BrokerDelays(t, r) = SumFunction(B(r))
    BY DEF BrokerDelays
  <2> HIDE DEF B, c
  <2>8. SumFunction(c) <= Scale * (SumFunction(B(z)) - SumFunction(B(r)))
    BY <1>1, <2>2, <2>4, <2>5, SumOfDifferences
  <2> QED BY <2>6, <2>7, <2>8
<1> HIDE DEF links, brokers, both
<1>11. Sum(both) \in Nat
  <2> DEFINE g == [i \in Sources |-> SumFunction(both[i])]
  <2>1. \A i \in Sources : SumFunction(both[i]) \in Nat BY <1>4, <1>6
  <2>2. g \in [Sources -> Nat] BY <2>1
  <2> HIDE DEF g
  <2>3. SumFunction(g) \in Nat BY <1>1, <2>2, SumNatural
  <2> QED BY <2>3 DEF g
<1>12. Sum(both) = Sum(links) + Sum(brokers) /\ Sum(links) \in Int /\ Sum(brokers) \in Int
  <2> DEFINE f == [i \in Sources |-> SumFunction(links[i])]
             g == [i \in Sources |-> SumFunction(brokers[i])]
             h == [i \in Sources |-> SumFunction(both[i])]
  <2>1. f \in [Sources -> Int] /\ g \in [Sources -> Int] BY <1>6
  <2>2. h = [i \in Sources |-> 1 * f[i] + 1 * g[i]]
    <3>1. \A i \in Sources : SumFunction(both[i]) = 1 * SumFunction(links[i]) + 1 * SumFunction(brokers[i])
      BY <1>6
    <3> QED BY <3>1
  <2> HIDE DEF f, g, h
  <2>3. SumFunction(h) = 1 * SumFunction(f) + 1 * SumFunction(g) BY <1>1, <2>1, <2>2, SumFunctionLinear
  <2>4. SumFunction(f) \in Int /\ SumFunction(g) \in Int BY <1>1, <2>1, SumFunctionInt
  <2>5. SumFunction(h) = SumFunction(f) + SumFunction(g) BY <2>3, <2>4
  <2> QED BY <2>4, <2>5 DEF f, g, h
<1> HIDE DEF Sum
<1>13. /\ AccessDelays(t, z) \in Nat /\ BrokerDelays(t, z) \in Nat
       /\ SystemObjective(t, z) = AccessDelays(t, z) + BrokerDelays(t, z)
       /\ AccessDelays(t, r) \in Nat /\ BrokerDelays(t, r) \in Nat
       /\ SystemObjective(t, r) = AccessDelays(t, r) + BrokerDelays(t, r)
  BY ObjectiveIs
<1> DEFINE gain == SystemObjective(t, z) - SystemObjective(t, r)
<1>14. gain \in Int BY <1>13
<1>15. Scale * gain = Scale * (AccessDelays(t, z) - AccessDelays(t, r))
                       + Scale * (BrokerDelays(t, z) - BrokerDelays(t, r))
  <2> DEFINE a == AccessDelays(t, z) b == BrokerDelays(t, z)
             c == AccessDelays(t, r) e == BrokerDelays(t, r)
  <2>1. a \in Int /\ b \in Int /\ c \in Int /\ e \in Int BY <1>13
  <2>2. gain = (a - c) + (b - e) BY <1>13
  <2> HIDE DEF gain, a, b, c, e
  <2>3. a - c \in Int /\ b - e \in Int BY <2>1
  <2>4. \A u, v \in Int : Scale * (u + v) = Scale * u + Scale * v BY <1>1
  <2>5. Scale * ((a - c) + (b - e)) = Scale * (a - c) + Scale * (b - e) BY <2>3, <2>4
  <2> QED BY <2>2, <2>5 DEF a, b, c, e
<1>16. Scale * (AccessDelays(t, z) - AccessDelays(t, r)) \in Int
       /\ Scale * (BrokerDelays(t, z) - BrokerDelays(t, r)) \in Int
  BY <1>1, <1>13, ProductTyped
<1>17. 0 <= Scale * gain BY <1>8, <1>10, <1>11, <1>12, <1>15, <1>16
<1> HIDE DEF gain
<1>18. 0 * Scale <= gain * Scale BY <1>1, <1>14, <1>17
<1>19. 0 <= gain BY <1>1, <1>14, <1>18, Cancelled
<1> QED BY <1>13, <1>19 DEF gain

-----------------------------------------------------------------------------
(***************************************************************************)
(* The residuals.                                                          *)
(***************************************************************************)

ResidualNames ==
  {"r_conservation", "r_access_capacity", "r_service_capacity", "r_price", "r_fixed_point",
   "r_active_stationarity", "r_inactive_complementarity", "r_kkt_complementarity",
   "r_unavailable_routes"}

\* Nothing has failed when every residual is within its tolerance.
LEMMA NoneFailed ==
  ASSUME NEW f, DOMAIN f = ResidualNames
  PROVE  Failed(f) = {} <=> \A k \in ResidualNames : f[k]
BY DEF Failed

\* What the certificate says of a routing and its prices.
LEMMA CertifiedMeans ==
  ASSUME NEW t, NEW r, NEW p, Certified(t, r, p)
  PROVE  /\ p = Prices(t, r)
         /\ \A i \in Sources : IsBestResponse(t, r, i, Prices(t, r))
         /\ \A i \in Sources : Cardinality({Marginal(t, r, i, j) : j \in Used(t, r, i)}) = 1
<1> DEFINE f == Residuals(t, r, p)
<1>1. DOMAIN f = ResidualNames BY DEF Residuals, ResidualNames
<1>2. f.r_price /\ f.r_fixed_point /\ f.r_active_stationarity
  <2> HIDE DEF f
  <2>1. \A k \in ResidualNames : f[k] BY <1>1, NoneFailed DEF Certified, f
  <2> QED BY <2>1 DEF ResidualNames
<1>3. p = Prices(t, r) BY <1>2 DEF Residuals
<1>4. \A i \in Sources : IsBestResponse(t, r, i, p) BY <1>2 DEF Residuals
<1>5. \A i \in Sources : Cardinality({Marginal(t, r, i, j) : j \in Used(t, r, i)}) = 1
  BY <1>2 DEF Residuals
<1> QED BY <1>3, <1>4, <1>5

\* The marginal cost of a route.
LEMMA MarginalTyped ==
  ASSUME NEW t, IsTopology(t), NEW r \in RoutingsOf(t), NEW i \in Sources, NEW j \in Brokers
  PROVE  Marginal(t, r, i, j) \in Nat
<1>1. AccessCost(t, r, i, j) \in Nat BY RowTyped, CostTyped DEF AccessCost
<1>2. Prices(t, r)[j] = Cost(t.broker[j], BrokerLoad(r, j)) BY DEF Prices
<1>3. t.broker[j] \in Nat BY DEF IsTopology
<1>4. Prices(t, r)[j] \in Nat BY <1>2, <1>3, BrokerLoadTyped, CostTyped
<1> QED BY <1>1, <1>4 DEF Marginal

\* The least of one number is that number.
LEMMA MinOfOne == \A m \in Int : Min({m}) = m
  BY DEF Min

\* When the used routes of a source have one marginal cost, the mean of theirs is the
\* least of theirs.
LEMMA MeanIsLeast ==
  ASSUME NEW t, IsTopology(t), NEW r \in RoutingsOf(t), NEW i \in Sources,
         Cardinality({Marginal(t, r, i, j) : j \in Used(t, r, i)}) = 1, NEW k \in Unused(t, r, i)
  PROVE  Marginal(t, r, i, k) >= Min({Marginal(t, r, i, j) : j \in Used(t, r, i)})
           <=> Cardinality(Used(t, r, i)) * Marginal(t, r, i, k)
                 >= SumFunction([j \in Used(t, r, i) |-> Marginal(t, r, i, j)])
<1> DEFINE U == Used(t, r, i) M(j) == Marginal(t, r, i, j) f == [j \in U |-> M(j)]
<1>1. U \in SUBSET Brokers /\ IsFiniteSet(U) /\ k \in Brokers
  <2>1. U \in SUBSET Brokers /\ k \in Brokers BY DEF Used, Unused, Available
  <2> HIDE DEF U
  <2> QED BY <2>1, FS_Subset, CertificateConstants
<1>2. \A j \in Brokers : M(j) \in Nat BY MarginalTyped
<1> HIDE DEF U, M
<1>3. IsFiniteSet({f[j] : j \in U}) BY <1>1, ImageFinite
<1>4. {M(j) : j \in U} = {f[j] : j \in U} OBVIOUS
<1>5. Cardinality({M(j) : j \in U}) = 1 BY DEF U, M
<1>6. PICK m : {M(j) : j \in U} = {m} BY <1>3, <1>4, <1>5, FS_Singleton
<1>7. \A j \in U : M(j) = m BY <1>6
<1>8. \E j \in U : M(j) = m BY <1>6
<1>9. m \in Nat BY <1>1, <1>2, <1>8
<1>10. f = [j \in U |-> m] BY <1>7
<1>11. SumFunction(f) = Cardinality(U) * m
  <2>1. m \in Int BY <1>9
  <2>2. SumFunction([j \in U |-> m]) = Cardinality(U) * m BY <1>1, <2>1, SumConstant
  <2> HIDE DEF f
  <2> QED BY <1>10, <2>2
<1>12. Cardinality(U) \in Nat \ {0}
  <2>1. U # {} BY <1>8
  <2> QED BY <1>1, <2>1, FS_EmptySet, FS_CardinalityType
<1>13. M(k) \in Nat BY <1>1, <1>2
<1>14. Cardinality(U) * M(k) >= Cardinality(U) * m <=> M(k) >= m
  <2>1. \A a, b \in Nat, c \in Nat \ {0} : c * a = a * c /\ c * b = b * c OBVIOUS
  <2>2. m <= M(k) => m * Cardinality(U) <= M(k) * Cardinality(U) BY <1>9, <1>12, <1>13, Scaled
  <2>3. m * Cardinality(U) <= M(k) * Cardinality(U) => m <= M(k) BY <1>9, <1>12, <1>13, Cancelled
  <2>4. m * Cardinality(U) \in Nat /\ M(k) * Cardinality(U) \in Nat BY <1>9, <1>12, <1>13, ProductTyped
  <2>5. m * Cardinality(U) = Cardinality(U) * m /\ M(k) * Cardinality(U) = Cardinality(U) * M(k)
    BY <1>9, <1>12, <1>13, ProductTyped
  <2> QED BY <1>9, <1>13, <2>2, <2>3, <2>4, <2>5
<1>15. Min({M(j) : j \in U}) = m BY <1>6, <1>9, MinOfOne
<1> QED BY <1>11, <1>14, <1>15 DEF U, M

\* The residuals of the notebook certify the same routings and prices.
LEMMA NotebookCertifies ==
  ASSUME NEW t, IsTopology(t), NEW r \in RoutingsOf(t), NEW p
  PROVE  Certified(t, r, p) <=> Failed(NotebookResiduals(t, r, p)) = {}
<1> DEFINE f == Residuals(t, r, p) g == NotebookResiduals(t, r, p)
<1>1. DOMAIN f = ResidualNames /\ DOMAIN g = ResidualNames
  BY DEF Residuals, NotebookResiduals, ResidualNames
<1>2. \A k \in ResidualNames \ {"r_fixed_point", "r_inactive_complementarity"} : g[k] = f[k]
  BY DEF Residuals, NotebookResiduals, ResidualNames
<1>3. ASSUME f.r_price PROVE f.r_fixed_point <=> g.r_fixed_point
  <2>1. p = Prices(t, r) BY <1>3 DEF Residuals
  <2>2. f.r_fixed_point <=> \A i \in Sources : IsBestResponse(t, r, i, p) BY DEF Residuals
  <2>3. g.r_fixed_point <=> \A i \in Sources : IsBestResponse(t, r, i, Prices(t, r))
    BY DEF Residuals, NotebookResiduals
  <2> QED BY <2>1, <2>2, <2>3
<1>4. ASSUME f.r_active_stationarity
      PROVE  f.r_inactive_complementarity <=> g.r_inactive_complementarity
  <2>1. \A i \in Sources : Cardinality({Marginal(t, r, i, j) : j \in Used(t, r, i)}) = 1
    BY <1>4 DEF Residuals
  <2>2. f.r_inactive_complementarity <=>
          \A i \in Sources : Used(t, r, i) # {} =>
            \A k \in Unused(t, r, i) :
              Marginal(t, r, i, k) >= Min({Marginal(t, r, i, j) : j \in Used(t, r, i)})
    BY DEF Residuals
  <2>3. g.r_inactive_complementarity <=>
          \A i \in Sources : Used(t, r, i) # {} =>
            \A k \in Unused(t, r, i) :
              Cardinality(Used(t, r, i)) * Marginal(t, r, i, k)
                >= SumFunction([j \in Used(t, r, i) |-> Marginal(t, r, i, j)])
    BY DEF Residuals, NotebookResiduals
  <2> HIDE DEF f, g
  <2> QED BY <2>1, <2>2, <2>3, MeanIsLeast
<1> HIDE DEF f, g
<1>5. Certified(t, r, p) <=> \A k \in ResidualNames : f[k] BY <1>1, NoneFailed DEF Certified, f
<1>6. Failed(g) = {} <=> \A k \in ResidualNames : g[k] BY <1>1, NoneFailed
<1>7. (\A k \in ResidualNames : f[k]) <=> \A k \in ResidualNames : g[k]
  <2>1. ASSUME \A k \in ResidualNames : f[k] PROVE \A k \in ResidualNames : g[k]
    <3>1. f.r_price /\ f.r_active_stationarity /\ f.r_fixed_point /\ f.r_inactive_complementarity
      BY <2>1 DEF ResidualNames
    <3>2. g.r_fixed_point /\ g.r_inactive_complementarity BY <1>3, <1>4, <3>1
    <3> QED BY <1>2, <2>1, <3>2
  <2>2. ASSUME \A k \in ResidualNames : g[k] PROVE \A k \in ResidualNames : f[k]
    <3>1. g.r_price /\ g.r_active_stationarity /\ g.r_fixed_point /\ g.r_inactive_complementarity
      BY <2>2 DEF ResidualNames
    <3>2. f.r_price /\ f.r_active_stationarity BY <1>2, <3>1 DEF ResidualNames
    <3>3. f.r_fixed_point /\ f.r_inactive_complementarity BY <1>3, <1>4, <3>1, <3>2
    <3> QED BY <1>2, <2>2, <3>3
  <2> QED BY <2>1, <2>2
<1> QED BY <1>5, <1>6, <1>7 DEF g

-----------------------------------------------------------------------------
(***************************************************************************)
(* The symmetric instance, and the centralized solver.                     *)
(***************************************************************************)

EqualSplit(t) == [i \in Sources |-> [j \in Brokers |-> Split(t, i)]]

\* A symmetric instance has one demand and one capacity of each kind, and some source
\* and broker.
LEMMA SymmetricIs ==
  ASSUME NEW t, IsTopology(t), IsSymmetric(t), Splits(t)
  PROVE  \E d \in Nat, L \in Nat, B \in Nat, s \in Nat, n \in Nat \ {0}, m \in Nat \ {0} :
           /\ \A i \in Sources : t.demand[i] = d /\ Split(t, i) = s
           /\ \A i \in Sources, j \in Brokers : t.link[i][j] = L
           /\ \A j \in Brokers : t.broker[j] = B
           /\ n = Cardinality(Sources) /\ m = Cardinality(Brokers)
           /\ Sources # {} /\ Brokers # {}
           /\ d = s * m /\ s % t.grid = 0
<1>1. IsFiniteSet(Sources) /\ IsFiniteSet(Brokers) BY CertificateConstants
<1>2. PICK d : {t.demand[i] : i \in Sources} = {d}
  <2>1. IsFiniteSet({t.demand[i] : i \in Sources}) BY <1>1, ImageFinite
  <2> QED BY <2>1, FS_Singleton DEF IsSymmetric
<1>3. PICK B : {t.broker[j] : j \in Brokers} = {B}
  <2>1. IsFiniteSet({t.broker[j] : j \in Brokers}) BY <1>1, ImageFinite
  <2> QED BY <2>1, FS_Singleton DEF IsSymmetric
<1>4. PICK L : \A i \in Sources, j \in Brokers : t.link[i][j] = L
  <2> DEFINE f == [l \in Links |-> t.link[l[1]][l[2]]]
             V == {t.link[i][j] : i \in Sources, j \in Brokers}
  <2>1. IsFiniteSet(Links) BY <1>1, FS_Product DEF Links
  <2>2. IsFiniteSet({f[l] : l \in Links})
    <3> HIDE DEF f
    <3> QED BY <2>1, ImageFinite
  <2>3. V \in SUBSET {f[l] : l \in Links}
    <3>1. ASSUME NEW i \in Sources, NEW j \in Brokers PROVE t.link[i][j] \in {f[l] : l \in Links}
      <4>1. <<i, j>> \in Links /\ f[<<i, j>>] = t.link[i][j] BY DEF Links
      <4> HIDE DEF f
      <4> QED BY <4>1
    <3> HIDE DEF f
    <3> QED BY <3>1
  <2>4. \A i \in Sources, j \in Brokers : t.link[i][j] \in V OBVIOUS
  <2>5. Cardinality(V) = 1 BY DEF IsSymmetric
  <2> HIDE DEF V, f
  <2>6. IsFiniteSet(V) BY <2>2, <2>3, FS_Subset
  <2>7. PICK L : V = {L} BY <2>5, <2>6, FS_Singleton
  <2> QED BY <2>4, <2>7
<1>5. PICK i0 \in Sources : t.demand[i0] = d BY <1>2
<1>6. PICK j0 \in Brokers : t.broker[j0] = B BY <1>3
<1>7. d \in Nat /\ B \in Nat /\ L \in Nat
  <2>1. t.link[i0][j0] \in Nat /\ t.demand[i0] \in Nat /\ t.broker[j0] \in Nat
    BY <1>5, <1>6 DEF IsTopology
  <2>2. t.link[i0][j0] = L BY <1>4, <1>5, <1>6
  <2> QED BY <1>5, <1>6, <2>1, <2>2
<1>8. Cardinality(Sources) \in Nat \ {0} /\ Cardinality(Brokers) \in Nat \ {0}
  <2>1. Sources # {} /\ Brokers # {} BY <1>5, <1>6
  <2> QED BY <1>1, <2>1, FS_EmptySet, FS_CardinalityType
<1>9. \A i \in Sources : t.demand[i] = d BY <1>2
<1> DEFINE s == d \div Cardinality(Brokers)
<1>10. \A i \in Sources : Split(t, i) = s BY <1>9 DEF Split
<1>11. s \in Nat BY <1>7, <1>8
<1> HIDE DEF s
<1>12. d = s * Cardinality(Brokers) /\ s % t.grid = 0 BY <1>5, <1>10 DEF Splits
<1>13. \A j \in Brokers : t.broker[j] = B BY <1>3
<1>14. Sources # {} /\ Brokers # {} BY <1>5, <1>6
<1> USE <1>7, <1>8, <1>11
<1> WITNESS d \in Nat, L \in Nat, B \in Nat, s \in Nat,
            Cardinality(Sources) \in Nat \ {0}, Cardinality(Brokers) \in Nat \ {0}
<1> QED BY <1>4, <1>9, <1>10, <1>12, <1>13, <1>14

\* Where there is a demand and a feasible routing, the equal split is feasible and a
\* best response to its prices, and its objective is that of the closed form.
LEMMA EqualSplitIs ==
  ASSUME NEW t, IsTopology(t), IsSymmetric(t), Splits(t), NEW r \in FeasibleRoutings(t),
         \A i \in Sources : t.demand[i] # 0
  PROVE  /\ EqualSplit(t) \in FeasibleRoutings(t)
         /\ \A i \in Sources : IsBestResponse(t, EqualSplit(t), i, Prices(t, EqualSplit(t)))
         /\ SystemObjective(t, EqualSplit(t)) = SymmetricObjective(t)
<1>1. PICK d \in Nat, L \in Nat, B \in Nat, s \in Nat, n \in Nat \ {0}, m \in Nat \ {0} :
           /\ \A i \in Sources : t.demand[i] = d /\ Split(t, i) = s
           /\ \A i \in Sources, j \in Brokers : t.link[i][j] = L
           /\ \A j \in Brokers : t.broker[j] = B
           /\ n = Cardinality(Sources) /\ m = Cardinality(Brokers)
           /\ Sources # {} /\ Brokers # {}
           /\ d = s * m /\ s % t.grid = 0
  BY SymmetricIs
<1>2. IsFiniteSet(Sources) /\ IsFiniteSet(Brokers) BY CertificateConstants
<1> DEFINE e == EqualSplit(t) load == n * s
<1>3. load \in Nat /\ s \in Int /\ d \in Int BY ProductTyped
<1>4. \A i \in Sources, j \in Brokers : e[i][j] = s BY <1>1 DEF EqualSplit
<1>5. \A j \in Brokers : BrokerLoad(e, j) = load
  <2>1. TAKE j \in Brokers
  <2>2. [i \in Sources |-> e[i][j]] = [i \in Sources |-> s] BY <1>4
  <2>3. SumFunction([i \in Sources |-> s]) = Cardinality(Sources) * s BY <1>2, <1>3, SumConstant
  <2> QED BY <1>1, <2>2, <2>3 DEF BrokerLoad
<1>6. \A i \in Sources : RowSum(e[i]) = d
  <2>1. TAKE i \in Sources
  <2>2. [j \in Brokers |-> e[i][j]] = [j \in Brokers |-> s] BY <1>4
  <2>3. SumFunction([j \in Brokers |-> s]) = Cardinality(Brokers) * s BY <1>2, <1>3, SumConstant
  <2>4. m * s = s * m OBVIOUS
  <2> QED BY <1>1, <2>2, <2>3, <2>4 DEF RowSum
<1>7. s # 0 /\ s <= d
  <2>1. d # 0 BY <1>1
  <2>2. 0 * m = 0 OBVIOUS
  <2>3. m - 1 \in Nat /\ s * m = s + s * (m - 1) /\ s * (m - 1) \in Nat
    <3>1. m - 1 \in Nat OBVIOUS
    <3> QED BY <3>1, ProductTyped
  <2> QED BY <1>1, <2>1, <2>2, <2>3
<1>8. s < L
  <2>1. SUFFICES ASSUME L <= s PROVE FALSE OBVIOUS
  <2>2. PICK i \in Sources : TRUE BY <1>1
  <2> DEFINE c == [j \in Brokers |-> s - 1]
  <2>3. r[i] \in [Brokers -> Nat] /\ SumFunction(r[i]) = t.demand[i] BY RowTyped, FeasibleTyped
  <2>4. \A j \in Brokers : r[i][j] <= s - 1
    <3>1. TAKE j \in Brokers
    <3>2. r[i][j] \in Nat BY <2>3
    <3>3. t.link[i][j] = L BY <1>1
    <3>4. r[i][j] > 0 => r[i][j] < L BY <3>3, FeasibleTyped DEF BelowCapacities
    <3> QED BY <1>7, <2>1, <3>2, <3>4
  <2>5. r[i] \in [Brokers -> Int] /\ c \in [Brokers -> Int] BY <2>3
  <2>6. \A j \in Brokers : r[i][j] <= c[j] BY <2>4
  <2>7. SumFunction(c) = m * (s - 1)
    <3>1. s - 1 \in Int OBVIOUS
    <3> QED BY <1>1, <1>2, <3>1, SumConstant
  <2> HIDE DEF c
  <2>8. SumFunction(r[i]) <= SumFunction(c) BY <1>2, <2>5, <2>6, SumFunctionMonotonic
  <2>9. t.demand[i] = d BY <1>1
  <2>10. s * m <= m * (s - 1) BY <1>1, <2>3, <2>7, <2>8, <2>9
  <2>11. m * (s - 1) = s * m - m /\ s * m \in Int BY ProductTyped
  <2> QED BY <2>10, <2>11
<1>9. load < B
  <2>1. SUFFICES ASSUME B <= load PROVE FALSE BY <1>3
  <2> DEFINE R == [i \in Sources |-> r[i]] c == [j \in Brokers |-> load - 1]
             l == [j \in Brokers |-> SumFunction([i \in Sources |-> R[i][j]])]
             rows == [i \in Sources |-> SumFunction(R[i])]
  <2>2. \A i \in Sources : r[i] \in [Brokers -> Nat] /\ SumFunction(r[i]) = d
    BY <1>1, RowTyped, FeasibleTyped
  <2>3. R \in [Sources -> [Brokers -> Int]]
    <3>1. \A i \in Sources : r[i] \in [Brokers -> Int] BY <2>2
    <3> QED BY <3>1
  <2>4. rows = [i \in Sources |-> d] BY <2>2
  <2>5. SumFunction(rows) = n * d BY <1>1, <1>2, <1>3, <2>4, SumConstant
  <2>6. \A j \in Brokers : l[j] = BrokerLoad(r, j)
    <3>1. \A j \in Brokers : [i \in Sources |-> R[i][j]] = [i \in Sources |-> r[i][j]] OBVIOUS
    <3> QED BY <3>1 DEF BrokerLoad
  <2>7. \A j \in Brokers : l[j] \in Nat /\ l[j] <= load - 1
    <3>1. TAKE j \in Brokers
    <3>2. BrokerLoad(r, j) \in Nat /\ BrokerLoad(r, j) < t.broker[j] /\ t.broker[j] = B
      BY <1>1, FeasibleTyped
    <3> HIDE DEF l, load
    <3> QED BY <1>3, <2>1, <2>6, <3>2
  <2>8. l \in [Brokers -> Int] /\ c \in [Brokers -> Int] BY <1>3, <2>7
  <2>9. \A j \in Brokers : l[j] <= c[j] BY <2>7
  <2>10. SumFunction(c) = m * (load - 1)
    <3>1. load - 1 \in Int BY <1>3
    <3> QED BY <1>1, <1>2, <3>1, SumConstant
  <2>11. SumFunction(rows) = SumFunction(l)
    <3> HIDE DEF R
    <3> QED BY <1>2, <2>3, SumSwapped
  <2> HIDE DEF l, c, rows
  <2>12. SumFunction(l) <= SumFunction(c) BY <1>2, <2>8, <2>9, SumFunctionMonotonic
  <2>13. n * d <= m * (load - 1) BY <2>5, <2>10, <2>11, <2>12
  <2>14. n * d = load * m BY <1>1, ProductTyped
  <2> HIDE DEF load
  <2>15. m * (load - 1) = load * m - m /\ load * m \in Int BY <1>3, ProductTyped
  <2> QED BY <2>13, <2>14, <2>15
<1>10. e \in RoutingsOf(t)
  <2>1. \A i \in Sources : e[i] \in Rows(t, i)
    <3>1. TAKE i \in Sources
    <3>2. e[i] = [j \in Brokers |-> s] BY <1>1 DEF EqualSplit
    <3>3. s \in 0 .. t.demand[i] BY <1>1, <1>7
    <3>4. e[i] \in [Brokers -> {x \in 0 .. t.demand[i] : x % t.grid = 0}] BY <1>1, <3>2, <3>3
    <3>5. \A j \in Brokers : j \in Available(t, i) BY <1>1, <1>8 DEF Available
    <3> QED BY <1>1, <1>6, <3>4, <3>5 DEF Rows
  <2>2. e = [i \in Sources |-> e[i]] BY DEF EqualSplit
  <2> HIDE DEF e
  <2>3. e \in [Sources -> UNION {Rows(t, i) : i \in Sources}] BY <2>1, <2>2
  <2> QED BY <2>1, <2>3 DEF RoutingsOf
<1>11. e \in FeasibleRoutings(t)
  <2>1. BelowCapacities(t, e) BY <1>1, <1>4, <1>5, <1>8, <1>9 DEF BelowCapacities
  <2> QED BY <1>10, <2>1 DEF FeasibleRoutings
<1>12. \A i \in Sources : IsBestResponse(t, e, i, Prices(t, e))
  <2>1. TAKE i \in Sources
  <2>2. \A j \in Brokers : AccessCost(t, e, i, j) = Cost(L, s) BY <1>1, <1>4 DEF AccessCost
  <2>3. \A j \in Brokers : Prices(t, e)[j] = Cost(B, load) BY <1>1, <1>5 DEF Prices
  <2>4. Cost(L, s) \in Nat /\ Cost(B, load) \in Nat BY <1>3, CostTyped
  <2>5. \A j \in Brokers, k \in Brokers :
          AccessCost(t, e, i, j) + Prices(t, e)[j] <= AccessCost(t, e, i, k) + Prices(t, e)[k]
    BY <2>2, <2>3, <2>4
  <2>6. e[i] \in Rows(t, i) BY <1>10, RowTyped
  <2> HIDE DEF e
  <2> QED BY <2>5, <2>6 DEF IsBestResponse, Used, Available
<1> DEFINE D == Scale \div (L - s) P == Scale \div (B - load)
<1>13. D \in Nat /\ P \in Nat
  <2>1. L - s \in Nat \ {0} /\ B - load \in Nat \ {0} BY <1>3, <1>8, <1>9
  <2>2. \A q \in Nat \ {0} : Scale \div q \in Nat BY CertificateConstants
  <2> QED BY <2>1, <2>2
<1>14. AccessDelays(t, e) = n * (m * (s * D))
  <2>1. \A i \in Sources, j \in Brokers : WeightedDelay(t.link[i][j], e[i][j]) = s * D
    BY <1>1, <1>4, <1>7 DEF WeightedDelay
  <2>2. s * D \in Int /\ m * (s * D) \in Int BY <1>13, ProductTyped
  <2> DEFINE row == [j \in Brokers |-> s * D]
  <2>3. SumFunction(row) = m * (s * D) BY <1>1, <1>2, <2>2, SumConstant
  <2>4. \A i \in Sources : [j \in Brokers |-> WeightedDelay(t.link[i][j], e[i][j])] = row BY <2>1
  <2>5. AccessDelays(t, e) = SumFunction([i \in Sources |-> SumFunction(row)])
    BY <2>4 DEF AccessDelays
  <2> HIDE DEF row, D
  <2>6. SumFunction([i \in Sources |-> m * (s * D)]) = n * (m * (s * D)) BY <1>1, <1>2, <2>2, SumConstant
  <2> QED BY <2>3, <2>5, <2>6
<1>15. BrokerDelays(t, e) = m * (load * P)
  <2>1. load # 0
    <3>1. load \in Nat \ {0} BY <1>7, ProductTyped
    <3> QED BY <3>1
  <2>2. \A j \in Brokers : WeightedDelay(t.broker[j], BrokerLoad(e, j)) = load * P
    BY <1>1, <1>5, <2>1 DEF WeightedDelay
  <2>3. BrokerDelays(t, e) = SumFunction([j \in Brokers |-> load * P]) BY <2>2 DEF BrokerDelays
  <2>4. load * P \in Int BY <1>3, <1>13, ProductTyped
  <2> HIDE DEF load, P
  <2> QED BY <1>1, <1>2, <2>3, <2>4, SumConstant
<1>16. SymmetricObjective(t) = n * d * (D + P)
  <2> DEFINE i == CHOOSE i \in Sources : TRUE j == CHOOSE j \in Brokers : TRUE
  <2>1. i \in Sources /\ j \in Brokers BY <1>1
  <2>2. SymmetricObjective(t) = Cardinality(Sources) * t.demand[i]
           * (Scale \div (t.link[i][j] - Split(t, i))
                + Scale \div (t.broker[j] - Cardinality(Sources) * Split(t, i)))
    BY DEF SymmetricObjective
  <2> HIDE DEF i, j
  <2>3. t.demand[i] = d /\ Split(t, i) = s /\ t.link[i][j] = L /\ t.broker[j] = B BY <1>1, <2>1
  <2> QED BY <1>1, <2>2, <2>3
<1>17. n * d * (D + P) = n * (m * (s * D)) + m * (load * P)
  <2> HIDE DEF D, P
  <2>1. n * d * (D + P) = n * d * D + n * d * P BY <1>13
  <2>2. n * d * D = n * (m * (s * D)) BY <1>1, <1>13, ProductTyped
  <2>3. n * d * P = m * (load * P) BY <1>1, <1>13, ProductTyped
  <2> QED BY <2>1, <2>2, <2>3
<1>18. SystemObjective(t, e) = AccessDelays(t, e) + BrokerDelays(t, e) BY <1>11, ObjectiveIs
<1> HIDE DEF e, D, P, load
<1> QED BY <1>11, <1>12, <1>14, <1>15, <1>16, <1>17, <1>18 DEF e

\* What the polish returns keeps the rows: the centralized solver returns a feasible
\* routing.
LEMMA CentralFeasible ==
  ASSUME NEW t, IsTopology(t), NEW c \in CentralSolutions(t)
  PROVE  c \in FeasibleRoutings(t)
<1>1. SUFFICES ASSUME NEW s \in FeasibleRoutings(t), c \in Polishes(t, s), Accepted(t, c)
               PROVE  c \in FeasibleRoutings(t)
  BY DEF CentralSolutions
<1> DEFINE U == {t.demand[i] : i \in Sources} most == Max(U)
<1>2. c \in [Sources -> [Brokers -> 0 .. most]] BY <1>1 DEF Polishes
<1>3. \A i \in Sources, j \in Brokers :
        IF s[i][j] = 0 THEN c[i][j] = 0 ELSE c[i][j] % t.grid = 0 /\ c[i][j] < t.link[i][j]
  BY <1>1 DEF Polishes
<1>4. /\ \A i \in Sources : RowSum(c[i]) = t.demand[i]
      /\ \A j \in Brokers : BrokerLoad(c, j) < t.broker[j]
  BY <1>1 DEF Accepted
<1>5. t.grid \in Nat \ {0} /\ t.demand \in [Sources -> Nat] BY DEF IsTopology
<1>6. \A i \in Sources : c[i] \in [Brokers -> Nat]
  <2>1. TAKE i \in Sources
  <2>2. U \in SUBSET Int /\ U # {} BY <1>5
  <2>3. IsFiniteSet(U) BY ImageFinite, CertificateConstants
  <2>4. most \in Int
    <3> HIDE DEF U
    <3> QED BY <2>2, <2>3, MaxIn
  <2> HIDE DEF most
  <2> QED BY <1>2, <2>4
<1> HIDE DEF most
<1>7. \A i \in Sources : c[i] \in Rows(t, i)
  <2>1. TAKE i \in Sources
  <2>2. c[i] = [j \in Brokers |-> c[i][j]] BY <1>6
  <2>3. SumFunction(c[i]) = t.demand[i] BY <1>4, <2>2 DEF RowSum
  <2>4. \A j \in Brokers : c[i][j] \in Nat /\ c[i][j] <= t.demand[i]
    BY <1>6, <2>3, SumAtLeast, CertificateConstants
  <2>5. 0 % t.grid = 0 BY <1>5
  <2>6. \A j \in Brokers : c[i][j] % t.grid = 0 BY <1>3, <2>5
  <2>7. t.demand[i] \in Nat BY <1>5
  <2>8. \A j \in Brokers : c[i][j] \in {x \in 0 .. t.demand[i] : x % t.grid = 0}
    BY <2>4, <2>6, <2>7
  <2>9. c[i] \in [Brokers -> {x \in 0 .. t.demand[i] : x % t.grid = 0}] BY <2>2, <2>8
  <2>10. \A j \in Brokers \ Available(t, i) : c[i][j] = 0
    <3>1. \A j \in Brokers \ Available(t, i) : s[i][j] = 0 BY RowTyped, FeasibleTyped
    <3> QED BY <1>3, <3>1
  <2> QED BY <1>4, <2>9, <2>10 DEF Rows
<1>8. c \in RoutingsOf(t)
  <2>1. c = [i \in Sources |-> c[i]] BY <1>2
  <2>2. c \in [Sources -> UNION {Rows(t, i) : i \in Sources}] BY <1>7, <2>1
  <2> QED BY <1>7, <2>2 DEF RoutingsOf
<1>9. BelowCapacities(t, c)
  <2>1. \A i \in Sources, j \in Brokers : c[i][j] > 0 => c[i][j] < t.link[i][j] BY <1>3
  <2> QED BY <1>4, <2>1 DEF BelowCapacities
<1> QED BY <1>8, <1>9 DEF FeasibleRoutings

\* A certified routing has the least objective of the feasible ones, and that of the
\* closed form in a symmetric instance.
LEMMA CertifiedOptimal ==
  ASSUME NEW t, IsTopology(t), Exact(t), NEW r \in FeasibleRoutings(t), NEW p, Certified(t, r, p)
  PROVE  /\ \A z \in FeasibleRoutings(t) : SystemObjective(t, r) <= SystemObjective(t, z)
         /\ IsSymmetric(t) /\ Splits(t) => SystemObjective(t, r) = SymmetricObjective(t)
<1>1. \A i \in Sources : IsBestResponse(t, r, i, Prices(t, r)) BY CertifiedMeans
<1>2. \A z \in FeasibleRoutings(t) : SystemObjective(t, r) <= SystemObjective(t, z)
  BY <1>1, BestIsOptimal
<1>3. ASSUME IsSymmetric(t), Splits(t) PROVE SystemObjective(t, r) = SymmetricObjective(t)
  <2>1. ASSUME NEW i \in Sources PROVE t.demand[i] # 0
    <3>1. Cardinality({Marginal(t, r, i, j) : j \in Used(t, r, i)}) = 1 BY CertifiedMeans
    <3>2. Used(t, r, i) # {}
      <4>1. ASSUME Used(t, r, i) = {} PROVE FALSE
        <5>1. {Marginal(t, r, i, j) : j \in Used(t, r, i)} = {} BY <4>1
        <5>2. Cardinality({}) = 0 BY FS_EmptySet
        <5> QED BY <3>1, <5>1, <5>2
      <4> QED BY <4>1
    <3>3. PICK j \in Brokers : r[i][j] > 0 BY <3>2 DEF Used, Available
    <3>4. r[i][j] \in 0 .. t.demand[i] BY RowTyped, FeasibleTyped
    <3> QED BY <3>3, <3>4
  <2> DEFINE e == EqualSplit(t)
  <2>2. /\ e \in FeasibleRoutings(t) /\ SystemObjective(t, e) = SymmetricObjective(t)
        /\ \A i \in Sources : IsBestResponse(t, e, i, Prices(t, e))
    BY <1>3, <2>1, EqualSplitIs
  <2> HIDE DEF e
  <2>3. SystemObjective(t, e) <= SystemObjective(t, r) BY <2>2, BestIsOptimal
  <2>4. SystemObjective(t, r) <= SystemObjective(t, e) BY <1>2, <2>2
  <2>5. SystemObjective(t, e) \in Int /\ SystemObjective(t, r) \in Int
    <3>1. \A x \in FeasibleRoutings(t) : SystemObjective(t, x) \in Int
      <4>1. TAKE x \in FeasibleRoutings(t)
      <4>2. AccessDelays(t, x) \in Nat /\ BrokerDelays(t, x) \in Nat
            /\ SystemObjective(t, x) = AccessDelays(t, x) + BrokerDelays(t, x)
        BY ObjectiveIs
      <4> QED BY <4>2
    <3> QED BY <2>2, <3>1
  <2> QED BY <2>2, <2>3, <2>4, <2>5
<1> QED BY <1>2, <1>3

-----------------------------------------------------------------------------
(***************************************************************************)
(* Experiments.                                                            *)
(***************************************************************************)

States == [routing : FeasibleRoutings(topo), prices : [Brokers -> Nat], iteration : 0 .. MaxIter]

ExperimentInv ==
  /\ topo \in ExperimentTopologies
  /\ at \in {"start", "iterates", "compares", "done", "raised"}
  /\ toTol \in 0 .. MaxIter
  /\ state # NoState => state \in States
  /\ at \in {"iterates", "compares", "done"} => state \in States
  /\ at = "iterates" => state.iteration < MaxIter
  /\ at = "done" =>
       /\ stats.certified <=> Certified(topo, state.routing, state.prices)
       /\ stats.objective = SystemObjective(topo, state.routing)
       /\ central.routing \in CentralSolutions(topo)
       /\ stats.central_objective = SystemObjective(topo, central.routing)

\* The prices of a feasible routing.
LEMMA PricesTyped ==
  ASSUME NEW t, IsTopology(t), NEW r \in FeasibleRoutings(t)
  PROVE  Prices(t, r) \in [Brokers -> Nat]
<1>1. \A j \in Brokers : Cost(t.broker[j], BrokerLoad(r, j)) \in Nat BY FeasibleTyped, CostTyped
<1> QED BY <1>1 DEF Prices

\* The invariant holds when a run begins.
LEMMA ExperimentInvInit == ExperimentInit => ExperimentInv
  BY ExperimentConstants DEF ExperimentInit, ExperimentInv

\* Every step keeps it.
LEMMA ExperimentInvStep ==
  ASSUME ExperimentInv, [ExperimentNext]_experimentVars
  PROVE  ExperimentInv'
<1>1. IsTopology(topo) /\ MaxIter \in Nat \ {0} BY ExperimentConstants DEF ExperimentInv
<1>2. CASE Start
  <2>1. topo' = topo /\ toTol' = toTol /\ at = "start" BY <1>2 DEF Start
  <2>2. CASE at' = "raised" /\ state' = state
    BY <2>1, <2>2 DEF ExperimentInv, States
  <2>3. CASE at' = "iterates" /\ \E r \in FeasibleRoutings(topo) :
               state' = [routing |-> r, prices |-> Prices(topo, r), iteration |-> 0]
    <3>1. PICK r \in FeasibleRoutings(topo) :
            state' = [routing |-> r, prices |-> Prices(topo, r), iteration |-> 0]
      BY <2>3
    <3>2. Prices(topo, r) \in [Brokers -> Nat] BY <1>1, PricesTyped
    <3>3. state' \in States' BY <1>1, <2>1, <3>1, <3>2 DEF States
    <3>4. state'.iteration < MaxIter BY <1>1, <3>1
    <3> QED BY <2>1, <2>3, <3>3, <3>4 DEF ExperimentInv
  <2> QED BY <1>2, <2>2, <2>3 DEF Start
<1>3. CASE IterateToTolerance
  <2> DEFINE k == state.iteration + 1
  <2>1. at = "iterates" /\ topo' = topo BY <1>3 DEF IterateToTolerance
  <2>2. PICK r \in FeasibleRoutings(topo), p \in {state.prices, Prices(topo, state.routing)} :
          /\ state' = [routing |-> r, prices |-> p, iteration |-> k]
          /\ \/ toTol' = k
             \/ toTol' = toTol
          /\ \/ at' = "compares"
             \/ at' = at /\ k # MaxIter
    BY <1>3 DEF IterateToTolerance
  <2>3. state \in States /\ state.iteration < MaxIter /\ toTol \in 0 .. MaxIter
    BY <2>1 DEF ExperimentInv
  <2>4. state.routing \in FeasibleRoutings(topo) /\ state.prices \in [Brokers -> Nat]
        /\ state.iteration \in 0 .. MaxIter
    BY <2>3 DEF States
  <2>5. p \in [Brokers -> Nat] BY <1>1, <2>4, PricesTyped
  <2>6. k \in 0 .. MaxIter BY <1>1, <2>3, <2>4
  <2>7. state' \in States' BY <2>1, <2>2, <2>5, <2>6 DEF States
  <2>8. toTol' \in 0 .. MaxIter BY <2>2, <2>3, <2>6
  <2>9. at' \in {"iterates", "compares"} /\ (at' = "iterates" => state'.iteration < MaxIter)
    <3>1. state'.iteration = k BY <2>2
    <3>2. at' = "iterates" => k # MaxIter BY <2>2
    <3> HIDE DEF k
    <3> QED BY <1>1, <2>1, <2>2, <2>6, <3>1, <3>2
  <2>10. topo' \in ExperimentTopologies BY <2>1 DEF ExperimentInv
  <2> QED BY <2>7, <2>8, <2>9, <2>10 DEF ExperimentInv
<1>4. CASE ExperimentRaises
  BY <1>4 DEF ExperimentRaises, ExperimentInv, States
<1>5. CASE Compare
  <2>1. /\ at = "compares" /\ at' = "done"
        /\ topo' = topo /\ state' = state /\ toTol' = toTol
    BY <1>5 DEF Compare
  <2>2. PICK c \in CentralSolutions(topo) :
       /\ central' = [routing |-> c]
       /\ stats' = [routing |-> state.routing,
                    certified |-> Certified(topo, state.routing, state.prices),
                    objective |-> SystemObjective(topo, state.routing),
                    central_objective |-> SystemObjective(topo, c),
                    failed |-> Failed(Residuals(topo, state.routing, state.prices))]
    BY <1>5 DEF Compare
  <2>3. /\ stats'.certified <=> Certified(topo, state.routing, state.prices)
        /\ stats'.objective = SystemObjective(topo, state.routing)
        /\ central'.routing = c
        /\ stats'.central_objective = SystemObjective(topo, c)
    BY <2>2
  <2>4. state' \in States' BY <2>1 DEF ExperimentInv, States
  <2> QED BY <2>1, <2>3, <2>4 DEF ExperimentInv
<1>6. CASE UNCHANGED experimentVars
  BY <1>6 DEF experimentVars, ExperimentInv, States
<1> QED BY <1>2, <1>3, <1>4, <1>5, <1>6 DEF ExperimentNext

\* It holds always.
LEMMA ExperimentAlways == ExperimentSpec => []ExperimentInv
BY ExperimentInvInit, ExperimentInvStep, PTL DEF ExperimentSpec

\* The state of static_experiment is a feasible routing with its prices, at an
\* iteration up to max_iter.
THEOREM ExperimentTyped == ExperimentSpec => []ExperimentTypeOK
<1>1. ExperimentInv => ExperimentTypeOK
  BY DEF ExperimentInv, ExperimentTypeOK, States
<1> QED BY <1>1, ExperimentAlways, PTL

\* Proposition 1, of static_experiment: whatever the iterations did, a run that reports
\* itself certified has the least objective of all feasible routings on the grid, the
\* closed form's where the instance is symmetric, and its gap is measured against a
\* feasible routing; and the notebook's residuals certify the same states.
THEOREM CertifiedOptimum == ExperimentSpec => []CertifiedIsOptimal
<1>1. ASSUME ExperimentInv PROVE CertifiedIsOptimal
  <2>1. IsTopology(topo) /\ Exact(topo) BY <1>1, ExperimentConstants DEF ExperimentInv
  <2>2. ASSUME state \in States PROVE state.routing \in FeasibleRoutings(topo)
    BY <2>2 DEF States
  <2>3. ASSUME at = "done", stats.certified
        PROVE  /\ \A r \in FeasibleRoutings(topo) : stats.objective <= SystemObjective(topo, r)
               /\ IsSymmetric(topo) /\ Splits(topo) => stats.objective = SymmetricObjective(topo)
    <3>1. state \in States /\ Certified(topo, state.routing, state.prices)
          /\ stats.objective = SystemObjective(topo, state.routing)
      BY <1>1, <2>3 DEF ExperimentInv
    <3>2. state.routing \in FeasibleRoutings(topo) BY <2>2, <3>1
    <3>3. /\ \A z \in FeasibleRoutings(topo) :
               SystemObjective(topo, state.routing) <= SystemObjective(topo, z)
          /\ IsSymmetric(topo) /\ Splits(topo) =>
               SystemObjective(topo, state.routing) = SymmetricObjective(topo)
      BY <2>1, <3>1, <3>2, CertifiedOptimal
    <3> QED BY <3>1, <3>3
  <2>4. ASSUME at = "done"
        PROVE  central.routing \in FeasibleRoutings(topo) /\ stats.central_objective # Infinite
    <3>1. central.routing \in CentralSolutions(topo)
          /\ stats.central_objective = SystemObjective(topo, central.routing)
      BY <1>1, <2>4 DEF ExperimentInv
    <3>2. central.routing \in FeasibleRoutings(topo) BY <2>1, <3>1, CentralFeasible
    <3>3. /\ AccessDelays(topo, central.routing) \in Nat /\ BrokerDelays(topo, central.routing) \in Nat
          /\ SystemObjective(topo, central.routing)
               = AccessDelays(topo, central.routing) + BrokerDelays(topo, central.routing)
      BY <2>1, <3>2, ObjectiveIs
    <3> QED BY <3>1, <3>2, <3>3 DEF Infinite
  <2>5. ASSUME state # NoState
        PROVE  Certified(topo, state.routing, state.prices)
                 <=> Failed(NotebookResiduals(topo, state.routing, state.prices)) = {}
    <3>1. state.routing \in FeasibleRoutings(topo) BY <1>1, <2>2, <2>5 DEF ExperimentInv
    <3>2. state.routing \in RoutingsOf(topo) BY <2>1, <3>1, FeasibleTyped
    <3> QED BY <2>1, <3>2, NotebookCertifies
  <2> QED BY <2>3, <2>4, <2>5 DEF CertifiedIsOptimal
<1> QED BY <1>1, ExperimentAlways, PTL

-----------------------------------------------------------------------------
(***************************************************************************)
(* Optimal routing.                                                        *)
(***************************************************************************)

RoutingInv ==
  /\ generated \in GeneratedTopologies /\ size \in Sizes
  /\ phase \in {"solve", "fallback", "central", "returned", "RuntimeError"}
  /\ stage \in 0 .. Len(Reliefs)
  /\ solved # NoSolution => solved.routing \in RoutingsOf(generated)
  /\ phase = "returned" =>
       \/ solved.by = "SLSQP" /\ solved.routing \in CentralSolutions(generated)
       \/ /\ solved.by = "fixed point" /\ solved.routing \in BestResponseRoutings(generated)
          /\ Certifies(generated, 10, solved.routing)

\* Without relief the prices and loads are those of the topology itself.
LEMMA NoRelief ==
  ASSUME NEW t, IsTopology(t), NEW r
  PROVE  /\ Prices(Relieved(t, 10), r) = Prices(t, r)
         /\ Below(Relieved(t, 10), r) <=> Below(t, r)
<1>1. Relieved(t, 10).broker = [j \in Brokers |-> (10 * t.broker[j]) \div 10]
  BY DEF Relieved, IsTopology
<1>2. \A n \in Nat : (10 * n) \div 10 = n OBVIOUS
<1>3. \A j \in Brokers : Relieved(t, 10).broker[j] = t.broker[j]
  BY <1>1, <1>2 DEF IsTopology
<1> QED BY <1>3 DEF Prices, Below

\* The invariant holds when optimal_routing is called.
LEMMA RoutingInvInit == RoutingInit => RoutingInv
BY DEF RoutingInit, RoutingInv, Reliefs

\* Every step keeps it: what is returned was solved for the topology itself.
LEMMA RoutingInvStep ==
  ASSUME RoutingInv, [RoutingNext]_routingVars
  PROVE  RoutingInv'
<1>1. IsTopology(generated) BY RoutingConstants DEF RoutingInv
<1>2. Len(Reliefs) = 5 /\ Reliefs[5] = 10 BY DEF Reliefs
<1>3. CASE Solve
  <2>1. phase = "solve" /\ generated' = generated /\ size' = size BY <1>3 DEF Solve
  <2>2. PICK r \in BestResponseRoutings(generated) :
          /\ solved' = [by |-> "fixed point", routing |-> r, relief |-> Relief,
                        certified |-> Certifies(generated, Relief, r)]
          /\ phase' = IF Certifies(generated, Relief, r)
                      THEN IF stage \in {0, Len(Reliefs)} THEN "returned" ELSE phase
                      ELSE IF stage = 0 THEN phase ELSE "fallback"
          /\ stage' = IF stage < Len(Reliefs) /\ phase' = "solve" THEN stage + 1 ELSE stage
    BY <1>3 DEF Solve
  <2>3. stage' \in 0 .. Len(Reliefs)
    <3>1. stage' = stage \/ (stage < 5 /\ stage' = stage + 1) BY <1>2, <2>2
    <3>2. stage \in 0 .. 5 BY <1>2 DEF RoutingInv
    <3>3. stage' \in 0 .. 5 BY <3>1, <3>2
    <3> QED BY <1>2, <3>3
  <2>4. phase' \in {"solve", "fallback", "central", "returned", "RuntimeError"} BY <2>1, <2>2
  <2>5. r \in RoutingsOf(generated) BY DEF BestResponseRoutings
  <2>6. solved'.by = "fixed point" /\ solved'.routing = r BY <2>2
  <2>7. ASSUME phase' = "returned" PROVE Certifies(generated, 10, r)
    <3>1. Certifies(generated, Relief, r) /\ stage \in {0, 5} BY <1>2, <2>1, <2>2, <2>7
    <3>2. Relief = 10 BY <1>2, <3>1 DEF Relief
    <3> QED BY <3>1, <3>2
  <2> QED BY <2>1, <2>3, <2>4, <2>5, <2>6, <2>7 DEF RoutingInv
<1>4. CASE Fallback BY <1>4 DEF Fallback, RoutingInv
<1>5. CASE Central
  <2>1. /\ generated' = generated /\ size' = size /\ stage' = stage
        /\ phase' = "returned"
    BY <1>5 DEF Central
  <2>2. PICK c \in CentralSolutions(generated) :
          solved' = [by |-> "SLSQP", routing |-> c, relief |-> 10, certified |-> FALSE]
    BY <1>5 DEF Central
  <2>3. solved'.by = "SLSQP" /\ solved'.routing = c BY <2>2
  <2>4. c \in RoutingsOf(generated) BY <1>1, CentralFeasible, FeasibleTyped
  <2> QED BY <2>1, <2>3, <2>4 DEF RoutingInv
<1>6. CASE CentralRaises BY <1>6 DEF CentralRaises, RoutingInv
<1>7. CASE UNCHANGED routingVars BY <1>7 DEF routingVars, RoutingInv
<1> QED BY <1>3, <1>4, <1>5, <1>6, <1>7 DEF RoutingNext

\* It holds always.
LEMMA RoutingAlways == RoutingSpec => []RoutingInv
BY RoutingInvInit, RoutingInvStep, PTL DEF RoutingSpec

\* A solve or the central solver leaves a routing of the demands of the topology, and
\* the continuation is at one of its reliefs.
THEOREM RoutingTyped == RoutingSpec => []RoutingTypeOK
<1>1. RoutingInv => RoutingTypeOK BY DEF RoutingInv, RoutingTypeOK
<1> QED BY <1>1, RoutingAlways, PTL

\* What optimal_routing returns splits the demands of the topology it was given, below
\* its capacities, and where the fixed point of the prices gave it, wherever its solver
\* stopped, no feasible routing on the grid has a smaller objective.
THEOREM ReturnedOptimum == RoutingSpec => []ReturnedIsOptimal
<1>1. ASSUME RoutingInv, phase = "returned"
      PROVE  /\ solved.routing \in FeasibleRoutings(generated)
             /\ solved.by = "fixed point" =>
                  \A r \in FeasibleRoutings(generated) :
                    SystemObjective(generated, solved.routing) <= SystemObjective(generated, r)
  <2> DEFINE t == generated s == solved.routing
  <2>1. IsTopology(t) /\ Exact(t) BY <1>1, RoutingConstants DEF RoutingInv
  <2>2. CASE solved.by = "SLSQP" /\ s \in CentralSolutions(t) BY <2>1, <2>2, CentralFeasible
  <2>3. CASE s \in BestResponseRoutings(t) /\ Certifies(t, 10, s)
    <3>1. s \in RoutingsOf(t) /\ \A i \in Sources : \A j \in Available(t, i) : s[i][j] < t.link[i][j]
      BY <2>3 DEF BestResponseRoutings
    <3>2. Below(t, s) /\ Certified(t, s, Prices(t, s)) BY <2>1, <2>3, NoRelief DEF Certifies
    <3>3. BelowCapacities(t, s)
      <4>1. ASSUME NEW i \in Sources, NEW j \in Brokers, s[i][j] > 0 PROVE s[i][j] < t.link[i][j]
        <5>1. j \in Available(t, i) BY <2>1, <3>1, <4>1, RowTyped
        <5> QED BY <3>1, <5>1
      <4> QED BY <3>2, <4>1 DEF BelowCapacities, Below
    <3>4. s \in FeasibleRoutings(t) BY <3>1, <3>3 DEF FeasibleRoutings
    <3> QED BY <2>1, <3>2, <3>4, CertifiedOptimal
  <2> QED BY <1>1, <2>2, <2>3 DEF RoutingInv
<1>2. RoutingInv => ReturnedIsOptimal BY <1>1 DEF ReturnedIsOptimal
<1> QED BY <1>2, RoutingAlways, PTL
=============================================================================
