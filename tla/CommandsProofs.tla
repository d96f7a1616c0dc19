--------------------------- MODULE CommandsProofs ----------------------------
(***************************************************************************)
(* What the commands promise, proved: why the dashboard's reader shows the *)
(* rows of the file, why it never names them after another run, and why    *)
(* `up' commands given with patience leave each other's emulators alone:   *)
(* for any number of tabs, runs, records and commands.                     *)
(*                                                                         *)
(* OwnEmulator is not inductive: it does not say who could take the port.  *)
(* OneAtATimeHere does: of commands that could meet, one at most has a     *)
(* process or a container, as the checks are only passed where the other   *)
(* rests and the ports and the project are free.                           *)
(***************************************************************************)
EXTENDS Dashboard, Launcher, Lemmas, SequenceTheorems, TLAPS

\* the tabs and the processes have values of their kinds
ButtonsTyped ==
  /\ tab \in [Tabs -> {"idle", "stops", "relaunches", "stopped", "cleared"}]
  /\ life \in [Runs -> {"none", "booting", "opened", "writing", "ended"}]
  /\ observer \in BOOLEAN

-----------------------------------------------------------------------------
(***************************************************************************)
(* What a reader makes of a sequence of pieces.                            *)
(*                                                                         *)
(* RecordsIn is the value of a recursive function, which is CHOOSEn to     *)
(* satisfy its recursion: UpToExist and UpToSame show that one function    *)
(* does.  What follows about RecordsIn is by induction over sequences.     *)
(***************************************************************************)

\* the recursion RecordsIn(s) is defined by
UpTo(g, s) ==
  g = [n \in 0 .. Len(s) |->
         IF n = 0 THEN << >>
         ELSE IF s[n].newline THEN Append(g[n - 1], s[n].record) ELSE g[n - 1]]

\* What the recursion says of one position.
LEMMA UpToAt ==
  ASSUME NEW s, Len(s) \in Nat, NEW g, UpTo(g, s)
  PROVE  /\ g[0] = << >>
         /\ \A n \in 1 .. Len(s) :
              g[n] = IF s[n].newline THEN Append(g[n - 1], s[n].record) ELSE g[n - 1]
<1>1. \A n \in 1 .. Len(s) : n \in 0 .. Len(s) /\ n # 0 OBVIOUS
<1>2. 0 \in 0 .. Len(s) OBVIOUS
<1> QED BY <1>1, <1>2 DEF UpTo

\* The recursion has one solution.
LEMMA UpToSame ==
  ASSUME NEW s, Len(s) \in Nat, NEW g, NEW h, UpTo(g, s), UpTo(h, s)
  PROVE  g = h
<1> DEFINE N == {n \in Nat : n <= Len(s) => g[n] = h[n]}
<1>1. 0 \in N BY UpToAt
<1>2. ASSUME NEW n \in N PROVE n + 1 \in N
  <2>1. SUFFICES ASSUME n + 1 <= Len(s) PROVE g[n + 1] = h[n + 1] OBVIOUS
  <2>2. g[n] = h[n] /\ n + 1 \in 1 .. Len(s) /\ (n + 1) - 1 = n BY <2>1
  <2> HIDE DEF N
  <2>3. g[n + 1] = IF s[n + 1].newline THEN Append(g[n], s[n + 1].record) ELSE g[n]
    BY <2>2, UpToAt
  <2>4. h[n + 1] = IF s[n + 1].newline THEN Append(h[n], s[n + 1].record) ELSE h[n]
    BY <2>2, UpToAt
  <2> QED BY <2>2, <2>3, <2>4
<1> HIDE DEF N
<1>3. N \in SUBSET Nat BY DEF N
<1>4. N = Nat BY <1>1, <1>2, <1>3, Induction
<1>5. \A n \in 0 .. Len(s) : g[n] = h[n] BY <1>4 DEF N
<1>6. g = [n \in 0 .. Len(s) |-> g[n]] /\ h = [n \in 0 .. Len(s) |-> h[n]] BY DEF UpTo
<1> QED BY <1>5, <1>6

\* A solution goes on over one more piece.
LEMMA UpToExtended ==
  ASSUME NEW S, NEW s \in Seq(S), NEW x \in S, NEW g, UpTo(g, s)
  PROVE  \E h : /\ UpTo(h, Append(s, x))
                /\ h[Len(s) + 1] = IF x.newline THEN Append(g[Len(s)], x.record) ELSE g[Len(s)]
<1> DEFINE t == Append(s, x)
           last == IF x.newline THEN Append(g[Len(s)], x.record) ELSE g[Len(s)]
           h == [n \in 0 .. Len(s) + 1 |-> IF n = Len(s) + 1 THEN last ELSE g[n]]
<1>1. Len(s) \in Nat /\ Len(t) = Len(s) + 1 /\ t[Len(s) + 1] = x BY AppendProperties
<1>2. \A n \in 1 .. Len(s) : t[n] = s[n] BY AppendProperties
<1> HIDE DEF t, last
<1>3. \A n \in 0 .. Len(s) : h[n] = g[n] BY <1>1
<1>4. h[Len(s) + 1] = last BY <1>1
<1>5. h = [n \in 0 .. Len(s) + 1 |-> h[n]] OBVIOUS
<1> HIDE DEF h
<1>6. h[0] = << >> BY <1>1, <1>3, UpToAt
<1>7. ASSUME NEW n \in 1 .. Len(s) + 1
      PROVE  h[n] = IF t[n].newline THEN Append(h[n - 1], t[n].record) ELSE h[n - 1]
  <2>1. n - 1 \in 0 .. Len(s) BY <1>1
  <2>2. h[n - 1] = g[n - 1] BY <1>3, <2>1
  <2>3. CASE n = Len(s) + 1
    <3>1. n - 1 = Len(s) BY <1>1, <2>3
    <3> QED BY <1>1, <1>4, <2>2, <2>3, <3>1 DEF last
  <2>4. CASE n # Len(s) + 1
    <3>1. n \in 1 .. Len(s) /\ n \in 0 .. Len(s) BY <1>1, <2>4
    <3>2. g[n] = IF s[n].newline THEN Append(g[n - 1], s[n].record) ELSE g[n - 1]
      BY <1>1, <3>1, UpToAt
    <3> QED BY <1>2, <1>3, <2>2, <3>1, <3>2
  <2> QED BY <2>3, <2>4
<1>8. UpTo(h, t)
  <2>1. ASSUME NEW n \in 0 .. Len(s) + 1
        PROVE  h[n] = IF n = 0 THEN << >>
                      ELSE IF t[n].newline THEN Append(h[n - 1], t[n].record) ELSE h[n - 1]
    <3>1. n = 0 \/ n \in 1 .. Len(s) + 1 BY <1>1
    <3> QED BY <1>6, <1>7, <3>1
  <2> QED BY <1>1, <1>5, <2>1 DEF UpTo
<1> QED BY <1>4, <1>8 DEF t, last

\* Every sequence has one.
LEMMA UpToExist ==
  ASSUME NEW S
  PROVE  \A s \in Seq(S) : \E g : UpTo(g, s)
<1> DEFINE C == {s \in Seq(S) : \E g : UpTo(g, s)}
<1>1. << >> \in C
  <2>1. Len(<< >>) = 0 /\ << >> \in Seq(S) BY EmptySeq
  <2>2. UpTo([n \in 0 .. 0 |-> << >>], << >>) BY <2>1 DEF UpTo
  <2> QED BY <2>1, <2>2
<1>2. ASSUME NEW s \in Seq(S), NEW x \in S, s \in C PROVE Append(s, x) \in C
  <2>1. PICK g : UpTo(g, s) BY <1>2
  <2>2. \E h : UpTo(h, Append(s, x)) BY <2>1, UpToExtended
  <2> QED BY <2>2, AppendProperties
<1> HIDE DEF C
<1>3. \A s \in Seq(S) : s \in C BY <1>1, <1>2, SequenceInduction
<1> QED BY <1>3 DEF C

\* RecordsIn is its value at the end.
LEMMA RecordsAre ==
  ASSUME NEW S, NEW s \in Seq(S), NEW g, UpTo(g, s)
  PROVE  RecordsIn(s) = g[Len(s)]
<1>1. Len(s) \in Nat BY LenProperties
<1>2. \A h : UpTo(h, s) => h = g BY <1>1, UpToSame
<1> QED BY <1>2 DEF RecordsIn, UpTo

\* Nothing has no records.
LEMMA RecordsNone == RecordsIn(<< >>) = << >>
<1>1. << >> \in Seq({}) /\ Len(<< >>) = 0 BY EmptySeq
<1>2. PICK g : UpTo(g, << >>) BY <1>1, UpToExist
<1>3. RecordsIn(<< >>) = g[0] BY <1>1, <1>2, RecordsAre
<1>4. g[0] = << >> BY <1>1, <1>2, UpToAt
<1> QED BY <1>3, <1>4

\* The piece that ends a line adds its record; another piece adds none.
LEMMA RecordsAppend ==
  ASSUME NEW S, NEW s \in Seq(S), NEW x \in S
  PROVE  RecordsIn(Append(s, x)) = IF x.newline THEN Append(RecordsIn(s), x.record) ELSE RecordsIn(s)
<1>1. PICK g : UpTo(g, s) BY UpToExist
<1>2. PICK h : /\ UpTo(h, Append(s, x))
               /\ h[Len(s) + 1] = IF x.newline THEN Append(g[Len(s)], x.record) ELSE g[Len(s)]
  BY <1>1, UpToExtended
<1>3. RecordsIn(s) = g[Len(s)] BY <1>1, RecordsAre
<1>4. Append(s, x) \in Seq(S) /\ Len(Append(s, x)) = Len(s) + 1 BY AppendProperties
<1>5. RecordsIn(Append(s, x)) = h[Len(s) + 1] BY <1>2, <1>4, RecordsAre
<1> QED BY <1>2, <1>3, <1>5

\* The records read are those of the pieces.
LEMMA RecordsTyped ==
  ASSUME NEW A, NEW B, \A x \in B : x.record \in A
  PROVE  \A s \in Seq(B) : RecordsIn(s) \in Seq(A)
<1> DEFINE C == {s \in Seq(B) : RecordsIn(s) \in Seq(A)}
<1>1. << >> \in C BY RecordsNone, EmptySeq
<1>2. ASSUME NEW s \in Seq(B), NEW x \in B, s \in C PROVE Append(s, x) \in C
  <2>1. RecordsIn(Append(s, x)) = IF x.newline THEN Append(RecordsIn(s), x.record) ELSE RecordsIn(s)
    BY RecordsAppend
  <2>2. RecordsIn(s) \in Seq(A) /\ x.record \in A BY <1>2
  <2>3. Append(RecordsIn(s), x.record) \in Seq(A) BY <2>2, AppendProperties
  <2>4. Append(s, x) \in Seq(B) BY AppendProperties
  <2> QED BY <2>1, <2>2, <2>3, <2>4
<1> HIDE DEF C
<1>3. \A s \in Seq(B) : s \in C BY <1>1, <1>2, SequenceInduction
<1> QED BY <1>3 DEF C

\* What is read of two parts, one after the other, is read of the whole.
LEMMA RecordsConcat ==
  ASSUME NEW s \in Seq(Pieces)
  PROVE  \A t \in Seq(Pieces) : RecordsIn(s \o t) = RecordsIn(s) \o RecordsIn(t)
<1> DEFINE C == {t \in Seq(Pieces) : RecordsIn(s \o t) = RecordsIn(s) \o RecordsIn(t)}
<1>0. \A x \in Pieces : x.record \in Records BY DEF Pieces
<1>1. \A u \in Seq(Pieces) : RecordsIn(u) \in Seq(Records) BY <1>0, RecordsTyped
<1>2. << >> \in C
  <2>1. s \o << >> = s BY ConcatEmptySeq
  <2>2. RecordsIn(s) \o << >> = RecordsIn(s) BY <1>1, ConcatEmptySeq
  <2> QED BY <2>1, <2>2, RecordsNone, EmptySeq
<1>3. ASSUME NEW t \in Seq(Pieces), NEW x \in Pieces, t \in C PROVE Append(t, x) \in C
  <2>1. s \o Append(t, x) = Append(s \o t, x) OBVIOUS
  <2>2. s \o t \in Seq(Pieces) /\ Append(t, x) \in Seq(Pieces) BY ConcatProperties, AppendProperties
  <2>3. RecordsIn(Append(s \o t, x))
          = IF x.newline THEN Append(RecordsIn(s \o t), x.record) ELSE RecordsIn(s \o t)
    BY <2>2, RecordsAppend
  <2>4. RecordsIn(Append(t, x)) = IF x.newline THEN Append(RecordsIn(t), x.record) ELSE RecordsIn(t)
    BY RecordsAppend
  <2>5. RecordsIn(s \o t) = RecordsIn(s) \o RecordsIn(t) BY <1>3
  <2>6. ASSUME NEW a \in Seq(Records), NEW b \in Seq(Records), NEW r \in Records
        PROVE  a \o Append(b, r) = Append(a \o b, r) OBVIOUS
  <2>7. RecordsIn(s) \in Seq(Records) /\ RecordsIn(t) \in Seq(Records) /\ x.record \in Records
    BY <1>0, <1>1
  <2>8. RecordsIn(s) \o Append(RecordsIn(t), x.record) = Append(RecordsIn(s) \o RecordsIn(t), x.record)
    BY <2>6, <2>7
  <2> QED BY <2>1, <2>2, <2>3, <2>4, <2>5, <2>8
<1> HIDE DEF C
<1>4. \A t \in Seq(Pieces) : t \in C BY <1>2, <1>3, SequenceInduction
<1> QED BY <1>4 DEF C

\* Where no line ends there are no records.
LEMMA NoRecords ==
  \A s \in Seq(Pieces) : (\A k \in 1 .. Len(s) : ~s[k].newline) => RecordsIn(s) = << >>
<1> DEFINE B == {x \in Pieces : ~x.newline}
           C == {s \in Seq(B) : RecordsIn(s) = << >>}
<1>2. << >> \in C BY RecordsNone, EmptySeq
<1>3. ASSUME NEW s \in Seq(B), NEW x \in B, s \in C PROVE Append(s, x) \in C
  <2>1. RecordsIn(Append(s, x)) = IF x.newline THEN Append(RecordsIn(s), x.record) ELSE RecordsIn(s)
    BY RecordsAppend
  <2>2. Append(s, x) \in Seq(B) BY AppendProperties
  <2> QED BY <1>3, <2>1, <2>2
<1> HIDE DEF C
<1>4. \A s \in Seq(B) : s \in C BY <1>2, <1>3, SequenceInduction
<1>5. ASSUME NEW s \in Seq(Pieces), \A k \in 1 .. Len(s) : ~s[k].newline PROVE s \in Seq(B)
  <2>1. \A k \in 1 .. Len(s) : s[k] \in B BY <1>5
  <2> HIDE DEF B
  <2>2. SubSeq(s, 1, Len(s)) \in Seq(B) BY <2>1, SubSeqProperties
  <2> QED BY <2>2, SubSeqFull
<1> QED BY <1>4, <1>5 DEF C

\* rfind: the last piece that ends a line, 0 for none.
LEMMA EndIs ==
  ASSUME NEW s \in Seq(Pieces)
  PROVE  /\ End(s) \in 0 .. Len(s)
         /\ End(s) # 0 => s[End(s)].newline
         /\ \A k \in 1 .. Len(s) : s[k].newline => k <= End(s)
<1> DEFINE I == {k \in 1 .. Len(s) : s[k].newline}
<1>1. Len(s) \in Nat BY LenProperties
<1>2. End(s) = IF I # {} THEN Max(I) ELSE 0 BY DEF End, SelectLastInSeq
<1>3. CASE I = {} BY <1>1, <1>2, <1>3
<1>4. CASE I # {}
  <2>1. I \in SUBSET (1 .. Len(s)) OBVIOUS
  <2> HIDE DEF I
  <2>2. \E k \in I : \A j \in I : k >= j BY <1>1, <1>4, <2>1, BoundsExist
  <2>3. Max(I) \in I /\ \A j \in I : Max(I) >= j BY <2>2 DEF Max
  <2>4. End(s) \in I /\ \A j \in I : End(s) >= j BY <1>2, <1>4, <2>3
  <2>5. \A j \in I : j \in 1 .. Len(s) BY <2>1
  <2>6. End(s) \in 1 .. Len(s) BY <2>4, <2>5
  <2>7. s[End(s)].newline BY <2>4 DEF I
  <2>8. ASSUME NEW k \in 1 .. Len(s), s[k].newline PROVE k <= End(s)
    <3>1. k \in I BY <2>8 DEF I
    <3> QED BY <2>4, <2>6, <3>1
  <2> QED BY <1>1, <2>6, <2>7, <2>8
<1> QED BY <1>3, <1>4

\* readline: up to the first piece that ends a line, everything when there is none.
LEMMA FirstOfIs ==
  ASSUME NEW s \in Seq(Pieces)
  PROVE  \/ /\ \A k \in 1 .. Len(s) : ~s[k].newline
            /\ FirstOf(s) = s
         \/ \E k \in 1 .. Len(s) :
              /\ s[k].newline /\ \A j \in 1 .. Len(s) : s[j].newline => k <= j
              /\ FirstOf(s) = SubSeq(s, 1, k)
<1> DEFINE I == {k \in 1 .. Len(s) : s[k].newline}
<1>1. Len(s) \in Nat BY LenProperties
<1>2. FirstOf(s) = LET k == IF I # {} THEN Min(I) ELSE 0 IN IF k = 0 THEN s ELSE SubSeq(s, 1, k)
  BY DEF FirstOf, SelectInSeq
<1>3. CASE I = {} BY <1>1, <1>2, <1>3
<1>4. CASE I # {}
  <2>1. I \in SUBSET (1 .. Len(s)) OBVIOUS
  <2>2. \A k \in I : s[k].newline OBVIOUS
  <2>3. \A j \in 1 .. Len(s) : s[j].newline => j \in I OBVIOUS
  <2> HIDE DEF I
  <2>4. \E k \in I : \A j \in I : k <= j BY <1>1, <1>4, <2>1, BoundsExist
  <2>5. Min(I) \in I /\ \A j \in I : Min(I) <= j BY <2>4 DEF Min
  <2>6. Min(I) \in 1 .. Len(s) /\ Min(I) # 0
    <3>1. \A k \in I : k \in 1 .. Len(s) /\ k # 0 BY <1>1, <2>1
    <3> QED BY <2>5, <3>1
  <2>7. FirstOf(s) = SubSeq(s, 1, Min(I)) BY <1>2, <1>4, <2>6
  <2> QED BY <2>2, <2>3, <2>5, <2>6, <2>7
<1> QED BY <1>3, <1>4

\* A first line that is complete stays the first line of a file that grows.
LEMMA FirstOfGrows ==
  ASSUME NEW s \in Seq(Pieces), NEW t \in Seq(Pieces), Ended(FirstOf(s))
  PROVE  FirstOf(s \o t) = FirstOf(s)
<1> DEFINE u == s \o t
<1>1. u \in Seq(Pieces) /\ Len(u) = Len(s) + Len(t) /\ Len(s) \in Nat /\ Len(t) \in Nat
  BY ConcatProperties, LenProperties
<1>2. \A k \in 1 .. Len(s) : u[k] = s[k] BY <1>1, ConcatProperties
<1>3. PICK k \in 1 .. Len(s) :
        /\ s[k].newline /\ \A j \in 1 .. Len(s) : s[j].newline => k <= j
        /\ FirstOf(s) = SubSeq(s, 1, k)
  <2>1. CASE (\A k \in 1 .. Len(s) : ~s[k].newline) /\ FirstOf(s) = s
    <3>1. s # << >> /\ s[Len(s)].newline BY <2>1 DEF Ended, Last
    <3>2. Len(s) \in 1 .. Len(s) BY <1>1, <3>1, EmptySeq
    <3> QED BY <2>1, <3>1, <3>2
  <2> QED BY <2>1, FirstOfIs
<1>4. k \in 1 .. Len(u) /\ u[k].newline BY <1>1, <1>2, <1>3
<1> HIDE DEF u
<1>5. PICK m \in 1 .. Len(u) :
        /\ u[m].newline /\ \A j \in 1 .. Len(u) : u[j].newline => m <= j
        /\ FirstOf(u) = SubSeq(u, 1, m)
  BY <1>1, <1>4, FirstOfIs
<1>6. m <= k BY <1>4, <1>5
<1>7. m \in 1 .. Len(s) /\ s[m].newline BY <1>1, <1>2, <1>3, <1>5, <1>6
<1>8. k <= m BY <1>3, <1>7
<1>9. m = k BY <1>3, <1>5, <1>6, <1>8
<1>10. SubSeq(u, 1, k) = SubSeq(s, 1, k)
  <2>1. 1 \in 1 .. Len(s) BY <1>1, <1>3
  <2> QED BY <2>1, SubSeqOfConcat1 DEF u
<1> QED BY <1>3, <1>5, <1>9, <1>10 DEF u

\* A first line begins where the file does.
LEMMA FirstOfStarts ==
  ASSUME NEW s \in Seq(Pieces), FirstOf(s) # << >>
  PROVE  s # << >> /\ FirstOf(s)[1] = s[1] /\ FirstOf(s) \in Seq(Pieces)
<1>1. Len(s) \in Nat BY LenProperties
<1>2. CASE FirstOf(s) = s BY <1>2
<1>3. ASSUME NEW k \in 1 .. Len(s), FirstOf(s) = SubSeq(s, 1, k)
      PROVE  s # << >> /\ FirstOf(s)[1] = s[1] /\ FirstOf(s) \in Seq(Pieces)
  <2>1. \A i \in 1 .. k : s[i] \in Pieces BY <1>1, ElementOfSeq
  <2>2. SubSeq(s, 1, k) \in Seq(Pieces) BY <2>1, SubSeqProperties
  <2>3. 1 \in 1 .. k - 1 + 1 /\ 1 + 1 - 1 = 1 BY <1>1
  <2>4. SubSeq(s, 1, k)[1] = s[1 + 1 - 1] BY <2>1, <2>3, SubSeqProperties
  <2>5. s # << >> BY <1>1, EmptySeq
  <2> QED BY <1>3, <2>2, <2>3, <2>4, <2>5
<1>4. FirstOf(s) = s \/ \E k \in 1 .. Len(s) : FirstOf(s) = SubSeq(s, 1, k) BY FirstOfIs
<1> QED BY <1>2, <1>3, <1>4

\* What was in a file that grows is still at its beginning.
LEMMA PrefixGrows ==
  ASSUME NEW s \in Seq(Pieces), NEW t \in Seq(Pieces), NEW n \in 0 .. Len(s)
  PROVE  /\ SubSeq(s \o t, 1, n) = SubSeq(s, 1, n)
         /\ n <= Len(s \o t)
<1>1. Len(s) \in Nat /\ Len(t) \in Nat /\ Len(s \o t) = Len(s) + Len(t) BY LenProperties, ConcatProperties
<1>2. n \in Nat /\ n <= Len(s) + Len(t) BY <1>1
<1>3. CASE n = 0
  <2>1. SubSeq(s \o t, 1, 0) = << >> /\ SubSeq(s, 1, 0) = << >> BY SubSeqEmpty
  <2> QED BY <1>1, <1>2, <1>3, <2>1
<1>4. CASE n # 0
  <2>1. 1 \in 1 .. Len(s) /\ n \in 1 .. Len(s) BY <1>1, <1>2, <1>4
  <2>2. SubSeq(s \o t, 1, n) = SubSeq(s, 1, n) BY <2>1, SubSeqOfConcat1
  <2> QED BY <1>1, <1>2, <2>2
<1> QED BY <1>3, <1>4

\* The records up to the last newline after an offset are the ones up to the offset
\* and then the ones of the chunk: none is read twice, and none is left out.
LEMMA ChunkRead ==
  ASSUME NEW s \in Seq(Pieces), NEW n \in 0 .. Len(s)
  PROVE  LET chunk == SubSeq(s, n + 1, Len(s))
         IN  /\ chunk \in Seq(Pieces)
             /\ n + End(chunk) \in 0 .. Len(s)
             /\ RecordsIn(SubSeq(s, 1, n + End(chunk))) = RecordsIn(SubSeq(s, 1, n)) \o RecordsIn(chunk)
             /\ RecordsIn(s) = RecordsIn(SubSeq(s, 1, n)) \o RecordsIn(chunk)
             /\ RecordsIn(SubSeq(s, 1, n)) \in Seq(Records) /\ RecordsIn(chunk) \in Seq(Records)
<1> DEFINE l == Len(s)
           chunk == SubSeq(s, n + 1, l)
           e == End(chunk)
           rest == SubSeq(s, n + e + 1, l)
<1>1. l \in Nat /\ n \in Nat /\ n <= l BY LenProperties
<1>2. \A i \in 1 .. l : s[i] \in Pieces BY ElementOfSeq
<1>3. chunk \in Seq(Pieces) /\ Len(chunk) = l - n /\ \A i \in 1 .. l - n : chunk[i] = s[n + i]
  <2>1. n + 1 \in Int /\ l \in Int /\ \A i \in n + 1 .. l : s[i] \in Pieces BY <1>1, <1>2
  <2>2. /\ SubSeq(s, n + 1, l) \in Seq(Pieces)
        /\ Len(SubSeq(s, n + 1, l)) = IF n + 1 <= l THEN l - (n + 1) + 1 ELSE 0
        /\ \A i \in 1 .. l - (n + 1) + 1 : SubSeq(s, n + 1, l)[i] = s[(n + 1) + i - 1]
    <3> HIDE DEF l
    <3> QED BY <2>1, SubSeqProperties
  <2> HIDE DEF l
  <2>3. l - (n + 1) + 1 = l - n /\ \A i \in 1 .. l - n : (n + 1) + i - 1 = n + i BY <1>1
  <2>4. n + 1 <= l \/ l - n = 0 BY <1>1
  <2> QED BY <1>1, <2>2, <2>3, <2>4
<1>4. e \in 0 .. l - n /\ \A k \in 1 .. l - n : chunk[k].newline => k <= e
  <2> HIDE DEF l, chunk
  <2> QED BY <1>3, EndIs
<1>5. n + e \in 0 .. l BY <1>1, <1>4
<1>6. SubSeq(s, 1, n) \in Seq(Pieces) /\ SubSeq(s, n + 1, n + e) \in Seq(Pieces)
  <2>1. n + e \in 0 .. Len(s) /\ n + 1 \in Nat \ {0} /\ 1 \in Nat \ {0} BY <1>1, <1>5
  <2> HIDE DEF e
  <2> QED BY <2>1, PartTyped
<1>7. rest \in Seq(Pieces) /\ \A k \in 1 .. Len(rest) : ~rest[k].newline
  <2>1. \A i \in n + e + 1 .. l : s[i] \in Pieces BY <1>1, <1>2, <1>4
  <2>2. n + e + 1 \in Int /\ l \in Int BY <1>1, <1>4
  <2>3. /\ rest \in Seq(Pieces)
        /\ Len(rest) = IF n + e + 1 <= l THEN l - (n + e + 1) + 1 ELSE 0
        /\ \A i \in 1 .. l - (n + e + 1) + 1 : rest[i] = s[(n + e + 1) + i - 1]
    <3> HIDE DEF e, chunk, l
    <3> QED BY <2>1, <2>2, SubSeqProperties
  <2> HIDE DEF e, chunk, l, rest
  <2>4. ASSUME NEW k \in 1 .. Len(rest) PROVE ~rest[k].newline
    <3>1. k \in 1 .. l - (n + e + 1) + 1 BY <1>1, <1>4, <2>3, <2>4
    <3>2. rest[k] = s[(n + e + 1) + k - 1] BY <2>3, <3>1
    <3>3. (n + e + 1) + k - 1 = n + (e + k) /\ e + k \in 1 .. l - n /\ ~(e + k <= e) BY <1>1, <1>4, <3>1
    <3>4. rest[k] = chunk[e + k] BY <1>3, <3>2, <3>3
    <3> QED BY <1>4, <3>3, <3>4
  <2> QED BY <2>3, <2>4
<1>8. SubSeq(s, n + 1, n + e) \o rest = chunk
  <2>1. n + 1 \in 1 .. l + 1 /\ n + e \in (n + 1) - 1 .. l /\ l \in n + e .. l BY <1>1, <1>4
  <2> HIDE DEF e
  <2> QED BY <2>1, ConcatAdjacentSubSeq
<1>9. SubSeq(s, 1, n) \o SubSeq(s, n + 1, n + e) = SubSeq(s, 1, n + e)
  <2>1. 1 \in 1 .. l + 1 /\ n \in 1 - 1 .. l /\ n + e \in n .. l BY <1>1, <1>4
  <2> HIDE DEF e
  <2> QED BY <2>1, ConcatAdjacentSubSeq
<1>10. SubSeq(s, 1, n) \o chunk = s
  <2>1. 1 \in 1 .. l + 1 /\ n \in 1 - 1 .. l /\ l \in n .. l BY <1>1
  <2>2. SubSeq(s, 1, n) \o chunk = SubSeq(s, 1, l) BY <2>1, ConcatAdjacentSubSeq
  <2> QED BY <2>2, SubSeqFull
<1>11. RecordsIn(rest) = << >>
  <2> HIDE DEF rest
  <2> QED BY <1>7, NoRecords
<1>12. RecordsIn(chunk) = RecordsIn(SubSeq(s, n + 1, n + e))
  <2> DEFINE t == SubSeq(s, n + 1, n + e)
  <2>1. t \in Seq(Pieces) BY <1>6
  <2> HIDE DEF rest, t
  <2>2. RecordsIn(t \o rest) = RecordsIn(t) \o RecordsIn(rest) BY <1>7, <2>1, RecordsConcat
  <2>3. \A x \in Pieces : x.record \in Records BY DEF Pieces
  <2>4. RecordsIn(t) \in Seq(Records) BY <2>1, <2>3, RecordsTyped
  <2>5. RecordsIn(t) \o << >> = RecordsIn(t) BY <2>4, ConcatEmptySeq
  <2> HIDE DEF chunk
  <2>6. t \o rest = chunk BY <1>8 DEF t
  <2> QED BY <1>11, <2>2, <2>5, <2>6 DEF t
<1>13. RecordsIn(SubSeq(s, 1, n)) \in Seq(Records) /\ RecordsIn(chunk) \in Seq(Records)
  <2>1. \A x \in Pieces : x.record \in Records BY DEF Pieces
  <2> HIDE DEF chunk
  <2> QED BY <1>3, <1>6, <2>1, RecordsTyped
<1>14. RecordsIn(SubSeq(s, 1, n + e)) = RecordsIn(SubSeq(s, 1, n)) \o RecordsIn(SubSeq(s, n + 1, n + e))
  <2> DEFINE t == SubSeq(s, n + 1, n + e) h == SubSeq(s, 1, n)
  <2>1. t \in Seq(Pieces) /\ h \in Seq(Pieces) BY <1>6
  <2>2. h \o t = SubSeq(s, 1, n + e) BY <1>9
  <2> HIDE DEF t, h
  <2>3. RecordsIn(h \o t) = RecordsIn(h) \o RecordsIn(t) BY <2>1, RecordsConcat
  <2> QED BY <2>2, <2>3 DEF t, h
<1>15. RecordsIn(s) = RecordsIn(SubSeq(s, 1, n)) \o RecordsIn(chunk)
  <2> DEFINE h == SubSeq(s, 1, n)
  <2>1. h \in Seq(Pieces) BY <1>6
  <2>2. h \o chunk = s BY <1>10
  <2> HIDE DEF h, chunk
  <2>3. RecordsIn(h \o chunk) = RecordsIn(h) \o RecordsIn(chunk) BY <1>3, <2>1, RecordsConcat
  <2> QED BY <2>2, <2>3 DEF h
<1> HIDE DEF e
<1> QED BY <1>3, <1>5, <1>12, <1>13, <1>14, <1>15 DEF e

\* A deque keeps the last max_rows.
LEMMA RecentIs ==
  ASSUME NEW A, NEW s \in Seq(A)
  PROVE  LET cut == IF Len(s) > MaxRows THEN Len(s) - MaxRows ELSE 0
         IN  /\ Recent(s) \in Seq(A) /\ Len(Recent(s)) = Len(s) - cut
             /\ \A i \in 1 .. Len(s) - cut : Recent(s)[i] = s[cut + i]
             /\ Len(Recent(s)) <= MaxRows
<1> DEFINE l == Len(s) cut == IF l > MaxRows THEN l - MaxRows ELSE 0
<1>1. l \in Nat /\ MaxRows \in Nat \ {0} BY LenProperties, ConstantsTyped
<1>2. \A i \in 1 .. l : s[i] \in A BY ElementOfSeq
<1>3. Recent(s) = SubSeq(s, cut + 1, l)
  BY <1>1 DEF Recent
<1> HIDE DEF l
<1>4. cut \in 0 .. l /\ l - cut <= MaxRows BY <1>1
<1> HIDE DEF cut
<1>5. cut + 1 \in Int /\ l \in Int /\ \A i \in cut + 1 .. l : s[i] \in A BY <1>1, <1>2, <1>4
<1>6. /\ SubSeq(s, cut + 1, l) \in Seq(A)
      /\ Len(SubSeq(s, cut + 1, l)) = IF cut + 1 <= l THEN l - (cut + 1) + 1 ELSE 0
      /\ \A i \in 1 .. l - (cut + 1) + 1 : SubSeq(s, cut + 1, l)[i] = s[(cut + 1) + i - 1]
  BY <1>5, SubSeqProperties
<1>7. l - (cut + 1) + 1 = l - cut /\ (cut + 1 <= l \/ l - cut = 0) BY <1>1, <1>4
<1>8. \A i \in 1 .. l - cut : (cut + 1) + i - 1 = cut + i BY <1>1, <1>4
<1> QED BY <1>3, <1>4, <1>6, <1>7, <1>8 DEF l, cut

\* What is dropped would be dropped later: a deque that is extended has the last
\* max_rows of everything that was put in.
LEMMA RecentConcat ==
  ASSUME NEW A, NEW s \in Seq(A), NEW t \in Seq(A)
  PROVE  Recent(Recent(s) \o t) = Recent(s \o t)
<1> DEFINE M == MaxRows
           Cut(n) == IF n > M THEN n - M ELSE 0
           ls == Len(s) lt == Len(t)
           r == Recent(s) a == r \o t b == s \o t
<1>1. ls \in Nat /\ lt \in Nat /\ M \in Nat \ {0} BY LenProperties, ConstantsTyped
<1>2. r \in Seq(A) /\ Len(r) = ls - Cut(ls) /\ \A i \in 1 .. ls - Cut(ls) : r[i] = s[Cut(ls) + i]
  BY RecentIs
<1> HIDE DEF r
<1>3. /\ a \in Seq(A) /\ Len(a) = Len(r) + lt
      /\ \A i \in 1 .. Len(r) + lt : a[i] = IF i <= Len(r) THEN r[i] ELSE t[i - Len(r)]
  BY <1>2, ConcatProperties
<1>4. /\ b \in Seq(A) /\ Len(b) = ls + lt
      /\ \A i \in 1 .. ls + lt : b[i] = IF i <= ls THEN s[i] ELSE t[i - ls]
  BY ConcatProperties
<1> HIDE DEF a, b
<1>5. /\ Recent(a) \in Seq(A) /\ Len(Recent(a)) = Len(a) - Cut(Len(a))
      /\ \A i \in 1 .. Len(a) - Cut(Len(a)) : Recent(a)[i] = a[Cut(Len(a)) + i]
  BY <1>3, RecentIs
<1>6. /\ Recent(b) \in Seq(A) /\ Len(Recent(b)) = Len(b) - Cut(Len(b))
      /\ \A i \in 1 .. Len(b) - Cut(Len(b)) : Recent(b)[i] = b[Cut(Len(b)) + i]
  BY <1>4, RecentIs
<1> HIDE DEF ls, lt, M
<1>7. Cut(ls) \in 0 .. ls /\ Cut(ls + lt) \in 0 .. ls + lt BY <1>1
<1>8. Len(a) = (ls - Cut(ls)) + lt /\ Len(a) \in Nat BY <1>1, <1>2, <1>3, <1>7
<1>9. Cut(ls + lt) = Cut(ls) + Cut(Len(a)) BY <1>1, <1>8
<1>10. Len(Recent(a)) = Len(Recent(b)) BY <1>1, <1>4, <1>5, <1>6, <1>7, <1>8, <1>9
<1>11. ASSUME NEW i \in 1 .. Len(Recent(a)) PROVE Recent(a)[i] = Recent(b)[i]
  <2> DEFINE c == Cut(ls) d == Cut(Len(a))
  <2>1. c \in Nat /\ c <= ls /\ d \in Nat BY <1>1, <1>7, <1>8
  <2>2. Cut(ls + lt) = c + d BY <1>9
  <2>3. Recent(a)[i] = a[d + i] BY <1>5, <1>11
  <2>4. Recent(b)[i] = b[(c + d) + i] BY <1>4, <1>6, <1>10, <1>11, <2>2
  <2>5. Len(a) = (ls - c) + lt /\ Len(r) = ls - c BY <1>2, <1>8
  <2>6. i \in 1 .. Len(a) - d BY <1>5, <1>11
  <2> HIDE DEF c, d, Cut
  <2>7. d + i \in 1 .. Len(r) + lt /\ (c + d) + i \in 1 .. ls + lt BY <1>1, <2>1, <2>5, <2>6
  <2>8. CASE d + i <= ls - c
    <3>1. (c + d) + i <= ls /\ (c + d) + i = c + (d + i) /\ d + i \in 1 .. ls - c
      BY <1>1, <2>1, <2>6, <2>7, <2>8
    <3>2. a[d + i] = r[d + i] BY <1>3, <2>5, <2>7, <2>8
    <3>3. b[(c + d) + i] = s[(c + d) + i] BY <1>4, <2>7, <3>1
    <3>4. r[d + i] = s[c + (d + i)] BY <1>2, <3>1 DEF c
    <3> QED BY <2>3, <2>4, <3>1, <3>2, <3>3, <3>4
  <2>9. CASE ~(d + i <= ls - c)
    <3>1. ~((c + d) + i <= ls) /\ ((c + d) + i) - ls = (d + i) - (ls - c)
      BY <1>1, <2>1, <2>6, <2>7, <2>9
    <3>2. a[d + i] = t[(d + i) - (ls - c)] BY <1>3, <2>5, <2>7, <2>9
    <3>3. b[(c + d) + i] = t[((c + d) + i) - ls] BY <1>4, <2>7, <3>1
    <3> QED BY <2>3, <2>4, <3>1, <3>2, <3>3
  <2> QED BY <2>8, <2>9
<1>12. Recent(a) = Recent(b) BY <1>5, <1>6, <1>10, <1>11, SeqEqual
<1> QED BY <1>12 DEF a, b, r

\* An empty deque is empty.
LEMMA RecentNone == Recent(<< >>) = << >>
<1>1. 0 <= MaxRows /\ ~(0 > MaxRows) BY ConstantsTyped
<1>2. SubSeq(<< >>, 1, 0) = << >> BY SubSeqEmpty
<1>3. Len(<< >>) = 0 BY EmptySeq
<1> QED BY <1>1, <1>2, <1>3 DEF Recent

-----------------------------------------------------------------------------
(***************************************************************************)
(* The file, and the typing.                                               *)
(***************************************************************************)

\* The pieces of the lines of run r.
Of(r) == {x \in Pieces : x.record[1] = r}

\* The file is of the run that writes, or wrote last, and so is its buffer.
WriterInv ==
  /\ path <= run /\ (writing => path # 0) /\ (~writing => buffer = << >>)
  /\ buffer \in Seq(Of(run))
  /\ path # 0 => files[path] \in Seq(Of(run))

\* read() has a file open.
Holds == at \in {"opened", "sized"} => handle # 0

FileInv == TypeOK /\ WriterInv /\ Holds

\* What FileInv says of the file that metrics.jsonl names, of the one read() has
\* open, and of the bounds.
LEMMA FileTyped ==
  ASSUME FileInv
  PROVE  /\ run \in Nat /\ path \in Nat /\ offset \in Nat /\ MaxRuns \in Nat
         /\ Of(run) \subseteq Pieces
         /\ path # 0 => path \in Files /\ files[path] \in Seq(Pieces) /\ files[path] \in Seq(Of(run))
                        /\ run \in Runs
         /\ buffer \in Seq(Of(run)) /\ buffer \in Seq(Pieces)
         /\ at \in {"opened", "sized"} => handle \in Files /\ files[handle] \in Seq(Pieces)
<1>1. MaxRuns \in Nat /\ run \in 0 .. MaxRuns /\ path \in 0 .. MaxRuns /\ path <= run
      /\ handle \in 0 .. MaxRuns
  BY ConstantsTyped DEF FileInv, TypeOK, WriterInv
<1>2. path # 0 => path \in Files /\ run \in Runs BY <1>1 DEF Files, Runs
<1>3. files \in [Files -> Seq(Pieces)] /\ offset \in Nat /\ buffer \in Seq(Pieces)
  BY DEF FileInv, TypeOK
<1>4. at \in {"opened", "sized"} => handle \in Files BY <1>1 DEF FileInv, Holds, Files
<1> QED BY <1>1, <1>2, <1>3, <1>4 DEF FileInv, WriterInv, Of

\* A line of a run is pieces of that run, one or two.
LEMMA LineTyped ==
  ASSUME NEW r \in Runs, NEW k \in 1 .. MaxRecords
  PROVE  Line(r, k) \in Seq(Of(r))
<1>1. Width(r, k) \in {1, 2} BY ConstantsTyped
<1>2. Width(r, k) \in Nat BY <1>1
<1>3. \A p \in 1 .. Width(r, k) : Piece(r, k, p) \in Of(r)
  BY DEF Piece, Of, Pieces, Records
<1> QED BY <1>2, <1>3, IsASeq DEF Line

\* What record() and close() do to the file: pieces of the run are appended, and
\* pieces of the run, or none, stay in the buffer.
Appends(t) ==
  /\ path # 0 /\ t \in Seq(Of(run))
  /\ files' = [files EXCEPT ![path] = @ \o t]
  /\ buffer' \in Seq(Of(run)) /\ written' \in 0 .. MaxRecords /\ writing' \in BOOLEAN
  /\ ~writing' => buffer' = << >>
  /\ UNCHANGED <<path, run, reader>>

\* record() appends the beginning of what is written and not yet in the file.
LEMMA RecordAppends == ASSUME FileInv, Record PROVE \E t \in Seq(Of(run)) : Appends(t)
<1> DEFINE all == buffer \o Line(run, written + 1)
<1>1. path # 0 /\ writing BY DEF FileInv, WriterInv, Record
<1>2. run \in Runs /\ buffer \in Seq(Of(run)) BY <1>1, FileTyped
<1>3. written + 1 \in 1 .. MaxRecords /\ written' \in 0 .. MaxRecords
  <2>1. MaxRecords \in Nat /\ written \in 0 .. MaxRecords BY ConstantsTyped DEF FileInv, TypeOK
  <2> QED BY <2>1 DEF Record
<1>4. all \in Seq(Of(run)) BY <1>2, <1>3, LineTyped, ConcatProperties
<1>5. PICK n \in 0 .. Len(all) :
        /\ files' = [files EXCEPT ![path] = @ \o SubSeq(all, 1, n)]
        /\ buffer' = SubSeq(all, n + 1, Len(all))
  BY DEF Record
<1> HIDE DEF all
<1>6. Len(all) \in 0 .. Len(all) /\ n + 1 \in Nat \ {0} /\ 1 \in Nat \ {0} BY <1>4, LenProperties
<1>7. SubSeq(all, 1, n) \in Seq(Of(run)) /\ SubSeq(all, n + 1, Len(all)) \in Seq(Of(run))
  BY <1>4, <1>6, PartTyped
<1>8. writing' = TRUE /\ UNCHANGED <<path, run, reader>> BY <1>1 DEF Record, FileInv, TypeOK
<1> QED BY <1>1, <1>3, <1>5, <1>7, <1>8 DEF Appends

\* close() appends what is in the buffer.
LEMMA CloseAppends == ASSUME FileInv, Close PROVE \E t \in Seq(Of(run)) : Appends(t)
<1>1. path # 0 /\ buffer \in Seq(Of(run)) BY FileTyped DEF FileInv, WriterInv, Close
<1>2. buffer' \in Seq(Of(run)) /\ buffer' = << >> BY EmptySeq DEF Close
<1>3. written' \in 0 .. MaxRecords BY DEF FileInv, TypeOK, Close
<1>4. files' = [files EXCEPT ![path] = @ \o buffer] /\ writing' \in BOOLEAN /\ UNCHANGED <<path, run, reader>>
  BY DEF Close
<1> QED BY <1>1, <1>2, <1>3, <1>4 DEF Appends

\* What read() parses are records, and the offset passes what it parses.
LEMMA ChunkTyped ==
  ASSUME FileInv, at = "sized"
  PROVE  LET chunk == SubSeq(files[handle], offset + 1, Len(files[handle]))
         IN  /\ chunk \in Seq(Pieces)
             /\ RecordsIn(chunk) \in Seq(Records) /\ Len(RecordsIn(chunk)) \in Nat
             /\ End(chunk) \in Nat
             /\ End(chunk) = 0 => RecordsIn(chunk) = << >>
<1> DEFINE s == files[handle]
           chunk == SubSeq(s, offset + 1, Len(s))
<1>1. s \in Seq(Pieces) /\ offset + 1 \in Nat \ {0} BY FileTyped
<1> HIDE DEF s
<1>2. Len(s) \in 0 .. Len(s) BY <1>1, LenProperties
<1>3. chunk \in Seq(Pieces) BY <1>1, <1>2, PartTyped
<1> HIDE DEF chunk
<1>4. \A x \in Pieces : x.record \in Records BY DEF Pieces
<1>5. RecordsIn(chunk) \in Seq(Records) BY <1>3, <1>4, RecordsTyped
<1>6. Len(chunk) \in Nat /\ Len(RecordsIn(chunk)) \in Nat BY <1>3, <1>5, LenProperties
<1>7. End(chunk) \in 0 .. Len(chunk) /\ \A k \in 1 .. Len(chunk) : chunk[k].newline => k <= End(chunk)
  BY <1>3, EndIs
<1>8. ASSUME End(chunk) = 0 PROVE RecordsIn(chunk) = << >>
  <2>1. \A k \in 1 .. Len(chunk) : ~chunk[k].newline BY <1>6, <1>7, <1>8
  <2> QED BY <1>3, <2>1, NoRecords
<1> QED BY <1>3, <1>5, <1>6, <1>7, <1>8 DEF s, chunk

\* Before any run there is no file.
LEMMA FileInit == Init => FileInv
<1> SUFFICES ASSUME Init PROVE FileInv OBVIOUS
<1>1. \A A : << >> \in Seq(A) /\ Len(<< >>) = 0 BY EmptySeq
<1>2. MaxRuns \in Nat /\ MaxRecords \in Nat /\ MaxRows \in Nat BY ConstantsTyped
<1>3. TypeOK
  <2>1. files \in [Files -> Seq(Pieces)] BY <1>1 DEF Init
  <2>2. rows \in Seq(Records) /\ Len(rows) <= MaxRows BY <1>1, <1>2 DEF Init
  <2>3. buffer \in Seq(Pieces) /\ firstRead \in Seq(Pieces) /\ firstLine \in Seq(Pieces) BY <1>1 DEF Init
  <2>4. 0 \in 0 .. MaxRuns /\ 0 \in 0 .. MaxRecords BY <1>2
  <2> QED BY <2>1, <2>2, <2>3, <2>4 DEF Init, TypeOK
<1>4. WriterInv /\ Holds BY <1>1 DEF Init, WriterInv, Holds
<1> QED BY <1>3, <1>4 DEF FileInv

\* An append keeps the file of the run.
LEMMA FileAppends == ASSUME FileInv, NEW t, Appends(t) PROVE FileInv'
<1> DEFINE s == files[path]
<1>1. path \in Files /\ s \in Seq(Pieces) /\ s \in Seq(Of(run)) /\ Of(run) \subseteq Pieces
  BY FileTyped DEF Appends
<1>2. t \in Seq(Of(run)) /\ files' = [files EXCEPT ![path] = s \o t] BY DEF Appends
<1>3. t \in Seq(Pieces) /\ buffer' \in Seq(Pieces) BY <1>1, <1>2, SeqMonotonic DEF Appends
<1> HIDE DEF s
<1>4. s \o t \in Seq(Pieces) /\ s \o t \in Seq(Of(run)) BY <1>1, <1>2, <1>3, ConcatProperties
<1>5. files' \in [Files -> Seq(Pieces)] /\ files'[path] = s \o t
  BY <1>1, <1>2, <1>4 DEF FileInv, TypeOK
<1>6. TypeOK' BY <1>3, <1>5 DEF Appends, FileInv, TypeOK, reader
<1>7. WriterInv' BY <1>4, <1>5 DEF Appends, FileInv, WriterInv
<1>8. Holds' BY DEF Appends, FileInv, Holds, reader
<1> QED BY <1>6, <1>7, <1>8 DEF FileInv

\* A run that starts empties the file.
LEMMA FileStarts ==
  ASSUME FileInv, StartRun
  PROVE  /\ FileInv' /\ run' = run + 1
         /\ path' # 0 /\ path' \in Files /\ files' = [files EXCEPT ![path'] = << >>] /\ files'[path'] = << >>
<1>1. /\ run \in Nat /\ path \in Nat /\ MaxRuns \in Nat /\ run < MaxRuns /\ path <= run
      /\ run' = run + 1 /\ path' = (IF path = 0 THEN run + 1 ELSE path)
  BY FileTyped DEF StartRun, FileInv, WriterInv
<1>2. path' \in Files /\ path' # 0 /\ path' <= run' /\ run' \in 0 .. MaxRuns BY <1>1 DEF Files
<1>3. files' = [files EXCEPT ![path'] = << >>] BY DEF StartRun
<1>4. files'[path'] = << >> BY <1>2, <1>3 DEF FileInv, TypeOK
<1>5. UNCHANGED <<at, again, handle, firstRead, firstLine, rows, total, offset>>
      /\ writing' = TRUE /\ written' = 0 /\ buffer' = << >> /\ alone' = FALSE
  BY DEF StartRun
<1>6. \A A : << >> \in Seq(A) BY EmptySeq
<1>7. files' \in [Files -> Seq(Pieces)] BY <1>3, <1>6 DEF FileInv, TypeOK
<1>8. 0 \in 0 .. MaxRecords /\ path' \in 0 .. MaxRuns BY <1>1, <1>2, ConstantsTyped
<1>9. TypeOK' BY <1>2, <1>5, <1>6, <1>7, <1>8 DEF FileInv, TypeOK
<1>10. WriterInv' BY <1>2, <1>4, <1>5, <1>6 DEF WriterInv
<1>11. Holds' BY <1>5 DEF FileInv, Holds
<1> QED BY <1>1, <1>2, <1>3, <1>4, <1>9, <1>10, <1>11 DEF FileInv

\* A step of read() keeps the files; its own variables stay of their kinds.
LEMMA FileRead ==
  ASSUME FileInv, UNCHANGED <<files, path, writer>>,
         at' \in {"idle", "exists", "opened", "sized", "retry"}, again' \in BOOLEAN, alone' \in BOOLEAN,
         handle' \in 0 .. MaxRuns, at' \in {"opened", "sized"} => handle' # 0,
         firstRead' \in Seq(Pieces), firstLine' \in Seq(Pieces),
         rows' \in Seq(Records), Len(rows') <= MaxRows, total' \in Nat, offset' \in Nat
  PROVE  FileInv'
<1>1. TypeOK' BY DEF FileInv, TypeOK, writer
<1>2. WriterInv' BY DEF FileInv, WriterInv, writer
<1>3. Holds' BY DEF Holds
<1> QED BY <1>1, <1>2, <1>3 DEF FileInv

\* Every step of the writer and of read() does.
LEMMA FileNext == FileInv /\ [Next]_vars => FileInv'
<1> SUFFICES ASSUME FileInv, [Next]_vars PROVE FileInv' OBVIOUS
<1>1. /\ again \in BOOLEAN /\ alone \in BOOLEAN /\ handle \in 0 .. MaxRuns
      /\ firstRead \in Seq(Pieces) /\ firstLine \in Seq(Pieces)
      /\ rows \in Seq(Records) /\ Len(rows) <= MaxRows /\ total \in Nat /\ offset \in Nat
  BY DEF FileInv, TypeOK
<1>2. \A A : << >> \in Seq(A) /\ Len(<< >>) = 0 BY EmptySeq
<1>3. << >> \in Seq(Records) /\ << >> \in Seq(Pieces) /\ Len(<< >>) <= MaxRows /\ 0 \in Nat
  BY <1>2, ConstantsTyped
<1>4. CASE UNCHANGED vars
  <2>1. at' = at /\ (at \in {"opened", "sized"} => handle # 0) BY <1>4 DEF FileInv, Holds, vars, reader
  <2> QED BY <1>1, <1>4, <2>1, FileRead DEF FileInv, TypeOK, vars, reader
<1>5. CASE StartRun BY <1>5, FileStarts
<1>6. CASE Record BY <1>6, RecordAppends, FileAppends
<1>7. CASE Close BY <1>7, CloseAppends, FileAppends
<1>8. CASE Killed
  <2>1. UNCHANGED <<files, path, run, written, reader>> /\ writing' = FALSE /\ buffer' = << >>
    BY <1>8 DEF Killed
  <2>2. TypeOK' BY <1>2, <2>1 DEF FileInv, TypeOK, reader
  <2>3. WriterInv' /\ Holds' BY <1>2, <2>1 DEF FileInv, WriterInv, Holds, reader
  <2> QED BY <2>2, <2>3 DEF FileInv
<1>9. CASE Unlink
  <2>1. /\ path' = 0 /\ alone' = FALSE /\ ~writing
        /\ UNCHANGED <<files, writer, at, again, handle, firstRead, firstLine, rows, total, offset>>
    BY <1>9 DEF Unlink
  <2>2. 0 \in 0 .. MaxRuns /\ 0 <= run BY FileTyped
  <2>3. TypeOK' BY <2>1, <2>2 DEF FileInv, TypeOK, writer
  <2>4. WriterInv' /\ Holds' BY <2>1, <2>2 DEF FileInv, WriterInv, Holds, writer
  <2> QED BY <2>3, <2>4 DEF FileInv
<1>10. CASE Missing BY <1>1, <1>3, <1>10, FileRead DEF Missing
<1>11. CASE Exists BY <1>1, <1>11, FileRead DEF Exists
<1>12. CASE OpenRaises BY <1>1, <1>12, FileRead DEF OpenRaises
<1>13. CASE Open
  <2> DEFINE s == files[path]
  <2>1. s \in Seq(Pieces) /\ path # 0 /\ path \in 0 .. MaxRuns
    BY <1>13, FileTyped DEF Open, FileInv, TypeOK
  <2>2. firstRead' = FirstOf(s) BY <1>13 DEF Open
  <2> HIDE DEF s
  <2>3. FirstOf(s) = << >> \/ FirstOf(s) \in Seq(Pieces) BY <2>1, FirstOfStarts
  <2>4. firstRead' \in Seq(Pieces) BY <1>3, <2>2, <2>3
  <2> QED BY <1>1, <1>13, <2>1, <2>4, FileRead DEF Open
<1>14. CASE Size
  <2>1. firstLine' = firstLine \/ firstLine' = firstRead \/ firstLine' = << >>
    BY <1>14 DEF Size, Identify
  <2>2. (rows' = rows /\ total' = total /\ offset' = offset) \/ (rows' = << >> /\ total' = 0 /\ offset' = 0)
    BY <1>14 DEF Size
  <2>3. UNCHANGED <<files, path, writer, again, handle, firstRead, alone>> /\ at' = "sized" /\ handle # 0
    BY <1>14 DEF Size, FileInv, Holds
  <2> QED BY <1>1, <1>3, <2>1, <2>2, <2>3, FileRead
<1>15. CASE Parse
  <2> DEFINE chunk == SubSeq(files[handle], offset + 1, Len(files[handle]))
  <2>1. RecordsIn(chunk) \in Seq(Records) /\ Len(RecordsIn(chunk)) \in Nat /\ End(chunk) \in Nat
    BY <1>15, ChunkTyped DEF Parse
  <2>2. /\ UNCHANGED <<files, path, writer, handle, firstRead, firstLine, alone>>
        /\ at' = "idle" /\ again' = FALSE
        /\ rows' = Recent(rows \o RecordsIn(chunk))
        /\ total' = total + Len(RecordsIn(chunk)) /\ offset' = offset + End(chunk)
    BY <1>15 DEF Parse
  <2> HIDE DEF chunk
  <2>3. rows \o RecordsIn(chunk) \in Seq(Records) BY <1>1, <2>1, ConcatProperties
  <2>4. rows' \in Seq(Records) /\ Len(rows') <= MaxRows BY <2>2, <2>3, RecentIs
  <2>5. total' \in Nat /\ offset' \in Nat BY <1>1, <2>1, <2>2
  <2> QED BY <1>1, <2>2, <2>4, <2>5, FileRead
<1>16. CASE ParseRaises
  <2>1. at' \in {"idle", "retry"} BY <1>16 DEF ParseRaises
  <2> QED BY <1>1, <1>3, <1>16, <2>1, FileRead DEF ParseRaises
<1> QED
  BY <1>4, <1>5, <1>6, <1>7, <1>8, <1>9, <1>10, <1>11, <1>12, <1>13, <1>14, <1>15, <1>16
  DEF Next, Read

-----------------------------------------------------------------------------
(***************************************************************************)
(* The reader follows the file.                                            *)
(*                                                                         *)
(* RowsAreOfTheFile says what a finished read() has.  Its invariant says   *)
(* what every read() may rely on: it has the records up to its offset, or  *)
(* it knows the first line of an earlier run, which the next comparison    *)
(* will tell from the one of the file.                                     *)
(***************************************************************************)

\* The run whose line it is.
RunOf(line) == line[1].record[1]

\* What read() knows is the first line of an earlier run.
Old == firstLine # << >> /\ (path = 0 \/ RunOf(firstLine) < run)

\* It knows the first line of this run or of an earlier one, and in full.
Named ==
  firstLine # << >> =>
    /\ Ended(firstLine) /\ RunOf(firstLine) \in Nat /\ RunOf(firstLine) <= run
    /\ path # 0 /\ RunOf(firstLine) = run => firstLine = FirstOf(files[path])

\* At the beginning of the file it has no rows.
Unread == offset = 0 => rows = << >> /\ total = 0

\* It has the records up to the offset, of the file that is there.
Follows ==
  IF path = 0 THEN offset = 0
  ELSE /\ offset <= Len(files[path])
       /\ total = Len(RecordsIn(SubSeq(files[path], 1, offset)))
       /\ rows = Recent(RecordsIn(SubSeq(files[path], 1, offset)))

\* Between two passes it follows the file, or will see that it was replaced.
Outside ==
  at \in {"idle", "exists", "retry"} =>
    /\ Follows \/ Old
    /\ at = "idle" /\ alone /\ handle # 0 /\ handle = path => Follows

\* In a pass over a file nobody replaced, once it has compared the first line it
\* follows the file, and the line it keeps is that file's.
Inside ==
  at \in {"opened", "sized"} /\ alone =>
    /\ handle = path /\ path # 0
    /\ at = "sized" => Follows
    /\ at = "opened" =>
         /\ Follows \/ (Old /\ firstRead # firstLine)
         /\ IF Ended(firstRead) THEN firstRead = FirstOf(files[path]) ELSE firstLine = << >> \/ Old

\* In a pass over a file that was replaced, the next pass will see it.
Lagging ==
  at \in {"opened", "sized"} /\ ~alone => Old /\ (at = "opened" => firstRead = firstLine)

FollowInv == Named /\ Unread /\ Outside /\ Inside /\ Lagging

\* The first line of the file is of the run that writes it.
LEMMA FirstIsOfRun ==
  ASSUME FileInv, path # 0, FirstOf(files[path]) # << >>
  PROVE  RunOf(FirstOf(files[path])) = run
<1> DEFINE s == files[path]
<1>1. s \in Seq(Pieces) /\ s \in Seq(Of(run)) BY FileTyped
<1> HIDE DEF s
<1>2. FirstOf(s) # << >> BY DEF s
<1>3. s # << >> /\ FirstOf(s)[1] = s[1] BY <1>1, <1>2, FirstOfStarts
<1>4. 1 \in 1 .. Len(s) BY <1>1, <1>3, EmptySeq
<1>5. s[1] \in Of(run) BY <1>1, <1>4, ElementOfSeq
<1>6. s[1].record[1] = run BY <1>5 DEF Of
<1> QED BY <1>3, <1>6 DEF RunOf, s

\* A reader that knows it knows no earlier one.
LEMMA KnownNotOld ==
  ASSUME FileInv, path # 0, firstLine # << >>, firstLine = FirstOf(files[path])
  PROVE  RunOf(firstLine) = run /\ ~Old
<1>1. RunOf(firstLine) = run BY FirstIsOfRun
<1>2. ~(run < run) BY FileTyped
<1> QED BY <1>1, <1>2 DEF Old

\* Initially there is nothing to follow.
LEMMA FollowInit == Init => FollowInv
  BY DEF Init, FollowInv, Named, Unread, Outside, Inside, Lagging, Follows

\* A step that leaves the file, and what read() has of it, leaves what is said of both.
LEMMA SameRead ==
  ASSUME FollowInv, UNCHANGED <<files, path, run, firstLine, rows, total, offset>>
  PROVE  (Old' <=> Old) /\ (Follows' <=> Follows) /\ Named' /\ Unread'
BY DEF FollowInv, Old, Follows, Named, Unread

\* An appended file begins as it did.
LEMMA FollowAppends == ASSUME FileInv, FollowInv, NEW t, Appends(t) PROVE FollowInv'
<1> USE DEF FollowInv
<1> DEFINE s == files[path] u == s \o t
<1>1. path \in Files /\ s \in Seq(Pieces) /\ t \in Seq(Pieces) /\ offset \in Nat
  BY FileTyped, SeqMonotonic DEF Appends
<1>2. files' = [files EXCEPT ![path] = u] /\ path # 0 /\ UNCHANGED <<path, run, reader>> BY DEF Appends
<1>3. files'[path] = u BY <1>1, <1>2 DEF FileInv, TypeOK
<1>4. Ended(FirstOf(s)) => FirstOf(u) = FirstOf(s)
  <2> HIDE DEF s
  <2> QED BY <1>1, FirstOfGrows
<1>5. Follows => Follows'
  <2>1. SUFFICES ASSUME Follows PROVE Follows' OBVIOUS
  <2>2. offset \in 0 .. Len(s) BY <1>1, <1>2, <2>1, LenProperties DEF Follows
  <2>3. SubSeq(u, 1, offset) = SubSeq(s, 1, offset) /\ offset <= Len(u)
    <3> HIDE DEF s
    <3> QED BY <1>1, <2>2, PrefixGrows
  <2> QED BY <1>2, <1>3, <2>1, <2>3 DEF Follows, reader
<1>6. Old' <=> Old BY <1>2 DEF Old, reader
<1>7. Named'
  <2>1. path # 0 /\ RunOf(firstLine) = run /\ firstLine # << >> => firstLine = FirstOf(u)
    BY <1>4 DEF Named
  <2> QED BY <1>2, <1>3, <2>1 DEF Named, reader
<1>8. Unread' /\ Outside' /\ Lagging' BY <1>2, <1>5, <1>6 DEF Unread, Outside, Lagging, reader
<1>9. Inside'
  <2>1. Ended(firstRead) /\ firstRead = FirstOf(s) => firstRead = FirstOf(u) BY <1>4
  <2> HIDE DEF u
  <2> QED BY <1>2, <1>3, <1>5, <1>6, <2>1 DEF Inside, reader
<1> QED BY <1>7, <1>8, <1>9

\* Killing the run loses what was in its buffer, which read() never saw.
LEMMA FollowKilled == ASSUME FollowInv, Killed PROVE FollowInv'
<1> USE DEF FollowInv
<1>1. UNCHANGED <<files, path, run, reader>> BY DEF Killed
<1>2. (Old' <=> Old) /\ (Follows' <=> Follows) /\ Named' /\ Unread' BY <1>1, SameRead DEF reader
<1>3. Outside' /\ Inside' /\ Lagging' BY <1>1, <1>2 DEF Outside, Inside, Lagging, reader
<1> QED BY <1>2, <1>3

\* What Replaceable says: the reader knows the first line of the file that goes, or
\* has read nothing of it and is in no pass; and in a pass it knows an earlier one.
LEMMA Replaced ==
  ASSUME Attentive, FileInv, FollowInv, Replaceable
  PROVE  /\ at \in {"idle", "retry", "exists"} => offset = 0 \/ firstLine # << >>
         /\ at \in {"opened", "sized"} => firstLine # << >> /\ (at = "opened" => firstRead = firstLine)
<1> USE DEF FollowInv
<1>1. path # 0 => \/ firstLine # << >> /\ firstLine = FirstOf(files[path]) /\ ~Old
                  \/ offset = 0 /\ at \in {"idle", "retry", "exists"}
  BY KnownNotOld DEF Replaceable
<1>2. ASSUME at \in {"idle", "retry", "exists"} PROVE offset = 0 \/ firstLine # << >>
  BY <1>1, <1>2 DEF Outside, Follows, Old
<1>3. ASSUME at \in {"opened", "sized"}
      PROVE  firstLine # << >> /\ (at = "opened" => firstRead = firstLine)
  <2>1. CASE ~alone BY <1>3, <2>1 DEF Lagging, Old
  <2>2. CASE alone
    <3>1. path # 0 BY <1>3, <2>2 DEF Inside
    <3>2. firstLine # << >> /\ firstLine = FirstOf(files[path]) /\ ~Old BY <1>1, <1>3, <3>1
    <3>3. at = "opened" => firstRead = firstLine BY <2>2, <3>2 DEF Inside
    <3> QED BY <3>2, <3>3
  <2> QED BY <2>1, <2>2 DEF FileInv, TypeOK
<1> QED BY <1>2, <1>3

\* A file that is replaced leaves a reader that knows an earlier run's first line, or
\* one that has read nothing, which follows the empty file.
LEMMA FollowStartRun == ASSUME Attentive, FileInv, FollowInv, StartRun PROVE FollowInv'
<1> USE DEF FollowInv
<1>1. run \in Nat /\ run' = run + 1 /\ path' # 0 /\ files'[path'] = << >> BY FileTyped, FileStarts
<1>2. UNCHANGED <<at, again, handle, firstRead, firstLine, rows, total, offset>> /\ alone' = FALSE
  BY DEF StartRun
<1>3. firstLine # << >> => Old' BY <1>1, <1>2 DEF Old, Named
<1>4. offset = 0 => Follows'
  <2>1. SUFFICES ASSUME offset = 0 PROVE Follows' OBVIOUS
  <2>2. offset' = 0 /\ rows' = << >> /\ total' = 0 BY <1>2, <2>1 DEF Unread
  <2>3. SubSeq(files'[path'], 1, offset') = << >> BY <2>2, SubSeqEmpty
  <2>4. offset' <= Len(files'[path']) BY <1>1, <2>2, EmptySeq
  <2> QED BY <1>1, <2>2, <2>3, <2>4, RecordsNone, RecentNone, EmptySeq DEF Follows
<1>5. Replaceable BY DEF StartRun
<1>6. Outside' BY <1>2, <1>3, <1>4, <1>5, Replaced DEF Outside
<1>7. Lagging' /\ Inside' BY <1>2, <1>3, <1>5, Replaced DEF Lagging, Inside
<1>8. Named'
  <2>1. firstLine # << >> => RunOf(firstLine) \in Nat /\ RunOf(firstLine) < run' BY <1>1 DEF Named
  <2>2. firstLine # << >> => RunOf(firstLine) <= run' /\ RunOf(firstLine) # run' BY <1>1, <2>1
  <2> QED BY <1>2, <2>2 DEF Named
<1>9. Unread' BY <1>2 DEF Unread
<1> QED BY <1>6, <1>7, <1>8, <1>9

\* So does a file that is removed.
LEMMA FollowUnlink == ASSUME Attentive, FileInv, FollowInv, Unlink PROVE FollowInv'
<1> USE DEF FollowInv
<1>1. /\ path' = 0 /\ alone' = FALSE /\ Replaceable
      /\ UNCHANGED <<files, run, at, again, handle, firstRead, firstLine, rows, total, offset>>
  BY DEF Unlink, writer
<1>2. (Old' <=> firstLine # << >>) /\ (Follows' <=> offset = 0) BY <1>1 DEF Old, Follows
<1>3. Outside' /\ Lagging' /\ Inside' BY <1>1, <1>2, Replaced DEF Outside, Lagging, Inside
<1>4. Named' /\ Unread' BY <1>1 DEF Named, Unread
<1> QED BY <1>3, <1>4

\* A read() that starts over follows the file from its beginning.
LEMMA Forgotten ==
  ASSUME FileInv, UNCHANGED <<files, path>>, rows' = << >>, total' = 0, offset' = 0
  PROVE  Follows' /\ Unread'
<1>1. path' # 0 => offset' <= Len(files'[path']) BY FileTyped, LenProperties
<1>2. SubSeq(files'[path'], 1, offset') = << >> BY SubSeqEmpty
<1>3. Follows' BY <1>1, <1>2, RecordsNone, RecentNone, EmptySeq DEF Follows
<1> QED BY <1>3 DEF Unread

\* No file, and a malformed line, make it start over.
LEMMA FollowRestart == ASSUME FileInv, FollowInv, Missing \/ ParseRaises PROVE FollowInv'
<1>1. /\ UNCHANGED <<files, path>> /\ at' \in {"idle", "retry"}
      /\ rows' = << >> /\ total' = 0 /\ offset' = 0 /\ firstLine' = << >>
  BY DEF Missing, ParseRaises
<1>2. Follows' /\ Unread' BY <1>1, Forgotten
<1>3. Named' /\ Outside' /\ Inside' /\ Lagging' BY <1>1, <1>2 DEF Named, Outside, Inside, Lagging
<1> QED BY <1>2, <1>3 DEF FollowInv

\* exists(), and an open() that raises, change nothing that is followed.
LEMMA FollowExists == ASSUME FollowInv, Exists \/ OpenRaises PROVE FollowInv'
<1> USE DEF FollowInv
<1>1. UNCHANGED <<files, path, run, handle, firstLine, rows, total, offset, alone>>
      /\ at \in {"idle", "retry", "exists"} /\ (at' = "exists" \/ (at' = "idle" /\ path = 0))
  BY DEF Exists, OpenRaises, writer
<1>2. (Old' <=> Old) /\ (Follows' <=> Follows) /\ Named' /\ Unread' BY <1>1, SameRead
<1>3. Outside' /\ Inside' /\ Lagging' BY <1>1, <1>2 DEF Outside, Inside, Lagging
<1> QED BY <1>2, <1>3

\* open() and readline(): the first line of this run is not the one of an earlier
\* run; when it is not complete, no reader knows it.
LEMMA FollowOpen == ASSUME FileInv, FollowInv, Open PROVE FollowInv'
<1> USE DEF FollowInv
<1> DEFINE s == files[path]
<1>1. /\ UNCHANGED <<files, path, run, firstLine, rows, total, offset>>
      /\ at = "exists" /\ path # 0 /\ handle' = path /\ firstRead' = FirstOf(s)
      /\ at' = "opened" /\ alone' = TRUE
  BY DEF Open, writer
<1>2. (Old' <=> Old) /\ (Follows' <=> Follows) /\ Named' /\ Unread' BY <1>1, SameRead
<1>3. Follows \/ Old BY <1>1 DEF Outside
<1>4. Old => FirstOf(s) # firstLine BY <1>1, KnownNotOld DEF Old
<1>5. ~Ended(FirstOf(s)) => firstLine = << >> \/ Old
  <2>1. SUFFICES ASSUME ~Ended(FirstOf(s)), firstLine # << >>, ~Old PROVE FALSE OBVIOUS
  <2>2. RunOf(firstLine) \in Nat /\ RunOf(firstLine) <= run /\ Ended(firstLine) BY <2>1 DEF Named
  <2>3. ~(RunOf(firstLine) < run) BY <1>1, <2>1 DEF Old
  <2>4. RunOf(firstLine) = run BY <2>2, <2>3, FileTyped
  <2>5. firstLine = FirstOf(s) BY <1>1, <2>1, <2>4 DEF Named
  <2> QED BY <2>1, <2>2, <2>5
<1> HIDE DEF s
<1>6. s = files'[path'] BY <1>1 DEF s
<1>7. Inside' BY <1>1, <1>2, <1>3, <1>4, <1>5, <1>6 DEF Inside
<1>8. Outside' /\ Lagging' BY <1>1 DEF Outside, Lagging
<1> QED BY <1>2, <1>7, <1>8

\* The comparison of the sizes and of the first lines: a reader that knows another
\* run's line starts over, one that goes on follows the file.
LEMMA FollowSize == ASSUME FileInv, FollowInv, Size PROVE FollowInv'
<1> USE DEF FollowInv
<1> DEFINE gone == IsReplaced(Len(files[handle]))
<1>1. /\ UNCHANGED <<files, path, run, handle, firstRead, alone>>
      /\ at = "opened" /\ at' = "sized"
      /\ gone => rows' = << >> /\ total' = 0 /\ offset' = 0 /\ firstLine' = Identify(<< >>)
      /\ ~gone => firstLine' = Identify(firstLine) /\ UNCHANGED <<rows, total, offset>>
  BY DEF Size, writer
<1>2. gone => Follows' /\ Unread' BY <1>1, Forgotten
<1>3. ~gone => (Follows' <=> Follows) /\ Unread' BY <1>1 DEF Follows, Unread
<1>4. firstLine' # << >> => firstLine' = firstLine \/ (firstLine' = firstRead /\ Ended(firstRead))
  BY <1>1 DEF Identify
<1>5. CASE alone
  <2>1. handle = path /\ path # 0 /\ (Follows \/ (Old /\ firstRead # firstLine))
        /\ (Ended(firstRead) => firstRead = FirstOf(files[path]))
    BY <1>1, <1>5 DEF Inside
  <2>2. ~gone => Follows BY <2>1 DEF IsReplaced, Old
  <2>3. Follows' BY <1>2, <1>3, <2>2
  <2>4. Ended(firstRead) => RunOf(firstRead) = run BY <2>1, FirstIsOfRun DEF Ended
  <2>5. Named'
    <3>1. CASE firstLine' = firstLine BY <1>1, <3>1 DEF Named
    <3>2. CASE firstLine' = firstRead /\ Ended(firstRead)
      <4>1. run \in Nat /\ run <= run /\ run' = run BY <1>1, FileTyped
      <4> QED BY <1>1, <2>1, <2>4, <3>2, <4>1 DEF Named
    <3> QED BY <1>4, <3>1, <3>2 DEF Named
  <2>6. Inside' BY <1>1, <2>1, <2>3 DEF Inside
  <2>7. Outside' /\ Lagging' BY <1>1, <1>5 DEF Outside, Lagging
  <2> QED BY <1>2, <1>3, <2>5, <2>6, <2>7
<1>6. CASE ~alone
  <2>1. Old /\ firstRead = firstLine BY <1>1, <1>6 DEF Lagging
  <2>2. firstLine # << >> /\ Ended(firstRead) BY <2>1 DEF Old, Named
  <2>3. firstLine' = firstLine BY <1>1, <2>1, <2>2 DEF Identify
  <2>4. Old' /\ Named' BY <1>1, <2>1, <2>3 DEF Old, Named
  <2>5. Outside' /\ Inside' /\ Lagging' BY <1>1, <1>6, <2>4 DEF Outside, Inside, Lagging
  <2> QED BY <1>2, <1>3, <2>4, <2>5
<1> QED BY <1>5, <1>6 DEF FileInv, TypeOK

\* The complete lines after the offset are parsed, and it passes them.
LEMMA FollowParse == ASSUME FileInv, FollowInv, Parse PROVE FollowInv'
<1> USE DEF FollowInv
<1> DEFINE s == files[handle]
           chunk == SubSeq(s, offset + 1, Len(s))
<1>1. /\ UNCHANGED <<files, path, run, handle, firstRead, firstLine, alone>>
      /\ at = "sized" /\ at' = "idle"
      /\ rows' = Recent(rows \o RecordsIn(chunk))
      /\ total' = total + Len(RecordsIn(chunk))
      /\ offset' = offset + End(chunk)
  BY DEF Parse, writer
<1>2. /\ s \in Seq(Pieces) /\ offset \in Nat /\ Len(s) \in Nat
      /\ RecordsIn(chunk) \in Seq(Records) /\ Len(RecordsIn(chunk)) \in Nat /\ End(chunk) \in Nat
      /\ End(chunk) = 0 => RecordsIn(chunk) = << >>
  BY <1>1, FileTyped, ChunkTyped, LenProperties
<1>3. (Old' <=> Old) /\ Named' BY <1>1 DEF Old, Named
<1>4. Unread'
  <2> HIDE DEF chunk
  <2>1. SUFFICES ASSUME offset' = 0 PROVE rows' = << >> /\ total' = 0 BY DEF Unread
  <2>2. offset = 0 /\ End(chunk) = 0 BY <1>1, <1>2, <2>1
  <2>3. rows = << >> /\ total = 0 /\ RecordsIn(chunk) = << >> BY <1>2, <2>2 DEF Unread
  <2>4. rows \o RecordsIn(chunk) = << >> /\ Len(<< >>) = 0 BY <2>3
  <2> QED BY <1>1, <2>3, <2>4, RecentNone
<1>5. CASE alone
  <2>1. handle = path /\ path # 0 /\ Follows BY <1>1, <1>5 DEF Inside
  <2> DEFINE read == RecordsIn(SubSeq(s, 1, offset))
             n == offset + End(chunk)
  <2>2. offset \in 0 .. Len(s) /\ total = Len(read) /\ rows = Recent(read)
    BY <1>2, <2>1 DEF Follows
  <2>3. n \in 0 .. Len(s) /\ RecordsIn(SubSeq(s, 1, n)) = read \o RecordsIn(chunk)
        /\ read \in Seq(Records)
    <3> HIDE DEF s
    <3> QED BY <1>2, <2>2, ChunkRead
  <2>4. n <= Len(s) BY <1>2, <2>3
  <2>5. Len(read \o RecordsIn(chunk)) = Len(read) + Len(RecordsIn(chunk))
        /\ Recent(Recent(read) \o RecordsIn(chunk)) = Recent(read \o RecordsIn(chunk))
    <3> HIDE DEF read, chunk
    <3> QED BY <1>2, <2>3, ConcatProperties, RecentConcat
  <2>6. /\ files'[path'] = s /\ path' # 0 /\ offset' = n
        /\ total' = Len(read \o RecordsIn(chunk)) /\ rows' = Recent(read \o RecordsIn(chunk))
    BY <1>1, <2>1, <2>2, <2>5
  <2> HIDE DEF read, n, chunk, s
  <2>7. Follows' BY <2>3, <2>4, <2>6 DEF Follows
  <2>8. Outside' /\ Inside' /\ Lagging' BY <1>1, <2>7 DEF Outside, Inside, Lagging
  <2> QED BY <1>3, <1>4, <2>8
<1>6. CASE ~alone
  <2>1. Old' BY <1>1, <1>3, <1>6 DEF Lagging
  <2>2. Outside' /\ Inside' /\ Lagging' BY <1>1, <1>6, <2>1 DEF Outside, Inside, Lagging
  <2> QED BY <1>3, <1>4, <2>2
<1> QED BY <1>5, <1>6 DEF FileInv, TypeOK

\* One step per action.
LEMMA FollowNext == ASSUME Attentive, FileInv, FollowInv, [Next]_vars PROVE FollowInv'
<1>1. CASE UNCHANGED vars
  <2>1. (Old' <=> Old) /\ (Follows' <=> Follows) /\ Named' /\ Unread'
    BY <1>1, SameRead DEF vars, writer, reader
  <2>2. Outside' /\ Inside' /\ Lagging'
    BY <1>1, <2>1 DEF FollowInv, Outside, Inside, Lagging, vars, reader
  <2> QED BY <2>1, <2>2 DEF FollowInv
<1>2. CASE StartRun BY <1>2, FollowStartRun
<1>3. CASE Record BY <1>3, RecordAppends, FollowAppends
<1>4. CASE Close BY <1>4, CloseAppends, FollowAppends
<1>5. CASE Killed BY <1>5, FollowKilled
<1>6. CASE Unlink BY <1>6, FollowUnlink
<1>7. CASE Missing \/ ParseRaises BY <1>7, FollowRestart
<1>8. CASE Exists \/ OpenRaises BY <1>8, FollowExists
<1>9. CASE Open BY <1>9, FollowOpen
<1>10. CASE Size BY <1>10, FollowSize
<1>11. CASE Parse BY <1>11, FollowParse
<1> QED BY <1>1, <1>2, <1>3, <1>4, <1>5, <1>6, <1>7, <1>8, <1>9, <1>10, <1>11 DEF Next, Read

\* A reader that follows the file shows the last rows of its first `total' records.
LEMMA FollowsShows == FileInv /\ FollowInv => RowsAreOfTheFile
<1> SUFFICES ASSUME FileInv, FollowInv, at = "idle", alone, handle # 0, handle = path
             PROVE  LET all == RecordsIn(files[path])
                    IN  total <= Len(all) /\ rows = Recent(SubSeq(all, 1, total))
  BY DEF RowsAreOfTheFile
<1> DEFINE s == files[path]
           read == RecordsIn(SubSeq(s, 1, offset))
           rest == RecordsIn(SubSeq(s, offset + 1, Len(s)))
<1>1. s \in Seq(Pieces) /\ Len(s) \in Nat /\ offset \in Nat /\ path # 0 BY FileTyped, LenProperties
<1>2. Follows BY DEF FollowInv, Outside
<1>3. offset \in 0 .. Len(s) /\ total = Len(read) /\ rows = Recent(read) BY <1>1, <1>2 DEF Follows
<1>4. RecordsIn(s) = read \o rest /\ read \in Seq(Records) /\ rest \in Seq(Records)
  <2> HIDE DEF s
  <2> QED BY <1>1, <1>3, ChunkRead
<1> HIDE DEF read, rest
<1>5. total \in Nat /\ Len(rest) \in Nat /\ Len(read \o rest) = total + Len(rest)
  BY <1>3, <1>4, LenProperties, ConcatProperties
<1>6. SubSeq(read \o rest, 1, total) = read
  <2>1. CASE total = 0
    <3>1. SubSeq(read \o rest, 1, 0) = << >> BY SubSeqEmpty
    <3>2. read = << >> BY <1>3, <1>4, <2>1, EmptySeq
    <3> QED BY <2>1, <3>1, <3>2
  <2>2. CASE total # 0
    <3>1. 1 \in 1 .. Len(read) /\ total \in 1 .. Len(read) BY <1>3, <1>5, <2>2
    <3>2. SubSeq(read \o rest, 1, total) = SubSeq(read, 1, total) BY <1>4, <3>1, SubSeqOfConcat1
    <3> QED BY <1>3, <1>4, <3>2, SubSeqFull
  <2> QED BY <2>1, <2>2
<1>7. total <= Len(read \o rest) BY <1>5
<1> QED BY <1>3, <1>4, <1>6, <1>7

\* JsonlTail (metrics.py, _read_once and reset): when no run replaced the file meanwhile,
\* read() has returned the last max_rows of the first `total' records of the file
\* and nothing else, for any number of runs, lengths of records and of deque, and
\* wherever flushes cut a line; provided a run is only replaced when the reader
\* knows its first line, or has read nothing of it (Attentive).
THEOREM TailFollows ==
  ASSUME Attentive PROVE Spec => []RowsAreOfTheFile
<1>1. Init => FileInv /\ FollowInv BY FileInit, FollowInit
<1>2. FileInv /\ FollowInv /\ [Next]_vars => (FileInv /\ FollowInv)' BY FileNext, FollowNext
<1>3. FileInv /\ FollowInv => RowsAreOfTheFile BY FollowsShows
<1> QED BY <1>1, <1>2, <1>3, PTL DEF Spec

\* The dashboard does to the files and to its reader what a run, an unlink and a
\* read() do.
LEMMA DashboardIsTail == [DashboardNext]_<<telemetry, dashboard>> => [Next]_vars
<1>1. UNCHANGED telemetry => UNCHANGED vars BY DEF telemetry, vars
<1>2. ASSUME NEW t \in Tabs, Click(t) \/ Stopped(t) \/ StopTimesOut(t) \/ Clear(t) \/ Popen(t)
      PROVE  [Next]_vars
  BY <1>1, <1>2 DEF Click, Stopped, StopTimesOut, Clear, Popen, Next
<1>3. ASSUME NEW p \in Runs, Opens(p) \/ WritesMetadata(p) \/ Writes(p) \/ Finishes(p) \/ Dies(p)
      PROVE  [Next]_vars
  BY <1>1, <1>3 DEF Opens, WritesMetadata, Writes, Finishes, Dies, Next
<1>4. StartedElsewhere => [Next]_vars BY <1>1 DEF StartedElsewhere
<1>5. Reads => [Next]_vars BY DEF Reads, Next
<1> QED BY <1>1, <1>2, <1>3, <1>4, <1>5 DEF DashboardNext

\* So every property of the file and its reader is one of the dashboard's.
THEOREM DashboardTail == DashboardSpec => Spec
<1>1. DashboardInit => Init BY DEF DashboardInit
<1>2. [DashboardNext]_<<telemetry, dashboard>> => [Next]_vars BY DashboardIsTail
<1> QED BY <1>1, <1>2, PTL DEF DashboardSpec, Spec

\* The pages show the file's rows (load of app.py), whatever the buttons do to the runs.
THEOREM PagesFollow ==
  ASSUME Attentive PROVE DashboardSpec => []RowsAreOfTheFile
BY DashboardTail, TailFollows, PTL

-----------------------------------------------------------------------------
(***************************************************************************)
(* The names.                                                              *)
(***************************************************************************)

\* The records of the runs up to n, and the pieces of their lines.
Labelled(n) == {r \in Records : r[1] <= n}
PiecesUpTo(n) == {x \in Pieces : x.record \in Labelled(n)}

\* The dashboard's own variables have values of their kinds.
DashboardTyped ==
  /\ ButtonsTyped
  /\ holder \in Runs \cup {0} /\ names \in Runs \cup {0}

\* The process that has the file open is one, and writes records of the run that
\* run.json names.
InFile(p) == life[p] \in {"opened", "writing"}

OneWriter ==
  /\ \A p \in Runs : InFile(p) => writing
  /\ \A p, q \in Runs : InFile(p) /\ InFile(q) => p = q
  /\ \A p \in Runs : life[p] = "writing" => names = run
  /\ names <= run

\* What is in a file, on its way to one or read from one is of a run that run.json
\* has named.
AllNamed ==
  /\ \A f \in Files : files[f] \in Seq(PiecesUpTo(names))
  /\ buffer \in Seq(PiecesUpTo(names))
  /\ rows \in Seq(Labelled(names))

NamesInv == FileInv /\ DashboardTyped /\ OneWriter /\ AllNamed

\* A name that is later names more.
LEMMA NamedMore ==
  ASSUME NEW m \in Int, NEW n \in Int, m <= n
  PROVE  PiecesUpTo(m) \subseteq PiecesUpTo(n) /\ Labelled(m) \subseteq Labelled(n)
<1>1. \A r \in Records : r[1] \in Int BY DEF Records, Runs
<1>2. Labelled(m) \subseteq Labelled(n) BY <1>1 DEF Labelled
<1> QED BY <1>2 DEF PiecesUpTo

\* The pieces of the run that is named are named.
LEMMA RunIsNamed == ASSUME NEW n \in Int PROVE Of(n) \subseteq PiecesUpTo(n)
<1>1. \A x \in Pieces : x.record \in Records BY DEF Pieces
<1> QED BY <1>1 DEF Of, PiecesUpTo, Labelled

\* Nothing runs, nothing is named, nothing is written.
LEMMA NamesInit == DashboardInit => NamesInv
<1> SUFFICES ASSUME DashboardInit PROVE NamesInv OBVIOUS
<1>1. Init BY DEF DashboardInit
<1>2. FileInv BY <1>1, FileInit
<1>3. \A A : << >> \in Seq(A) BY EmptySeq
<1>4. DashboardTyped BY DEF DashboardInit, DashboardTyped, ButtonsTyped
<1>5. OneWriter BY <1>1 DEF DashboardInit, Init, OneWriter, InFile
<1>6. AllNamed BY <1>1, <1>3 DEF Init, AllNamed
<1> QED BY <1>2, <1>4, <1>5, <1>6 DEF NamesInv

\* A button, a process that boots or one that dies before it has the file open
\* changes no record and no name.
LEMMA NamesAside ==
  ASSUME NamesInv, UNCHANGED <<telemetry, names>>, DashboardTyped',
         \A p \in Runs : life'[p] \in {"opened", "writing"} => life'[p] = life[p]
  PROVE  NamesInv'
<1> USE DEF NamesInv
<1>1. UNCHANGED vars BY DEF telemetry, vars
<1>2. FileInv' BY <1>1, FileNext
<1>3. AllNamed' BY DEF AllNamed, telemetry, writer, reader
<1>4. OneWriter' BY DEF OneWriter, InFile, telemetry, writer
<1> QED BY <1>2, <1>3, <1>4

\* A run opens metrics.jsonl and empties it; nobody else has it open.
LEMMA NamesOpens == ASSUME NamesInv, NEW p \in Runs, Opens(p) PROVE NamesInv'
<1> USE DEF NamesInv
<1>1. StartRun /\ life' = [life EXCEPT ![p] = "opened"] /\ UNCHANGED <<observer, tab, holder, names>>
  BY DEF Opens
<1>2. FileInv' /\ run' = run + 1 /\ path' \in Files /\ files' = [files EXCEPT ![path'] = << >>]
  BY <1>1, FileStarts
<1>3. writing' = TRUE /\ buffer' = << >> /\ rows' = rows /\ ~writing BY <1>1 DEF StartRun
<1>4. \A q \in Runs : ~InFile(q) BY <1>3 DEF OneWriter
<1>5. DashboardTyped' BY <1>1 DEF DashboardTyped, ButtonsTyped
<1>6. \A q \in Runs : InFile(q)' => q = p BY <1>1, <1>4, <1>5 DEF InFile, DashboardTyped, ButtonsTyped
<1>7. \A q \in Runs : life'[q] # "writing"
  BY <1>1, <1>4 DEF InFile, DashboardTyped, ButtonsTyped
<1>8. names' <= run'
  <2>1. run \in Nat /\ names \in Int BY FileTyped DEF DashboardTyped, Runs
  <2> QED BY <1>1, <1>2, <2>1 DEF OneWriter
<1>9. OneWriter' BY <1>3, <1>6, <1>7, <1>8 DEF OneWriter
<1>10. AllNamed'
  <2>1. \A A : << >> \in Seq(A) BY EmptySeq
  <2>2. \A f \in Files : files'[f] = files[f] \/ files'[f] = << >> BY <1>2 DEF FileInv, TypeOK
  <2> QED BY <1>1, <1>3, <2>1, <2>2 DEF AllNamed
<1> QED BY <1>2, <1>5, <1>9, <1>10

\* run.json is written: from now on it names this run, which is the last one.
LEMMA NamesWritesMetadata == ASSUME NamesInv, NEW p \in Runs, WritesMetadata(p) PROVE NamesInv'
<1> USE DEF NamesInv
<1>1. /\ life[p] = "opened" /\ life' = [life EXCEPT ![p] = "writing"] /\ names' = run
      /\ UNCHANGED <<telemetry, observer, tab, holder>>
  BY DEF WritesMetadata
<1>2. UNCHANGED vars BY <1>1 DEF telemetry, vars
<1>3. FileInv' BY <1>2, FileNext
<1>4. writing /\ run \in Runs
  <2>1. InFile(p) BY <1>1 DEF InFile
  <2>2. writing BY <2>1 DEF OneWriter
  <2>3. path # 0 BY <2>2 DEF FileInv, WriterInv
  <2> QED BY <2>2, <2>3, FileTyped
<1>5. DashboardTyped' BY <1>1, <1>4 DEF DashboardTyped, ButtonsTyped
<1>6. OneWriter'
  <2>1. \A q \in Runs : InFile(q)' => InFile(q) BY <1>1 DEF InFile, DashboardTyped, ButtonsTyped
  <2>2. run \in Nat /\ run' = run /\ writing' = writing BY <1>1, FileTyped DEF telemetry, writer
  <2> QED BY <1>1, <2>1, <2>2 DEF OneWriter
<1>7. PiecesUpTo(names) \subseteq PiecesUpTo(run) /\ Labelled(names) \subseteq Labelled(run)
  <2>1. run \in Int /\ names \in Int /\ names <= run BY FileTyped DEF DashboardTyped, Runs, OneWriter
  <2> QED BY <2>1, NamedMore
<1>8. AllNamed'
  <2>1. files' = files /\ buffer' = buffer /\ rows' = rows BY <1>1 DEF telemetry, writer, reader
  <2>2. \A f \in Files : files[f] \in Seq(PiecesUpTo(run))
    <3>1. SUFFICES ASSUME NEW f \in Files PROVE files[f] \in Seq(PiecesUpTo(run)) OBVIOUS
    <3>2. files[f] \in Seq(PiecesUpTo(names)) BY DEF AllNamed
    <3> QED BY <1>7, <3>2, SeqMonotonic
  <2>3. buffer \in Seq(PiecesUpTo(run)) /\ rows \in Seq(Labelled(run)) BY <1>7, SeqMonotonic DEF AllNamed
  <2> QED BY <1>1, <2>1, <2>2, <2>3 DEF AllNamed
<1> QED BY <1>3, <1>5, <1>6, <1>8

\* A run that records, or ends, appends records of its own, when run.json names it.
LEMMA NamesAppends ==
  ASSUME NamesInv, NEW p \in Runs, life[p] = "writing", NEW t, Appends(t), names' = names,
         DashboardTyped', \A q \in Runs : InFile(q)' => writing',
         \A q \in Runs : life'[q] \in {"opened", "writing"} => life'[q] = life[q]
  PROVE  NamesInv'
<1> USE DEF NamesInv
<1>1. names = run BY DEF OneWriter
<1>2. run \in Int BY FileTyped
<1>3. Of(run) \subseteq PiecesUpTo(names) BY <1>1, <1>2, RunIsNamed
<1>4. FileInv' BY FileAppends
<1>5. OneWriter' BY DEF OneWriter, InFile, Appends
<1>6. AllNamed'
  <2>1. t \in Seq(PiecesUpTo(names)) /\ buffer' \in Seq(PiecesUpTo(names))
    BY <1>3, SeqMonotonic DEF Appends
  <2>2. path \in Files BY FileTyped DEF Appends
  <2> DEFINE s == files[path]
  <2>3. s \in Seq(PiecesUpTo(names)) BY <2>2 DEF AllNamed
  <2>4. files' = [files EXCEPT ![path] = s \o t] BY DEF Appends
  <2> HIDE DEF s
  <2>5. s \o t \in Seq(PiecesUpTo(names)) BY <2>1, <2>3, ConcatProperties
  <2>6. \A f \in Files : files'[f] = files[f] \/ files'[f] = s \o t
    BY <2>4 DEF FileInv, TypeOK
  <2>7. rows' = rows BY DEF Appends, reader
  <2> QED BY <2>1, <2>5, <2>6, <2>7 DEF AllNamed
<1> QED BY <1>4, <1>5, <1>6

\* A run that is killed takes its buffer with it.
LEMMA NamesKilled ==
  ASSUME NamesInv, NEW p \in Runs, InFile(p), Killed, life' = [life EXCEPT ![p] = "ended"],
         UNCHANGED <<observer, tab, holder, names>>
  PROVE  NamesInv'
<1> USE DEF NamesInv
<1>1. FileInv' BY FileNext DEF Next
<1>2. DashboardTyped' BY DEF DashboardTyped, ButtonsTyped
<1>3. UNCHANGED <<files, run, rows>> /\ buffer' = << >> BY DEF Killed, reader
<1>4. \A q \in Runs : q # p => ~InFile(q) BY DEF OneWriter
<1>5. \A q \in Runs : life'[q] \notin {"opened", "writing"}
  BY <1>4 DEF InFile, DashboardTyped, ButtonsTyped
<1>6. OneWriter' BY <1>3, <1>5 DEF OneWriter, InFile
<1>7. AllNamed' BY <1>3, EmptySeq DEF AllNamed
<1> QED BY <1>1, <1>2, <1>6, <1>7

\* A page shows what it reads, and no more than was named.
LEMMA NamesRead == ASSUME NamesInv, Reads PROVE NamesInv'
<1> USE DEF NamesInv
<1>1. Read /\ UNCHANGED dashboard BY DEF Reads
<1>2. FileInv' BY <1>1, FileNext DEF Next
<1>3. DashboardTyped' BY <1>1 DEF DashboardTyped, ButtonsTyped, dashboard
<1>4. UNCHANGED <<files, writer>>
  BY <1>1 DEF Read, Missing, Exists, OpenRaises, Open, Size, Parse, ParseRaises
<1>5. OneWriter' BY <1>1, <1>4 DEF OneWriter, InFile, dashboard, writer
<1>6. rows' \in Seq(Labelled(names))
  <2>1. rows' = rows \/ rows' = << >> \/ Parse
    BY <1>1 DEF Read, Missing, Exists, OpenRaises, Open, Size, ParseRaises
  <2>2. CASE Parse
    <3> DEFINE s == files[handle]
               chunk == SubSeq(s, offset + 1, Len(s))
    <3>1. rows' = Recent(rows \o RecordsIn(chunk)) BY <2>2 DEF Parse
    <3>2. handle \in Files /\ offset + 1 \in Nat \ {0} BY <2>2, FileTyped DEF Parse
    <3>3. s \in Seq(PiecesUpTo(names)) BY <3>2 DEF AllNamed
    <3> HIDE DEF s
    <3>4. Len(s) \in 0 .. Len(s) BY <3>3, LenProperties
    <3>5. chunk \in Seq(PiecesUpTo(names)) BY <3>2, <3>3, <3>4, PartTyped
    <3> HIDE DEF chunk
    <3>6. \A x \in PiecesUpTo(names) : x.record \in Labelled(names) BY DEF PiecesUpTo
    <3>7. RecordsIn(chunk) \in Seq(Labelled(names)) BY <3>5, <3>6, RecordsTyped
    <3>8. rows \o RecordsIn(chunk) \in Seq(Labelled(names)) BY <3>7, ConcatProperties DEF AllNamed
    <3> QED BY <3>1, <3>8, RecentIs
  <2> QED BY <2>1, <2>2, EmptySeq DEF AllNamed
<1>7. AllNamed' BY <1>1, <1>4, <1>6 DEF AllNamed, dashboard, writer
<1> QED BY <1>2, <1>3, <1>5, <1>7

\* One step per action.
LEMMA NamesNext == NamesInv /\ [DashboardNext]_<<telemetry, dashboard>> => NamesInv'
<1> SUFFICES ASSUME NamesInv, [DashboardNext]_<<telemetry, dashboard>> PROVE NamesInv' OBVIOUS
<1> USE DEF NamesInv
<1>1. CASE UNCHANGED <<telemetry, dashboard>>
  <2>1. DashboardTyped' BY <1>1 DEF DashboardTyped, ButtonsTyped, dashboard
  <2> QED BY <1>1, <2>1, NamesAside DEF dashboard
<1>2. ASSUME NEW t \in Tabs, Click(t) \/ Stopped(t) \/ StopTimesOut(t) PROVE NamesInv'
  <2>1. UNCHANGED <<telemetry, observer, life, holder, names>> BY <1>2 DEF Click, Stopped, StopTimesOut
  <2>2. tab' \in [Tabs -> {"idle", "stops", "relaunches", "stopped", "cleared"}]
    BY <1>2 DEF Click, Stopped, StopTimesOut, DashboardTyped, ButtonsTyped
  <2>3. DashboardTyped' BY <2>1, <2>2 DEF DashboardTyped, ButtonsTyped
  <2> QED BY <2>1, <2>3, NamesAside
<1>3. ASSUME NEW t \in Tabs, Clear(t) PROVE NamesInv'
  <2>1. tab' = [tab EXCEPT ![t] = "cleared"] /\ UNCHANGED <<observer, life, holder, names>>
        /\ (Unlink \/ UNCHANGED telemetry)
    BY <1>3 DEF Clear
  <2>2. DashboardTyped' BY <2>1 DEF DashboardTyped, ButtonsTyped
  <2>3. CASE UNCHANGED telemetry BY <2>1, <2>2, <2>3, NamesAside
  <2>4. CASE Unlink
    <3>1. FileInv' BY <2>4, FileNext DEF Next
    <3>2. UNCHANGED <<files, run, writing, buffer, rows>> BY <2>4 DEF Unlink, writer
    <3>3. OneWriter' /\ AllNamed' BY <2>1, <3>2 DEF OneWriter, InFile, AllNamed
    <3> QED BY <2>2, <3>1, <3>3
  <2> QED BY <2>1, <2>3, <2>4
<1>4. ASSUME NEW t \in Tabs, Popen(t) PROVE NamesInv'
  <2>1. PICK p \in Runs : Boots(p) /\ holder' = p BY <1>4 DEF Popen
  <2>2. tab' = [tab EXCEPT ![t] = "idle"] /\ UNCHANGED <<telemetry, observer, names>> BY <1>4 DEF Popen
  <2>3. DashboardTyped' BY <2>1, <2>2 DEF Boots, DashboardTyped, ButtonsTyped
  <2>4. \A q \in Runs : life'[q] \in {"opened", "writing"} => life'[q] = life[q]
    BY <2>1 DEF Boots, DashboardTyped, ButtonsTyped
  <2> QED BY <2>2, <2>3, <2>4, NamesAside
<1>5. CASE StartedElsewhere
  <2>1. PICK p \in Runs : Boots(p) BY <1>5 DEF StartedElsewhere
  <2>2. UNCHANGED <<telemetry, observer, tab, holder, names>> BY <1>5 DEF StartedElsewhere
  <2>3. DashboardTyped' BY <2>1, <2>2 DEF Boots, DashboardTyped, ButtonsTyped
  <2>4. \A q \in Runs : life'[q] \in {"opened", "writing"} => life'[q] = life[q]
    BY <2>1 DEF Boots, DashboardTyped, ButtonsTyped
  <2> QED BY <2>2, <2>3, <2>4, NamesAside
<1>6. ASSUME NEW p \in Runs, Opens(p) PROVE NamesInv' BY <1>6, NamesOpens
<1>7. ASSUME NEW p \in Runs, WritesMetadata(p) PROVE NamesInv' BY <1>7, NamesWritesMetadata
<1>8. ASSUME NEW p \in Runs, Writes(p) PROVE NamesInv'
  <2>1. Record /\ life[p] = "writing" /\ UNCHANGED dashboard BY <1>8 DEF Writes, MayRecord
  <2>2. PICK t \in Seq(Of(run)) : Appends(t) BY <2>1, RecordAppends
  <2>3. writing' = writing BY <2>1 DEF Record
  <2>4. DashboardTyped' BY <2>1 DEF DashboardTyped, ButtonsTyped, dashboard
  <2>5. names' = names /\ life' = life BY <2>1 DEF dashboard
  <2>6. \A q \in Runs : InFile(q)' => writing' BY <2>3, <2>5 DEF OneWriter, InFile
  <2> QED BY <2>1, <2>2, <2>4, <2>5, <2>6, NamesAppends
<1>9. ASSUME NEW p \in Runs, Finishes(p) PROVE NamesInv'
  <2>1. Close /\ life[p] = "writing" /\ life' = [life EXCEPT ![p] = "ended"]
        /\ UNCHANGED <<observer, tab, holder, names>>
    BY <1>9 DEF Finishes
  <2>2. PICK t \in Seq(Of(run)) : Appends(t) BY <2>1, CloseAppends
  <2>3. DashboardTyped' BY <2>1 DEF DashboardTyped, ButtonsTyped
  <2>4. \A q \in Runs : q # p => ~InFile(q) BY <2>1 DEF OneWriter, InFile
  <2>5. \A q \in Runs : life'[q] \notin {"opened", "writing"}
    BY <2>1, <2>4 DEF InFile, DashboardTyped, ButtonsTyped
  <2>6. \A q \in Runs : InFile(q)' => writing' BY <2>5 DEF InFile
  <2> QED BY <2>1, <2>2, <2>3, <2>5, <2>6, NamesAppends
<1>10. ASSUME NEW p \in Runs, Dies(p) PROVE NamesInv'
  <2>1. p \in Alive /\ life' = [life EXCEPT ![p] = "ended"] /\ UNCHANGED <<observer, tab, holder, names>>
    BY <1>10 DEF Dies
  <2>2. CASE life[p] = "booting"
    <3>1. UNCHANGED telemetry BY <1>10, <2>2 DEF Dies
    <3>2. DashboardTyped' BY <2>1 DEF DashboardTyped, ButtonsTyped
    <3>3. \A q \in Runs : life'[q] \in {"opened", "writing"} => life'[q] = life[q]
      BY <2>1 DEF DashboardTyped, ButtonsTyped
    <3> QED BY <2>1, <3>1, <3>2, <3>3, NamesAside
  <2>3. CASE life[p] # "booting"
    <3>1. Killed BY <1>10, <2>3 DEF Dies
    <3>2. InFile(p) BY <2>1, <2>3 DEF Alive, InFile, DashboardTyped, ButtonsTyped
    <3> QED BY <2>1, <3>1, <3>2, NamesKilled
  <2> QED BY <2>2, <2>3
<1>11. CASE Reads BY <1>11, NamesRead
<1> QED BY <1>1, <1>2, <1>3, <1>4, <1>5, <1>6, <1>7, <1>8, <1>9, <1>10, <1>11 DEF DashboardNext

\* The last row is one of the rows.
LEMMA NamedRows == NamesInv => NamesNotStale
<1> SUFFICES ASSUME NamesInv, rows # << >> PROVE Last(rows)[1] <= names BY DEF NamesNotStale
<1>1. rows \in Seq(Labelled(names)) BY DEF NamesInv, AllNamed
<1>2. Len(rows) \in Nat /\ Len(rows) # 0 BY <1>1, EmptySeq, LenProperties
<1>3. Len(rows) \in 1 .. Len(rows) BY <1>2
<1>4. rows[Len(rows)] \in Labelled(names) BY <1>1, <1>3, ElementOfSeq
<1> QED BY <1>4 DEF Labelled, Last

\* The files, the reader, the tabs and the processes have values of their kinds, for
\* any number of tabs, runs and records, Attentive or not.
THEOREM DashboardTyping == DashboardSpec => []DashboardTypeOK
<1>1. NamesInv => DashboardTypeOK
  BY DEF NamesInv, FileInv, DashboardTyped, ButtonsTyped, DashboardTypeOK
<1> QED BY NamesInit, NamesNext, <1>1, PTL DEF DashboardSpec

\* A page never labels the rows of a run with the names of an earlier one (app.py, which
\* reads run.json after the records; experiments.py, which writes it before them):
\* for any number of tabs and runs, whenever a run is stopped, killed or replaced.
THEOREM NamesFollow == DashboardSpec => []NamesNotStale
BY NamesInit, NamesNext, NamedRows, PTL DEF DashboardSpec

-----------------------------------------------------------------------------
(***************************************************************************)
(* The launcher: emulators that could meet are kept apart.                 *)
(***************************************************************************)

\* nothing of u runs, and its launcher has not begun or is over
Resting(u) ==
  /\ launcher[u] \in Over \cup {"prepared"} /\ project # u
  /\ \A c \in Children : proc[u][c] \in Dead

\* of emulators that could meet, one at most does anything
OneAtATimeHere == \A u, v \in Ups : u # v /\ Meet(u, v) => Resting(u) \/ Resting(v)

\* the two backends
BackendsApart ==
  \A u \in Ups :
    /\ args[u].backend = "docker" =>
         /\ launcher[u] \notin {"starting", "waiting", "asking", "stopping"}
         /\ \A c \in Children : proc[u][c] \in Dead
    /\ args[u].backend = "local" =>
         launcher[u] \notin {"composing", "attached", "detaching", "down"} /\ project # u

\* the config of u is still to be read
ToRead(u) ==
  \/ launcher[u] \in {"prepared", "starting", "composing"} \/ proc[u]["controller"] = "booting"
  \/ project = u /\ loaded[u] = Nobody

\* the controller of u has its files open
Reading(u) == proc[u]["controller"] \in {"opened", "serving", "closing"} \/ ContainerUp(u)

\* in a directory of its own, the config is the launcher's until its controller has
\* read it
ConfigOwn == \A u \in Ups : OwnDirectory(u) /\ ToRead(u) => config[Dir(u)] = u

\* ... and what a controller has read and opened stays its own until it has ended
FilesOwn ==
  \A u \in Ups : OwnDirectory(u) /\ Reading(u) => loaded[u] = u /\ metrics[Dir(u)] = u

\* no containers have read anything before compose up
Unloaded ==
  \A u \in Ups : args[u].backend = "docker" /\ launcher[u] \in {"new", "prepared", "composing"} =>
    loaded[u] = Nobody /\ project # u

PeersOwn == \A u \in Ups, w \in Workers : peer[u][w] \in {u, Nobody}
ToldOwn == \A u \in Ups : "controller" \in told[u] => launcher[u] \in {"asking", "stopping", "over"}
ProjectOwn == \A u \in Ups : launcher[u] = "attached" => project = u

UpInv ==
  /\ UpTypeOK /\ OneAtATimeHere /\ BackendsApart /\ Unloaded /\ ConfigOwn /\ FilesOwn
  /\ PeersOwn /\ ToldOwn /\ ProjectOwn

\* The children a launcher starts, in their order.
LEMMA KidsAre == Len(Kids) = 4 /\ \A k \in 1 .. Len(Kids) : Kids[k] \in Children
BY DEF Kids, Children, Workers

\* a child goes from one state of its life to the next
States == {"retrying", "linking", "serving", "closing", "ended"}
GoesOn(u, c, next) ==
  /\ Becomes(u, c, next) /\ next \in States /\ proc[u][c] \notin Dead
  /\ c = "controller" => /\ proc[u][c] \in {"opened", "serving", "closing"}
                         /\ next \in {"serving", "closing", "ended"}

\* the steps of a launcher and of its processes
UpStep(u) ==
  \/ Prepare(u) \/ CheckPorts(u) \/ CheckProject(u) \/ StartChild(u) \/ ControllerReturned(u)
  \/ RequestShutdown(u) \/ StopChild(u) \/ Interrupt(u)
  \/ ComposeUp(u) \/ ContainerOpens(u) \/ ComposeReturns(u) \/ ComposeDown(u)
  \/ ControllerOpens(u) \/ \E w \in Workers : WorkerConnects(u, w)
  \/ \E c \in Children, next \in States : GoesOn(u, c, next)

\* Every step is one of these.
LEMMA UpStepIs ==
  ASSUME UpNext
  PROVE  \E u \in Ups : UpStep(u)
<1>1. PICK u \in Ups :
        \/ Prepare(u) \/ Interrupt(u) \/ ComposeReturns(u)
        \/ LauncherSteps(u) \/ ControllerSteps(u) \/ DashboardSteps(u)
        \/ \E w \in Workers : WorkerSteps(u, w)
  BY DEF UpNext
<1>2. /\ "controller" \in Children /\ "dashboard" \in Children
      /\ "source" \in Workers /\ Workers \subseteq Children
      /\ \A w \in Workers : w # "controller"
  BY DEF Children, Workers
<1>3. CASE ControllerSteps(u)
  <2>1. CASE ControllerBinds(u) \/ ControllerStops(u) \/ ControllerEnds(u)
    <3>1. \E next \in {"serving", "closing", "ended"} :
            Becomes(u, "controller", next) /\ proc[u]["controller"] \in {"opened", "serving", "closing"}
      BY <2>1 DEF ControllerBinds, ControllerStops, ControllerEnds
    <3>2. \E next \in States : GoesOn(u, "controller", next) BY <3>1 DEF GoesOn, States, Dead
    <3> QED BY <1>2, <3>2 DEF UpStep
  <2> QED BY <1>3, <2>1 DEF ControllerSteps, UpStep
<1>4. CASE DashboardSteps(u)
  <2>1. \E next \in {"serving", "ended"} :
          Becomes(u, "dashboard", next) /\ proc[u]["dashboard"] \in {"booting", "serving"}
    BY <1>4 DEF DashboardSteps, DashboardBoots, DashboardEnds
  <2>2. \E next \in States : GoesOn(u, "dashboard", next) BY <2>1 DEF GoesOn, States, Dead
  <2> QED BY <1>2, <2>2 DEF UpStep
<1>5. ASSUME NEW w \in Workers, WorkerSteps(u, w)
      PROVE  WorkerConnects(u, w) \/ \E c \in Children, next \in States : GoesOn(u, c, next)
  <2>1. CASE WorkerBoots(u, w) \/ WorkerAssigned(u, w) \/ WorkerGivesUp(u, w) \/ WorkerEnds(u, w)
    <3>1. \E next \in {"retrying", "linking", "serving", "ended"} :
            Becomes(u, w, next) /\ proc[u][w] \in {"booting", "registered", "retrying", "linking", "serving"}
      BY <2>1 DEF WorkerBoots, WorkerAssigned, WorkerGivesUp, WorkerEnds
    <3>2. \E next \in States : GoesOn(u, w, next) BY <1>2, <3>1 DEF GoesOn, States, Dead
    <3> QED BY <1>2, <3>2
  <2>2. CASE SourceLinks(u)
    <3>1. Becomes(u, "source", "serving") /\ proc[u]["source"] = "linking" BY <2>2 DEF SourceLinks
    <3>2. GoesOn(u, "source", "serving") BY <1>2, <3>1 DEF GoesOn, States, Dead
    <3> QED BY <1>2, <3>2 DEF States
  <2> QED BY <1>5, <2>1, <2>2 DEF WorkerSteps
<1>6. CASE LauncherSteps(u) BY <1>6 DEF LauncherSteps, UpStep
<1> QED BY <1>1, <1>3, <1>4, <1>5, <1>6 DEF UpStep

\* The states the commands are given in are of the types.
LEMMA UpTypedInit == UpInit => UpTypeOK
<1> SUFFICES ASSUME UpInit PROVE UpTypeOK OBVIOUS
<1>1. args \in Commands BY DEF UpInit
<1>2. launcher \in [Ups -> {"new", "waiting"}] BY DEF UpInit
<1>3. proc \in [Ups -> [Children -> {"none", "serving"}]] BY DEF UpInit
<1>4. peer \in [Ups -> [Workers -> Ups \cup {Nobody}]] BY DEF UpInit
<1>5. loaded \in [Ups -> Ups \cup {Nobody}] BY DEF UpInit
<1>6. config \in [Dirs -> Ups \cup {Nobody}] /\ metrics = config
  <2> DEFINE last(d) == IF \E u \in Ups : args[u].running /\ Dir(u) = d
                        THEN CHOOSE u \in Ups : args[u].running /\ Dir(u) = d ELSE Nobody
  <2>1. config = [d \in Dirs |-> last(d)] /\ metrics = config BY DEF UpInit
  <2>2. \A d : last(d) \in Ups \cup {Nobody} OBVIOUS
  <2> QED BY <2>1, <2>2
<1>7. turn \in [Ups -> 1 .. Len(Kids)] BY KidsAre DEF UpInit
<1>8. told \in [Ups -> SUBSET Children] /\ project = Nobody BY DEF UpInit
<1> QED BY <1>1, <1>2, <1>3, <1>4, <1>5, <1>6, <1>7, <1>8 DEF UpTypeOK, Over, Dead

\* the states that UpTypeOK names
Stages == Over \cup {"prepared", "starting", "waiting", "asking", "stopping",
                     "composing", "attached", "detaching", "down"}
Lives == Dead \cup {"booting", "opened", "retrying", "registered", "linking", "serving", "closing"}

\* A signal ends a child or sets its `stop'.
LEMMA SignalTyped ==
  ASSUME UpTypeOK, NEW u \in Ups, NEW cs \in SUBSET Children, Signalled(u, cs)
  PROVE  /\ proc' \in [Ups -> [Children -> Lives]] /\ told' \in [Ups -> SUBSET Children]
         /\ \A v \in Ups \ {u} : proc'[v] = proc[v] /\ told'[v] = told[v]
         /\ \A c \in Children : proc'[u][c] = proc[u][c] \/ (proc[u][c] = "booting" /\ proc'[u][c] = "ended")
         /\ \A c \in told'[u] : c \in told[u] \/ (c \in cs /\ proc[u][c] \notin Dead)
         /\ cs = Children => \A c \in Children : proc'[u][c] # "booting"
<1> DEFINE booting == {c \in cs : proc[u][c] = "booting"}
<1>1. /\ proc' = [proc EXCEPT ![u] = [c \in Children |-> IF c \in booting THEN "ended" ELSE @[c]]]
      /\ told' = [told EXCEPT ![u] = @ \cup {c \in cs \ booting : proc[u][c] \notin Dead}]
  BY DEF Signalled
<1>2. proc \in [Ups -> [Children -> Lives]] /\ told \in [Ups -> SUBSET Children] BY DEF UpTypeOK, Lives
<1>3. proc'[u] = [c \in Children |-> IF c \in booting THEN "ended" ELSE proc[u][c]] BY <1>1, <1>2
<1>4. proc'[u] \in [Children -> Lives] BY <1>2, <1>3 DEF Lives, Dead
<1>5. proc' \in [Ups -> [Children -> Lives]] BY <1>1, <1>2, <1>3, <1>4
<1>6. told' \in [Ups -> SUBSET Children] BY <1>1, <1>2
<1>7. \A v \in Ups \ {u} : proc'[v] = proc[v] /\ told'[v] = told[v] BY <1>1, <1>2
<1>8. \A c \in told'[u] : c \in told[u] \/ (c \in cs /\ proc[u][c] \notin Dead) BY <1>1, <1>2
<1> QED BY <1>3, <1>5, <1>6, <1>7, <1>8

\* Every step of a launcher or a process keeps the types.
LEMMA UpTypedStep ==
  ASSUME UpTypeOK, UpNext
  PROVE  UpTypeOK'
<1> USE DEF UpTypeOK
<1>1. PICK u \in Ups : UpStep(u)
  BY UpStepIs
<1>2. Dir(u) \in Dirs BY DEF Dir, Dirs
<1>3. Kids[turn[u]] \in Children /\ turn[u] \in Nat BY KidsAre
<1>4. CASE Prepare(u) BY <1>2, <1>4 DEF Prepare, Goes
<1>5. CASE CheckPorts(u) BY <1>5 DEF CheckPorts, Goes, upFiles, Over
<1>6. CASE CheckProject(u) BY <1>6 DEF CheckProject, Goes, upFiles, Over
<1>7. CASE StartChild(u)
  <2>1. /\ proc' = [proc EXCEPT ![u][Kids[turn[u]]] = "booting"]
        /\ UNCHANGED <<args, told, peer, upFiles, project>>
    BY <1>7 DEF StartChild
  <2>2. proc' \in [Ups -> [Children -> Lives]] BY <1>3, <2>1 DEF Lives
  <2>3. launcher' \in [Ups -> Stages] BY <1>7 DEF StartChild, Stages
  <2>4. turn' \in [Ups -> 1 .. Len(Kids)] BY SMTT(20), <1>3, <1>7, KidsAre DEF StartChild
  <2> QED BY <2>1, <2>2, <2>3, <2>4 DEF upFiles, Lives, Stages
<1>8. CASE ControllerReturned(u) BY <1>8 DEF ControllerReturned, Goes, upFiles
<1>9. CASE RequestShutdown(u)
  <2>1. "controller" \in Children BY DEF Children
  <2> QED BY <1>9, <2>1 DEF RequestShutdown, Goes, upFiles
<1>10. CASE StopChild(u)
  <2>1. UNCHANGED <<proc, told>> \/ Signalled(u, {Kids[turn[u]]}) BY <1>10 DEF StopChild, Terminate
  <2>2. proc' \in [Ups -> [Children -> Lives]] /\ told' \in [Ups -> SUBSET Children]
    BY <1>3, <2>1, SignalTyped DEF Lives
  <2>3. launcher' \in [Ups -> Stages] BY <1>10 DEF StopChild, Stages, Over
  <2>4. turn' \in [Ups -> 1 .. Len(Kids)]
    <3>1. turn' = turn \/ (turn[u] # Len(Kids) /\ turn' = [turn EXCEPT ![u] = @ + 1])
      BY <1>10 DEF StopChild
    <3>2. turn[u] \in 1 .. Len(Kids) /\ Len(Kids) \in Nat BY KidsAre
    <3>3. turn[u] # Len(Kids) => turn[u] + 1 \in 1 .. Len(Kids) BY <3>2
    <3> QED BY <3>1, <3>3
  <2> QED BY <1>10, <2>2, <2>3, <2>4 DEF StopChild, upFiles, Lives, Stages
<1>11. CASE Interrupt(u)
  <2>1. proc' \in [Ups -> [Children -> Lives]] /\ told' \in [Ups -> SUBSET Children]
    BY <1>11, SignalTyped DEF Interrupt
  <2>2. launcher' \in [Ups -> Stages] BY <1>11 DEF Interrupt, Goes, Stages, Over
  <2> QED BY <1>11, <2>1, <2>2 DEF Interrupt, Goes, upFiles, Lives, Stages
<1>12. CASE ComposeUp(u) BY <1>2, <1>12 DEF ComposeUp, Goes, upFiles, Stages
<1>18. CASE ContainerOpens(u) BY <1>2, <1>18 DEF ContainerOpens, launchers
<1>13. CASE ComposeReturns(u) BY <1>13 DEF ComposeReturns, Goes, upFiles
<1>14. CASE ComposeDown(u) BY <1>14 DEF ComposeDown, Goes, upFiles, Over
<1>15. CASE ControllerOpens(u)
  <2>1. "controller" \in Children BY DEF Children
  <2>2. proc' \in [Ups -> [Children -> Lives]] BY <1>15, <2>1 DEF ControllerOpens, Lives
  <2> QED BY <1>2, <1>15, <2>2 DEF ControllerOpens, launchers, Lives
<1>16. ASSUME NEW w \in Workers, WorkerConnects(u, w) PROVE UpTypeOK'
  <2>1. w \in Children BY DEF Children
  <2>2. proc' \in [Ups -> [Children -> Lives]] BY <1>16, <2>1 DEF WorkerConnects, Lives
  <2>3. PICK v \in Ups : peer' = [peer EXCEPT ![u][w] = v] BY <1>16 DEF WorkerConnects, Answering
  <2>4. peer' \in [Ups -> [Workers -> Ups \cup {Nobody}]] BY <2>3
  <2> QED BY <1>16, <2>2, <2>4 DEF WorkerConnects, launchers, upFiles, Lives
<1>17. ASSUME NEW c \in Children, NEW next \in States, GoesOn(u, c, next) PROVE UpTypeOK'
  <2>1. Becomes(u, c, next) BY <1>17 DEF GoesOn
  <2>2. next \in Lives BY DEF States, Lives, Dead
  <2>3. proc' \in [Ups -> [Children -> Lives]] BY <2>1, <2>2 DEF Becomes, Lives
  <2>4. told' \in [Ups -> SUBSET Children] BY <2>1 DEF Becomes
  <2>5. peer' \in [Ups -> [Workers -> Ups \cup {Nobody}]] BY <2>1 DEF Becomes
  <2> QED BY <2>1, <2>3, <2>4, <2>5 DEF Becomes, launchers, upFiles, Lives
<1> QED BY <1>1, <1>4, <1>5, <1>6, <1>7, <1>8, <1>9, <1>10, <1>11, <1>12, <1>13, <1>14, <1>15, <1>16, <1>17, <1>18
     DEF UpStep

\* A step of the emulator u leaves what belongs to the others alone, but for the
\* config and the metrics file of its directory, the project, and the controllers that
\* are asked to shut down.
LEMMA OthersKept ==
  ASSUME UpTypeOK, NEW u \in Ups, UpStep(u)
  PROVE  /\ args' = args
         /\ \A v \in Ups \ {u} :
              launcher'[v] = launcher[v] /\ proc'[v] = proc[v] /\ peer'[v] = peer[v] /\ loaded'[v] = loaded[v]
         /\ project' \in {project, u, Nobody}
<1> USE DEF UpTypeOK
<1>1. CASE Prepare(u) BY <1>1 DEF Prepare, Goes
<1>2. CASE CheckPorts(u) \/ CheckProject(u) \/ ControllerReturned(u) \/ RequestShutdown(u)
  BY <1>2 DEF CheckPorts, CheckProject, ControllerReturned, RequestShutdown, Goes, upFiles
<1>3. CASE StartChild(u) BY <1>3 DEF StartChild, upFiles
<1>4. CASE StopChild(u)
  <2>1. Kids[turn[u]] \in Children BY KidsAre
  <2>2. UNCHANGED <<proc, told>> \/ Signalled(u, {Kids[turn[u]]}) BY <1>4 DEF StopChild, Terminate
  <2>3. \A v \in Ups \ {u} : proc'[v] = proc[v]
    <3>1. {Kids[turn[u]]} \in SUBSET Children BY <2>1
    <3>2. Signalled(u, {Kids[turn[u]]}) => \A v \in Ups \ {u} : proc'[v] = proc[v]
      <4> HIDE DEF UpTypeOK
      <4> QED BY <3>1, SignalTyped
    <3> QED BY <2>2, <3>2
  <2> QED BY <1>4, <2>3 DEF StopChild, upFiles
<1>5. CASE Interrupt(u)
  <2>1. \A v \in Ups \ {u} : proc'[v] = proc[v] BY <1>5, SignalTyped DEF Interrupt
  <2>2. \A v \in Ups \ {u} : launcher'[v] = launcher[v] BY <1>5 DEF Interrupt, Goes
  <2> QED BY <1>5, <2>1, <2>2 DEF Interrupt, Goes, upFiles
<1>6. CASE ComposeUp(u) \/ ContainerOpens(u) \/ ComposeReturns(u) \/ ComposeDown(u)
  BY <1>6 DEF ComposeUp, ContainerOpens, ComposeReturns, ComposeDown, Goes, upFiles, launchers
<1>7. CASE ControllerOpens(u) BY <1>7 DEF ControllerOpens, launchers
<1>8. CASE \E w \in Workers : WorkerConnects(u, w)
  BY <1>8 DEF WorkerConnects, launchers, upFiles
<1>9. CASE \E c \in Children, next \in States : GoesOn(u, c, next)
  BY <1>9 DEF GoesOn, Becomes, launchers, upFiles
<1> QED BY <1>1, <1>2, <1>3, <1>4, <1>5, <1>6, <1>7, <1>8, <1>9 DEF UpStep

\* Patience: an emulator that u could meet and that is not over is up, and then the
\* ports or the project are taken.
LEMMA NoneToMeet ==
  ASSUME UpTypeOK, BackendsApart, Patient, NEW u \in Ups,
         (CheckPorts(u) /\ launcher'[u] = "starting") \/ (CheckProject(u) /\ launcher'[u] = "composing"),
         NEW v \in Ups \ {u}, Meet(u, v)
  PROVE  Resting(v)
<1> USE DEF UpTypeOK
<1>1. Gone(v) \/ Settled(v) BY DEF CheckPorts, CheckProject, MayBegin
<1>2. CASE Gone(v) BY <1>2 DEF Gone, Resting
<1>3. CASE Settled(v)
  <2>1. args[v].backend \in {"local", "docker"} /\ args[u].backend \in {"local", "docker"} BY UpConstants
  <2>2. launcher[v] = "waiting" => args[v].backend = "local" BY <2>1 DEF BackendsApart
  <2>3. \A c \in {"controller", "dashboard"} : c \in Children BY DEF Children
  <2>4. CASE CheckPorts(u) /\ launcher'[u] = "starting"
    <3>1. ~PortsTaken(u) /\ args[u].backend = "local" BY <2>4 DEF CheckPorts, Goes
    <3>2. \/ args[v].dashboardPort = args[u].dashboardPort
          \/ args[v].backend = "local" /\ args[v].port = args[u].port
      BY <3>1 DEF Meet
    <3>3. CASE args[v].dashboardPort = args[u].dashboardPort
      <4>1. proc[v]["dashboard"] # "serving" /\ project # v BY <3>1, <3>3 DEF PortsTaken, DashboardPortTaken
      <4> QED BY <1>3, <2>3, <4>1 DEF Settled, ContainerUp
    <3>4. CASE args[v].backend = "local" /\ args[v].port = args[u].port
      <4>1. ~Listens(v) BY <3>1, <3>4 DEF PortsTaken, Answering
      <4>2. launcher[v] # "attached" BY <3>4 DEF BackendsApart
      <4> QED BY <1>3, <2>3, <4>1, <4>2 DEF Settled, Listens
    <3> QED BY <3>2, <3>3, <3>4
  <2>5. CASE CheckProject(u) /\ launcher'[u] = "composing"
    <3>1. project = Nobody /\ ~DashboardPortTaken(u) /\ args[u].backend = "docker"
      BY <2>5 DEF CheckProject, Goes
    <3>2. project # v BY <3>1, UpConstants
    <3>3. launcher[v] = "waiting" /\ proc[v]["dashboard"] = "serving"
      BY <1>3, <2>3, <3>2 DEF Settled, ContainerUp
    <3>4. args[v].dashboardPort = args[u].dashboardPort BY <2>2, <3>1, <3>3 DEF Meet
    <3> QED BY <3>1, <3>3, <3>4 DEF DashboardPortTaken
  <2> QED BY <2>4, <2>5
<1> QED BY <1>1, <1>2, <1>3

\* the steps by which an emulator begins
Begins(u) ==
  \/ CheckPorts(u) /\ launcher'[u] = "starting"
  \/ CheckProject(u) /\ launcher'[u] = "composing"

\* An emulator of which nothing runs stays so, but where it begins.
LEMMA RestKept ==
  ASSUME UpTypeOK, UpTypeOK', NEW u \in Ups, Resting(u), UpStep(u)
  PROVE  Resting(u)' \/ Begins(u)
<1> USE DEF UpTypeOK
<1>1. CASE Prepare(u) BY <1>1 DEF Prepare, Goes, Resting
<1>2. CASE CheckPorts(u) \/ CheckProject(u)
  BY <1>2 DEF CheckPorts, CheckProject, Goes, Resting, Begins, Over
<1>3. CASE Interrupt(u)
  <2>1. launcher[u] = "prepared" BY <1>3 DEF Interrupt, Resting, Over
  <2>2. launcher'[u] = "over" /\ project' = project BY <1>3, <2>1 DEF Interrupt, Goes
  <2>3. \A c \in Children : proc'[u][c] = proc[u][c]
    <3>1. Signalled(u, Children) BY <1>3 DEF Interrupt
    <3>2. \A c \in Children : proc[u][c] # "booting" BY DEF Resting, Dead
    <3> HIDE DEF UpTypeOK
    <3> QED BY <3>1, <3>2, SignalTyped
  <2> QED BY <2>2, <2>3 DEF Resting, Over
<1>4. CASE \/ StartChild(u) \/ ControllerReturned(u) \/ RequestShutdown(u) \/ StopChild(u)
           \/ ComposeUp(u) \/ ContainerOpens(u) \/ ComposeReturns(u) \/ ComposeDown(u)
  BY <1>4 DEF StartChild, ControllerReturned, RequestShutdown, StopChild, ComposeUp, ContainerOpens,
              ComposeReturns, ComposeDown, Resting, Over
<1>5. CASE \/ ControllerOpens(u) \/ \E w \in Workers : WorkerConnects(u, w)
           \/ \E c \in Children, next \in States : GoesOn(u, c, next)
  BY <1>5 DEF ControllerOpens, WorkerConnects, GoesOn, Resting, Dead, Children
<1> QED BY <1>1, <1>2, <1>3, <1>4, <1>5 DEF UpStep

\* What a step does to a child of its emulator.
LEMMA ChildSteps ==
  ASSUME UpTypeOK, NEW u \in Ups, UpStep(u), NEW c \in Children
  PROVE  \/ proc'[u][c] = proc[u][c]
         \/ StartChild(u) /\ proc'[u][c] = "booting"
         \/ /\ proc[u][c] \notin Dead /\ proc'[u][c] # "booting"
            /\ c = "controller" =>
                 \/ proc'[u][c] = "ended"
                 \/ ControllerOpens(u)
                 \/ proc[u][c] \in {"opened", "serving", "closing"}
<1> USE DEF UpTypeOK
<1>1. CASE \/ Prepare(u) \/ CheckPorts(u) \/ CheckProject(u) \/ ControllerReturned(u) \/ RequestShutdown(u)
           \/ ComposeUp(u) \/ ContainerOpens(u) \/ ComposeReturns(u) \/ ComposeDown(u)
  BY <1>1 DEF Prepare, CheckPorts, CheckProject, ControllerReturned, RequestShutdown, ComposeUp,
              ContainerOpens, ComposeReturns, ComposeDown
<1>2. CASE StartChild(u)
  <2>1. proc' = [proc EXCEPT ![u][Kids[turn[u]]] = "booting"] /\ Kids[turn[u]] \in Children
    BY <1>2, KidsAre DEF StartChild
  <2> QED BY <1>2, <2>1
<1>3. CASE StopChild(u) \/ Interrupt(u)
  <2>1. {Kids[turn[u]]} \in SUBSET Children BY KidsAre
  <2>2. proc' = proc \/ Signalled(u, {Kids[turn[u]]}) \/ Signalled(u, Children)
    BY <1>3 DEF StopChild, Terminate, Interrupt
  <2>3. proc'[u][c] = proc[u][c] \/ (proc[u][c] = "booting" /\ proc'[u][c] = "ended")
    <3> HIDE DEF UpTypeOK
    <3> QED BY <2>1, <2>2, SignalTyped
  <2> QED BY <2>3 DEF Dead
<1>4. CASE ControllerOpens(u) BY <1>4 DEF ControllerOpens, Dead
<1>5. ASSUME NEW w \in Workers, WorkerConnects(u, w)
      PROVE  proc'[u][c] = proc[u][c]
             \/ (proc[u][c] \notin Dead /\ proc'[u][c] # "booting" /\ c # "controller")
  BY <1>5 DEF WorkerConnects, Dead, Workers
<1>6. CASE \E d \in Children, next \in States : GoesOn(u, d, next)
  <2>1. PICK d \in Children, next \in States : GoesOn(u, d, next) BY <1>6
  <2>2. proc' = [proc EXCEPT ![u][d] = next] /\ next # "booting" BY <2>1 DEF GoesOn, Becomes, States
  <2> QED BY <2>1, <2>2 DEF GoesOn
<1> QED BY <1>1, <1>2, <1>3, <1>4, <1>5, <1>6 DEF UpStep

\* Patience keeps emulators that could meet apart.
LEMMA OneAtATimeKept ==
  ASSUME Patient, UpTypeOK, UpTypeOK', BackendsApart, OneAtATimeHere, NEW u \in Ups, UpStep(u)
  PROVE  OneAtATimeHere'
<1>1. \A v, w : Meet(v, w)' => Meet(v, w) /\ Meet(w, v) BY OthersKept DEF Meet, Dir
<1>2. \A v \in Ups \ {u} : Resting(v) => Resting(v)' BY OthersKept, UpConstants DEF Resting
<1>3. ASSUME NEW v \in Ups \ {u}, Meet(u, v) PROVE Resting(u)' \/ Resting(v)'
  <2>1. Resting(u) \/ Resting(v) BY <1>3 DEF OneAtATimeHere
  <2>2. CASE Resting(u)
    <3>1. Resting(u)' \/ Begins(u) BY <2>2, RestKept
    <3>2. Begins(u) => Resting(v) BY <1>3, NoneToMeet DEF Begins
    <3> QED BY <1>2, <3>1, <3>2
  <2> QED BY <1>2, <2>1, <2>2
<1>4. SUFFICES ASSUME NEW v \in Ups, NEW w \in Ups, v # w, Meet(v, w)' PROVE Resting(v)' \/ Resting(w)'
  BY DEF OneAtATimeHere
<1>5. CASE v = u \/ w = u BY <1>1, <1>3, <1>4, <1>5
<1>6. CASE v # u /\ w # u BY <1>1, <1>2, <1>4, <1>6 DEF OneAtATimeHere
<1> QED BY <1>5, <1>6

\* A launcher of the one backend takes no step of the other.
LEMMA BackendsKept ==
  ASSUME UpTypeOK, UpTypeOK', BackendsApart, NEW u \in Ups, UpStep(u)
  PROVE  BackendsApart'
<1>1. args' = args BY OthersKept
<1>2. \A v \in Ups \ {u} :
        launcher'[v] = launcher[v] /\ proc'[v] = proc[v] /\ (project' = v => project = v)
  BY OthersKept, UpConstants
<1>3. ASSUME args[u].backend = "docker"
      PROVE  /\ launcher'[u] \notin {"starting", "waiting", "asking", "stopping"}
             /\ \A c \in Children : proc'[u][c] \in Dead
  <2>1. /\ launcher[u] \notin {"starting", "waiting", "asking", "stopping"}
        /\ \A c \in Children : proc[u][c] \in Dead
    BY <1>3 DEF BackendsApart
  <2>2. ~StartChild(u) BY <2>1 DEF StartChild
  <2>3. \A c \in Children : proc'[u][c] \in Dead BY <2>1, <2>2, ChildSteps
  <2>4. launcher'[u] \notin {"starting", "waiting", "asking", "stopping"}
    <3>1. ~(CheckPorts(u) \/ ControllerReturned(u) \/ RequestShutdown(u) \/ StopChild(u)
            \/ ControllerOpens(u))
        BY <1>3, <2>1 DEF CheckPorts, ControllerReturned, RequestShutdown, StopChild, ControllerOpens,
                          Dead, Children
    <3>2. ~\E w \in Workers : WorkerConnects(u, w) BY <2>1 DEF WorkerConnects, Dead, Children
    <3>3. ~\E c \in Children, next \in States : GoesOn(u, c, next) BY <2>1 DEF GoesOn
    <3>4. CASE Prepare(u) BY <3>4 DEF Prepare, Goes, UpTypeOK
    <3>5. CASE CheckProject(u) BY <3>5 DEF CheckProject, Goes, UpTypeOK
    <3>6. CASE Interrupt(u) BY <2>1, <3>6 DEF Interrupt, Goes, UpTypeOK
    <3>7. CASE ComposeUp(u) \/ ContainerOpens(u) \/ ComposeReturns(u) \/ ComposeDown(u)
      BY <2>1, <3>7 DEF ComposeUp, ContainerOpens, ComposeReturns, ComposeDown, Goes, UpTypeOK, launchers
    <3> QED BY <2>2, <3>1, <3>2, <3>3, <3>4, <3>5, <3>6, <3>7 DEF UpStep
  <2> QED BY <2>3, <2>4
<1>4. ASSUME args[u].backend = "local"
      PROVE  launcher'[u] \notin {"composing", "attached", "detaching", "down"} /\ project' # u
  <2>1. launcher[u] \notin {"composing", "attached", "detaching", "down"} /\ project # u
    BY <1>4 DEF BackendsApart
  <2>2. ~(CheckProject(u) \/ ComposeUp(u) \/ ContainerOpens(u) \/ ComposeReturns(u) \/ ComposeDown(u))
    BY <1>4, <2>1 DEF CheckProject, ComposeUp, ContainerOpens, ComposeReturns, ComposeDown
  <2>3. CASE Prepare(u) \/ CheckPorts(u) \/ ControllerReturned(u) \/ RequestShutdown(u)
    BY <2>1, <2>3 DEF Prepare, CheckPorts, ControllerReturned, RequestShutdown, Goes, UpTypeOK
  <2>4. CASE Interrupt(u) BY <2>1, <2>4 DEF Interrupt, Goes, UpTypeOK
  <2>5. CASE StartChild(u) \/ StopChild(u) BY <2>1, <2>5 DEF StartChild, StopChild, UpTypeOK
  <2>6. CASE ControllerOpens(u) BY <2>1, <2>6 DEF ControllerOpens, launchers
  <2>7. CASE \E w \in Workers : WorkerConnects(u, w) BY <2>1, <2>7 DEF WorkerConnects, launchers
  <2>8. CASE \E c \in Children, next \in States : GoesOn(u, c, next)
    BY <2>1, <2>8 DEF GoesOn, Becomes, launchers
  <2> QED BY <2>2, <2>3, <2>4, <2>5, <2>6, <2>7, <2>8 DEF UpStep
<1>5. SUFFICES ASSUME NEW v \in Ups
               PROVE  /\ args[v].backend = "docker" =>
                           /\ launcher'[v] \notin {"starting", "waiting", "asking", "stopping"}
                           /\ \A c \in Children : proc'[v][c] \in Dead
                      /\ args[v].backend = "local" =>
                           launcher'[v] \notin {"composing", "attached", "detaching", "down"} /\ project' # v
  BY <1>1 DEF BackendsApart
<1>6. CASE v = u BY <1>3, <1>4, <1>6
<1>7. CASE v # u BY <1>2, <1>7 DEF BackendsApart
<1> QED BY <1>6, <1>7

\* Who could meet whom, and whose directory is whose, does not change.
LEMMA ArgsKept ==
  ASSUME UpTypeOK, NEW u \in Ups, UpStep(u)
  PROVE  \A v \in Ups : Dir(v)' = Dir(v) /\ Dir(v) \in Dirs /\ (OwnDirectory(v)' <=> OwnDirectory(v))
<1>1. args' = args BY OthersKept
<1>2. args \in Commands BY DEF UpTypeOK
<1> QED BY <1>1, <1>2 DEF Dir, Dirs, OwnDirectory, Meet

\* The config and the metrics file are written where a launcher prepares its run and
\* where a controller opens its files.
LEMMA FilesWritten ==
  ASSUME UpTypeOK, NEW u \in Ups, UpStep(u)
  PROVE  /\ Prepare(u) \/ config' = config
         /\ ControllerOpens(u) \/ ContainerOpens(u) \/ (loaded' = loaded /\ metrics' = metrics)
BY DEF UpStep, Prepare, CheckPorts, CheckProject, StartChild, ControllerReturned, RequestShutdown, StopChild,
       Interrupt, ComposeUp, ContainerOpens, ComposeReturns, ComposeDown, ControllerOpens, WorkerConnects,
       GoesOn, Becomes, upFiles

\* A launcher is before compose up only if it was, and prepares only a new run.
LEMMA StagesBefore ==
  ASSUME UpTypeOK, NEW u \in Ups, UpStep(u), ~Prepare(u)
  PROVE  /\ launcher'[u] \in {"prepared", "starting", "composing"} =>
              launcher[u] \in {"prepared", "starting", "composing"}
         /\ launcher'[u] = "new" => launcher[u] = "new"
         /\ launcher'[u] = "prepared" => launcher[u] = "prepared"
         /\ launcher'[u] = "composing" => launcher[u] \in {"prepared", "composing"}
         /\ project' = u => project = u \/ (ComposeUp(u) /\ launcher'[u] = "attached")
<1>1. CASE CheckPorts(u) \/ CheckProject(u) BY <1>1 DEF CheckPorts, CheckProject, Goes, UpTypeOK
<1>2. CASE StartChild(u) \/ StopChild(u) BY <1>2 DEF StartChild, StopChild, UpTypeOK
<1>3. CASE ControllerReturned(u) \/ RequestShutdown(u) \/ Interrupt(u)
  BY <1>3 DEF ControllerReturned, RequestShutdown, Interrupt, Goes, UpTypeOK
<1>4. CASE ComposeUp(u) \/ ContainerOpens(u) \/ ComposeReturns(u) \/ ComposeDown(u)
  BY <1>4, UpConstants DEF ComposeUp, ContainerOpens, ComposeReturns, ComposeDown, Goes, UpTypeOK, launchers
<1>5. CASE ControllerOpens(u) \/ \E w \in Workers : WorkerConnects(u, w)
  BY <1>5 DEF ControllerOpens, WorkerConnects, launchers
<1>6. CASE \E c \in Children, next \in States : GoesOn(u, c, next)
  BY <1>6 DEF GoesOn, Becomes, launchers
<1> QED BY <1>1, <1>2, <1>3, <1>4, <1>5, <1>6 DEF UpStep

\* The containers read nothing before compose up.
LEMMA UnloadedKept ==
  ASSUME UpTypeOK, UpTypeOK', BackendsApart, Unloaded, NEW u \in Ups, UpStep(u)
  PROVE  Unloaded'
<1>1. args' = args /\ "controller" \in Children BY OthersKept DEF Children
<1>2. SUFFICES ASSUME NEW v \in Ups, args[v].backend = "docker",
                      launcher'[v] \in {"new", "prepared", "composing"}
               PROVE  loaded'[v] = Nobody /\ project' # v
  BY <1>1 DEF Unloaded
<1>3. CASE v # u BY <1>2, <1>3, OthersKept, UpConstants DEF Unloaded
<1>4. CASE v = u
  <2>1. launcher[u] \in {"new", "prepared", "composing"} /\ (project' = u => project = u)
    <3>1. CASE Prepare(u) BY <3>1 DEF Prepare
    <3>2. CASE ~Prepare(u) BY <1>2, <1>4, <3>2, StagesBefore
    <3> QED BY <3>1, <3>2
  <2>2. loaded[u] = Nobody /\ project # u BY <1>2, <1>4, <2>1 DEF Unloaded
  <2>3. ~ControllerOpens(u) BY <1>1, <1>2, <1>4 DEF ControllerOpens, BackendsApart, Dead
  <2>4. ~ContainerOpens(u) BY <2>2 DEF ContainerOpens
  <2> QED BY <1>4, <2>1, <2>2, <2>3, <2>4, FilesWritten
<1> QED BY <1>3, <1>4

\* A config that its emulator has still to read is not overwritten.
LEMMA ConfigKept ==
  ASSUME Patient, UpTypeOK, UpTypeOK', BackendsApart, ConfigOwn, NEW u \in Ups, UpStep(u)
  PROVE  ConfigOwn'
<1>1. args' = args /\ "controller" \in Children BY OthersKept DEF Children
<1>2. \A v \in Ups : Dir(v)' = Dir(v) /\ Dir(v) \in Dirs /\ (OwnDirectory(v)' <=> OwnDirectory(v)) BY ArgsKept
<1>3. SUFFICES ASSUME NEW v \in Ups, OwnDirectory(v), ToRead(v)' PROVE config'[Dir(v)] = v
  BY <1>2 DEF ConfigOwn
<1>4. config \in [Dirs -> Ups \cup {Nobody}] BY DEF UpTypeOK
<1>5. v # u => ToRead(v) BY <1>3, OthersKept, UpConstants DEF ToRead
<1>6. CASE Prepare(u)
  <2>1. config' = [config EXCEPT ![Dir(u)] = u] BY <1>6 DEF Prepare
  <2>2. CASE v = u BY <1>2, <1>4, <2>1, <2>2
  <2>3. CASE v # u
    <3>1. config[Dir(v)] = v BY <1>3, <1>5, <2>3 DEF ConfigOwn
    <3>2. Dir(v) # Dir(u)
      <4>1. SUFFICES ASSUME Dir(v) = Dir(u) PROVE FALSE OBVIOUS
      <4>2. Meet(u, v) BY <1>3, <2>3, <4>1 DEF OwnDirectory, Meet
      <4>3. Gone(v) \/ Settled(v) BY <1>6, <2>3, <4>2 DEF Prepare, MayBegin
      <4>4. ~Gone(v) BY <1>1, <1>5, <2>3 DEF ToRead, Gone, Over, Dead
      <4>5. launcher[v] = "waiting" => project # v BY UpConstants DEF BackendsApart, UpTypeOK
      <4>6. launcher[v] = "attached" => proc[v]["controller"] # "booting"
        <5>1. launcher[v] = "attached" => args[v].backend = "docker"
          BY UpConstants DEF BackendsApart, UpTypeOK
        <5> QED BY <1>1, <5>1 DEF BackendsApart, Dead
      <4> QED BY <1>1, <1>5, <2>3, <4>3, <4>4, <4>5, <4>6 DEF ToRead, Settled, ContainerUp
    <3> QED BY <1>2, <1>4, <2>1, <3>1, <3>2
  <2> QED BY <2>2, <2>3
<1>7. CASE ~Prepare(u)
  <2>1. config' = config BY <1>7, FilesWritten
  <2>2. CASE v = u
    <3>1. ControllerOpens(u) \/ ContainerOpens(u) => ToRead(u)
      BY DEF ControllerOpens, ContainerOpens, ToRead
    <3>2. ASSUME ~ControllerOpens(u), ~ContainerOpens(u) PROVE ToRead(u)
      <4>1. loaded' = loaded BY <3>2, FilesWritten
      <4>2. proc'[u]["controller"] = "booting" => proc[u]["controller"] = "booting" \/ launcher[u] = "starting"
        BY <1>1, ChildSteps DEF StartChild
      <4>3. /\ launcher'[u] \in {"prepared", "starting", "composing"} =>
                 launcher[u] \in {"prepared", "starting", "composing"}
            /\ project' = u => project = u \/ launcher[u] = "composing"
        BY <1>7, StagesBefore DEF ComposeUp
      <4> QED BY <1>3, <2>2, <4>1, <4>2, <4>3 DEF ToRead
    <3>3. ToRead(u) BY <3>1, <3>2
    <3> QED BY <1>3, <2>1, <2>2, <3>3 DEF ConfigOwn
  <2> QED BY <1>3, <1>5, <2>1, <2>2 DEF ConfigOwn
<1> QED BY <1>6, <1>7

\* What a controller has read and opened stays its own until it has ended.
LEMMA FilesKept ==
  ASSUME UpTypeOK, UpTypeOK', OneAtATimeHere, BackendsApart, Unloaded, ConfigOwn, FilesOwn,
         NEW u \in Ups, UpStep(u)
  PROVE  FilesOwn'
<1>1. args' = args /\ "controller" \in Children BY OthersKept DEF Children
<1>2. \A v \in Ups : Dir(v)' = Dir(v) /\ Dir(v) \in Dirs /\ (OwnDirectory(v)' <=> OwnDirectory(v)) BY ArgsKept
<1>3. \A v \in Ups : Reading(v) => ~Resting(v) BY <1>1 DEF Reading, ContainerUp, Resting, Dead
<1>4. SUFFICES ASSUME NEW v \in Ups, OwnDirectory(v), Reading(v)' PROVE loaded'[v] = v /\ metrics'[Dir(v)] = v
  BY <1>2 DEF FilesOwn
<1>5. /\ loaded \in [Ups -> Ups \cup {Nobody}] /\ metrics \in [Dirs -> Ups \cup {Nobody}]
  BY DEF UpTypeOK
<1>6. CASE v # u
  <2>1. Reading(v) /\ loaded'[v] = loaded[v]
    BY <1>4, <1>6, OthersKept, UpConstants DEF Reading, ContainerUp
  <2>2. loaded[v] = v /\ metrics[Dir(v)] = v BY <1>4, <2>1 DEF FilesOwn
  <2>3. ControllerOpens(u) \/ ContainerOpens(u) => Dir(v) # Dir(u)
    <3>1. ControllerOpens(u) \/ ContainerOpens(u) => ~Resting(u)
      BY <1>1 DEF ControllerOpens, ContainerOpens, Resting, Dead
    <3>2. Dir(v) = Dir(u) => Meet(v, u) BY <1>4, <1>6 DEF OwnDirectory
    <3> QED BY <1>3, <1>6, <2>1, <3>1, <3>2 DEF OneAtATimeHere
  <2>4. metrics'[Dir(v)] = metrics[Dir(v)]
    BY <1>2, <1>5, <2>3, FilesWritten DEF ControllerOpens, ContainerOpens
  <2> QED BY <2>1, <2>2, <2>4
<1>7. CASE v = u
  <2>1. CASE ControllerOpens(u) \/ ContainerOpens(u)
    <3>1. ToRead(u) BY <2>1 DEF ControllerOpens, ContainerOpens, ToRead
    <3>2. config[Dir(u)] = u BY <1>4, <1>7, <3>1 DEF ConfigOwn
    <3> QED BY <1>2, <1>5, <1>7, <2>1, <3>2 DEF ControllerOpens, ContainerOpens
  <2>2. CASE ~ControllerOpens(u) /\ ~ContainerOpens(u)
    <3>1. loaded' = loaded /\ metrics' = metrics BY <2>2, FilesWritten
    <3>2. ~Prepare(u) /\ ContainerUp(u)' => ContainerUp(u)
      <4>1. ComposeUp(u) => loaded[u] = Nobody
        <5>1. ComposeUp(u) => launcher[u] = "composing" BY DEF ComposeUp
        <5>2. launcher[u] = "composing" => args[u].backend = "docker"
          BY UpConstants DEF BackendsApart, UpTypeOK
        <5> QED BY <5>1, <5>2 DEF Unloaded
      <4> QED BY <3>1, <4>1, StagesBefore DEF ContainerUp
    <3>3. Prepare(u) /\ ContainerUp(u)' => ContainerUp(u) BY <3>1 DEF Prepare, ContainerUp
    <3>4. proc'[u]["controller"] \in {"opened", "serving", "closing"} =>
            proc[u]["controller"] \in {"opened", "serving", "closing"}
      BY <1>1, <2>2, ChildSteps DEF Dead
    <3>5. Reading(u) BY <1>4, <1>7, <3>2, <3>3, <3>4 DEF Reading
    <3> QED BY <1>4, <1>7, <3>1, <3>5 DEF FilesOwn
  <2> QED BY <2>1, <2>2
<1> QED BY <1>6, <1>7

\* The controller that answers an emulator which does anything is its own.
LEMMA AnswersAlone ==
  ASSUME UpTypeOK, BackendsApart, OneAtATimeHere, NEW u \in Ups, ~Resting(u), args[u].backend = "local"
  PROVE  Answering(u) \subseteq {u}
<1>1. ASSUME NEW v \in Answering(u), v # u PROVE FALSE
  <2>1. v \in Ups /\ args[v].port = args[u].port /\ proc[v]["controller"] \notin Dead /\ "controller" \in Children
    BY <1>1 DEF Answering, Listens, Dead, Children
  <2>2. args[v].backend = "local" BY <2>1, UpConstants DEF BackendsApart, UpTypeOK
  <2>3. Resting(v) BY <1>1, <2>1, <2>2 DEF OneAtATimeHere, Meet
  <2> QED BY <2>1, <2>3 DEF Resting
<1> QED BY <1>1

\* A worker reaches no controller but that of its emulator.
LEMMA PeersKept ==
  ASSUME UpTypeOK, UpTypeOK', BackendsApart, OneAtATimeHere, PeersOwn, NEW u \in Ups, UpStep(u)
  PROVE  PeersOwn'
<1>1. \A v \in Ups \ {u} : peer'[v] = peer[v] BY OthersKept
<1>2. ASSUME NEW w \in Workers PROVE peer'[u][w] \in {u, Nobody}
  <2>1. peer[u][w] \in {u, Nobody} /\ peer \in [Ups -> [Workers -> Ups \cup {Nobody}]]
    BY DEF PeersOwn, UpTypeOK
  <2>2. CASE \E x \in Workers : WorkerConnects(u, x)
    <3>1. PICK x \in Workers : WorkerConnects(u, x) BY <2>2
    <3>2. PICK v \in Answering(u) : peer' = [peer EXCEPT ![u][x] = v] BY <3>1 DEF WorkerConnects
    <3>3. ~Resting(u) /\ proc[u][x] \notin Dead /\ x \in Children
      BY <3>1 DEF WorkerConnects, Resting, Dead, Children
    <3>4. args[u].backend = "local" BY <3>3, UpConstants DEF BackendsApart, UpTypeOK
    <3>5. v = u BY <3>2, <3>3, <3>4, AnswersAlone
    <3> QED BY <2>1, <3>2, <3>5
  <2>3. CASE \E c \in Children, next \in States : GoesOn(u, c, next) BY <2>1, <2>3 DEF GoesOn, Becomes
  <2>4. CASE /\ ~\E x \in Workers : WorkerConnects(u, x)
             /\ ~\E c \in Children, next \in States : GoesOn(u, c, next)
    BY <2>1, <2>4 DEF UpStep, Prepare, CheckPorts, CheckProject, StartChild, ControllerReturned,
         RequestShutdown, StopChild, Interrupt, ComposeUp, ContainerOpens, ComposeReturns, ComposeDown,
         ControllerOpens, Goes
  <2> QED BY <2>2, <2>3, <2>4
<1> QED BY <1>1, <1>2 DEF PeersOwn

\* Nobody but its launcher has a controller stop.
LEMMA ToldKept ==
  ASSUME UpTypeOK, UpTypeOK', OneAtATimeHere, BackendsApart, ToldOwn, NEW u \in Ups, UpStep(u)
  PROVE  ToldOwn'
<1> DEFINE Stopping == {"asking", "stopping", "over"}
<1>1. "controller" \in Children BY DEF Children
<1>2. told \in [Ups -> SUBSET Children] /\ launcher \in [Ups -> Stages] BY DEF UpTypeOK, Stages
<1>3. ASSUME NEW v \in Ups \ {u}, "controller" \in told'[v] PROVE "controller" \in told[v]
  <2>1. CASE RequestShutdown(u)
    <3>1. ~Resting(u) BY <2>1 DEF RequestShutdown, Resting, Over
    <3>2. args[u].backend = "local" BY <2>1, UpConstants DEF RequestShutdown, BackendsApart, UpTypeOK
    <3>3. v \notin Asked(u) BY <3>1, <3>2, AnswersAlone DEF Asked
    <3> QED BY <1>2, <1>3, <2>1, <3>3 DEF RequestShutdown
  <2>2. CASE StopChild(u) \/ Interrupt(u)
    <3>1. {Kids[turn[u]]} \in SUBSET Children BY KidsAre DEF UpTypeOK
    <3>2. told' = told \/ Signalled(u, {Kids[turn[u]]}) \/ Signalled(u, Children)
      BY <2>2 DEF StopChild, Terminate, Interrupt
    <3> QED BY <1>3, <3>1, <3>2, SignalTyped
  <2>3. CASE \E c \in Children, next \in States : GoesOn(u, c, next)
    BY <1>2, <1>3, <2>3 DEF GoesOn, Becomes
  <2>4. CASE /\ ~(RequestShutdown(u) \/ StopChild(u) \/ Interrupt(u))
             /\ ~\E c \in Children, next \in States : GoesOn(u, c, next)
    BY <1>3, <2>4 DEF UpStep, Prepare, CheckPorts, CheckProject, StartChild, ControllerReturned, ComposeUp,
         ContainerOpens, ComposeReturns, ComposeDown, ControllerOpens, WorkerConnects
  <2> QED BY <2>1, <2>2, <2>3, <2>4
<1>4. ASSUME "controller" \in told'[u] PROVE launcher'[u] \in Stopping
  <2>1. CASE RequestShutdown(u) BY <1>2, <2>1 DEF RequestShutdown, Goes
  <2>2. CASE StopChild(u) BY <1>2, <2>2 DEF StopChild
  <2>3. CASE Interrupt(u)
    <3>1. launcher[u] \notin {"attached", "detaching"}
      <4>1. SUFFICES ASSUME launcher[u] \in {"attached", "detaching"} PROVE FALSE OBVIOUS
      <4>2. args[u].backend = "docker" BY <4>1, UpConstants DEF BackendsApart, UpTypeOK
      <4>3. proc[u]["controller"] \in Dead BY <1>1, <4>2 DEF BackendsApart
      <4>4. Signalled(u, Children) BY <2>3 DEF Interrupt
      <4>5. "controller" \in told[u] BY <1>4, <4>3, <4>4, SignalTyped
      <4> QED BY <4>1, <4>5 DEF ToldOwn
    <3> QED BY <1>2, <2>3, <3>1 DEF Interrupt, Goes
  <2>4. CASE ~(RequestShutdown(u) \/ StopChild(u) \/ Interrupt(u))
    <3>1. "controller" \in told[u]
      <4>1. CASE \E c \in Children, next \in States : GoesOn(u, c, next)
        BY <1>2, <1>4, <4>1 DEF GoesOn, Becomes
      <4>2. CASE ~\E c \in Children, next \in States : GoesOn(u, c, next)
        BY <1>4, <2>4, <4>2 DEF UpStep, Prepare, CheckPorts, CheckProject, StartChild, ControllerReturned,
             ComposeUp, ContainerOpens, ComposeReturns, ComposeDown, ControllerOpens, WorkerConnects
      <4> QED BY <4>1, <4>2
    <3>2. launcher[u] \in Stopping BY <3>1 DEF ToldOwn
    <3>3. launcher' = launcher
      BY <2>4, <3>2 DEF UpStep, Prepare, CheckPorts, CheckProject, StartChild, ControllerReturned, ComposeUp,
           ContainerOpens, ComposeReturns, ComposeDown, ControllerOpens, WorkerConnects, GoesOn, Becomes, launchers
    <3> QED BY <3>2, <3>3
  <2> QED BY <2>1, <2>2, <2>3, <2>4
<1>5. \A v \in Ups \ {u} : launcher'[v] = launcher[v] BY OthersKept
<1> QED BY <1>3, <1>4, <1>5 DEF ToldOwn

\* Compose up and down are not applied to the containers of another launcher.
LEMMA ProjectKept ==
  ASSUME UpTypeOK, UpTypeOK', OneAtATimeHere, BackendsApart, ProjectOwn, NEW u \in Ups, UpStep(u)
  PROVE  ProjectOwn'
<1>1. SUFFICES ASSUME NEW v \in Ups, launcher'[v] = "attached" PROVE project' = v
  BY DEF ProjectOwn
<1>2. CASE v = u
  <2>1. CASE ComposeUp(u) BY <1>2, <2>1 DEF ComposeUp
  <2>2. CASE ~ComposeUp(u)
    <3>1. launcher[u] = "attached" /\ project' = project
      BY <1>1, <1>2, <2>2 DEF UpTypeOK, UpStep, Prepare, CheckPorts, CheckProject, StartChild,
           ControllerReturned, RequestShutdown, StopChild, Interrupt, ContainerOpens, ComposeReturns,
           ComposeDown, ControllerOpens, WorkerConnects, GoesOn, Becomes, Goes, launchers, Over
    <3> QED BY <1>2, <3>1 DEF ProjectOwn
  <2> QED BY <2>1, <2>2
<1>3. CASE v # u
  <2>1. launcher[v] = "attached" BY <1>1, <1>3, OthersKept
  <2>2. project = v /\ args[v].backend = "docker"
    BY <2>1, UpConstants DEF ProjectOwn, BackendsApart, UpTypeOK
  <2>3. ~(ComposeUp(u) \/ ComposeReturns(u) \/ ComposeDown(u))
    <3>1. SUFFICES ASSUME ComposeUp(u) \/ ComposeReturns(u) \/ ComposeDown(u) PROVE FALSE OBVIOUS
    <3>2. launcher[u] \in {"composing", "attached", "detaching", "down"}
      BY <3>1 DEF ComposeUp, ComposeReturns, ComposeDown
    <3>3. args[u].backend = "docker" BY <3>2, UpConstants DEF BackendsApart, UpTypeOK
    <3>4. ~Resting(u) /\ ~Resting(v) BY <2>1, <3>2 DEF Resting, Over
    <3> QED BY <1>3, <2>2, <3>3, <3>4 DEF OneAtATimeHere, Meet
  <2>4. project' = project
    BY <2>3 DEF UpStep, Prepare, CheckPorts, CheckProject, StartChild, ControllerReturned, RequestShutdown,
         StopChild, Interrupt, ContainerOpens, ControllerOpens, WorkerConnects, GoesOn, Becomes
  <2> QED BY <2>2, <2>4
<1> QED BY <1>2, <1>3

\* The states the commands are given in.
LEMMA UpInvInit == UpInit => UpInv
<1> SUFFICES ASSUME UpInit PROVE UpInv OBVIOUS
<1>1. UpTypeOK BY UpTypedInit
<1> DEFINE running(u) == args[u].running
           last(d) == IF \E u \in Ups : running(u) /\ Dir(u) = d
                      THEN CHOOSE u \in Ups : running(u) /\ Dir(u) = d ELSE Nobody
<1>2. /\ launcher = [u \in Ups |-> IF running(u) THEN "waiting" ELSE "new"]
      /\ proc = [u \in Ups |-> [c \in Children |-> IF running(u) THEN "serving" ELSE "none"]]
      /\ peer = [u \in Ups |-> [w \in Workers |-> IF running(u) THEN u ELSE Nobody]]
      /\ loaded = [u \in Ups |-> IF running(u) THEN u ELSE Nobody]
      /\ config = [d \in Dirs |-> last(d)] /\ metrics = config
      /\ told = [u \in Ups |-> {}] /\ project = Nobody
  BY DEF UpInit
<1>3. /\ Nobody \notin Ups /\ \A u \in Ups : running(u) => args[u].backend = "local"
      /\ \A u, v \in Ups : running(u) /\ running(v) /\ (Dir(u) = Dir(v) \/ Meet(u, v)) => u = v
      /\ \A u \in Ups : args[u].backend \in {"local", "docker"} /\ Dir(u) \in Dirs
  <2>1. args \in Commands BY <1>1 DEF UpTypeOK
  <2>2. \A u \in Ups : Dir(u) \in Dirs BY <2>1 DEF Dir, Dirs
  <2>3. \A u \in Ups : args[u].backend \in {"local", "docker"} /\ (running(u) => args[u].backend = "local")
    BY <2>1, UpConstants
  <2>4. \A u, v \in Ups : running(u) /\ running(v) /\ (Dir(u) = Dir(v) \/ Meet(u, v)) => u = v
    BY <2>1, <2>3, UpConstants DEF Dir, Meet
  <2> QED BY <2>2, <2>3, <2>4, UpConstants
<1>4. \A u \in Ups : ~running(u) => Resting(u)
  BY <1>2, <1>3 DEF Resting, Over, Dead
<1>5. OneAtATimeHere
  <2>1. \A u, v \in Ups : running(u) /\ running(v) /\ Meet(u, v) => u = v BY <1>3
  <2> QED BY <1>4, <2>1 DEF OneAtATimeHere
<1>6. BackendsApart BY <1>2, <1>3 DEF BackendsApart, Dead
<1>7. ConfigOwn /\ Unloaded BY <1>2, <1>3 DEF ConfigOwn, ToRead, Unloaded, Children
<1>8. \A u \in Ups : running(u) => last(Dir(u)) = u
  <2>1. SUFFICES ASSUME NEW u \in Ups, running(u) PROVE last(Dir(u)) = u OBVIOUS
  <2>2. \E v \in Ups : running(v) /\ Dir(v) = Dir(u) BY <2>1
  <2>3. last(Dir(u)) \in Ups /\ running(last(Dir(u))) /\ Dir(last(Dir(u))) = Dir(u)
    BY <2>2
  <2> HIDE DEF last, running
  <2> QED BY <1>3, <2>1, <2>3
<1>9. FilesOwn
  <2>1. SUFFICES ASSUME NEW u \in Ups, Reading(u) PROVE loaded[u] = u /\ metrics[Dir(u)] = u
    BY DEF FilesOwn
  <2>2. running(u) BY <1>2, <1>3, <2>1 DEF Children, Reading, ContainerUp
  <2>3. last(Dir(u)) = u BY <1>8, <2>2
  <2> HIDE DEF last
  <2> QED BY <1>2, <1>3, <2>2, <2>3
<1>10. PeersOwn BY <1>2 DEF PeersOwn
<1>11. ToldOwn BY <1>2 DEF ToldOwn
<1>12. ProjectOwn BY <1>2 DEF ProjectOwn
<1> QED BY <1>1, <1>5, <1>6, <1>7, <1>9, <1>10, <1>11, <1>12 DEF UpInv

\* Every step of a launcher or a process preserves the invariant.
LEMMA UpInvStep ==
  ASSUME Patient, UpInv, UpNext
  PROVE  UpInv'
<1>1. PICK u \in Ups : UpStep(u) BY UpStepIs
<1>2. /\ UpTypeOK /\ OneAtATimeHere /\ BackendsApart /\ Unloaded /\ ConfigOwn /\ FilesOwn
      /\ PeersOwn /\ ToldOwn /\ ProjectOwn
  BY DEF UpInv
<1>3. UpTypeOK' BY <1>2, UpTypedStep
<1>4. OneAtATimeHere' BY <1>1, <1>2, <1>3, OneAtATimeKept
<1>5. BackendsApart' BY <1>1, <1>2, <1>3, BackendsKept
<1>6. Unloaded' BY <1>1, <1>2, <1>3, UnloadedKept
<1>7. ConfigOwn' BY <1>1, <1>2, <1>3, ConfigKept
<1>8. FilesOwn' BY <1>1, <1>2, <1>3, FilesKept
<1>9. PeersOwn' BY <1>1, <1>2, <1>3, PeersKept
<1>10. ToldOwn' BY <1>1, <1>2, <1>3, ToldKept
<1>11. ProjectOwn' BY <1>1, <1>2, <1>3, ProjectKept
<1> QED BY <1>3, <1>4, <1>5, <1>6, <1>7, <1>8, <1>9, <1>10, <1>11 DEF UpInv

\* The variables of the launchers and their processes range over what they are said to.
THEOREM LauncherTyped == UpSpec => []UpTypeOK
<1>1. UpTypeOK /\ UNCHANGED upVars => UpTypeOK'
  BY DEF UpTypeOK, upVars, launchers, upFiles
<1>2. UpTypeOK /\ [UpNext]_upVars => UpTypeOK' BY <1>1, UpTypedStep
<1> QED BY UpTypedInit, <1>2, PTL DEF UpSpec

\* Commands given with patience, as MayBegin says, leave each other's emulators alone:
\* workers are their launcher's, nobody else has a controller stop, compose is only
\* applied to a launcher's own containers, and a controller, in a container too, runs its
\* launcher's config and writes the metrics its dashboard reads when no command with
\* other ports has the same directory (OwnDirectory).
THEOREM OwnEmulators == Patient => (UpSpec => []OwnEmulator)
<1>1. UpInv => OwnEmulator
  BY DEF UpInv, FilesOwn, Reading, PeersOwn, ToldOwn, ProjectOwn, OwnEmulator, Listens
<1>2. UpInv /\ UNCHANGED upVars => UpInv'
  <2> SUFFICES ASSUME UpInv, UNCHANGED upVars PROVE UpInv' OBVIOUS
  <2>1. /\ args' = args /\ launcher' = launcher /\ turn' = turn /\ proc' = proc /\ told' = told
        /\ peer' = peer /\ config' = config /\ loaded' = loaded /\ metrics' = metrics /\ project' = project
    BY DEF upVars, launchers, upFiles
  <2>2. UpTypeOK' BY <2>1 DEF UpInv, UpTypeOK
  <2>3. OneAtATimeHere' BY <2>1 DEF UpInv, OneAtATimeHere, Meet, Resting
  <2>4. BackendsApart' /\ Unloaded' BY <2>1 DEF UpInv, BackendsApart, Unloaded
  <2>5. ConfigOwn' /\ FilesOwn'
    BY <2>1 DEF UpInv, ConfigOwn, FilesOwn, ToRead, Reading, ContainerUp, OwnDirectory, Meet, Dir
  <2>6. PeersOwn' /\ ToldOwn' /\ ProjectOwn' BY <2>1 DEF UpInv, PeersOwn, ToldOwn, ProjectOwn
  <2> QED BY <2>2, <2>3, <2>4, <2>5, <2>6 DEF UpInv
<1>3. Patient /\ UpInv /\ [UpNext]_upVars => UpInv' BY <1>2, UpInvStep
<1>4. SUFFICES ASSUME Patient PROVE UpSpec => []OwnEmulator OBVIOUS
<1>5. UpInv /\ [UpNext]_upVars => UpInv' BY <1>3, <1>4
<1> QED BY UpInvInit, <1>1, <1>5, PTL DEF UpSpec
=============================================================================
