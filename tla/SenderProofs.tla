----------------------------- MODULE SenderProofs ------------------------------
(***************************************************************************)
(* Proofs about the files a sender reads: recordings with any edit list,   *)
(* transport streams, files that grow, and MP4 files without an archive.   *)
(***************************************************************************)
EXTENDS SenderFile, SequenceTheorems, FiniteSetTheorems, WellFoundedInduction, TLAPS

(***************************************************************************)
(* What the conversion of a recording is made of.                          *)
(***************************************************************************)
Decisions == {"none", "in", "out"}
Packet == [segment : Nat, frag : Nat, part : Nat, at : Int]
Gates(m) == [Mmts!Streams(m) -> Decisions]
InHandler(m) == [gate : Gates(m), complete : BOOLEAN, made : Seq(Packet)]
Conversions(m) ==
  {c \in [next : 0 .. Len(m.frags), segment : 0 .. Len(m.segments), eof : BOOLEAN,
          gate : Gates(m), complete : BOOLEAN] :
     c.segment = Mmts!NoSegment <=> m.segments = <<>>}
Stage(m) == [c : Conversions(m), made : Seq(Packet)]

-----------------------------------------------------------------------------
(* Numbers and recursion *)

LEMMA HasLeast == ASSUME NEW T \in SUBSET Nat, T # {} PROVE \E x \in T : \A y \in T : x <= y
<1>1. IsWellFoundedOn(OpToRel(<, Nat), Nat)
  BY NatLessThanWellFounded, Zenon
<1>2. PICK x \in T : \A y \in T : ~(<<y, x>> \in OpToRel(<, Nat))
  BY <1>1, WFMin, Zenon
<1>3. \A y \in T : ~(y < x)
  BY <1>2 DEF OpToRel
<1> QED
  BY <1>3

\* Induction up to N, with a set for what is shown.
LEMMA UpTo ==
  ASSUME NEW N \in Nat, NEW T, 0 \in T, \A k \in 1 .. N : k - 1 \in T => k \in T
  PROVE  \A k \in 0 .. N : k \in T
<1> SUFFICES ASSUME NEW k \in 0 .. N, k \notin T PROVE FALSE
  OBVIOUS
<1> DEFINE U == {j \in 0 .. N : j \notin T}
<1>1. PICK x \in U : \A y \in U : x <= y
  <2>1. U \in SUBSET Nat /\ U # {}
    OBVIOUS
  <2> QED
    BY <2>1, HasLeast
<1>2. x \in 1 .. N /\ x - 1 \in 0 .. N
  BY <1>1
<1>3. x - 1 \in T
  BY <1>1, <1>2
<1> QED
  BY <1>1, <1>2, <1>3

\* What is computed step by step from a: one function has all the results.
Computes(g, N, a, h) == g[0] = a /\ \A k \in 1 .. N : g[k] = h[k][g[k - 1]]

LEMMA Recursion ==
  ASSUME NEW N \in Nat, NEW S, NEW a \in S, NEW h \in [1 .. N -> [S -> S]]
  PROVE  \E g \in [0 .. N -> S] : Computes(g, N, a, h)
<1> USE DEF Computes
<1> DEFINE Made(n, g) == Computes(g, n, a, h)
           T == {n \in 0 .. N : \E g \in [0 .. n -> S] : Made(n, g)}
<1>1. 0 \in T
  <2>1. [k \in 0 .. 0 |-> a] \in [0 .. 0 -> S] /\ Made(0, [k \in 0 .. 0 |-> a])
    OBVIOUS
  <2> HIDE DEF Made, Computes
  <2>2. \E g \in [0 .. 0 -> S] : Made(0, g)
    BY <2>1
  <2> QED
    BY <2>2
<1>2. ASSUME NEW n \in 1 .. N, n - 1 \in T PROVE n \in T
  <2>1. PICK g \in [0 .. n - 1 -> S] : Made(n - 1, g)
    BY <1>2
  <2> DEFINE e == [k \in 0 .. n |-> IF k = n THEN h[n][g[n - 1]] ELSE g[k]]
  <2>2. g[n - 1] \in S /\ h[n][g[n - 1]] \in S
    <3>1. n - 1 \in 0 .. n - 1
      OBVIOUS
    <3>2. g[n - 1] \in S
      BY <2>1, <3>1
    <3>3. h[n] \in [S -> S]
      OBVIOUS
    <3> QED
      BY <3>2, <3>3
  <2>3. e \in [0 .. n -> S]
    BY <2>1, <2>2
  <2>4. e[0] = a
    BY <2>1, SMTT(30)
  <2>5. ASSUME NEW k \in 1 .. n PROVE e[k] = h[k][e[k - 1]]
    <3>1. k - 1 \in 0 .. n /\ k - 1 # n /\ k \in 0 .. n
      OBVIOUS
    <3>2. e[k - 1] = g[k - 1]
      BY <3>1, SMTT(30)
    <3>3. CASE k = n
      BY <3>1, <3>2, <3>3
    <3>4. CASE k # n
      <4>1. k \in 1 .. n - 1
        BY <3>4
      <4>2. e[k] = g[k]
        BY <3>1, <3>4
      <4> QED
        BY <4>1, <4>2, <3>2, <2>1
    <3> QED
      BY <3>3, <3>4
  <2>6. Made(n, e)
    BY <2>4, <2>5
  <2> HIDE DEF Made, Computes
  <2>7. \E f \in [0 .. n -> S] : Made(n, f)
    BY <2>3, <2>6
  <2> QED
    BY <2>7
<1> HIDE DEF Computes
<1>3. N \in T
  <2>1. \A k \in 0 .. N : k \in T
    BY <1>1, <1>2, UpTo
  <2> QED
    BY <2>1
<1> QED
  BY <1>3
-----------------------------------------------------------------------------
(* The conversion of a recording *)

LEMMA SameCardinality == \A S : Mmts!Cardinality(S) = Cardinality(S)
  BY Zenon DEF Mmts!Cardinality, Cardinality, Mmts!IsFiniteSet, IsFiniteSet

LEMMA MovieParts ==
  ASSUME NEW m \in Movies
  PROVE  /\ m.frags \in Seq(Mmts!Fragment) /\ Len(m.frags) \in Nat
         /\ \A i \in 1 .. Len(m.frags) : m.frags[i] \in Mmts!Fragment
         /\ m.points \in Seq(Mmts!Point) /\ Len(m.points) \in Nat
         /\ \A i \in 1 .. Len(m.points) : m.points[i].offset \in 0 .. Len(m.frags)
         /\ m.segments \in Seq(Mmts!Segment) /\ Len(m.segments) \in Nat
         /\ \A i \in 1 .. Len(m.segments) :
              /\ m.segments[i] \in Mmts!Segment
              /\ m.segments[i].start < m.segments[i].end
              /\ i = 1 => m.segments[i].program = 0
              /\ i > 1 => m.segments[i].program
                            = m.segments[i - 1].program
                              + (m.segments[i - 1].end - m.segments[i - 1].start)
         /\ m.firstPts \in Nat /\ m.duration \in Nat
         /\ m.segments = <<>> <=> Len(m.segments) = 0
<1>1. m \in Mmts!Movie
  BY FileAssumption DEF Mmts!MoviesAssumption
<1>2. /\ m.frags \in Seq(Mmts!Fragment) /\ m.points \in Seq(Mmts!Point)
      /\ m.segments \in Seq(Mmts!Segment) /\ m.firstPts \in Nat /\ m.duration \in Nat
  BY <1>1 DEF Mmts!Movie
<1>3. \A i \in 1 .. Len(m.points) : m.points[i].offset \in 0 .. Len(m.frags)
  <2>1. \A i \in 1 .. Len(m.points) : m.points[i].offset <= Len(m.frags)
    BY FileAssumption DEF Mmts!MoviesAssumption
  <2>2. \A i \in 1 .. Len(m.points) : m.points[i] \in Mmts!Point
    BY <1>2
  <2> QED
    BY <2>1, <2>2, <1>2, SMTT(30) DEF Mmts!Point
<1>4. \A i \in 1 .. Len(m.segments) :
        /\ m.segments[i].start < m.segments[i].end
        /\ i = 1 => m.segments[i].program = 0
        /\ i > 1 => m.segments[i].program
                      = m.segments[i - 1].program
                        + (m.segments[i - 1].end - m.segments[i - 1].start)
  BY FileAssumption DEF Mmts!MoviesAssumption
<1> QED
  BY <1>2, <1>3, <1>4, SMTT(30)

\* FindSourceOffset is a place in the input.
LEMMA SourceOffset ==
  ASSUME NEW m \in Movies, NEW t
  PROVE  Mmts!FindSourceOffset(m, t) \in 0 .. Len(m.frags)
<1> DEFINE passed == {i \in 1 .. Len(m.points) : m.points[i].time <= t}
<1>1. Len(m.points) \in Nat /\ Len(m.frags) \in Nat
  BY MovieParts
<1>2. /\ IsFiniteSet(1 .. Len(m.points))
      /\ Cardinality(1 .. Len(m.points)) = Len(m.points)
  <2>1. 1 \in Int /\ Len(m.points) \in Int
    BY <1>1
  <2>2. /\ IsFiniteSet(1 .. Len(m.points))
        /\ Cardinality(1 .. Len(m.points)) = IF 1 > Len(m.points) THEN 0 ELSE Len(m.points) - 1 + 1
    BY <2>1, FS_Interval, Zenon
  <2> QED
    BY <2>2, <1>1
<1>3. IsFiniteSet(passed) /\ Cardinality(passed) <= Len(m.points)
  <2>1. passed \subseteq 1 .. Len(m.points)
    OBVIOUS
  <2> QED
    BY <2>1, <1>2, FS_Subset
<1>4. CASE passed = {}
  BY <1>4, <1>1 DEF Mmts!FindSourceOffset
<1>5. CASE passed # {}
  <2>1. Cardinality(passed) \in 1 .. Len(m.points)
    <3> HIDE DEF passed
    <3>1. Cardinality(passed) \in Nat /\ Cardinality(passed) # 0
      BY <1>3, <1>5, FS_EmptySet, FS_CardinalityType
    <3> QED
      BY <3>1, <1>3, <1>1
  <2>2. Mmts!FindSourceOffset(m, t) = m.points[Cardinality(passed)].offset
    <3>1. Mmts!FindSourceOffset(m, t)
            = IF passed = {} THEN 0 ELSE m.points[Cardinality(passed)].offset
      BY SameCardinality, Zenon DEF Mmts!FindSourceOffset
    <3> QED
      BY <3>1, <1>5, Zenon
  <2> QED
    BY <2>1, <2>2, MovieParts
<1> QED
  BY <1>4, <1>5

LEMMA StartTyped ==
  ASSUME NEW m \in Movies, NEW s \in 0 .. Len(m.segments), NEW t,
         s = Mmts!NoSegment <=> m.segments = <<>>
  PROVE  Mmts!StartAt(m, s, t) \in Conversions(m)
<1>1. Mmts!FindSourceOffset(m, t) \in 0 .. Len(m.frags)
  BY SourceOffset
<1>2. Mmts!Undecided(m) \in Gates(m)
  BY DEF Mmts!Undecided, Gates, Decisions
<1> QED
  BY <1>1, <1>2 DEF Mmts!StartAt, Conversions

\* What the gate makes of a fragment.
LEMMA PacketsTyped ==
  ASSUME NEW m \in Movies, NEW s \in 0 .. Len(m.segments), NEW i \in 1 .. Len(m.frags)
  PROVE  Mmts!Packets(m, s, i) \in Seq(Packet)
<1>1. m.frags[i].packs \in Nat /\ m.frags[i].pts \in Int /\ i \in Nat /\ s \in Nat
  BY MovieParts, SMTT(30) DEF Mmts!Fragment
<1>2. ASSUME NEW k \in 1 .. m.frags[i].packs PROVE Mmts!Packets(m, s, i)[k] \in Packet
  <2>1. s # Mmts!NoSegment => Mmts!Shift(m, s) \in Int
    <3> SUFFICES ASSUME s # Mmts!NoSegment PROVE Mmts!Shift(m, s) \in Int
      OBVIOUS
    <3>1. s \in 1 .. Len(m.segments)
      BY MovieParts DEF Mmts!NoSegment
    <3>2. m.segments[s] \in Mmts!Segment
      BY <3>1, MovieParts
    <3> QED
      BY <3>2, SMTT(30) DEF Mmts!Segment, Mmts!Shift
  <2> DEFINE t == IF m.frags[i].pts < 0 THEN -1
                  ELSE IF s = Mmts!NoSegment THEN m.frags[i].pts
                  ELSE m.frags[i].pts - Mmts!Shift(m, s)
  <2>2. t \in Int
    BY <2>1, <1>1
  <2>3. Mmts!Packets(m, s, i)[k] = [segment |-> s, frag |-> i, part |-> k, at |-> t]
    BY Zenon DEF Mmts!Packets
  <2>4. k \in Nat
    BY <1>1
  <2> HIDE DEF t
  <2> QED
    BY <2>2, <2>3, <2>4, <1>1 DEF Packet
<1>3. \E n \in Nat : Mmts!Packets(m, s, i) \in [1 .. n -> Packet]
  <2>1. Mmts!Packets(m, s, i) = [k \in 1 .. m.frags[i].packs |-> Mmts!Packets(m, s, i)[k]]
    BY Zenon DEF Mmts!Packets
  <2>2. Mmts!Packets(m, s, i) \in [1 .. m.frags[i].packs -> Packet]
    BY <2>1, <1>2, Zenon
  <2> QED
    BY <2>2, <1>1
<1> QED
  BY <1>3

LEMMA ConvertTyped ==
  ASSUME NEW m \in Movies, NEW s \in 0 .. Len(m.segments), NEW x \in InHandler(m),
         NEW i \in 1 .. Len(m.frags)
  PROVE  Mmts!Convert(m, s, x, i) \in InHandler(m)
<1> DEFINE f == m.frags[i]
           d == Mmts!Decision(m, s, x.gate, f)
           p == Mmts!Packets(m, s, i)
<1>1. /\ f.stream \in Mmts!Streams(m) /\ f.pts \in Int
      /\ f.lost \in BOOLEAN /\ f.last \in BOOLEAN
  BY MovieParts DEF Mmts!Streams, Mmts!Fragment
<1>2. x.gate \in Gates(m) /\ x.complete \in BOOLEAN /\ x.made \in Seq(Packet)
  BY DEF InHandler
<1>3. p \in Seq(Packet)
  BY PacketsTyped
<1>4. d \in Decisions
  <2>1. x.gate[f.stream] \in Decisions
    BY <1>1, <1>2 DEF Gates
  <2> QED
    BY <2>1, Zenon DEF Mmts!Decision, Decisions
<1> HIDE DEF d, p
<1>5. CASE s = Mmts!NoSegment
  <2> DEFINE o == IF f.lost THEN x.made ELSE x.made \o p
  <2>1. Mmts!Convert(m, s, x, i) = [x EXCEPT !.made = o]
    BY <1>5, Zenon DEF Mmts!Convert, p
  <2>2. o \in Seq(Packet)
    BY <1>2, <1>3
  <2> HIDE DEF o
  <2> QED
    BY <2>1, <2>2 DEF InHandler
<1>6. CASE s # Mmts!NoSegment /\ f.lost
  <2>1. Mmts!Convert(m, s, x, i) = [x EXCEPT !.gate[f.stream] = "none"]
    BY <1>6, Zenon DEF Mmts!Convert
  <2> HIDE DEF f
  <2>2. [x.gate EXCEPT ![f.stream] = "none"] \in Gates(m)
    BY <1>1, <1>2 DEF Gates, Decisions
  <2> QED
    BY <2>1, <2>2 DEF InHandler
<1>7. CASE s # Mmts!NoSegment /\ ~ f.lost
  <2> DEFINE g == [x.gate EXCEPT ![f.stream] = IF f.last THEN "none" ELSE d]
             e == x.complete \/ (f.stream = Mmts!Video /\ f.pts >= Mmts!Till(m, s))
             o == IF d = "in" THEN x.made \o p ELSE x.made
  <2>1. Mmts!Convert(m, s, x, i) = [gate |-> g, complete |-> e, made |-> o]
    BY <1>7, Zenon DEF Mmts!Convert, d, p
  <2> HIDE DEF f
  <2>2. g \in Gates(m)
    BY <1>1, <1>2, <1>4 DEF Gates, Decisions
  <2>3. e \in BOOLEAN /\ o \in Seq(Packet)
    BY <1>2, <1>3
  <2> HIDE DEF g, e, o
  <2> QED
    BY <2>1, <2>2, <2>3 DEF InHandler
<1> QED
  BY <1>5, <1>6, <1>7

LEMMA ConvertedIs ==
  ASSUME NEW m \in Movies, NEW c \in Conversions(m)
  PROVE  LET F == Mmts!Converted(m, c)
             N == Len(m.frags) - c.next
         IN  /\ \A k \in 0 .. N : F[k] \in InHandler(m)
             /\ F[0] = [gate |-> c.gate, complete |-> c.complete, made |-> <<>>]
             /\ \A k \in 1 .. N : F[k] = Mmts!Convert(m, c.segment, F[k - 1], c.next + k)
<1> DEFINE N == Len(m.frags) - c.next
           a == [gate |-> c.gate, complete |-> c.complete, made |-> <<>>]
           H(x, k) == Mmts!Convert(m, c.segment, x, c.next + k)
           h == [k \in 1 .. N |-> [x \in InHandler(m) |-> H(x, k)]]
           F == Mmts!Converted(m, c)
<1>1. /\ N \in Nat /\ c.next \in Nat /\ c.segment \in 0 .. Len(m.segments)
      /\ \A k \in 1 .. N : c.next + k \in 1 .. Len(m.frags)
  <2>1. Len(m.frags) \in Nat
    BY MovieParts
  <2> QED
    BY <2>1, SMTT(30) DEF Conversions
<1>2. a \in InHandler(m)
  BY DEF Conversions, InHandler
<1>3. \A k \in 1 .. N : \A x \in InHandler(m) : H(x, k) \in InHandler(m)
  BY <1>1, ConvertTyped
<1> HIDE DEF N, a, H
<1>4. h \in [1 .. N -> [InHandler(m) -> InHandler(m)]]
  BY <1>3
<1>5. PICK g \in [0 .. N -> InHandler(m)] :
        g[0] = a /\ \A k \in 1 .. N : g[k] = h[k][g[k - 1]]
  <2> DEFINE S == InHandler(m)
  <2>1. N \in Nat /\ a \in S /\ h \in [1 .. N -> [S -> S]]
    BY <1>1, <1>2, <1>4
  <2> HIDE DEF h, S
  <2>2. \E g \in [0 .. N -> S] : Computes(g, N, a, h)
    BY <2>1, Recursion, Zenon
  <2> QED
    BY <2>2 DEF S, Computes
<1>6. g = [k \in 0 .. N |-> IF k = 0 THEN a ELSE H(g[k - 1], k)]
  <2>1. ASSUME NEW k \in 1 .. N PROVE g[k] = H(g[k - 1], k)
    <3>1. g[k - 1] \in InHandler(m)
      <4>1. k - 1 \in 0 .. N
        BY <1>1
      <4> QED
        BY <4>1
    <3> QED
      BY <1>5, <3>1
  <2> QED
    BY <1>1, <1>5, <2>1
<1>7. F = [k \in 0 .. N |-> IF k = 0 THEN a ELSE H(F[k - 1], k)]
  BY <1>6, Zenon DEF Mmts!Converted, N, a, H
<1> HIDE DEF F
<1> DEFINE T == {k \in 0 .. N : F[k] \in InHandler(m)}
<1>8. 0 \in T
  BY <1>1, <1>2, <1>7
<1>9. ASSUME NEW k \in 1 .. N, k - 1 \in T PROVE k \in T
  <2>1. F[k] = H(F[k - 1], k)
    BY <1>7, <1>1, SMTT(30)
  <2> QED
    BY <2>1, <1>9, <1>3
<1>10. \A k \in 0 .. N : k \in T
  <2> HIDE DEF T
  <2> QED
    BY <1>1, <1>8, <1>9, UpTo
<1>11. F[0] = a /\ \A k \in 1 .. N : F[k] = H(F[k - 1], k)
  BY <1>1, <1>7, SMTT(30)
<1> QED
  BY <1>10, <1>11, Zenon DEF N, F, a, H

\* What is left to convert: a turn makes it less, unless it reaches the end.
Left(m, c) ==
  (Len(m.segments) - c.segment) * (Len(m.frags) + 1) + (Len(m.frags) - c.next)

LEMMA LessOfTwo ==
  ASSUME NEW a \in Nat, NEW b \in Nat
  PROVE  Mmts!Min({a, b}) = IF a <= b THEN a ELSE b
<1>1. \E x \in {a, b} : \A y \in {a, b} : x <= y
  OBVIOUS
<1>2. /\ Mmts!Min({a, b}) \in {a, b}
      /\ \A y \in {a, b} : Mmts!Min({a, b}) <= y
  BY <1>1, Zenon DEF Mmts!Min
<1> QED
  BY <1>2

LEMMA TurnTyped ==
  ASSUME NEW m \in Movies, NEW c \in Conversions(m)
  PROVE  /\ Mmts!Turn(m, c).c \in Conversions(m)
         /\ Mmts!Turn(m, c).made \in Seq(Packet)
         /\ Mmts!Turn(m, c).c.eof \/ Left(m, Mmts!Turn(m, c).c) <= Left(m, c) - 1
<1> DEFINE F == Len(m.frags)
           n == Mmts!Min({ChunkSize, F - c.next})
           x == Mmts!Converted(m, c)[n]
<1>1. /\ F \in Nat /\ Len(m.segments) \in Nat
      /\ m.segments = <<>> <=> Len(m.segments) = 0
  BY MovieParts
<1>2. /\ c = [next |-> c.next, segment |-> c.segment, eof |-> c.eof, gate |-> c.gate,
              complete |-> c.complete]
      /\ c.next \in 0 .. F /\ c.segment \in 0 .. Len(m.segments)
      /\ c.eof \in BOOLEAN /\ c.gate \in Gates(m) /\ c.complete \in BOOLEAN
      /\ c.segment = Mmts!NoSegment <=> m.segments = <<>>
  BY DEF Conversions
<1> HIDE DEF F
<1>3. CASE c.segment # Mmts!NoSegment /\ (c.complete \/ c.next = F)
  <2>1. Mmts!Turn(m, c) = [c |-> Mmts!NextSegment(m, c), made |-> <<>>]
    BY <1>3, Zenon DEF Mmts!Turn, F
  <2>2. CASE c.segment = Len(m.segments)
    <3>1. Mmts!NextSegment(m, c) = [c EXCEPT !.eof = TRUE]
      BY <2>2 DEF Mmts!NextSegment
    <3>2. [c EXCEPT !.eof = TRUE] \in Conversions(m) /\ [c EXCEPT !.eof = TRUE].eof
      BY DEF Conversions
    <3>3. /\ Mmts!Turn(m, c).c = [c EXCEPT !.eof = TRUE]
          /\ Mmts!Turn(m, c).made \in Seq(Packet)
      BY <2>1, <3>1
    <3> QED
      BY <3>2, <3>3
  <2>3. CASE c.segment # Len(m.segments)
    <3> DEFINE s == c.segment + 1
               e == Mmts!StartAt(m, s, m.segments[s].start)
    <3>1. s \in 0 .. Len(m.segments) /\ s # 0 /\ m.segments # <<>>
      BY <1>1, <1>2, <1>3, <2>3 DEF Mmts!NoSegment
    <3>2. Mmts!NextSegment(m, c) = e
      BY <2>3 DEF Mmts!NextSegment
    <3>3. e \in Conversions(m)
      BY <3>1, StartTyped DEF Mmts!NoSegment
    <3>4. e.segment = s /\ e.next \in 0 .. F
      BY <3>3 DEF Mmts!StartAt, Conversions, F
    <3>5. Left(m, e) <= Left(m, c) - 1
      <4> DEFINE p == Len(m.segments) - c.segment
      <4>1. p \in Nat /\ F + 1 \in Nat /\ Len(m.segments) - s = p - 1
        BY <1>1, <1>2
      <4>2. (p - 1) * (F + 1) = p * (F + 1) - (F + 1)
        BY <4>1
      <4>3. p * (F + 1) \in Int
        BY <4>1
      <4>4. Left(m, e) = (p - 1) * (F + 1) + (F - e.next)
        BY <4>1, <3>4 DEF Left, F
      <4>5. Left(m, c) = p * (F + 1) + (F - c.next)
        BY DEF Left, F
      <4> HIDE DEF p, e
      <4> QED
        BY <4>2, <4>3, <4>4, <4>5, <3>4, <1>1, <1>2, SMTT(30)
    <3>6. Mmts!Turn(m, c).c = e /\ Mmts!Turn(m, c).made = <<>>
      BY <2>1, <3>2
    <3> HIDE DEF e
    <3>7. Mmts!Turn(m, c).made \in Seq(Packet)
      BY <3>6
    <3> QED
      BY <3>3, <3>5, <3>6, <3>7, Zenon
  <2> QED
    BY <2>2, <2>3
<1>4. CASE ~ (c.segment # Mmts!NoSegment /\ (c.complete \/ c.next = F)) /\ c.next = F
  <2>1. Mmts!Turn(m, c) = [c |-> [c EXCEPT !.eof = TRUE], made |-> <<>>]
    BY <1>4, Zenon DEF Mmts!Turn, F
  <2>2. [c EXCEPT !.eof = TRUE] \in Conversions(m) /\ [c EXCEPT !.eof = TRUE].eof
    BY DEF Conversions
  <2>3. Mmts!Turn(m, c).c = [c EXCEPT !.eof = TRUE] /\ Mmts!Turn(m, c).made = <<>>
    BY <2>1
  <2> QED
    BY <2>2, <2>3
<1>5. CASE ~ (c.segment # Mmts!NoSegment /\ (c.complete \/ c.next = F)) /\ c.next # F
  <2> DEFINE e == [c EXCEPT !.next = c.next + n, !.gate = x.gate, !.complete = x.complete]
  <2>1. Mmts!Turn(m, c) = [c |-> e, made |-> x.made]
    BY <1>5, Zenon DEF Mmts!Turn, F
  <2>2. n \in 1 .. F - c.next
    <3>1. ChunkSize \in Nat \ {0} /\ F - c.next \in Nat \ {0}
      BY FileAssumption, <1>1, <1>2, <1>5 DEF Mmts!MoviesAssumption
    <3> QED
      BY <3>1, LessOfTwo
  <2>3. x.gate \in Gates(m) /\ x.complete \in BOOLEAN /\ x.made \in Seq(Packet)
    <3>1. n \in 0 .. Len(m.frags) - c.next
      BY <2>2, <1>1, <1>2 DEF F
    <3>2. x \in InHandler(m)
      BY <3>1, ConvertedIs
    <3> QED
      BY <3>2 DEF InHandler
  <2> HIDE DEF n, x
  <2>5. e \in Conversions(m) /\ e.segment = c.segment /\ e.next = c.next + n
    <3>1. c.next + n \in 0 .. Len(m.frags)
      BY <2>2, <1>1, <1>2 DEF F
    <3> QED
      BY <2>3, <3>1 DEF Conversions
  <2>6. Left(m, e) <= Left(m, c) - 1
    <3> DEFINE q == (Len(m.segments) - c.segment) * (F + 1)
    <3>1. q \in Int
      BY <1>1, <1>2
    <3>2. Left(m, e) = q + (F - (c.next + n)) /\ Left(m, c) = q + (F - c.next)
      BY <2>5 DEF Left, F
    <3> HIDE DEF q, e
    <3> QED
      BY <3>1, <3>2, <2>2, <1>1, <1>2
  <2> HIDE DEF e
  <2> QED
    BY <2>1, <2>3, <2>5, <2>6
<1> QED
  BY <1>3, <1>4, <1>5
-----------------------------------------------------------------------------
(* The course of a conversion, turn by turn *)

LEMMA Joins == \A p, q, r \in Seq(Packet) : (p \o q) \o r = p \o (q \o r)
  BY ConcatAssociative, SMTT(30)

\* What one more turn makes of it.
After(m, x) ==
  IF x.c.eof THEN x
  ELSE [c |-> Mmts!Turn(m, x.c).c, made |-> x.made \o Mmts!Turn(m, x.c).made]

LEMMA AfterTyped ==
  ASSUME NEW m \in Movies, NEW x \in Stage(m)
  PROVE  After(m, x) \in Stage(m)
<1>1. x.c \in Conversions(m) /\ x.made \in Seq(Packet)
  BY DEF Stage
<1>2. Mmts!Turn(m, x.c).c \in Conversions(m) /\ Mmts!Turn(m, x.c).made \in Seq(Packet)
  BY <1>1, TurnTyped
<1>3. x.made \o Mmts!Turn(m, x.c).made \in Seq(Packet)
  BY <1>1, <1>2
<1> QED
  BY <1>2, <1>3 DEF After, Stage

LEMMA TurnsMaxTyped == ASSUME NEW m \in Movies PROVE Mmts!TurnsMax(m) \in Nat \ {0}
<1>1. Len(m.segments) + 1 \in Nat \ {0} /\ Len(m.frags) + 1 \in Nat \ {0}
  BY MovieParts
<1>2. \A a, b \in Nat \ {0} : a * b \in Nat \ {0}
  OBVIOUS
<1> QED
  BY <1>1, <1>2 DEF Mmts!TurnsMax

LEMMA CourseIs ==
  ASSUME NEW m \in Movies, NEW c \in Conversions(m)
  PROVE  /\ Mmts!Course(m, c) \in [0 .. Mmts!TurnsMax(m) -> Stage(m)]
         /\ Mmts!Course(m, c)[0] = [c |-> c, made |-> <<>>]
         /\ \A k \in 1 .. Mmts!TurnsMax(m) :
              Mmts!Course(m, c)[k] = After(m, Mmts!Course(m, c)[k - 1])
<1> DEFINE N == Mmts!TurnsMax(m)
           S == Stage(m)
           a == [c |-> c, made |-> <<>>]
           h == [k \in 1 .. N |-> [x \in S |-> After(m, x)]]
           F == Mmts!Course(m, c)
<1>1. N \in Nat
  BY TurnsMaxTyped
<1>2. a \in S
  BY DEF Stage
<1>3. \A x \in S : After(m, x) \in S
  BY AfterTyped
<1> HIDE DEF N, S, a
<1>4. h \in [1 .. N -> [S -> S]]
  BY <1>3
<1>5. PICK g \in [0 .. N -> S] : g[0] = a /\ \A k \in 1 .. N : g[k] = h[k][g[k - 1]]
  <2> HIDE DEF h
  <2>1. \E g \in [0 .. N -> S] : Computes(g, N, a, h)
    BY <1>1, <1>2, <1>4, Recursion, Zenon
  <2> QED
    BY <2>1 DEF Computes
<1>6. g = [k \in 0 .. N |-> IF k = 0 THEN a ELSE After(m, g[k - 1])]
  <2>1. ASSUME NEW k \in 1 .. N PROVE g[k] = After(m, g[k - 1])
    <3>1. g[k - 1] \in S
      <4>1. k - 1 \in 0 .. N
        BY <1>1
      <4> QED
        BY <4>1
    <3> QED
      BY <1>5, <3>1
  <2> QED
    BY <1>1, <1>5, <2>1
<1>7. F = [k \in 0 .. N |-> IF k = 0 THEN a ELSE After(m, F[k - 1])]
  BY <1>6, Zenon DEF Mmts!Course, After, N, a
<1> HIDE DEF F
<1>8. F[0] = a /\ \A k \in 1 .. N : F[k] = After(m, F[k - 1])
  BY <1>7, <1>1
<1> DEFINE T == {k \in 0 .. N : F[k] \in S}
<1>9. 0 \in T
  BY <1>1, <1>2, <1>8
<1>10. ASSUME NEW k \in 1 .. N, k - 1 \in T PROVE k \in T
  <2>1. F[k] = After(m, F[k - 1])
    BY <1>8
  <2> QED
    BY <2>1, <1>10, <1>3
<1>11. \A k \in 0 .. N : k \in T
  <2> HIDE DEF T
  <2> QED
    BY <1>1, <1>9, <1>10, UpTo
<1>12. F \in [0 .. N -> S]
  BY <1>7, <1>11
<1> QED
  BY <1>8, <1>12 DEF N, S, a, F

\* TurnsMax turns are enough for the end of every recording.
LEMMA CourseEnds ==
  ASSUME NEW m \in Movies, NEW c \in Conversions(m)
  PROVE  Mmts!Course(m, c)[Mmts!TurnsMax(m)].c.eof
<1> DEFINE N == Mmts!TurnsMax(m)
           C == Mmts!Course(m, c)
           T == {k \in 0 .. N : C[k].c.eof \/ Left(m, C[k].c) <= N - 1 - k}
<1>1. /\ N \in Nat /\ Len(m.frags) \in Nat /\ Len(m.segments) \in Nat
      /\ C \in [0 .. N -> Stage(m)] /\ C[0] = [c |-> c, made |-> <<>>]
      /\ \A k \in 1 .. N : C[k] = After(m, C[k - 1])
  BY TurnsMaxTyped, MovieParts, CourseIs
<1>2. ASSUME NEW d \in Conversions(m) PROVE Left(m, d) \in Nat /\ Left(m, d) <= N - 1
  <2> DEFINE p == Len(m.segments) - d.segment
             F1 == Len(m.frags) + 1
             r == Len(m.frags) - d.next
  <2>1. /\ p \in Nat /\ F1 \in Nat /\ r \in 0 .. F1 - 1 /\ p <= Len(m.segments)
    BY <1>1, SMTT(30) DEF Conversions
  <2>2. Left(m, d) = p * F1 + r /\ N = (Len(m.segments) + 1) * F1
    BY DEF Left, Mmts!TurnsMax
  <2> HIDE DEF p, F1, r, N
  <2>3. p * F1 \in Nat /\ p * F1 <= Len(m.segments) * F1 /\ Len(m.segments) * F1 \in Nat
    BY <2>1, <1>1, SMTT(30)
  <2>4. (Len(m.segments) + 1) * F1 = Len(m.segments) * F1 + F1
    BY <2>1, <1>1
  <2> QED
    BY <2>1, <2>2, <2>3, <2>4
<1> HIDE DEF N, C
<1>3. 0 \in T
  <2>1. C[0].c = c
    BY <1>1
  <2> QED
    BY <2>1, <1>1, <1>2
<1>4. ASSUME NEW k \in 1 .. N, k - 1 \in T PROVE k \in T
  <2> DEFINE x == C[k - 1]
  <2>1. k - 1 \in 0 .. N /\ x.c \in Conversions(m) /\ C[k] = After(m, x)
    <3>1. k - 1 \in 0 .. N
      BY <1>1
    <3> QED
      BY <3>1, <1>1, SMTT(30) DEF Stage
  <2>2. CASE x.c.eof
    BY <2>1, <2>2 DEF After
  <2>3. CASE ~ x.c.eof
    <3>1. Left(m, x.c) <= N - 1 - (k - 1)
      BY <1>4, <2>3
    <3>2. C[k].c = Mmts!Turn(m, x.c).c
      BY <2>1, <2>3 DEF After
    <3> DEFINE e == Mmts!Turn(m, x.c).c
    <3>3. e \in Conversions(m) /\ (e.eof \/ Left(m, e) <= Left(m, x.c) - 1)
      BY <2>1, TurnTyped
    <3>4. Left(m, e) \in Nat /\ Left(m, x.c) \in Nat
      BY <3>3, <2>1, <1>2
    <3> HIDE DEF e, x
    <3>5. e.eof \/ Left(m, e) <= N - 1 - k
      BY <3>1, <3>3, <3>4, <1>1
    <3>6. C[k].c = e
      BY <3>2 DEF e
    <3> QED
      BY <3>5, <3>6
  <2> QED
    BY <2>2, <2>3
<1>5. N \in T
  <2> HIDE DEF T
  <2>1. \A k \in 0 .. N : k \in T
    BY <1>1, <1>3, <1>4, UpTo
  <2> QED
    BY <2>1, <1>1
<1>6. C[N].c \in Conversions(m)
  BY <1>1 DEF Stage
<1>7. Left(m, C[N].c) \in Nat
  BY <1>6, <1>2
<1>8. C[N].c.eof
  BY <1>5, <1>7, <1>1
<1> QED
  BY <1>8 DEF C, N
\* After the end nothing changes.
LEMMA CourseStays ==
  ASSUME NEW m \in Movies, NEW c \in Conversions(m), NEW i \in 0 .. Mmts!TurnsMax(m),
         Mmts!Course(m, c)[i].c.eof, NEW k \in i .. Mmts!TurnsMax(m)
  PROVE  Mmts!Course(m, c)[k] = Mmts!Course(m, c)[i]
<1> DEFINE N == Mmts!TurnsMax(m)
           C == Mmts!Course(m, c)
           T == {j \in 0 .. N - i : C[i + j] = C[i]}
<1>1. N \in Nat /\ \A j \in 1 .. N : C[j] = After(m, C[j - 1])
  BY TurnsMaxTyped, CourseIs
<1>2. C[i].c.eof /\ i \in 0 .. N /\ k \in i .. N
  OBVIOUS
<1> HIDE DEF N, C
<1>3. 0 \in T
  BY <1>1, <1>2
<1>4. ASSUME NEW j \in 1 .. N - i, j - 1 \in T PROVE j \in T
  <2>1. i + j \in 1 .. N /\ (i + j) - 1 = i + (j - 1)
    BY <1>1, <1>2
  <2>2. C[i + j] = After(m, C[i + (j - 1)])
    <3>1. C[i + j] = After(m, C[(i + j) - 1])
      BY <2>1, <1>1, SMTT(30)
    <3> QED
      BY <2>1, <3>1, SMTT(30)
  <2>3. C[i + j] = C[i]
    BY <2>2, <1>2, <1>4 DEF After
  <2> QED
    BY <2>3
<1>5. N - i \in Nat /\ k - i \in 0 .. N - i
  BY <1>1, <1>2
<1>6. k - i \in T
  <2> HIDE DEF T
  <2>1. \A j \in 0 .. N - i : j \in T
    BY <1>3, <1>4, <1>5, UpTo
  <2> QED
    BY <2>1, <1>5
<1>7. i + (k - i) = k
  BY <1>1, <1>2
<1>8. C[k] = C[i]
  BY <1>6, <1>7
<1> QED
  BY <1>8 DEF C

\* From any stage on the conversion goes as if it began there.
LEMMA CourseGoesOn ==
  ASSUME NEW m \in Movies, NEW c \in Conversions(m), NEW i \in 0 .. Mmts!TurnsMax(m),
         NEW k \in 0 .. Mmts!TurnsMax(m) - i
  PROVE  LET C == Mmts!Course(m, c)
             D == Mmts!Course(m, C[i].c)
         IN  C[i + k].c = D[k].c /\ C[i + k].made = C[i].made \o D[k].made
<1> DEFINE N == Mmts!TurnsMax(m)
           C == Mmts!Course(m, c)
           D == Mmts!Course(m, C[i].c)
           T == {j \in 0 .. N - i : C[i + j].c = D[j].c /\ C[i + j].made = C[i].made \o D[j].made}
<1>1. /\ N \in Nat /\ i \in 0 .. N /\ k \in 0 .. N - i
      /\ C \in [0 .. N -> Stage(m)]
      /\ \A j \in 1 .. N : C[j] = After(m, C[j - 1])
  BY TurnsMaxTyped, CourseIs
<1>2. C[i].c \in Conversions(m) /\ C[i].made \in Seq(Packet)
  BY <1>1 DEF Stage
<1>3. /\ D \in [0 .. N -> Stage(m)] /\ D[0] = [c |-> C[i].c, made |-> <<>>]
      /\ \A j \in 1 .. N : D[j] = After(m, D[j - 1])
  BY <1>2, CourseIs
<1> HIDE DEF N, C, D
<1>4. 0 \in T
  <2>1. i + 0 = i /\ 0 \in 0 .. N - i
    BY <1>1
  <2>2. C[i].made \o D[0].made = C[i].made
    BY <1>2, <1>3
  <2>3. D[0].c = C[i].c
    BY <1>3
  <2> QED
    BY <2>1, <2>2, <2>3
<1>5. ASSUME NEW j \in 1 .. N - i, j - 1 \in T PROVE j \in T
  <2> DEFINE x == C[i + (j - 1)]
             y == D[j - 1]
             t == Mmts!Turn(m, y.c)
  <2>1. /\ i + j \in 1 .. N /\ (i + j) - 1 = i + (j - 1)
        /\ j - 1 \in 0 .. N /\ j \in 1 .. N
    BY <1>1
  <2>2. C[i + j] = After(m, x) /\ D[j] = After(m, y)
    <3>1. C[i + j] = After(m, C[(i + j) - 1])
      BY <2>1, <1>1
    <3> QED
      BY <2>1, <3>1, <1>3
  <2>3. x.c = y.c /\ x.made = C[i].made \o y.made
    BY <1>5
  <2>4. y.c \in Conversions(m) /\ y.made \in Seq(Packet) /\ t.made \in Seq(Packet)
    <3>1. y \in Stage(m)
      BY <1>3, <2>1
    <3>2. y.c \in Conversions(m) /\ y.made \in Seq(Packet)
      BY <3>1 DEF Stage
    <3> QED
      BY <3>2, TurnTyped
  <2>5. j \in 0 .. N - i
    BY <1>1, SMTT(30)
  <2>6. CASE y.c.eof
    <3>1. C[i + j] = x /\ D[j] = y
      BY <2>2, <2>3, <2>6 DEF After
    <3> HIDE DEF x, y
    <3> QED
      BY <3>1, <2>3, <2>5
  <2>7. CASE ~ y.c.eof
    <3> DEFINE u == x.made \o t.made
               v == y.made \o t.made
    <3> HIDE DEF x, y, t, u, v
    <3>1. C[i + j] = [c |-> t.c, made |-> u] /\ D[j] = [c |-> t.c, made |-> v]
      BY <2>2, <2>3, <2>7 DEF After, t, u, v
    <3>2. u = C[i].made \o v
      <4>1. y.made \in Seq(Packet) /\ t.made \in Seq(Packet) /\ C[i].made \in Seq(Packet)
        BY <2>4, <1>2
      <4>2. (C[i].made \o y.made) \o t.made = C[i].made \o (y.made \o t.made)
        BY <4>1, Joins, Zenon
      <4> QED
        BY <4>2, <2>3, Zenon DEF u, v
    <3>3. C[i + j].c = t.c /\ C[i + j].made = u
      BY <3>1
    <3>4. D[j].c = t.c /\ D[j].made = v
      BY <3>1
    <3> QED
      BY <3>2, <3>3, <3>4, <2>5
  <2> QED
    BY <2>6, <2>7
<1>6. k \in T
  <2> HIDE DEF T
  <2>1. N - i \in Nat
    BY <1>1
  <2>2. \A j \in 0 .. N - i : j \in T
    BY <1>4, <1>5, <2>1, UpTo
  <2> QED
    BY <2>2, <1>1
<1> QED
  BY <1>6, Zenon DEF C, D

\* What is made stays at the beginning of what is made later.
StartsWith(s, t) == Len(t) <= Len(s) /\ \A i \in 1 .. Len(t) : s[i] = t[i]

LEMMA CourseGrows ==
  ASSUME NEW m \in Movies, NEW c \in Conversions(m), NEW i \in 0 .. Mmts!TurnsMax(m)
  PROVE  StartsWith(Mmts!Rest(m, c), Mmts!Course(m, c)[i].made)
<1> DEFINE N == Mmts!TurnsMax(m)
           C == Mmts!Course(m, c)
           D == Mmts!Course(m, C[i].c)
<1>1. /\ N \in Nat /\ i \in 0 .. N /\ i + (N - i) = N /\ N - i \in 0 .. N - i
      /\ C \in [0 .. N -> Stage(m)]
  <2>1. N \in Nat /\ i \in 0 .. N /\ C \in [0 .. N -> Stage(m)]
    BY TurnsMaxTyped, CourseIs
  <2> HIDE DEF N, C
  <2> QED
    BY <2>1
<1>2. C[i].c \in Conversions(m) /\ C[i].made \in Seq(Packet)
  BY <1>1 DEF Stage
<1>3. D[N - i].made \in Seq(Packet)
  <2>1. D \in [0 .. N -> Stage(m)] /\ N - i \in 0 .. N
    BY <1>1, <1>2, CourseIs, SMTT(30)
  <2> QED
    BY <2>1 DEF Stage
<1>4. C[i + (N - i)].made = C[i].made \o D[N - i].made
  BY <1>1, CourseGoesOn
<1> HIDE DEF C, D, N
<1>5. Mmts!Rest(m, c) = C[i].made \o D[N - i].made
  BY <1>1, <1>4 DEF Mmts!Rest, C, N
<1>6. \A s, t \in Seq(Packet) : StartsWith(s \o t, s)
  BY DEF StartsWith
<1> QED
  BY <1>2, <1>3, <1>5, <1>6 DEF C
-----------------------------------------------------------------------------
(* Reading a recording *)

MmtsTypes ==
  /\ movie \in Movies /\ conv \in Conversions(movie) /\ output \in Seq(Packet)
  /\ offset \in 0 .. Len(output) /\ position \in Nat /\ offset <= position
  /\ rewind \in {0, RewindSize} /\ sought \in 0 .. Mmts!Duration(movie)

\* What Read has converted when it returns, what it keeps of the window, and where
\* it reads on in the new one.
Gained == Mmts!Course(movie, conv)[Mmts!Turns]
Stays == IF Gained.made = <<>> THEN output ELSE Mmts!Trimmed(output)
Start == IF Gained.made = <<>> THEN offset ELSE Len(Stays)

\* FillOutput makes turns until there is something to read, and no more.
LEMMA TurnsAre ==
  ASSUME MmtsTypes
  PROVE  /\ Mmts!Turns \in 0 .. Mmts!TurnsMax(movie)
         /\ Gained \in Stage(movie)
         /\ offset < Len(output) => Gained.made = <<>>
         /\ offset >= Len(output) => Mmts!Enough(Gained)
         /\ \A j \in 0 .. Mmts!Turns - 1 : ~ Mmts!Enough(Mmts!Course(movie, conv)[j])
<1> DEFINE N == Mmts!TurnsMax(movie)
           C == Mmts!Course(movie, conv)
           T == {k \in 0 .. N : Mmts!Enough(C[k])}
<1>1. /\ N \in Nat /\ C \in [0 .. N -> Stage(movie)]
      /\ C[0] = [c |-> conv, made |-> <<>>]
  BY TurnsMaxTyped, CourseIs DEF MmtsTypes
<1>2. C[N].c.eof
  BY CourseEnds DEF MmtsTypes
<1> HIDE DEF N, C
<1>3. CASE offset < Len(output)
  <2>1. Mmts!Turns = 0
    BY <1>3 DEF Mmts!Turns
  <2>2. Gained = C[0]
    BY <2>1 DEF Gained, C
  <2>3. Gained.made = <<>>
    BY <2>2, <1>1
  <2>4. 0 \in 0 .. N /\ C[0] \in Stage(movie)
    BY <1>1
  <2>5. ~ (offset >= Len(output))
    BY <1>3 DEF MmtsTypes
  <2> QED
    BY <2>1, <2>2, <2>3, <2>4, <2>5 DEF N
<1>4. CASE ~ (offset < Len(output))
  <2> DEFINE P(k) == /\ Mmts!Enough(C[k])
                     /\ \A j \in 0 .. k - 1 : ~ Mmts!Enough(C[j])
  <2>1. \E k \in 0 .. N : P(k)
    <3>1. N \in T
      BY <1>1, <1>2 DEF Mmts!Enough
    <3>2. T \in SUBSET Nat /\ T # {}
      BY <3>1
    <3>3. PICK k \in T : \A j \in T : k <= j
      <4> HIDE DEF T
      <4> QED
        BY <3>2, HasLeast
    <3>4. ASSUME NEW j \in 0 .. k - 1 PROVE ~ Mmts!Enough(C[j])
      <4>1. j \in 0 .. N /\ ~ (k <= j)
        BY <1>1
      <4>2. j \notin T
        BY <4>1, <3>3
      <4> QED
        BY <4>1, <4>2
    <3>5. k \in 0 .. N /\ Mmts!Enough(C[k])
      OBVIOUS
    <3> QED
      BY <3>4, <3>5
  <2>2. Mmts!Turns = CHOOSE k \in 0 .. N : P(k)
    BY <1>4, Zenon DEF Mmts!Turns, C, N
  <2> HIDE DEF P
  <2>3. Mmts!Turns \in 0 .. N /\ P(Mmts!Turns)
    BY <2>1, <2>2, Zenon
  <2>4. Gained = C[Mmts!Turns] /\ Gained \in Stage(movie)
    BY <2>3, <1>1 DEF Gained, C
  <2>5. /\ Mmts!Enough(C[Mmts!Turns])
        /\ \A j \in 0 .. Mmts!Turns - 1 : ~ Mmts!Enough(C[j])
    BY <2>3, Zenon DEF P
  <2> QED
    BY <2>3, <2>4, <2>5, <1>4, Zenon DEF C, N
<1> QED
  BY <1>3, <1>4

\* The last packets of the window, as many as may be given back.
LEMMA TrimmedIs ==
  ASSUME MmtsTypes
  PROVE  LET w == Mmts!Trimmed(output)
         IN  /\ w \in Seq(Packet)
             /\ Len(w) = IF rewind <= Len(output) THEN rewind ELSE Len(output)
             /\ \A i \in 1 .. Len(w) : w[i] = output[Len(output) - Len(w) + i]
<1> DEFINE L == Len(output)
           k == IF rewind <= L THEN rewind ELSE L
<1>1. L \in Nat /\ rewind \in Nat /\ output \in Seq(Packet)
  BY FileAssumption DEF MmtsTypes, Mmts!MoviesAssumption
<1>2. k \in 0 .. L
  BY <1>1
<1>3. Mmts!Trimmed(output) = SubSeq(output, L - k + 1, L)
  BY <1>1, LessOfTwo DEF Mmts!Trimmed
<1> HIDE DEF k
<1>4. /\ SubSeq(output, L - k + 1, L) \in Seq(Packet)
      /\ Len(SubSeq(output, L - k + 1, L)) = k
      /\ \A i \in 1 .. k : SubSeq(output, L - k + 1, L)[i] = output[L - k + i]
  BY <1>1, <1>2
<1> QED
  BY <1>3, <1>4 DEF k

\* What a read does, by its parts.
LEMMA ReadIs ==
  ASSUME MmtsTypes, NEW n \in Nat \ {0}, Mmts!Read(n)
  PROVE  /\ conv' = Gained.c /\ output' = Stays \o Gained.made
         /\ conv' \in Conversions(movie) /\ output' \in Seq(Packet)
         /\ Stays \in Seq(Packet) /\ Gained.made \in Seq(Packet)
         /\ Start \in 0 .. Len(output')
         /\ UNCHANGED <<movie, sought, rewind, image>>
         /\ \E count \in 0 .. Len(output') - Start :
              /\ offset' = Start + count /\ position' = position + count
              /\ out' = SubSeq(output', Start + 1, Start + count)
              /\ count = 0 => Start = Len(output')
<1>1. Gained.c \in Conversions(movie) /\ Gained.made \in Seq(Packet)
  BY TurnsAre DEF Stage
<1>2. Stays \in Seq(Packet) /\ Start \in 0 .. Len(Stays)
  <2>1. Mmts!Trimmed(output) \in Seq(Packet)
    BY TrimmedIs
  <2> QED
    BY <2>1 DEF Stays, Start, MmtsTypes
<1> DEFINE new == Stays \o Gained.made
           count == Mmts!Min({Len(new) - Start, n})
<1>3. /\ conv' = Gained.c /\ output' = new /\ offset' = Start + count
      /\ position' = position + count /\ out' = SubSeq(output', Start + 1, Start + count)
      /\ UNCHANGED <<movie, sought, rewind, image>>
  BY Zenon DEF Mmts!Read, Mmts!ReadAfter, Gained, Stays, Start
<1>4. new \in Seq(Packet) /\ Len(new) = Len(Stays) + Len(Gained.made)
  BY <1>1, <1>2
<1> HIDE DEF new
<1>5. Start \in 0 .. Len(new) /\ Len(new) - Start \in Nat
  BY <1>1, <1>2, <1>4
<1>6. count \in 0 .. Len(new) - Start /\ (count = 0 => Start = Len(new))
  BY <1>5, LessOfTwo
<1> HIDE DEF count
<1> QED
  BY <1>1, <1>2, <1>3, <1>4, <1>5, <1>6 DEF new
\* Before the read-ahead is set up nothing was given back: the window ends at most
\* where it is read.
MmtsInv == MmtsTypes /\ (rewind = 0 => position = offset) /\ Mmts!WindowReaches

LEMMA DurationTyped ==
  ASSUME NEW m \in Movies
  PROVE  Mmts!Duration(m) \in Nat
<1>1. CASE m.segments = <<>>
  BY <1>1, MovieParts DEF Mmts!Duration
<1>2. CASE m.segments # <<>>
  <2> DEFINE s == m.segments[Len(m.segments)]
  <2>1. Len(m.segments) \in 1 .. Len(m.segments)
    BY <1>2, MovieParts
  <2>2. s \in Mmts!Segment /\ s.start < s.end
    BY <2>1, MovieParts
  <2>3. Mmts!Duration(m) = s.program + s.end - s.start
    BY <1>2, Zenon DEF Mmts!Duration
  <2> HIDE DEF s
  <2> QED
    BY <2>2, <2>3 DEF Mmts!Segment
<1> QED
  BY <1>1, <1>2

\* A time of the program is in one of the segments.
LEMMA SegmentIs ==
  ASSUME NEW m \in Movies, m.segments # <<>>, NEW t \in Nat
  PROVE  LET s == Mmts!SegmentAt(m, t)
         IN  /\ s \in 1 .. Len(m.segments)
             /\ s = Len(m.segments) \/ t < m.segments[s + 1].program
             /\ s > 1 => t >= m.segments[s].program
<1> DEFINE L == Len(m.segments)
           P(i) == /\ i = L \/ t < m.segments[i + 1].program
                   /\ i > 1 => t >= m.segments[i].program
           T == {i \in 1 .. L : i = L \/ t < m.segments[i + 1].program}
<1>1. L \in Nat \ {0} /\ \A i \in 1 .. L : m.segments[i].program \in Nat
  BY MovieParts DEF Mmts!Segment
<1> HIDE DEF L
<1>2. PICK i \in T : \A j \in T : i <= j
  <2>1. L \in T /\ T \in SUBSET Nat
    BY <1>1
  <2> HIDE DEF T
  <2> QED
    BY <2>1, HasLeast
<1>3. i > 1 => t >= m.segments[i].program
  <2> SUFFICES ASSUME i > 1 PROVE t >= m.segments[i].program
    OBVIOUS
  <2>1. i - 1 \in 1 .. L /\ ~ (i <= i - 1) /\ (i - 1) + 1 = i
    BY <1>1
  <2>2. i - 1 \notin T
    BY <2>1, <1>2
  <2>3. ~ (t < m.segments[i].program)
    BY <2>1, <2>2
  <2> QED
    BY <2>3, <1>1
<1>4. P(i) /\ i \in 1 .. L
  BY <1>3
<1>5. Mmts!SegmentAt(m, t) = CHOOSE j \in 1 .. L : P(j)
  BY Zenon DEF Mmts!SegmentAt, L
<1> HIDE DEF P
<1>6. Mmts!SegmentAt(m, t) \in 1 .. L /\ P(Mmts!SegmentAt(m, t))
  BY <1>4, <1>5, Zenon
<1> QED
  BY <1>6, Zenon DEF L, P

LEMMA ConversionAtTyped ==
  ASSUME NEW m \in Movies, NEW t \in 0 .. Mmts!Duration(m)
  PROVE  Mmts!ConversionAt(m, t) \in Conversions(m)
<1>1. /\ Len(m.segments) \in Nat /\ t \in Nat
      /\ m.segments = <<>> <=> Len(m.segments) = 0
  BY MovieParts, DurationTyped
<1>2. CASE t = Mmts!Duration(m)
  <2> DEFINE s == IF m.segments = <<>> THEN Mmts!NoSegment ELSE Len(m.segments)
             c == Mmts!StartAt(m, s, t)
  <2>1. s \in 0 .. Len(m.segments) /\ (s = Mmts!NoSegment <=> m.segments = <<>>)
    BY <1>1 DEF Mmts!NoSegment
  <2>2. Mmts!ConversionAt(m, t) = [c EXCEPT !.eof = TRUE]
    BY <1>2, Zenon DEF Mmts!ConversionAt
  <2> HIDE DEF s
  <2>3. c \in Conversions(m)
    BY <2>1, StartTyped
  <2> HIDE DEF c
  <2> QED
    BY <2>2, <2>3 DEF Conversions
<1>3. CASE t # Mmts!Duration(m) /\ m.segments = <<>>
  <2>1. Mmts!ConversionAt(m, t) = Mmts!StartAt(m, Mmts!NoSegment, t)
    BY <1>3, Zenon DEF Mmts!ConversionAt
  <2>2. Mmts!NoSegment \in 0 .. Len(m.segments)
    BY <1>1 DEF Mmts!NoSegment
  <2> QED
    BY <2>1, <2>2, <1>3, StartTyped
<1>4. CASE t # Mmts!Duration(m) /\ m.segments # <<>>
  <2>1. Mmts!ConversionAt(m, t)
          = Mmts!StartAt(m, Mmts!SegmentAt(m, t), Mmts!SourceTime(m, t))
    BY <1>4, Zenon DEF Mmts!ConversionAt
  <2>2. Mmts!SegmentAt(m, t) \in 1 .. Len(m.segments)
    BY <1>1, <1>4, SegmentIs
  <2>3. /\ Mmts!SegmentAt(m, t) \in 0 .. Len(m.segments)
        /\ Mmts!SegmentAt(m, t) # Mmts!NoSegment
    BY <2>2, <1>1 DEF Mmts!NoSegment
  <2> QED
    BY <2>1, <2>3, <1>4, StartTyped
<1> QED
  BY <1>2, <1>3, <1>4

LEMMA MmtsInit == Mmts!Init => MmtsInv
<1> SUFFICES ASSUME Mmts!Init PROVE MmtsInv
  OBVIOUS
<1>1. /\ movie \in Movies /\ conv = Mmts!ConversionAt(movie, 0) /\ output = <<>>
      /\ offset = 0 /\ position = 0 /\ sought = 0 /\ rewind = 0
  BY DEF Mmts!Init
<1>2. 0 \in 0 .. Mmts!Duration(movie)
  BY <1>1, DurationTyped
<1>3. conv \in Conversions(movie)
  BY <1>1, <1>2, ConversionAtTyped
<1> QED
  BY <1>1, <1>2, <1>3 DEF MmtsInv, MmtsTypes, Mmts!WindowReaches

LEMMA ReadKeeps ==
  ASSUME MmtsInv, NEW n \in TsReadSizes, Mmts!Read(n), rewind = 0 => position = 0
  PROVE  MmtsInv'
<1>1. MmtsTypes /\ n \in Nat \ {0}
  BY FileAssumption DEF MmtsInv, Mmts!MoviesAssumption
<1>2. /\ conv' \in Conversions(movie) /\ output' \in Seq(Packet)
      /\ output' = Stays \o Gained.made
      /\ Stays \in Seq(Packet) /\ Gained.made \in Seq(Packet)
      /\ Start \in 0 .. Len(output')
      /\ movie' = movie /\ sought' = sought /\ rewind' = rewind
  BY <1>1, ReadIs, SMTT(30)
<1>3. PICK count \in 0 .. Len(output') - Start :
        offset' = Start + count /\ position' = position + count
  BY <1>1, ReadIs
<1>4. /\ movie \in Movies /\ output \in Seq(Packet) /\ Len(output) \in Nat
      /\ offset \in 0 .. Len(output) /\ position \in Nat /\ offset <= position
      /\ rewind \in {0, RewindSize} /\ sought \in 0 .. Mmts!Duration(movie)
      /\ rewind \in Nat /\ (rewind = 0 => position = 0 /\ offset = 0)
      /\ position = offset \/ Len(output) >= rewind
  BY <1>1, FileAssumption DEF MmtsInv, MmtsTypes, Mmts!WindowReaches, Mmts!MoviesAssumption
<1>5. CASE Gained.made = <<>>
  <2>1. Start = offset /\ output' = output
    BY <1>2, <1>5 DEF Start, Stays
  <2>2. /\ offset' = offset + count /\ position' = position + count
        /\ count \in 0 .. Len(output) - offset /\ Len(output') = Len(output)
    BY <1>3, <2>1
  <2>3. /\ offset' \in 0 .. Len(output') /\ position' \in Nat /\ offset' <= position'
        /\ (rewind' = 0 => position' = offset')
        /\ (position' = offset' \/ Len(output') >= rewind')
    BY <2>2, <1>2, <1>4
  <2> QED
    BY <2>3, <1>2, <1>4 DEF MmtsInv, MmtsTypes, Mmts!WindowReaches
<1>6. CASE Gained.made # <<>>
  <2>1. offset = Len(output)
    BY <1>1, <1>4, <1>6, TurnsAre
  <2>2. Stays = Mmts!Trimmed(output) /\ Start = Len(Stays)
    BY <1>6 DEF Start, Stays
  <2>3. Len(Stays) = IF rewind <= Len(output) THEN rewind ELSE Len(output)
    BY <1>1, <2>2, TrimmedIs
  <2>4. Len(output') >= Len(Stays) /\ Len(output') \in Nat /\ Len(Stays) \in Nat
    BY <1>2
  <2>5. /\ offset' \in 0 .. Len(output') /\ position' \in Nat /\ offset' <= position'
        /\ (rewind' = 0 => position' = offset')
        /\ (position' = offset' \/ Len(output') >= rewind')
    BY <1>2, <1>3, <1>4, <2>1, <2>2, <2>3, <2>4, SMTT(30)
  <2> QED
    BY <2>5, <1>2, <1>4 DEF MmtsInv, MmtsTypes, Mmts!WindowReaches
<1> QED
  BY <1>5, <1>6

LEMMA SeekKeeps ==
  ASSUME MmtsInv, NEW t, Mmts!SeekToMsec(t)
  PROVE  MmtsInv'
<1>1. /\ t \in 0 .. Mmts!Duration(movie) /\ position' = 0 /\ offset' = 0
      /\ movie' = movie /\ rewind' = rewind
  BY DEF Mmts!SeekToMsec
<1>2. MmtsTypes
  BY DEF MmtsInv
<1>3. conv' \in Conversions(movie) /\ output' \in Seq(Packet) /\ sought' \in 0 .. Mmts!Duration(movie)
  <2>1. CASE Mmts!FromWindow(t)
    BY <2>1, <1>2 DEF Mmts!SeekToMsec, MmtsTypes
  <2>2. CASE ~ Mmts!FromWindow(t)
    <3>1. conv' = Mmts!ConversionAt(movie, t) /\ output' = <<>> /\ sought' = t
      BY <2>2, Zenon DEF Mmts!SeekToMsec
    <3> QED
      BY <3>1, <1>1, <1>2, ConversionAtTyped DEF MmtsTypes
  <2> QED
    BY <2>1, <2>2
<1> QED
  BY <1>1, <1>2, <1>3 DEF MmtsInv, MmtsTypes, Mmts!WindowReaches

LEMMA SetPointerKeeps ==
  ASSUME MmtsInv, NEW target \in Nat, Mmts!SetPointer(target), rewind # 0
  PROVE  MmtsInv'
<1>1. CASE /\ target # position
           /\ target \notin position - offset .. position - offset + Len(output)
  <2>1. CASE target = 0
    <3>1. Mmts!SeekToMsec(0)
      BY <1>1, <2>1, Zenon DEF Mmts!SetPointer
    <3> QED
      BY <3>1, SeekKeeps
  <2>2. CASE target # 0
    <3>1. UNCHANGED <<movie, conv, output, offset, position, sought, rewind>>
      BY <1>1, <2>2, Zenon DEF Mmts!SetPointer
    <3> QED
      BY <3>1 DEF MmtsInv, MmtsTypes, Mmts!WindowReaches
  <2> QED
    BY <2>1, <2>2
<1>2. CASE ~ (/\ target # position
              /\ target \notin position - offset .. position - offset + Len(output))
  <2>1. /\ offset' = offset + target - position /\ position' = target
        /\ UNCHANGED <<movie, conv, output, sought, rewind>>
    BY <1>2, Zenon DEF Mmts!SetPointer
  <2>2. /\ offset \in 0 .. Len(output) /\ position \in Nat /\ offset <= position
        /\ output \in Seq(Packet) /\ Len(output) \in Nat /\ rewind \in Nat
        /\ position = offset \/ Len(output) >= rewind
    BY FileAssumption DEF MmtsInv, MmtsTypes, Mmts!WindowReaches, Mmts!MoviesAssumption
  <2>3. /\ offset' \in 0 .. Len(output) /\ position' \in Nat /\ offset' <= position'
        /\ position' = offset' \/ Len(output) >= rewind
    BY <1>2, <2>1, <2>2
  <2> QED
    BY <2>1, <2>3 DEF MmtsInv, MmtsTypes, Mmts!WindowReaches
<1> QED
  BY <1>1, <1>2

LEMMA MmtsNext == MmtsInv /\ Mmts!Next => MmtsInv'
<1> SUFFICES ASSUME MmtsInv, Mmts!Next PROVE MmtsInv'
  OBVIOUS
<1>1. CASE Mmts!Probe
  BY <1>1, ReadKeeps DEF Mmts!Probe
<1>2. CASE Mmts!SetupBuffer
  <2>1. /\ rewind = 0 /\ rewind' = RewindSize
        /\ UNCHANGED <<movie, conv, output, offset, position, sought>>
    BY <1>2 DEF Mmts!SetupBuffer
  <2> QED
    BY <2>1 DEF MmtsInv, MmtsTypes, Mmts!WindowReaches
<1>3. ASSUME rewind > 0, NEW n \in TsReadSizes, Mmts!Read(n) PROVE MmtsInv'
  <2>1. rewind # 0
    BY <1>3 DEF MmtsInv, MmtsTypes
  <2> QED
    BY <2>1, <1>3, ReadKeeps
<1>4. CASE Mmts!ReadFails
  <2>1. PICK k \in 0 .. Mmts!Turns - 1 :
          /\ conv' = Mmts!Course(movie, conv)[k].c
          /\ UNCHANGED <<movie, output, offset, position, sought, rewind>>
    BY <1>4 DEF Mmts!ReadFails
  <2>2. MmtsTypes
    BY DEF MmtsInv
  <2>3. k \in 0 .. Mmts!TurnsMax(movie)
    BY <2>2, TurnsAre, TurnsMaxTyped DEF MmtsTypes
  <2>4. conv' \in Conversions(movie)
    <3>1. Mmts!Course(movie, conv) \in [0 .. Mmts!TurnsMax(movie) -> Stage(movie)]
      BY <2>2, CourseIs DEF MmtsTypes
    <3> QED
      BY <2>1, <2>3, <3>1 DEF Stage
  <2> QED
    BY <2>1, <2>4 DEF MmtsInv, MmtsTypes, Mmts!WindowReaches
<1>5. ASSUME rewind > 0, Mmts!GiveBack PROVE MmtsInv'
  <2>1. rewind \in Nat /\ position \in Nat
    BY FileAssumption DEF MmtsInv, MmtsTypes, Mmts!MoviesAssumption
  <2>2. PICK d \in 1 .. rewind : d <= position /\ Mmts!SetPointer(position - d)
    BY <1>5 DEF Mmts!GiveBack
  <2>3. position - d \in Nat /\ rewind # 0
    BY <2>1, <2>2
  <2> QED
    BY <2>2, <2>3, SetPointerKeeps
<1>6. ASSUME rewind > 0, Mmts!SetPointer(0) PROVE MmtsInv'
  <2>1. rewind # 0
    BY <1>6 DEF MmtsInv, MmtsTypes
  <2> QED
    BY <2>1, <1>6, SetPointerKeeps
<1>7. ASSUME NEW t \in MovieTimes, Mmts!SeekToMsec(t) PROVE MmtsInv'
  BY <1>7, SeekKeeps
<1> QED
  BY <1>1, <1>2, <1>3, <1>4, <1>5, <1>6, <1>7 DEF Mmts!Next
-----------------------------------------------------------------------------

\* Only a recording of this kind uses the variables of MmtsFile.
LEMMA MmtsAlways == Spec => [](kind = "mmts" => MmtsInv)
<1> DEFINE I == kind = "mmts" => MmtsInv
<1>1. Init => I
  BY MmtsInit DEF Init
<1>2. I /\ [Next]_vars => I'
  <2> SUFFICES ASSUME I, [Next]_vars, kind' = "mmts" PROVE MmtsInv'
    OBVIOUS
  <2>1. CASE Next
    <3>1. kind' = kind
      BY <2>1 DEF Next
    <3>2. MmtsInv /\ Mmts!Next
      BY <2>1, <3>1 DEF Next
    <3> QED
      BY <3>2, MmtsNext
  <2>2. CASE UNCHANGED vars
    <3>1. kind' = kind /\ UNCHANGED forMmts
      BY <2>2 DEF vars
    <3>2. UNCHANGED <<movie, conv, output, offset, position, sought, rewind>>
      BY <3>1 DEF forMmts
    <3> QED
      BY <3>1, <3>2 DEF MmtsInv, MmtsTypes, Mmts!WindowReaches
  <2> QED
    BY <2>1, <2>2
<1> QED
  BY <1>1, <1>2, PTL DEF Spec

\* The window of converted bytes always reaches back over what the read-ahead may
\* give back, or to the last seek (CReadOnlyMmtsFile::Read and SetPointer), for
\* all recordings, edit lists, chunk and window sizes.
THEOREM WindowHolds == Spec => []WindowReaches
<1>1. (kind = "mmts" => MmtsInv) => WindowReaches
  BY DEF MmtsInv, WindowReaches
<1> QED
  BY <1>1, MmtsAlways, PTL
-----------------------------------------------------------------------------
(* A recording is a file of what its conversion makes *)

(***************************************************************************)
(* The conversion is at a stage of the one that began at the last seek,    *)
(* and the window is the end of what was made by then; image is all that   *)
(* this conversion makes.                                                  *)
(***************************************************************************)
Origin == Mmts!ConversionAt(movie, sought)
AtStage(k) ==
  LET made == Mmts!Course(movie, Origin)[k].made
  IN  /\ conv = Mmts!Course(movie, Origin)[k].c
      /\ Len(made) = position - offset + Len(output)
      /\ \A i \in 1 .. Len(output) : output[i] = made[position - offset + i]
ImageInv ==
  /\ image = Mmts!Rest(movie, Origin)
  /\ \E k \in 0 .. Mmts!TurnsMax(movie) : AtStage(k)

\* What a plain file does, with the position of a recording.
ReadsOn ==
  /\ \E n \in 1 .. Len(image) :
       /\ position + n <= Len(image) /\ out' = SubSeq(image, position + 1, position + n)
       /\ position' = position + n
  /\ image' = image
ReadsNothing ==
  position >= Len(image) /\ out' = <<>> /\ image' = image /\ position' = position
Moves == position' \in Nat /\ out' = Mmts!NotRead /\ image' = image
Restarts == position' = 0 /\ out' = Mmts!NotRead
PlainStep ==
  \/ ReadsOn \/ ReadsNothing \/ Moves \/ Restarts
  \/ image' = image /\ position' = position /\ out' = out

LEMMA OriginTyped == MmtsTypes => Origin \in Conversions(movie)
  BY ConversionAtTyped DEF Origin, MmtsTypes

LEMMA ImageTyped ==
  ASSUME NEW m \in Movies, NEW c \in Conversions(m)
  PROVE  Mmts!Rest(m, c) \in Seq(Packet)
<1>1. Mmts!TurnsMax(m) \in 0 .. Mmts!TurnsMax(m)
  BY TurnsMaxTyped, SMTT(30)
<1>2. Mmts!Course(m, c)[Mmts!TurnsMax(m)] \in Stage(m)
  BY <1>1, CourseIs
<1> QED
  BY <1>2 DEF Mmts!Rest, Stage

\* The turns of a read go on from the stage the conversion is at.
LEMMA StageAfter ==
  ASSUME MmtsTypes, NEW k \in 0 .. Mmts!TurnsMax(movie),
         conv = Mmts!Course(movie, Origin)[k].c, NEW j \in 0 .. Mmts!Turns
  PROVE  LET C == Mmts!Course(movie, Origin)
             D == Mmts!Course(movie, conv)
         IN  /\ k + j \in 0 .. Mmts!TurnsMax(movie)
             /\ C[k + j].c = D[j].c /\ C[k + j].made = C[k].made \o D[j].made
<1> DEFINE N == Mmts!TurnsMax(movie)
           C == Mmts!Course(movie, Origin)
           D == Mmts!Course(movie, conv)
<1>1. /\ N \in Nat /\ k \in 0 .. N /\ Mmts!Turns \in 0 .. N /\ j \in 0 .. Mmts!Turns
      /\ movie \in Movies /\ Origin \in Conversions(movie)
  BY TurnsAre, TurnsMaxTyped, OriginTyped DEF MmtsTypes
<1>2. \A i \in 0 .. N - k : C[k + i].c = D[i].c /\ C[k + i].made = C[k].made \o D[i].made
  BY <1>1, CourseGoesOn
<1>3. C[N].c.eof
  BY <1>1, CourseEnds
<1> HIDE DEF N, C
<1>4. k + j \in 0 .. N
  <2> SUFFICES ASSUME k + j > N PROVE FALSE
    BY <1>1, SMTT(30)
  <2>1. N - k \in 0 .. N - k /\ N - k \in 0 .. Mmts!Turns - 1 /\ k + (N - k) = N
    BY <1>1
  <2>2. C[N].c = D[N - k].c
    BY <1>2, <2>1
  <2>3. ~ Mmts!Enough(D[N - k])
    BY <2>1, TurnsAre
  <2> HIDE DEF D
  <2> QED
    BY <1>3, <2>2, <2>3 DEF Mmts!Enough
<1>5. j \in 0 .. N - k
  BY <1>1, <1>4
<1> QED
  BY <1>2, <1>4, <1>5 DEF N, C

LEMMA SameRange ==
  \A a, b, n \in Nat : \A s, t \in Seq(Packet) :
    /\ a + n <= Len(s) /\ b + n <= Len(t)
    /\ \A i \in 1 .. n : s[a + i] = t[b + i]
    => SubSeq(s, a + 1, a + n) = SubSeq(t, b + 1, b + n)
<1> SUFFICES ASSUME NEW a \in Nat, NEW b \in Nat, NEW n \in Nat,
                    NEW s \in Seq(Packet), NEW t \in Seq(Packet),
                    a + n <= Len(s), b + n <= Len(t),
                    \A i \in 1 .. n : s[a + i] = t[b + i]
             PROVE  SubSeq(s, a + 1, a + n) = SubSeq(t, b + 1, b + n)
  BY SMTT(30)
<1>1. /\ SubSeq(s, a + 1, a + n) = [i \in 1 .. n |-> s[a + i]]
      /\ SubSeq(t, b + 1, b + n) = [i \in 1 .. n |-> t[b + i]]
  OBVIOUS
<1> QED
  BY <1>1

\* What a read returns is what the image has at the position.
LEMMA ReadIsPlain ==
  ASSUME MmtsTypes, ImageInv, NEW n \in TsReadSizes, Mmts!Read(n)
  PROVE  ImageInv' /\ (ReadsOn \/ ReadsNothing)
<1> DEFINE N == Mmts!TurnsMax(movie)
           C == Mmts!Course(movie, Origin)
           T == Mmts!Turns
           G == Gained.made
<1>1. PICK k \in 0 .. N : AtStage(k)
  BY DEF ImageInv
<1> DEFINE M == C[k].made
           M2 == C[k + T].made
<1>2. n \in Nat \ {0}
  BY FileAssumption DEF Mmts!MoviesAssumption
<1>3. /\ conv' = Gained.c /\ output' = Stays \o G
      /\ output' \in Seq(Packet) /\ Stays \in Seq(Packet) /\ G \in Seq(Packet)
      /\ Start \in 0 .. Len(output')
      /\ movie' = movie /\ sought' = sought /\ image' = image
  BY <1>2, ReadIs, SMTT(30)
<1>4. PICK count \in 0 .. Len(output') - Start :
        /\ offset' = Start + count /\ position' = position + count
        /\ out' = SubSeq(output', Start + 1, Start + count)
        /\ count = 0 => Start = Len(output')
  BY <1>2, ReadIs
<1>5. /\ movie \in Movies /\ Origin \in Conversions(movie) /\ output \in Seq(Packet)
      /\ Len(output) \in Nat /\ offset \in 0 .. Len(output) /\ position \in Nat
      /\ offset <= position /\ N \in Nat /\ T \in 0 .. N
  BY OriginTyped, TurnsMaxTyped, TurnsAre, SMTT(30) DEF MmtsTypes
<1>6. /\ k + T \in 0 .. N /\ C[k + T].c = Gained.c /\ M2 = M \o G
  <2>1. T \in 0 .. T /\ conv = C[k].c
    BY <1>1, <1>5 DEF AtStage
  <2> QED
    BY <2>1, StageAfter DEF Gained
<1>7. /\ Len(M) = position - offset + Len(output)
      /\ \A i \in 1 .. Len(output) : output[i] = M[position - offset + i]
  BY <1>1 DEF AtStage
<1>8. M \in Seq(Packet) /\ M2 \in Seq(Packet)
  <2>1. C[k] \in Stage(movie) /\ C[k + T] \in Stage(movie)
    BY <1>5, <1>6, CourseIs
  <2> QED
    BY <2>1 DEF Stage
<1>9. StartsWith(image, M2) /\ image \in Seq(Packet) /\ image = Mmts!Rest(movie, Origin)
  BY <1>5, <1>6, CourseGrows, ImageTyped DEF ImageInv
<1> HIDE DEF N, C, T, G, M, M2
\* The new window is the end of what is made by now.
<1>10. /\ Start <= position /\ Len(M2) = position - Start + Len(output')
       /\ \A i \in 1 .. Len(output') : output'[i] = M2[position - Start + i]
  <2>1. CASE G = <<>>
    <3>1. Start = offset /\ output' = output
      BY <1>3, <1>5, <2>1 DEF Start, Stays, G
    <3>2. M2 = M
      BY <1>6, <1>8, <2>1
    <3> QED
      BY <3>1, <3>2, <1>5, <1>7
  <2>2. CASE G # <<>>
    <3>1. offset = Len(output)
      BY <1>5, <2>2, TurnsAre DEF G
    <3>2. Stays = Mmts!Trimmed(output) /\ Start = Len(Stays)
      BY <2>2 DEF Start, Stays, G
    <3>3. /\ Len(Stays) <= Len(output)
          /\ \A i \in 1 .. Len(Stays) : Stays[i] = output[Len(output) - Len(Stays) + i]
      BY <3>2, <1>5, TrimmedIs
    <3>4. Len(M) = position /\ Len(M2) = position + Len(G) /\ Len(output') = Start + Len(G)
      <4>1. Len(M) = position
        BY <3>1, <1>5, <1>7
      <4>2. Len(M \o G) = Len(M) + Len(G) /\ Len(Stays \o G) = Len(Stays) + Len(G)
        BY <1>3, <1>8
      <4> QED
        BY <4>1, <4>2, <3>2, <1>3, <1>6
    <3>5. Start \in Nat /\ Len(G) \in Nat /\ Start <= position
      BY <3>1, <3>2, <3>3, <1>3, <1>5
    <3>6. ASSUME NEW i \in 1 .. Start PROVE output'[i] = M2[position - Start + i]
      <4>1. output'[i] = Stays[i]
        BY <3>2, <1>3
      <4>2. /\ Len(output) - Start + i \in 1 .. Len(output)
            /\ position - offset + (Len(output) - Start + i) = position - Start + i
            /\ position - Start + i \in 1 .. Len(M)
        BY <3>1, <3>2, <3>3, <3>4, <3>5, <1>5
      <4>3. Stays[i] = output[Len(output) - Start + i]
        BY <3>2, <3>3
      <4>4. output[Len(output) - Start + i] = M[position - Start + i]
        BY <4>2, <1>7
      <4>5. M2[position - Start + i] = M[position - Start + i]
        BY <4>2, <1>3, <1>6, <1>8
      <4> QED
        BY <4>1, <4>3, <4>4, <4>5
    <3>7. ASSUME NEW i \in Start + 1 .. Start + Len(G) PROVE output'[i] = M2[position - Start + i]
      <4>1. i - Start \in 1 .. Len(G) /\ position - Start + i = position + (i - Start)
        BY <3>5, <1>5
      <4>2. output'[i] = G[i - Start]
        BY <4>1, <3>2, <3>5, <1>3
      <4>3. M2[position + (i - Start)] = G[i - Start]
        BY <4>1, <3>4, <1>3, <1>5, <1>6, <1>8, SMTT(30)
      <4> QED
        BY <4>1, <4>2, <4>3
    <3> QED
      BY <3>4, <3>5, <3>6, <3>7, SMTT(30)
  <2> QED
    BY <2>1, <2>2
<1>11. ImageInv'
  <2>1. /\ position' - offset' = position - Start /\ movie' = movie /\ Origin' = Origin
        /\ conv' = C[k + T].c /\ image' = image
    BY <1>3, <1>4, <1>5, <1>6 DEF Origin
  <2>2. PICK r \in 0 .. N : r = k + T
    BY <1>6
  <2>3. AtStage(r)'
    <3>1. Mmts!Course(movie', Origin') = C
      BY <2>1, Zenon DEF C
    <3>2. Len(M2) = (position' - offset') + Len(output')
      BY <2>1, <1>10, Zenon
    <3>3. \A i \in 1 .. Len(output') : output'[i] = M2[(position' - offset') + i]
      BY <2>1, <1>10, Zenon
    <3> QED
      BY <2>1, <2>2, <3>1, <3>2, <3>3, Zenon DEF AtStage, M2
  <2>4. r \in 0 .. Mmts!TurnsMax(movie')
    BY <2>1 DEF N
  <2>5. image' = Mmts!Rest(movie', Origin')
    BY <2>1, <1>9
  <2> QED
    BY <2>3, <2>4, <2>5, Zenon DEF ImageInv
<1>12. CASE count # 0
  <2>1. /\ count \in Nat \ {0} /\ Start \in Nat /\ Start + count <= Len(output')
        /\ position + count <= Len(M2) /\ Len(M2) <= Len(image)
    BY <1>3, <1>4, <1>5, <1>9, <1>10, <1>12 DEF StartsWith
  <2>2. ASSUME NEW i \in 1 .. count PROVE output'[Start + i] = image[position + i]
    <3>1. /\ Start + i \in 1 .. Len(output') /\ position - Start + (Start + i) = position + i
          /\ position + i \in 1 .. Len(M2)
      BY <2>1, <1>5
    <3>2. output'[Start + i] = M2[position + i]
      BY <3>1, <1>10
    <3> QED
      BY <3>1, <3>2, <1>9 DEF StartsWith
  <2>3. SubSeq(output', Start + 1, Start + count) = SubSeq(image, position + 1, position + count)
    <3>1. position + count <= Len(image) /\ count \in Nat /\ Len(image) \in Nat
      BY <2>1, <1>5, <1>8, <1>9
    <3>2. /\ output' \in Seq(Packet) /\ image \in Seq(Packet) /\ Start \in Nat
          /\ position \in Nat /\ Start + count <= Len(output')
      BY <2>1, <1>3, <1>5, <1>9
    <3>3. PICK a \in Nat, b \in Nat, c \in Nat : a = Start /\ b = position /\ c = count
      BY <3>1, <3>2
    <3>4. PICK s \in Seq(Packet), t \in Seq(Packet) : s = output' /\ t = image
      BY <3>2
    <3>5. a + c <= Len(s) /\ b + c <= Len(t) /\ \A i \in 1 .. c : s[a + i] = t[b + i]
      BY <2>2, <3>1, <3>2, <3>3, <3>4
    <3>6. SubSeq(s, a + 1, a + c) = SubSeq(t, b + 1, b + c)
      <4> DEFINE same(x, i, y, j, d) == SubSeq(x, i + 1, i + d) = SubSeq(y, j + 1, j + d)
      <4>1. \A i, j, d \in Nat : \A x, y \in Seq(Packet) :
              /\ i + d <= Len(x) /\ j + d <= Len(y)
              /\ \A q \in 1 .. d : x[i + q] = y[j + q]
              => same(x, i, y, j, d)
        BY SameRange
      <4> HIDE DEF same
      <4>2. same(s, a, t, b, c)
        BY <3>5, <4>1, Zenon
      <4> QED
        BY <4>2 DEF same
    <3> QED
      BY <3>3, <3>4, <3>6, Zenon
  <2>4. count \in 1 .. Len(image) /\ position + count <= Len(image)
    BY <2>1, <1>5, <1>8, <1>9
  <2>5. ReadsOn
    BY <2>3, <2>4, <1>3, <1>4 DEF ReadsOn
  <2> QED
    BY <2>5, <1>11
<1>13. CASE count = 0
  <2>1. /\ Start = Len(output') /\ position' = position
        /\ out' = <<>>
    BY <1>3, <1>4, <1>5, <1>13
  <2>2. G = <<>>
    <3> SUFFICES ASSUME G # <<>> PROVE FALSE
      OBVIOUS
    <3>1. Start = Len(Stays)
      BY DEF Start, G
    <3>2. Len(Stays \o G) = Len(Stays) + Len(G) /\ Len(Stays) \in Nat /\ Len(G) \in Nat \ {0}
      BY <1>3
    <3> QED
      BY <3>1, <3>2, <2>1, <1>3
  <2>3. ~ (offset < Len(output))
    BY <2>1, <2>2, <1>3, <1>5 DEF Start, Stays, G
  <2>4. Gained.c.eof
    <3>1. offset >= Len(output)
      BY <2>3, <1>5
    <3> QED
      BY <2>2, <3>1, TurnsAre DEF Mmts!Enough, G
  <2>5. image = M2
    <3>1. C[k + T].c.eof
      BY <2>4, <1>6
    <3>2. N \in k + T .. N
      BY <1>5, <1>6
    <3>3. C[N] = C[k + T]
      BY <3>1, <3>2, <1>5, <1>6, CourseStays DEF C, N
    <3> QED
      BY <3>3, <1>9 DEF Mmts!Rest, C, N, M2
  <2>6. position >= Len(image)
    <3>1. Len(M2) = position - Start + Start
      BY <2>1, <1>10, Zenon
    <3>2. Start \in Nat
      BY <1>3
    <3>3. Len(M2) = position
      BY <3>1, <3>2, <1>5
    <3> QED
      BY <3>3, <2>5, <1>5
  <2>7. ReadsNothing
    BY <2>1, <2>6, <1>3 DEF ReadsNothing
  <2> QED
    BY <2>7, <1>11
<1> QED
  BY <1>12, <1>13
\* At the last seek the conversion begins, and nothing of it is read yet.
LEMMA ImageAtSeek ==
  ASSUME MmtsTypes, conv = Origin, output = <<>>, offset = 0, position = 0,
         image = Mmts!Rest(movie, conv)
  PROVE  ImageInv
<1>1. /\ Mmts!Course(movie, Origin)[0] = [c |-> conv, made |-> <<>>]
      /\ 0 \in 0 .. Mmts!TurnsMax(movie)
  BY OriginTyped, CourseIs, TurnsMaxTyped DEF MmtsTypes
<1>2. AtStage(0)
  BY <1>1 DEF AtStage
<1> QED
  BY <1>1, <1>2 DEF ImageInv

\* The window stays where it is in what was made.
LEMMA ImageStays ==
  ASSUME ImageInv, position' - offset' = position - offset,
         UNCHANGED <<movie, conv, output, sought, image>>
  PROVE  ImageInv'
<1>1. PICK k \in 0 .. Mmts!TurnsMax(movie) : AtStage(k)
  BY DEF ImageInv
<1>2. /\ movie' = movie /\ conv' = conv /\ output' = output /\ sought' = sought
      /\ image' = image /\ Origin' = Origin
  BY DEF Origin
<1>3. AtStage(k)'
  BY <1>1, <1>2 DEF AtStage
<1> QED
  BY <1>1, <1>2, <1>3 DEF ImageInv

LEMMA SeekIsPlain ==
  ASSUME MmtsInv, ImageInv, NEW t, Mmts!SeekToMsec(t)
  PROVE  ImageInv' /\ Restarts
<1>1. /\ position' = 0 /\ offset' = 0 /\ out' = Mmts!NotRead /\ movie' = movie
  BY DEF Mmts!SeekToMsec
<1>2. MmtsTypes'
  BY SeekKeeps DEF MmtsInv
<1>3. CASE Mmts!FromWindow(t)
  <2>1. /\ UNCHANGED <<movie, conv, output, sought, image>>
        /\ position = offset /\ position \in Nat
    BY <1>3 DEF Mmts!SeekToMsec, Mmts!FromWindow, MmtsInv, MmtsTypes
  <2>2. position' - offset' = position - offset
    BY <2>1, <1>1
  <2> QED
    BY <2>1, <2>2, <1>1, ImageStays DEF Restarts
<1>4. CASE ~ Mmts!FromWindow(t)
  <2>1. /\ conv' = Mmts!ConversionAt(movie, t) /\ output' = <<>> /\ sought' = t
        /\ image' = Mmts!Rest(movie, conv')
    BY <1>4, Zenon DEF Mmts!SeekToMsec
  <2>2. conv' = Origin'
    BY <2>1, <1>1 DEF Origin
  <2>3. /\ Mmts!Course(movie', Origin')[0] = [c |-> conv', made |-> <<>>]
        /\ 0 \in 0 .. Mmts!TurnsMax(movie')
    <3>1. movie' \in Movies /\ conv' \in Conversions(movie')
      BY <1>2 DEF MmtsTypes
    <3>2. Origin' \in Conversions(movie')
      BY <3>1, <2>2
    <3> QED
      BY <3>1, <3>2, <2>2, CourseIs, TurnsMaxTyped
  <2>4. AtStage(0)'
    BY <2>1, <2>3, <1>1 DEF AtStage
  <2>5. image' = Mmts!Rest(movie', Origin')
    BY <2>1, <2>2, <1>1
  <2> QED
    BY <2>3, <2>4, <2>5, <1>1 DEF ImageInv, Restarts
<1> QED
  BY <1>3, <1>4

LEMMA SetPointerIsPlain ==
  ASSUME MmtsInv, ImageInv, NEW target \in Nat, Mmts!SetPointer(target)
  PROVE  ImageInv' /\ (Moves \/ Restarts)
<1> DEFINE Outside == /\ target # position
                      /\ target \notin position - offset .. position - offset + Len(output)
<1>1. position \in Nat /\ offset \in Nat
  BY DEF MmtsInv, MmtsTypes
<1>2. CASE Outside /\ target = 0
  <2>1. Mmts!SeekToMsec(0)
    BY <1>2, Zenon DEF Mmts!SetPointer
  <2> QED
    BY <2>1, SeekIsPlain
<1>3. CASE Outside /\ target # 0
  <2>1. /\ UNCHANGED <<movie, conv, output, offset, position, sought, image>>
        /\ out' = Mmts!NotRead
    BY <1>3, Zenon DEF Mmts!SetPointer
  <2> QED
    BY <2>1, <1>1, ImageStays DEF Moves
<1>4. CASE ~ Outside
  <2>1. /\ offset' = offset + target - position /\ position' = target /\ out' = Mmts!NotRead
        /\ UNCHANGED <<movie, conv, output, sought, image>>
    BY <1>4, Zenon DEF Mmts!SetPointer
  <2>2. position' - offset' = position - offset
    BY <2>1, <1>1
  <2> QED
    BY <2>1, <2>2, ImageStays DEF Moves
<1> QED
  BY <1>2, <1>3, <1>4

LEMMA FailIsPlain ==
  ASSUME MmtsInv, ImageInv, Mmts!ReadFails
  PROVE  ImageInv' /\ Moves
<1>1. PICK j \in 0 .. Mmts!Turns - 1 :
        /\ conv' = Mmts!Course(movie, conv)[j].c /\ out' = Mmts!NotRead
        /\ UNCHANGED <<movie, output, offset, position, sought, rewind, image>>
  BY DEF Mmts!ReadFails
<1>2. PICK k \in 0 .. Mmts!TurnsMax(movie) : AtStage(k)
  BY DEF ImageInv
<1> DEFINE C == Mmts!Course(movie, Origin)
           D == Mmts!Course(movie, conv)
<1>3. /\ MmtsTypes /\ Mmts!Turns \in Nat /\ conv = C[k].c /\ position \in Nat
      /\ movie \in Movies /\ Origin \in Conversions(movie)
  BY <1>2, OriginTyped, TurnsAre, TurnsMaxTyped, SMTT(30) DEF MmtsInv, MmtsTypes, AtStage
<1>4. j \in 0 .. Mmts!Turns
  BY <1>3
<1>5. /\ k + j \in 0 .. Mmts!TurnsMax(movie)
      /\ C[k + j].c = D[j].c /\ C[k + j].made = C[k].made \o D[j].made
  BY <1>3, <1>4, StageAfter
<1>6. D[j].made = <<>>
  BY <1>3, TurnsAre DEF Mmts!Enough
<1>7. C[k].made \in Seq(Packet)
  <2>1. C[k] \in Stage(movie)
    BY <1>3, CourseIs
  <2> QED
    BY <2>1 DEF Stage
<1> HIDE DEF C, D
<1>8. PICK r \in 0 .. Mmts!TurnsMax(movie) : r = k + j /\ C[r].made = C[k].made /\ C[r].c = conv'
  BY <1>1, <1>5, <1>6, <1>7 DEF D
<1>9. /\ movie' = movie /\ output' = output /\ offset' = offset /\ position' = position
      /\ image' = image /\ Origin' = Origin
  BY <1>1 DEF Origin
<1>10. AtStage(r)'
  <2>1. Mmts!Course(movie', Origin') = C
    BY <1>9, Zenon DEF C
  <2> QED
    BY <2>1, <1>2, <1>8, <1>9 DEF AtStage, C
<1>11. ImageInv'
  BY <1>8, <1>9, <1>10 DEF ImageInv
<1> QED
  BY <1>1, <1>3, <1>11 DEF Moves

LEMMA NextIsPlain ==
  ASSUME MmtsInv, ImageInv, Mmts!Next
  PROVE  ImageInv' /\ PlainStep
<1>0. MmtsTypes
  BY DEF MmtsInv
<1>1. CASE Mmts!Probe
  BY <1>0, <1>1, ReadIsPlain DEF Mmts!Probe, PlainStep
<1>2. CASE Mmts!SetupBuffer
  <2>1. UNCHANGED <<movie, conv, output, offset, position, sought, out, image>>
    BY <1>2 DEF Mmts!SetupBuffer
  <2> QED
    BY <2>1, ImageStays DEF PlainStep
<1>3. ASSUME NEW n \in TsReadSizes, Mmts!Read(n) PROVE ImageInv' /\ PlainStep
  BY <1>0, <1>3, ReadIsPlain DEF PlainStep
<1>4. CASE Mmts!ReadFails
  BY <1>4, FailIsPlain DEF PlainStep
<1>5. CASE Mmts!GiveBack
  <2>1. position \in Nat
    BY DEF MmtsInv, MmtsTypes
  <2>2. PICK d \in 1 .. rewind : d <= position /\ Mmts!SetPointer(position - d)
    BY <1>5 DEF Mmts!GiveBack
  <2>3. position - d \in Nat
    BY <2>1, <2>2 DEF MmtsInv, MmtsTypes
  <2> QED
    BY <2>2, <2>3, SetPointerIsPlain DEF PlainStep
<1>6. CASE Mmts!SetPointer(0)
  BY <1>6, SetPointerIsPlain DEF PlainStep
<1>7. ASSUME NEW t \in MovieTimes, Mmts!SeekToMsec(t) PROVE ImageInv' /\ PlainStep
  BY <1>7, SeekIsPlain DEF PlainStep
<1> QED
  BY <1>1, <1>2, <1>3, <1>4, <1>5, <1>6, <1>7 DEF Mmts!Next
\* IReadOnlyFile's promise for MMT/TLV recordings: each read returns what follows
\* the position in what is converted from the last seek on, whatever was read,
\* sought, given back, joined or failed before, and nothing only at the end.
THEOREM RecordingIsPlainFile == kind = "mmts" /\ Spec => IsPlainFile
<1> DEFINE I == kind = "mmts" /\ MmtsInv /\ ImageInv
           p == CASE kind = "mp4" -> Mp4!Pos [] kind = "mmts" -> position [] OTHER -> 0
<1>1. kind = "mmts" => p = position
  OBVIOUS
<1>2. kind' = "mmts" => p' = position'
  OBVIOUS
<1>3. kind = "mmts" /\ Init => I /\ p = 0 /\ out = <<>>
  <2> SUFFICES ASSUME kind = "mmts", Init PROVE I /\ p = 0 /\ out = <<>>
    OBVIOUS
  <2>1. Mmts!Init
    BY DEF Init
  <2>2. /\ MmtsInv /\ conv = Origin /\ output = <<>> /\ offset = 0 /\ position = 0
        /\ image = Mmts!Rest(movie, conv) /\ out = <<>>
    BY <2>1, MmtsInit DEF Mmts!Init, Origin
  <2>3. ImageInv
    BY <2>2, ImageAtSeek DEF MmtsInv
  <2> QED
    BY <2>2, <2>3, <1>1
<1>4. I /\ [Next]_vars => I' /\ [Plain!Next]_Plain!pvars
  <2> SUFFICES ASSUME I, [Next]_vars PROVE I' /\ [Plain!Next]_Plain!pvars
    OBVIOUS
  <2>1. I' /\ PlainStep
    <3>1. CASE Next
      <4>1. kind' = kind /\ Mmts!Next
        BY <3>1 DEF Next
      <4> QED
        BY <4>1, MmtsNext, NextIsPlain
    <3>2. CASE UNCHANGED vars
      <4>1. /\ kind' = kind /\ out' = out
            /\ UNCHANGED <<movie, conv, output, offset, position, sought, rewind, image>>
        BY <3>2 DEF vars, forMmts, read
      <4>2. MmtsInv' /\ ImageInv'
        BY <4>1, ImageStays DEF MmtsInv, MmtsTypes, Mmts!WindowReaches
      <4> QED
        BY <4>1, <4>2 DEF PlainStep
    <3> QED
      BY <3>1, <3>2
  <2>2. p = position /\ p' = position'
    BY <2>1, <1>1, <1>2
  <2> HIDE DEF p
  <2>3. CASE ReadsOn
    <3>1. Plain!Read
      BY <2>2, <2>3, Zenon DEF ReadsOn, Plain!Read, p
    <3> QED
      BY <2>1, <3>1 DEF Plain!Next
  <2>4. CASE ReadsNothing
    <3>1. Plain!ReadNothing
      BY <2>2, <2>4, Zenon DEF ReadsNothing, Plain!ReadNothing, p
    <3> QED
      BY <2>1, <3>1 DEF Plain!Next
  <2>5. CASE Moves
    <3>1. Plain!Move
      BY <2>2, <2>5, Zenon DEF Moves, Plain!Move, p, Plain!NotRead, Mmts!NotRead
    <3> QED
      BY <2>1, <3>1 DEF Plain!Next
  <2>6. CASE Restarts
    <3>1. Plain!Restart
      BY <2>2, <2>6, Zenon DEF Restarts, Plain!Restart, p, Plain!NotRead, Mmts!NotRead
    <3> QED
      BY <2>1, <3>1 DEF Plain!Next
  <2>7. CASE image' = image /\ position' = position /\ out' = out
    <3>1. UNCHANGED Plain!pvars
      BY <2>2, <2>7, Zenon DEF Plain!pvars, p
    <3> QED
      BY <2>1, <3>1
  <2> QED
    BY <2>1, <2>3, <2>4, <2>5, <2>6, <2>7 DEF PlainStep
<1>5. (p = 0 /\ out = <<>> /\ [][Plain!Next]_Plain!pvars) => IsPlainFile
  BY DEF IsPlainFile, Plain!Spec
<1> QED
  BY <1>3, <1>4, <1>5, PTL DEF Spec
-----------------------------------------------------------------------------
(* A recording is cut as its edit list says *)

(***************************************************************************)
(* While segment s is converted and the input is at p: all that was made   *)
(* is whole, in its range and in order; the access unit that each stream's *)
(* gate is open for is whole so far; the video of the segment is there up  *)
(* to p, and the segment is complete only if some is past its end.         *)
(***************************************************************************)
Reached(list, s, i, st) ==
  /\ Mmts!Begun(st, i) # {}
  /\ \A j \in Mmts!Begun(st, i) :
       /\ ~ movie.frags[j].lost
       /\ movie.frags[j].packs > 0 => j \in Mmts!Made(list, s)

CutSoFar(list, s, p) ==
  /\ list \in Seq(Packet)
  /\ \A k \in 1 .. Len(list) :
       /\ list[k].segment \in 1 .. s
       /\ list[k].segment = s => list[k].frag <= p
       /\ Mmts!InRange(list[k]) /\ Mmts!Whole(list, list[k])
       /\ k > 1 => Mmts!Before(list[k - 1], list[k])

GateRight(list, s, p, gate) ==
  \A st \in Mmts!Streams(movie) : gate[st] = "in" => Reached(list, s, p, st)

PastEnd(s, j) == movie.frags[j].stream = Mmts!Video /\ movie.frags[j].pts >= Mmts!Till(movie, s)

Within(s, i) ==
  /\ movie.frags[i].stream = Mmts!Video /\ ~ movie.frags[i].lost /\ movie.frags[i].packs > 0
  /\ movie.frags[i].pts >= Mmts!From(movie, s) /\ movie.frags[i].pts < Mmts!Till(movie, s)

Covered(list, s, p, complete) ==
  /\ Mmts!BeginOf(s) <= p
  /\ complete => \E j \in Mmts!BeginOf(s) + 1 .. p : PastEnd(s, j)
  /\ \A i \in Mmts!BeginOf(s) + 1 .. p : Within(s, i) => i \in Mmts!Made(list, s)

Done(list, s) ==
  sought < Mmts!EndOf(s) =>
    \A i \in Mmts!BeginOf(s) + 1 .. Len(movie.frags) :
      Mmts!Belongs(s, i) => i \in Mmts!Made(list, s)

\* What the next fragment of its stream does to an access unit.
LEMMA BegunNext ==
  ASSUME MmtsTypes, NEW p \in 0 .. Len(movie.frags) - 1, NEW st
  PROVE  LET f == movie.frags[p + 1]
         IN  /\ f.stream # st => Mmts!Begun(st, p + 1) = Mmts!Begun(st, p)
             /\ f.stream = st /\ f.first => Mmts!Begun(st, p + 1) = {p + 1}
             /\ f.stream = st /\ ~ f.first =>
                  /\ Mmts!Begun(st, p + 1) \subseteq Mmts!Begun(st, p) \cup {p + 1}
                  /\ Mmts!Begun(st, p) # {} => Mmts!Begun(st, p + 1) # {}
<1> DEFINE f == movie.frags[p + 1]
           Firsts(i) == {j \in 1 .. i : movie.frags[j].stream = st /\ movie.frags[j].first}
<1>1. Len(movie.frags) \in Nat /\ p \in Nat
  BY MovieParts DEF MmtsTypes
<1>2. \A i : Mmts!Begun(st, i)
               = {j \in 1 .. i : /\ movie.frags[j].stream = st /\ Firsts(i) # {}
                                 /\ \A g \in Firsts(i) : g <= j}
  BY Zenon DEF Mmts!Begun
<1>3. CASE f.stream # st
  <2>1. Firsts(p + 1) = Firsts(p)
    BY <1>1, <1>3
  <2> HIDE DEF Firsts
  <2>2. ASSUME NEW j PROVE j \in Mmts!Begun(st, p + 1) <=> j \in Mmts!Begun(st, p)
    <3>1. j \in 1 .. p + 1 /\ movie.frags[j].stream = st
            <=> j \in 1 .. p /\ movie.frags[j].stream = st
      BY <1>1, <1>3
    <3> QED
      BY <1>2, <2>1, <3>1
  <2>3. Mmts!Begun(st, p + 1) = Mmts!Begun(st, p)
    <3>1. \A i : Mmts!Begun(st, i) \subseteq 1 .. i
      BY <1>2
    <3> QED
      BY <2>2
  <2> QED
    BY <1>3, <2>3
<1>4. CASE f.stream = st /\ f.first
  <2>1. p + 1 \in Firsts(p + 1) /\ \A g \in Firsts(p + 1) : g <= p + 1
    BY <1>1, <1>4
  <2> QED
    BY <1>1, <1>2, <1>4, <2>1
<1>5. CASE f.stream = st /\ ~ f.first
  <2>1. Firsts(p + 1) = Firsts(p) /\ \A g \in Firsts(p) : g <= p + 1
    BY <1>1, <1>5
  <2>2. Mmts!Begun(st, p + 1) \subseteq Mmts!Begun(st, p) \cup {p + 1}
    BY <1>1, <1>2, <2>1, SMTT(30)
  <2>3. ASSUME Mmts!Begun(st, p) # {} PROVE Mmts!Begun(st, p + 1) # {}
    <3>1. Firsts(p) # {}
      BY <1>2, <2>3
    <3>2. p + 1 \in Mmts!Begun(st, p + 1)
      BY <1>1, <1>2, <1>5, <2>1, <3>1
    <3> QED
      BY <3>2
  <2> HIDE DEF f
  <2>4. f.stream = st /\ ~ f.first
    BY <1>5
  <2> QED
    BY <2>2, <2>3, <2>4, Zenon DEF f
<1> QED
  BY <1>3, <1>4, <1>5

LEMMA MadeGrows ==
  ASSUME NEW list \in Seq(Packet), NEW more \in Seq(Packet), NEW s
  PROVE  Mmts!Made(list, s) \subseteq Mmts!Made(list \o more, s)
<1> SUFFICES ASSUME NEW j \in Mmts!Made(list, s) PROVE j \in Mmts!Made(list \o more, s)
  OBVIOUS
<1>1. PICK k \in 1 .. Len(list) : list[k].segment = s /\ j = list[k].frag
  BY DEF Mmts!Made
<1>2. k \in 1 .. Len(list \o more) /\ (list \o more)[k] = list[k]
  OBVIOUS
<1> QED
  BY <1>1, <1>2 DEF Mmts!Made

LEMMA ReachedGrows ==
  ASSUME NEW list \in Seq(Packet), NEW more \in Seq(Packet), NEW s, NEW i, NEW st,
         Reached(list, s, i, st)
  PROVE  Reached(list \o more, s, i, st)
BY MadeGrows DEF Reached

LEMMA WholeIs ==
  \A list, x : Mmts!Whole(list, x) <=> Reached(list, x.segment, x.frag, movie.frags[x.frag].stream)
BY DEF Mmts!Whole, Reached

\* The packets of a fragment, in a segment.
LEMMA PacketsAre ==
  ASSUME MmtsTypes, NEW s \in 1 .. Len(movie.segments), NEW i \in 1 .. Len(movie.frags)
  PROVE  LET f == movie.frags[i]
             w == Mmts!Packets(movie, s, i)
         IN  /\ w \in Seq(Packet) /\ Len(w) = f.packs
             /\ \A k \in 1 .. Len(w) :
                  w[k] = [segment |-> s, frag |-> i, part |-> k,
                          at |-> IF f.pts < 0 THEN -1 ELSE f.pts - Mmts!Shift(movie, s)]
<1> DEFINE f == movie.frags[i]
<1>1. Len(movie.segments) \in Nat /\ f.packs \in Nat /\ s # 0 /\ movie \in Movies
  BY MovieParts, SMTT(30) DEF MmtsTypes, Mmts!Fragment
<1>2. Mmts!Packets(movie, s, i)
        = [k \in 1 .. f.packs |->
             [segment |-> s, frag |-> i, part |-> k,
              at |-> IF f.pts < 0 THEN -1 ELSE f.pts - Mmts!Shift(movie, s)]]
  BY <1>1 DEF Mmts!Packets, Mmts!NoSegment
<1>3. Mmts!Packets(movie, s, i) \in Seq(Packet)
  <2>1. s \in 0 .. Len(movie.segments)
    BY <1>1
  <2> QED
    BY <1>1, <2>1, PacketsTyped
<1> HIDE DEF f
<1>4. Len(Mmts!Packets(movie, s, i)) = f.packs
  BY <1>1, <1>2, <1>3
<1> QED
  BY <1>2, <1>3, <1>4 DEF f

LEMMA LastIsMade ==
  ASSUME MmtsTypes, NEW s \in 1 .. Len(movie.segments), NEW i \in 1 .. Len(movie.frags),
         NEW list \in Seq(Packet), movie.frags[i].packs > 0
  PROVE  i \in Mmts!Made(list \o Mmts!Packets(movie, s, i), s)
<1> DEFINE f == movie.frags[i]
           w == Mmts!Packets(movie, s, i)
           new == list \o w
<1>1. /\ w \in Seq(Packet) /\ Len(w) = f.packs
      /\ \A k \in 1 .. Len(w) :
           w[k] = [segment |-> s, frag |-> i, part |-> k,
                   at |-> IF f.pts < 0 THEN -1 ELSE f.pts - Mmts!Shift(movie, s)]
  BY PacketsAre
<1>2. f.packs > 0 /\ f.packs \in Nat
  BY MovieParts DEF MmtsTypes, Mmts!Fragment
<1> HIDE DEF f, w
<1>3. 1 \in 1 .. Len(w) /\ w[1].segment = s /\ w[1].frag = i
  <2>1. w[1] = [segment |-> s, frag |-> i, part |-> 1,
                at |-> IF f.pts < 0 THEN -1 ELSE f.pts - Mmts!Shift(movie, s)]
    BY <1>1, <1>2
  <2> QED
    BY <1>1, <1>2, <2>1
<1>4. Len(list) + 1 \in 1 .. Len(new) /\ new[Len(list) + 1] = w[1]
  BY <1>1, <1>3
<1> HIDE DEF new
<1>5. i \in Mmts!Made(new, s)
  BY <1>3, <1>4 DEF Mmts!Made
<1> QED
  BY <1>5 DEF new, w

\* The access unit of a fragment that the gate lets through is whole up to it.
LEMMA LetThrough ==
  ASSUME MmtsTypes, NEW s \in 1 .. Len(movie.segments), NEW p \in 0 .. Len(movie.frags) - 1,
         NEW list \in Seq(Packet), NEW gate \in Gates(movie), GateRight(list, s, p, gate),
         ~ movie.frags[p + 1].lost,
         Mmts!Decision(movie, s, gate, movie.frags[p + 1]) = "in"
  PROVE  Reached(list \o Mmts!Packets(movie, s, p + 1), s, p + 1, movie.frags[p + 1].stream)
<1> DEFINE f == movie.frags[p + 1]
           st == f.stream
           w == Mmts!Packets(movie, s, p + 1)
           new == list \o w
<1>1. /\ p + 1 \in 1 .. Len(movie.frags) /\ p \in Nat /\ movie \in Movies
      /\ f \in Mmts!Fragment /\ st \in Mmts!Streams(movie)
      /\ f.pts >= 0 => f.first
  <2>1. p + 1 \in 1 .. Len(movie.frags) /\ p \in Nat /\ movie \in Movies
    BY MovieParts DEF MmtsTypes
  <2> QED
    BY <2>1, MovieParts, FileAssumption DEF Mmts!MoviesAssumption, Mmts!Streams
<1>2. w \in Seq(Packet)
  BY <1>1, PacketsAre
<1>3. f.packs > 0 => p + 1 \in Mmts!Made(new, s)
  BY <1>1, LastIsMade
<1>4. \A j \in Mmts!Made(list, s) : j \in Mmts!Made(new, s)
  BY <1>2, MadeGrows
<1>5. /\ f.first => Mmts!Begun(st, p + 1) = {p + 1}
      /\ ~ f.first =>
           /\ Mmts!Begun(st, p + 1) \subseteq Mmts!Begun(st, p) \cup {p + 1}
           /\ Mmts!Begun(st, p) # {} => Mmts!Begun(st, p + 1) # {}
  BY BegunNext
<1>6. CASE f.first
  BY <1>3, <1>5, <1>6 DEF Reached
<1>7. CASE ~ f.first
  <2>1. f.pts < 0
    BY <1>1, <1>7 DEF Mmts!Fragment
  <2>2. gate[st] = "in"
    BY <1>7, <2>1 DEF Mmts!Decision
  <2>3. Reached(list, s, p, st)
    BY <1>1, <2>2 DEF GateRight
  <2> HIDE DEF f, w, new
  <2>4. \A j \in Mmts!Begun(st, p) :
          ~ movie.frags[j].lost /\ (movie.frags[j].packs > 0 => j \in Mmts!Made(new, s))
    BY <1>4, <2>3 DEF Reached
  <2>5. ~ movie.frags[p + 1].lost /\ (movie.frags[p + 1].packs > 0 => p + 1 \in Mmts!Made(new, s))
    BY <1>3 DEF f
  <2>6. Reached(new, s, p + 1, st)
    BY <1>5, <1>7, <2>3, <2>4, <2>5 DEF Reached
  <2> QED
    BY <2>6 DEF f, w, new
<1> QED
  BY <1>6, <1>7

\* Its packets follow those there are.
LEMMA CutGoesOn ==
  ASSUME MmtsTypes, NEW s \in 1 .. Len(movie.segments), NEW p \in 0 .. Len(movie.frags) - 1,
         NEW list, CutSoFar(list, s, p),
         movie.frags[p + 1].pts >= 0 => /\ movie.frags[p + 1].pts >= Mmts!From(movie, s)
                                        /\ movie.frags[p + 1].pts < Mmts!Till(movie, s),
         Reached(list \o Mmts!Packets(movie, s, p + 1), s, p + 1, movie.frags[p + 1].stream)
  PROVE  CutSoFar(list \o Mmts!Packets(movie, s, p + 1), s, p + 1)
<1> DEFINE f == movie.frags[p + 1]
           w == Mmts!Packets(movie, s, p + 1)
           new == list \o w
           S == movie.segments[s]
<1>1. /\ p + 1 \in 1 .. Len(movie.frags) /\ p \in Nat /\ movie \in Movies
      /\ list \in Seq(Packet) /\ s \in Nat
  BY MovieParts DEF MmtsTypes, CutSoFar
<1>2. /\ f.pts \in Int /\ movie.firstPts \in Nat
      /\ S.start \in Nat /\ S.end \in Nat /\ S.program \in Nat
  BY <1>1, MovieParts DEF Mmts!Fragment, Mmts!Segment
<1>3. /\ w \in Seq(Packet)
      /\ \A k \in 1 .. Len(w) :
           w[k] = [segment |-> s, frag |-> p + 1, part |-> k,
                   at |-> IF f.pts < 0 THEN -1 ELSE f.pts - Mmts!Shift(movie, s)]
  BY <1>1, PacketsAre
<1> HIDE DEF w, f
<1>4. /\ new \in Seq(Packet) /\ Len(new) = Len(list) + Len(w)
      /\ Len(list) \in Nat /\ Len(w) \in Nat
      /\ \A k \in 1 .. Len(list) : new[k] = list[k]
      /\ \A k \in Len(list) + 1 .. Len(new) : new[k] = w[k - Len(list)]
  BY <1>1, <1>3, SMTT(30)
<1> HIDE DEF new
<1>5. ASSUME NEW k \in 1 .. Len(list)
      PROVE  /\ new[k].segment \in 1 .. s
             /\ new[k].segment = s => new[k].frag <= p
             /\ Mmts!InRange(new[k]) /\ Mmts!Whole(new, new[k])
             /\ k > 1 => Mmts!Before(new[k - 1], new[k])
  <2>1. /\ list[k].segment \in 1 .. s
        /\ list[k].segment = s => list[k].frag <= p
        /\ Mmts!InRange(list[k]) /\ Mmts!Whole(list, list[k])
        /\ k > 1 => Mmts!Before(list[k - 1], list[k])
    BY SMTT(30) DEF CutSoFar
  <2>2. new[k] = list[k] /\ (k > 1 => new[k - 1] = list[k - 1])
    BY <1>4, SMTT(30)
  <2>3. Mmts!Whole(new, list[k])
    BY <1>1, <1>3, <2>1, WholeIs, ReachedGrows DEF new
  <2> QED
    BY <2>1, <2>2, <2>3
<1>6. ASSUME NEW k \in Len(list) + 1 .. Len(new)
      PROVE  /\ new[k].segment = s /\ new[k].frag = p + 1
             /\ Mmts!InRange(new[k]) /\ Mmts!Whole(new, new[k])
             /\ k > 1 => Mmts!Before(new[k - 1], new[k])
  <2>1. k - Len(list) \in 1 .. Len(w) /\ k \in Nat
    BY <1>4
  <2> DEFINE a == IF f.pts < 0 THEN -1 ELSE f.pts - Mmts!Shift(movie, s)
  <2>2. new[k] = [segment |-> s, frag |-> p + 1, part |-> k - Len(list), at |-> a]
    BY <1>3, <1>4, <2>1
  <2>3. /\ new[k].segment = s /\ new[k].frag = p + 1 /\ new[k].part = k - Len(list)
        /\ new[k].at = a
    BY <2>2
  <2>4. Mmts!InRange(new[k])
    <3>1. a >= 0 => a \in movie.firstPts + S.program
                          .. movie.firstPts + S.program + S.end - S.start - 1
      <4> SUFFICES ASSUME a >= 0
                   PROVE  a \in movie.firstPts + S.program
                                .. movie.firstPts + S.program + S.end - S.start - 1
        OBVIOUS
      <4>1. /\ f.pts >= movie.firstPts + S.start /\ f.pts < movie.firstPts + S.end
            /\ a = f.pts - (S.start - S.program)
        BY <1>2, SMTT(30) DEF f, Mmts!From, Mmts!Till, Mmts!Shift
      <4>2. PICK b \in Nat, e \in Nat, g \in Nat, c \in Nat, t \in Int :
              b = S.start /\ e = S.end /\ g = S.program /\ c = movie.firstPts /\ t = f.pts
        BY <1>2
      <4>3. t >= c + b /\ t < c + e /\ a = t - (b - g)
        BY <4>1, <4>2
      <4> HIDE DEF a, S
      <4>4. a \in c + g .. c + g + e - b - 1
        BY <4>3
      <4> QED
        BY <4>2, <4>4
    <3> HIDE DEF a
    <3> QED
      BY <2>3, <3>1 DEF Mmts!InRange
  <2>5. Mmts!Whole(new, new[k])
    BY <2>3, WholeIs DEF new, w
  <2>6. k > 1 => Mmts!Before(new[k - 1], new[k])
    <3> SUFFICES ASSUME k > 1 PROVE Mmts!Before(new[k - 1], new[k])
      OBVIOUS
    <3>1. CASE k - 1 \in 1 .. Len(list)
      <4>1. /\ new[k - 1].segment \in 1 .. s
            /\ new[k - 1].segment = s => new[k - 1].frag <= p
        BY <3>1, <1>5
      <4>2. new[k - 1].frag \in Nat
        <5>1. list[k - 1] \in Packet /\ new[k - 1] = list[k - 1]
          BY <3>1, <1>1, <1>4, SMTT(30)
        <5> QED
          BY <5>1 DEF Packet
      <4> QED
        BY <4>1, <4>2, <2>3, <1>1, SMTT(30) DEF Mmts!Before
    <3>2. CASE k - 1 \notin 1 .. Len(list)
      <4>1. k - 1 \in Len(list) + 1 .. Len(new) /\ (k - 1) - Len(list) \in 1 .. Len(w)
        BY <3>2, <2>1, <1>4, SMTT(30)
      <4>2. new[k - 1] = w[(k - 1) - Len(list)]
        BY <4>1, <1>4
      <4>3. /\ new[k - 1].segment = s /\ new[k - 1].frag = p + 1
            /\ new[k - 1].part = (k - 1) - Len(list)
        <5>1. PICK q \in 1 .. Len(w) : q = (k - 1) - Len(list)
          BY <4>1
        <5>2. new[k - 1] = [segment |-> s, frag |-> p + 1, part |-> q, at |-> a]
          BY <4>2, <5>1, <1>3
        <5> HIDE DEF a
        <5> QED
          BY <5>1, <5>2
      <4>4. (k - 1) - Len(list) < k - Len(list)
        BY <2>1, <1>4
      <4> QED
        BY <4>3, <4>4, <2>3 DEF Mmts!Before
    <3> QED
      BY <3>1, <3>2
  <2> QED
    BY <2>3, <2>4, <2>5, <2>6
<1>7. ASSUME NEW k \in 1 .. Len(new)
      PROVE  /\ new[k].segment \in 1 .. s
             /\ new[k].segment = s => new[k].frag <= p + 1
             /\ Mmts!InRange(new[k]) /\ Mmts!Whole(new, new[k])
             /\ k > 1 => Mmts!Before(new[k - 1], new[k])
  <2>1. CASE k \in 1 .. Len(list)
    <3>1. new[k].frag \in Nat
      <4>1. new[k] \in Packet
        BY <1>4
      <4> QED
        BY <4>1 DEF Packet
    <3> QED
      BY <2>1, <3>1, <1>1, <1>5, SMTT(30)
  <2>2. CASE k \in Len(list) + 1 .. Len(new)
    BY <2>2, <1>1, <1>6, SMTT(30)
  <2> QED
    BY <2>1, <2>2, <1>4
<1>8. CutSoFar(new, s, p + 1)
  BY <1>4, <1>7 DEF CutSoFar
<1> QED
  BY <1>8 DEF new, w

\* Where the conversion of a segment is, and all that was made.
SoFar(list, s, p, gate, complete) ==
  CutSoFar(list, s, p) /\ GateRight(list, s, p, gate) /\ Covered(list, s, p, complete)

\* A fragment that is lost or kept out leaves what was made.
LEMMA CutStays ==
  ASSUME MmtsTypes, NEW s \in Nat, NEW p \in Nat, NEW list, CutSoFar(list, s, p)
  PROVE  CutSoFar(list, s, p + 1)
<1>1. list \in Seq(Packet)
  BY DEF CutSoFar
<1>2. ASSUME NEW k \in 1 .. Len(list), list[k].segment = s PROVE list[k].frag <= p + 1
  <2>1. list[k].frag \in Nat
    <3>1. list[k] \in Packet
      BY <1>1
    <3> QED
      BY <3>1 DEF Packet
  <2>2. list[k].frag <= p
    BY <1>2 DEF CutSoFar
  <2> QED
    BY <2>1, <2>2
<1> QED
  BY <1>2 DEF CutSoFar

LEMMA FragmentKeeps ==
  ASSUME MmtsTypes, NEW s \in 1 .. Len(movie.segments), NEW p \in 0 .. Len(movie.frags) - 1,
         NEW old \in Seq(Packet), NEW x \in InHandler(movie),
         SoFar(old \o x.made, s, p, x.gate, x.complete)
  PROVE  LET y == Mmts!Convert(movie, s, x, p + 1)
         IN  SoFar(old \o y.made, s, p + 1, y.gate, y.complete)
<1> DEFINE f == movie.frags[p + 1]
           d == Mmts!Decision(movie, s, x.gate, f)
           w == Mmts!Packets(movie, s, p + 1)
           y == Mmts!Convert(movie, s, x, p + 1)
           list == old \o x.made
<1>1. /\ p + 1 \in 1 .. Len(movie.frags) /\ p \in Nat /\ s \in Nat /\ s # 0 /\ movie \in Movies
      /\ f.pts \in Int /\ f.packs \in Nat /\ f.lost \in BOOLEAN /\ f.last \in BOOLEAN
      /\ f.stream \in Mmts!Streams(movie)
  <2>1. p + 1 \in 1 .. Len(movie.frags) /\ p \in Nat /\ s \in Nat /\ s # 0 /\ movie \in Movies
    BY MovieParts DEF MmtsTypes
  <2>2. f \in Mmts!Fragment
    BY <2>1, MovieParts
  <2> QED
    BY <2>1, <2>2 DEF Mmts!Fragment, Mmts!Streams
<1>2. /\ x.gate \in Gates(movie) /\ x.complete \in BOOLEAN /\ x.made \in Seq(Packet)
      /\ w \in Seq(Packet)
  BY <1>1, PacketsAre, SMTT(30) DEF InHandler
<1>3. list \in Seq(Packet)
  BY <1>2
<1>4. CutSoFar(list, s, p) /\ GateRight(list, s, p, x.gate) /\ Covered(list, s, p, x.complete)
  BY DEF SoFar
<1>5. /\ Mmts!Till(movie, s) \in Int /\ Mmts!From(movie, s) \in Nat
      /\ Mmts!BeginOf(s) \in Nat /\ Mmts!BeginOf(s) <= p
  <2>1. Mmts!BeginOf(s) \in Nat /\ Mmts!BeginOf(s) <= p
    <3>1. Mmts!BeginOf(s) \in 0 .. Len(movie.frags)
      BY <1>1, SourceOffset DEF Mmts!BeginOf
    <3> QED
      BY <3>1, <1>1, <1>4, MovieParts DEF Covered
  <2>2. PICK S \in Mmts!Segment, c \in Nat : S = movie.segments[s] /\ c = movie.firstPts
    BY <1>1, MovieParts, SMTT(30)
  <2>3. Mmts!Till(movie, s) = c + S.end /\ Mmts!From(movie, s) = c + S.start
    BY <2>2 DEF Mmts!Till, Mmts!From
  <2>4. S.end \in Nat /\ S.start \in Nat
    BY DEF Mmts!Segment
  <2> QED
    BY <2>1, <2>3, <2>4, SMTT(30)
<1>6. \A st \in Mmts!Streams(movie) : st # f.stream => Mmts!Begun(st, p + 1) = Mmts!Begun(st, p)
  BY BegunNext
<1> HIDE DEF f, d, w, list
<1>7. ASSUME NEW e, NEW more \in Seq(Packet),
             Covered(list, s, p, x.complete),
             e => x.complete \/ PastEnd(s, p + 1),
             Within(s, p + 1) => p + 1 \in Mmts!Made(list \o more, s)
      PROVE  Covered(list \o more, s, p + 1, e)
  <2> DEFINE b == Mmts!BeginOf(s)
  <2>1. b \in Nat /\ b <= p
    BY <1>5
  <2>2. /\ x.complete => \E j \in b + 1 .. p : PastEnd(s, j)
        /\ \A i \in b + 1 .. p : Within(s, i) => i \in Mmts!Made(list, s)
    BY <1>7 DEF Covered
  <2> HIDE DEF b
  <2>3. e => \E j \in b + 1 .. p + 1 : PastEnd(s, j)
    <3>1. p + 1 \in b + 1 .. p + 1 /\ \A j \in b + 1 .. p : j \in b + 1 .. p + 1
      BY <2>1, <1>1
    <3> QED
      BY <3>1, <2>2, <1>7
  <2>4. ASSUME NEW i \in b + 1 .. p + 1, Within(s, i) PROVE i \in Mmts!Made(list \o more, s)
    <3>1. CASE i = p + 1
      BY <3>1, <2>4, <1>7
    <3>2. CASE i # p + 1
      <4>1. i \in b + 1 .. p
        BY <3>2, <2>1, <1>1
      <4> QED
        BY <4>1, <2>2, <2>4, <1>3, <1>7, MadeGrows
    <3> QED
      BY <3>1, <3>2
  <2> QED
    BY <2>1, <2>3, <2>4, <1>1 DEF Covered, b
<1>8. CASE f.lost
  <2>1. y = [x EXCEPT !.gate[f.stream] = "none"]
    BY <1>1, <1>8, Zenon DEF Mmts!Convert, Mmts!NoSegment, f
  <2>2. /\ y.made = x.made /\ y.complete = x.complete
        /\ y.gate = [x.gate EXCEPT ![f.stream] = "none"]
    BY <2>1 DEF InHandler
  <2> HIDE DEF y
  <2>3. old \o y.made = list
    BY <2>2 DEF list
  <2>4. CutSoFar(list, s, p + 1)
    BY <1>1, <1>4, CutStays
  <2>5. GateRight(list, s, p + 1, y.gate)
    <3> SUFFICES ASSUME NEW st \in Mmts!Streams(movie), y.gate[st] = "in"
                 PROVE  Reached(list, s, p + 1, st)
      BY DEF GateRight
    <3>1. st # f.stream /\ x.gate[st] = "in"
      BY <2>2, <1>1, <1>2 DEF Gates
    <3> QED
      BY <3>1, <1>4, <1>6 DEF GateRight, Reached
  <2>6. Covered(list, s, p + 1, y.complete)
    <3>1. ~ Within(s, p + 1)
      BY <1>8 DEF Within, f
    <3>2. list \o <<>> = list /\ <<>> \in Seq(Packet)
      BY <1>3
    <3>3. Covered(list \o <<>>, s, p + 1, y.complete)
      BY <3>1, <3>2, <2>2, <1>4, <1>7
    <3> QED
      BY <3>2, <3>3
  <2>7. SoFar(old \o y.made, s, p + 1, y.gate, y.complete)
    BY <2>3, <2>4, <2>5, <2>6 DEF SoFar
  <2> QED
    BY <2>7 DEF y
<1>9. ASSUME ~ f.lost PROVE
        /\ y.gate = [x.gate EXCEPT ![f.stream] = IF f.last THEN "none" ELSE d]
        /\ y.complete = (x.complete \/ (f.stream = Mmts!Video /\ f.pts >= Mmts!Till(movie, s)))
        /\ y.made = IF d = "in" THEN x.made \o w ELSE x.made
  <2> DEFINE g == [x.gate EXCEPT ![f.stream] = IF f.last THEN "none" ELSE d]
             e == x.complete \/ (f.stream = Mmts!Video /\ f.pts >= Mmts!Till(movie, s))
             o == IF d = "in" THEN x.made \o w ELSE x.made
  <2>1. y = [gate |-> g, complete |-> e, made |-> o]
    BY <1>1, <1>9, Zenon DEF Mmts!Convert, Mmts!NoSegment, f, d, w
  <2> HIDE DEF y, g, e, o
  <2>2. y.gate = g /\ y.complete = e /\ y.made = o
    BY <2>1
  <2> QED
    BY <2>2 DEF g, e, o
<1>10. ASSUME ~ f.lost PROVE y.complete => x.complete \/ PastEnd(s, p + 1)
  <2> HIDE DEF y
  <2> QED
    BY <1>9, <1>10 DEF PastEnd, f
<1>11. CASE ~ f.lost /\ d = "in"
  <2> DEFINE new == list \o w
  <2>1. f.pts >= 0 => f.pts >= Mmts!From(movie, s) /\ f.pts < Mmts!Till(movie, s)
    <3> SUFFICES ASSUME f.pts >= 0
                 PROVE  f.pts >= Mmts!From(movie, s) /\ f.pts < Mmts!Till(movie, s)
      OBVIOUS
    <3>1. ~ (f.pts < 0)
      BY <1>1
    <3>2. d = IF f.pts >= Mmts!From(movie, s) /\ f.pts < Mmts!Till(movie, s) THEN "in" ELSE "out"
      BY <3>1, Zenon DEF d, Mmts!Decision
    <3> QED
      BY <3>2, <1>11
  <2>2. Reached(new, s, p + 1, f.stream)
    BY <1>2, <1>3, <1>4, <1>11, LetThrough, SMTT(30) DEF f, d, w
  <2>3. CutSoFar(new, s, p + 1)
    BY <2>1, <2>2, <1>4, CutGoesOn DEF f, w
  <2>4. y.made = x.made \o w
    BY <1>9, <1>11
  <2>5. y.gate = [x.gate EXCEPT ![f.stream] = IF f.last THEN "none" ELSE d]
    BY <1>9, <1>11
  <2>6. y.complete => x.complete \/ PastEnd(s, p + 1)
    BY <1>10, <1>11
  <2> HIDE DEF y, new
  <2>7. old \o y.made = new
    <3>1. (old \o x.made) \o w = old \o (x.made \o w)
      BY <1>2, Joins, Zenon
    <3> QED
      BY <3>1, <2>4 DEF new, list
  <2>8. GateRight(new, s, p + 1, y.gate)
    <3> SUFFICES ASSUME NEW st \in Mmts!Streams(movie), y.gate[st] = "in"
                 PROVE  Reached(new, s, p + 1, st)
      BY DEF GateRight
    <3>1. CASE st = f.stream
      BY <3>1, <2>2
    <3>2. CASE st # f.stream
      <4>1. x.gate[st] = "in"
        BY <3>2, <2>5, <1>1, <1>2 DEF Gates
      <4>2. Reached(list, s, p, st)
        BY <4>1, <1>4 DEF GateRight
      <4>3. Reached(new, s, p, st)
        BY <4>2, <1>2, <1>3, ReachedGrows DEF new
      <4> QED
        BY <4>3, <3>2, <1>6 DEF Reached
    <3> QED
      BY <3>1, <3>2
  <2>9. Covered(new, s, p + 1, y.complete)
    <3>1. Within(s, p + 1) => p + 1 \in Mmts!Made(list \o w, s)
      BY <1>1, <1>3, LastIsMade DEF Within, w
    <3>2. Covered(list \o w, s, p + 1, y.complete)
      BY <3>1, <2>6, <1>2, <1>4, <1>7
    <3> QED
      BY <3>2 DEF new
  <2>10. SoFar(old \o y.made, s, p + 1, y.gate, y.complete)
    BY <2>3, <2>7, <2>8, <2>9 DEF SoFar
  <2> QED
    BY <2>10 DEF y
<1>12. CASE ~ f.lost /\ d # "in"
  <2>1. y.made = x.made
    BY <1>9, <1>12
  <2>2. y.gate = [x.gate EXCEPT ![f.stream] = IF f.last THEN "none" ELSE d]
    BY <1>9, <1>12
  <2>3. y.complete => x.complete \/ PastEnd(s, p + 1)
    BY <1>10, <1>12
  <2> HIDE DEF y
  <2>4. old \o y.made = list
    BY <2>1 DEF list
  <2>5. CutSoFar(list, s, p + 1)
    BY <1>1, <1>4, CutStays
  <2>6. GateRight(list, s, p + 1, y.gate)
    <3> SUFFICES ASSUME NEW st \in Mmts!Streams(movie), y.gate[st] = "in"
                 PROVE  Reached(list, s, p + 1, st)
      BY DEF GateRight
    <3>1. st # f.stream /\ x.gate[st] = "in"
      BY <2>2, <1>1, <1>2, <1>12 DEF Gates
    <3> QED
      BY <3>1, <1>4, <1>6 DEF GateRight, Reached
  <2>7. ~ Within(s, p + 1)
    <3> SUFFICES ASSUME Within(s, p + 1) PROVE FALSE
      OBVIOUS
    <3>1. f.pts >= Mmts!From(movie, s) /\ f.pts < Mmts!Till(movie, s)
      BY DEF Within, f
    <3>2. ~ (f.pts < 0)
      BY <3>1, <1>1, <1>5
    <3>3. d = IF f.pts >= Mmts!From(movie, s) /\ f.pts < Mmts!Till(movie, s) THEN "in" ELSE "out"
      BY <3>2, Zenon DEF d, Mmts!Decision
    <3> QED
      BY <3>1, <3>3, <1>12
  <2>8. Covered(list, s, p + 1, y.complete)
    <3>1. list \o <<>> = list /\ <<>> \in Seq(Packet)
      BY <1>3
    <3>2. Covered(list \o <<>>, s, p + 1, y.complete)
      BY <3>1, <2>3, <2>7, <1>4, <1>7
    <3> QED
      BY <3>1, <3>2
  <2>9. SoFar(old \o y.made, s, p + 1, y.gate, y.complete)
    BY <2>4, <2>5, <2>6, <2>8 DEF SoFar
  <2> QED
    BY <2>9 DEF y
<1> QED
  BY <1>1, <1>8, <1>11, <1>12

\* A chunk of input, fragment by fragment.
LEMMA ChunkKeeps ==
  ASSUME MmtsTypes, NEW c \in Conversions(movie), c.segment \in 1 .. Len(movie.segments),
         NEW old \in Seq(Packet), SoFar(old, c.segment, c.next, c.gate, c.complete),
         NEW n \in 0 .. Len(movie.frags) - c.next
  PROVE  LET x == Mmts!Converted(movie, c)[n]
         IN  SoFar(old \o x.made, c.segment, c.next + n, x.gate, x.complete)
<1> DEFINE N == Len(movie.frags) - c.next
           F == Mmts!Converted(movie, c)
           P(k) == SoFar(old \o F[k].made, c.segment, c.next + k, F[k].gate, F[k].complete)
           T == {k \in 0 .. N : P(k)}
<1>1. /\ movie \in Movies /\ Len(movie.frags) \in Nat /\ c.next \in 0 .. Len(movie.frags)
      /\ N \in Nat /\ c.next + 0 = c.next
  BY MovieParts, SMTT(30) DEF MmtsTypes, Conversions
<1>2. /\ \A k \in 0 .. N : F[k] \in InHandler(movie)
      /\ F[0] = [gate |-> c.gate, complete |-> c.complete, made |-> <<>>]
      /\ \A k \in 1 .. N : F[k] = Mmts!Convert(movie, c.segment, F[k - 1], c.next + k)
  BY <1>1, ConvertedIs, Zenon
<1>3. \A k \in 1 .. N : c.next + (k - 1) \in 0 .. Len(movie.frags) - 1
                        /\ (c.next + (k - 1)) + 1 = c.next + k /\ k - 1 \in 0 .. N
  BY <1>1, SMTT(30)
<1> HIDE DEF N, F
<1>4. P(0)
  <2>1. F[0].gate = c.gate /\ F[0].complete = c.complete /\ F[0].made = <<>>
    BY <1>2
  <2>2. old \o F[0].made = old
    BY <2>1
  <2> QED
    BY <2>1, <2>2, <1>1
<1>5. ASSUME NEW k \in 1 .. N, P(k - 1) PROVE P(k)
  <2> DEFINE x == F[k - 1]
             p == c.next + (k - 1)
             y == Mmts!Convert(movie, c.segment, x, p + 1)
  <2>1. x \in InHandler(movie) /\ p \in 0 .. Len(movie.frags) - 1
    BY <1>2, <1>3
  <2>2. F[k] = y /\ p + 1 = c.next + k
    BY <1>2, <1>3
  <2>3. SoFar(old \o x.made, c.segment, p, x.gate, x.complete)
    BY <1>5
  <2> HIDE DEF x, p
  <2>4. SoFar(old \o y.made, c.segment, p + 1, y.gate, y.complete)
    BY <2>1, <2>3, FragmentKeeps
  <2> QED
    BY <2>2, <2>4
<1> HIDE DEF P
<1>6. \A k \in 0 .. N : k \in T
  <2>1. 0 \in T
    BY <1>1, <1>4
  <2>2. \A k \in 1 .. N : k - 1 \in T => k \in T
    BY <1>5, <1>3
  <2> HIDE DEF T
  <2> QED
    BY <2>1, <2>2, <1>1, UpTo
<1>7. P(n)
  BY <1>6 DEF N
<1> QED
  BY <1>7 DEF P, F

\* Without an edit list there are no segments.
Unedited == {x \in Packet : x.segment = Mmts!NoSegment}

LEMMA ChunkUnedited ==
  ASSUME NEW m \in Movies, NEW c \in Conversions(m), c.segment = Mmts!NoSegment,
         NEW n \in 0 .. Len(m.frags) - c.next
  PROVE  Mmts!Converted(m, c)[n].made \in Seq(Unedited)
<1> DEFINE N == Len(m.frags) - c.next
           F == Mmts!Converted(m, c)
           T == {k \in 0 .. N : F[k].made \in Seq(Unedited)}
<1>1. /\ Len(m.frags) \in Nat /\ c.next \in 0 .. Len(m.frags) /\ N \in Nat
      /\ \A k \in 1 .. N : k - 1 \in 0 .. N /\ c.next + k \in 1 .. Len(m.frags)
  BY MovieParts, SMTT(30) DEF Conversions
<1>2. /\ \A k \in 0 .. N : F[k] \in InHandler(m)
      /\ F[0] = [gate |-> c.gate, complete |-> c.complete, made |-> <<>>]
      /\ \A k \in 1 .. N : F[k] = Mmts!Convert(m, c.segment, F[k - 1], c.next + k)
  BY ConvertedIs, Zenon
<1> HIDE DEF N, F
<1>3. 0 \in T
  <2>1. F[0].made = <<>>
    BY <1>2
  <2>2. F[0].made \in Seq(Unedited) /\ 0 \in 0 .. N
    BY <2>1, <1>1
  <2> QED
    BY <2>2
<1>4. ASSUME NEW k \in 1 .. N, k - 1 \in T PROVE k \in T
  <2> DEFINE x == F[k - 1]
             i == c.next + k
             w == Mmts!Packets(m, Mmts!NoSegment, i)
             o == IF m.frags[i].lost THEN x.made ELSE x.made \o w
  <2>1. x \in InHandler(m) /\ x.made \in Seq(Unedited) /\ i \in 1 .. Len(m.frags)
    BY <1>1, <1>2, <1>4
  <2>2. F[k] = [x EXCEPT !.made = o]
    BY <1>2, <1>4, Zenon DEF Mmts!Convert
  <2>3. w \in Seq(Unedited)
    <3>1. Mmts!NoSegment \in 0 .. Len(m.segments)
      BY MovieParts DEF Mmts!NoSegment
    <3>2. w \in Seq(Packet)
      BY <2>1, <3>1, PacketsTyped
    <3>3. \A q \in 1 .. Len(w) : w[q].segment = Mmts!NoSegment
      <4>1. w = [q \in 1 .. m.frags[i].packs |-> w[q]]
        BY Zenon DEF Mmts!Packets
      <4>2. m.frags[i].packs \in Nat
        BY <2>1, MovieParts DEF Mmts!Fragment
      <4>3. \A q \in 1 .. m.frags[i].packs : w[q].segment = Mmts!NoSegment
        BY DEF Mmts!Packets
      <4> HIDE DEF w
      <4>4. Len(w) = m.frags[i].packs
        BY <3>2, <4>1, <4>2
      <4> QED
        BY <4>3, <4>4
    <3> HIDE DEF w
    <3>4. \A q \in 1 .. Len(w) : w[q] \in Unedited
      BY <3>2, <3>3 DEF Unedited
    <3> QED
      BY <3>2, <3>4
  <2> HIDE DEF x, w
  <2>4. o \in Seq(Unedited)
    BY <2>1, <2>3
  <2> HIDE DEF o
  <2>5. F[k].made = o
    BY <2>1, <2>2 DEF InHandler
  <2>6. k \in 0 .. N
    BY <1>1
  <2> QED
    BY <2>4, <2>5, <2>6
<1>5. \A k \in 0 .. N : k \in T
  <2> HIDE DEF T
  <2> QED
    BY <1>1, <1>3, <1>4, UpTo
<1> QED
  BY <1>5 DEF N, F

\* In the program each segment begins where the one before it ends or later.
LEMMA SegmentsFollow ==
  ASSUME MmtsTypes, NEW i \in 1 .. Len(movie.segments), NEW j \in i + 1 .. Len(movie.segments)
  PROVE  Mmts!EndOf(i) <= movie.segments[j].program
<1> DEFINE L == Len(movie.segments)
           Program(k) == movie.segments[k].program
           T == {k \in 0 .. L - (i + 1) : Mmts!EndOf(i) <= Program(i + 1 + k)}
<1>1. movie \in Movies /\ L \in Nat /\ i \in 1 .. L /\ j \in i + 1 .. L
  BY MovieParts DEF MmtsTypes
<1>2. ASSUME NEW k \in 1 .. L
      PROVE  /\ Program(k) \in Nat /\ Mmts!EndOf(k) \in Nat /\ Mmts!EndOf(k) > Program(k)
             /\ k + 1 <= L => Program(k + 1) = Mmts!EndOf(k)
  <2>1. PICK S \in Mmts!Segment : S = movie.segments[k] /\ S.start < S.end
    BY <1>1, MovieParts
  <2>2. S.start \in Nat /\ S.end \in Nat /\ S.program \in Nat
    BY DEF Mmts!Segment
  <2>3. Mmts!EndOf(k) = S.program + S.end - S.start
    BY <2>1 DEF Mmts!EndOf
  <2>4. k + 1 <= L => Program(k + 1) = S.program + (S.end - S.start)
    <3> SUFFICES ASSUME k + 1 <= L PROVE Program(k + 1) = S.program + (S.end - S.start)
      OBVIOUS
    <3>1. k + 1 \in 1 .. L /\ k + 1 > 1 /\ (k + 1) - 1 = k
      BY <1>1
    <3>2. movie.segments[k + 1].program
            = movie.segments[(k + 1) - 1].program
              + (movie.segments[(k + 1) - 1].end - movie.segments[(k + 1) - 1].start)
      BY <1>1, <3>1, MovieParts
    <3> QED
      BY <2>1, <3>1, <3>2
  <2>5. Program(k) = S.program
    BY <2>1
  <2> HIDE DEF Program, L
  <2>6. PICK a \in Nat, b \in Nat, g \in Nat : a = S.start /\ b = S.end /\ g = S.program
    BY <2>2
  <2>7. Mmts!EndOf(k) = g + b - a /\ a < b
    BY <2>1, <2>3, <2>6
  <2>8. Mmts!EndOf(k) \in Nat /\ Mmts!EndOf(k) > g /\ Mmts!EndOf(k) = g + (b - a)
    BY <2>7
  <2>9. k + 1 <= L => Program(k + 1) = Mmts!EndOf(k)
    BY <2>4, <2>6, <2>8 DEF Program
  <2> QED
    BY <2>2, <2>5, <2>6, <2>8, <2>9
<1> HIDE DEF L, Program
<1>3. 0 \in T
  <2>1. 0 \in 0 .. L - (i + 1) /\ i + 1 <= L /\ i + 1 + 0 = i + 1
    BY <1>1
  <2> QED
    BY <2>1, <1>1, <1>2
<1>4. ASSUME NEW k \in 1 .. L - (i + 1), k - 1 \in T PROVE k \in T
  <2>1. /\ i + k \in 1 .. L /\ i + k + 1 = i + 1 + k /\ i + 1 + k <= L
        /\ i + 1 + (k - 1) = i + k /\ k \in 0 .. L - (i + 1)
    BY <1>1
  <2>2. Mmts!EndOf(i) <= Program(i + k)
    BY <2>1, <1>4
  <2>3. /\ Program(i + k) \in Nat /\ Mmts!EndOf(i + k) > Program(i + k)
        /\ Program(i + 1 + k) = Mmts!EndOf(i + k) /\ Mmts!EndOf(i + k) \in Nat
    BY <2>1, <1>2
  <2>4. Mmts!EndOf(i) \in Nat
    BY <1>1, <1>2
  <2>5. Mmts!EndOf(i) <= Program(i + 1 + k)
    BY <2>2, <2>3, <2>4
  <2> QED
    BY <2>1, <2>5
<1>5. j - (i + 1) \in T
  <2>1. L - (i + 1) \in Nat /\ j - (i + 1) \in 0 .. L - (i + 1)
    BY <1>1
  <2>2. \A k \in 0 .. L - (i + 1) : k \in T
    <3> HIDE DEF T
    <3> QED
      BY <1>3, <1>4, <2>1, UpTo
  <2> QED
    BY <2>1, <2>2
<1>6. i + 1 + (j - (i + 1)) = j
  BY <1>1
<1>7. Mmts!EndOf(i) <= Program(j)
  BY <1>5, <1>6
<1> QED
  BY <1>7 DEF Program

(***************************************************************************)
(* What holds at each stage of a conversion from what was sought on: the   *)
(* segments that are over are done, and the one that is converted so far;  *)
(* those to come are behind what was sought.                               *)
(***************************************************************************)
CutStage(x) ==
  IF movie.segments = <<>> THEN x.made \in Seq(Unedited)
  ELSE /\ \A s \in 1 .. Len(movie.segments) :
            s < x.c.segment \/ x.c.eof => Done(x.made, s)
       /\ IF x.c.eof THEN CutSoFar(x.made, Len(movie.segments), Len(movie.frags))
          ELSE /\ SoFar(x.made, x.c.segment, x.c.next, x.c.gate, x.c.complete)
               /\ \A s \in x.c.segment + 1 .. Len(movie.segments) :
                    sought < movie.segments[s].program

LEMMA DoneGrows ==
  ASSUME NEW list \in Seq(Packet), NEW more \in Seq(Packet), NEW s, Done(list, s)
  PROVE  Done(list \o more, s)
BY MadeGrows DEF Done

\* A segment is over when some of its video is past its end or the input ends.
LEMMA SegmentDone ==
  ASSUME MmtsTypes, NEW s \in 1 .. Len(movie.segments), NEW p \in 0 .. Len(movie.frags),
         NEW complete, NEW list, Covered(list, s, p, complete),
         complete \/ p = Len(movie.frags)
  PROVE  Done(list, s)
<1> DEFINE b == Mmts!BeginOf(s)
<1>1. movie \in Movies /\ Len(movie.frags) \in Nat
  BY MovieParts DEF MmtsTypes
<1>2. b \in 0 .. Len(movie.frags)
  BY <1>1, SourceOffset DEF Mmts!BeginOf
<1> SUFFICES ASSUME NEW i \in b + 1 .. Len(movie.frags), Mmts!Belongs(s, i)
             PROVE  i \in Mmts!Made(list, s)
  BY DEF Done
<1>3. /\ \A j \in b + 1 .. i : ~ PastEnd(s, j)
      /\ Within(s, i)
  <2> HIDE DEF b
  <2>1. /\ movie.frags[i].stream = Mmts!Video /\ ~ movie.frags[i].lost /\ movie.frags[i].packs > 0
        /\ movie.frags[i].pts >= Mmts!From(movie, s)
        /\ \A j \in b + 1 .. i : movie.frags[j].stream = Mmts!Video
                                   => movie.frags[j].pts < Mmts!Till(movie, s)
    BY Zenon DEF Mmts!Belongs, b
  <2>2. i \in b + 1 .. i
    BY <1>1, <1>2
  <2>3. Within(s, i)
    BY <2>1, <2>2 DEF Within
  <2>4. Mmts!Till(movie, s) \in Int /\ \A j \in b + 1 .. i : movie.frags[j].pts \in Int
    <3>1. PICK S \in Mmts!Segment, c \in Nat : S = movie.segments[s] /\ c = movie.firstPts
      BY <1>1, MovieParts
    <3>2. Mmts!Till(movie, s) = c + S.end /\ S.end \in Nat
      BY <3>1 DEF Mmts!Till, Mmts!Segment
    <3>3. \A j \in b + 1 .. i : j \in 1 .. Len(movie.frags)
      BY <1>1, <1>2
    <3>4. \A j \in 1 .. Len(movie.frags) : movie.frags[j].pts \in Int
      BY <1>1, MovieParts DEF Mmts!Fragment
    <3> QED
      BY <3>2, <3>3, <3>4
  <2>5. ASSUME NEW j \in b + 1 .. i, PastEnd(s, j) PROVE FALSE
    <3>1. movie.frags[j].pts < Mmts!Till(movie, s) /\ movie.frags[j].pts >= Mmts!Till(movie, s)
      BY <2>1, <2>5 DEF PastEnd
    <3>2. movie.frags[j].pts \in Int
      BY <2>4
    <3> QED
      BY <3>1, <3>2, <2>4
  <2> QED
    BY <2>3, <2>5
<1>4. /\ complete => \E j \in b + 1 .. p : PastEnd(s, j)
      /\ \A j \in b + 1 .. p : Within(s, j) => j \in Mmts!Made(list, s)
  BY DEF Covered
<1> HIDE DEF b
<1>5. i <= p
  <2>1. CASE p = Len(movie.frags)
    BY <2>1
  <2>2. CASE complete
    <3>1. PICK j \in b + 1 .. p : PastEnd(s, j)
      BY <2>2, <1>4
    <3>2. j \notin b + 1 .. i
      BY <3>1, <1>3
    <3> QED
      BY <3>2, <1>1, <1>2
  <2> QED
    BY <2>1, <2>2
<1>6. i \in b + 1 .. p
  BY <1>1, <1>2, <1>5
<1> QED
  BY <1>3, <1>4, <1>6

\* The cut of a segment that is over is one for what comes after it.
LEMMA CutIsOver ==
  ASSUME MmtsTypes, NEW s \in Nat, NEW p \in 0 .. Len(movie.frags), NEW list, CutSoFar(list, s, p)
  PROVE  /\ CutSoFar(list, s, Len(movie.frags))
         /\ \A q \in 0 .. Len(movie.frags) : CutSoFar(list, s + 1, q)
<1>1. list \in Seq(Packet) /\ Len(movie.frags) \in Nat
  BY MovieParts DEF CutSoFar, MmtsTypes
<1>2. ASSUME NEW k \in 1 .. Len(list)
      PROVE  /\ list[k].segment \in 1 .. s
             /\ list[k].segment = s => list[k].frag <= Len(movie.frags)
             /\ Mmts!InRange(list[k]) /\ Mmts!Whole(list, list[k])
             /\ k > 1 => Mmts!Before(list[k - 1], list[k])
  <2>1. list[k].frag \in Nat
    <3>1. list[k] \in Packet
      BY <1>1
    <3> QED
      BY <3>1 DEF Packet
  <2>2. /\ list[k].segment \in 1 .. s
        /\ list[k].segment = s => list[k].frag <= p
        /\ Mmts!InRange(list[k]) /\ Mmts!Whole(list, list[k])
        /\ k > 1 => Mmts!Before(list[k - 1], list[k])
    BY DEF CutSoFar
  <2>3. list[k].segment = s => list[k].frag <= Len(movie.frags)
    BY <2>1, <2>2, <1>1
  <2> QED
    BY <2>2, <2>3
<1>3. CutSoFar(list, s, Len(movie.frags))
  BY <1>1, <1>2 DEF CutSoFar
<1>4. ASSUME NEW q \in 0 .. Len(movie.frags) PROVE CutSoFar(list, s + 1, q)
  <2>1. \A n \in 1 .. s : n \in 1 .. s + 1 /\ n # s + 1
    OBVIOUS
  <2>2. ASSUME NEW k \in 1 .. Len(list)
        PROVE  list[k].segment \in 1 .. s + 1 /\ list[k].segment # s + 1
    BY <2>1, <1>2
  <2> QED
    BY <1>1, <1>2, <2>2 DEF CutSoFar
<1> QED
  BY <1>3, <1>4

\* A segment begins where BeginOf says.
LEMMA SegmentBegins ==
  ASSUME MmtsTypes, NEW s \in 1 .. Len(movie.segments), NEW list, NEW t,
         CutSoFar(list, s, Mmts!BeginOf(s)), Mmts!BeginOf(s) = Mmts!FindSourceOffset(movie, t)
  PROVE  LET c == Mmts!StartAt(movie, s, t)
         IN  SoFar(list, c.segment, c.next, c.gate, c.complete)
<1> DEFINE c == Mmts!StartAt(movie, s, t)
           b == Mmts!BeginOf(s)
<1>1. /\ c.segment = s /\ c.next = b /\ c.gate = Mmts!Undecided(movie) /\ c.complete = FALSE
      /\ b \in Nat
  BY SourceOffset DEF Mmts!StartAt, MmtsTypes
<1> HIDE DEF c
<1>2. GateRight(list, s, b, c.gate)
  BY <1>1 DEF GateRight, Mmts!Undecided
<1>3. Covered(list, s, b, c.complete)
  <2>1. b <= b /\ b + 1 .. b = {}
    BY <1>1
  <2> QED
    BY <1>1, <2>1 DEF Covered
<1>4. SoFar(list, c.segment, c.next, c.gate, c.complete)
  BY <1>1, <1>2, <1>3 DEF SoFar
<1> QED
  BY <1>4 DEF c

\* A turn converts a chunk, goes on to the next segment or ends.
LEMMA TurnCuts ==
  ASSUME MmtsTypes, NEW x \in Stage(movie), CutStage(x)
  PROVE  CutStage(After(movie, x))
<1> DEFINE c == x.c
           L == Len(movie.segments)
           F == Len(movie.frags)
           n == Mmts!Min({ChunkSize, F - c.next})
           z == Mmts!Converted(movie, c)[n]
           t == Mmts!Turn(movie, c)
           over == c.segment # Mmts!NoSegment /\ (c.complete \/ c.next = F)
<1>1. /\ movie \in Movies /\ L \in Nat /\ F \in Nat
      /\ movie.segments = <<>> <=> L = 0
      /\ c \in Conversions(movie) /\ x.made \in Seq(Packet) /\ x = [c |-> c, made |-> x.made]
      /\ c.next \in 0 .. F /\ c.segment \in 0 .. L
      /\ c.segment = Mmts!NoSegment <=> movie.segments = <<>>
  BY MovieParts DEF MmtsTypes, Stage, Conversions
<1>2. CASE c.eof
  BY <1>2, <1>1 DEF After
<1>3. ASSUME ~ c.eof PROVE After(movie, x) = [c |-> t.c, made |-> x.made \o t.made]
  BY <1>3 DEF After
<1>4. CASE ~ c.eof /\ over
  <2> DEFINE s == c.segment
  <2>1. t.c = Mmts!NextSegment(movie, c) /\ t.made = <<>>
    <3>1. t = [c |-> Mmts!NextSegment(movie, c), made |-> <<>>]
      BY <1>4, Zenon DEF Mmts!Turn
    <3> HIDE DEF t
    <3> QED
      BY <3>1
  <2> DEFINE y == After(movie, x)
  <2>2. y.c = Mmts!NextSegment(movie, c) /\ y.made = x.made
    <3>1. x.made \o t.made = x.made
      BY <1>1, <2>1
    <3>2. y = [c |-> Mmts!NextSegment(movie, c), made |-> x.made]
      BY <1>3, <1>4, <2>1, <3>1
    <3> HIDE DEF y
    <3> QED
      BY <3>2
  <2>3. s \in 1 .. L /\ movie.segments # <<>>
    BY <1>1, <1>4 DEF Mmts!NoSegment
  <2>4. /\ \A q \in 1 .. L : q < s => Done(x.made, q)
        /\ SoFar(x.made, s, c.next, c.gate, c.complete)
        /\ \A q \in s + 1 .. L : sought < movie.segments[q].program
    BY <1>4, <2>3 DEF CutStage
  <2>5. Done(x.made, s)
    BY <1>1, <1>4, <2>3, <2>4, SegmentDone DEF SoFar
  <2>6. /\ CutSoFar(x.made, s, F)
        /\ \A q \in 0 .. F : CutSoFar(x.made, s + 1, q)
    BY <1>1, <2>3, <2>4, CutIsOver DEF SoFar
  <2>7. \A q \in 1 .. L : q < s + 1 => Done(x.made, q)
    <3>1. \A q \in 1 .. L : q < s + 1 => q < s \/ q = s
      BY <2>3
    <3> QED
      BY <2>4, <2>5, <3>1
  <2> HIDE DEF y, c
  <2>8. CASE s = L
    <3>1. y.c = [c EXCEPT !.eof = TRUE]
      BY <2>2, <2>8 DEF Mmts!NextSegment
    <3>2. y.c.eof
      BY <3>1, <1>1 DEF Conversions
    <3>3. \A q \in 1 .. L : Done(y.made, q)
      <4>1. \A q \in 1 .. L : q < s + 1
        BY <2>8, <1>1
      <4> QED
        BY <4>1, <2>2, <2>7
    <3>4. CutSoFar(y.made, L, F)
      BY <2>2, <2>6, <2>8
    <3> HIDE DEF s
    <3>5. CutStage(y)
      BY <2>3, <3>2, <3>3, <3>4, Zenon DEF CutStage
    <3> QED
      BY <3>5 DEF y
  <2>9. CASE s # L
    <3> DEFINE a == movie.segments[s + 1].start
               e == Mmts!StartAt(movie, s + 1, a)
    <3>1. s + 1 \in 1 .. L /\ s \in Nat
      BY <2>3, <2>9, <1>1
    <3>2. y.c = e
      BY <2>2, <2>9 DEF Mmts!NextSegment
    <3>3. e.segment = s + 1 /\ e.eof = FALSE
      BY DEF Mmts!StartAt
    <3>4. ~ (movie.segments[s + 1].program <= sought)
      <4>1. s + 1 \in s + 1 .. L
        BY <3>1
      <4>2. sought < movie.segments[s + 1].program
        BY <4>1, <2>4
      <4>3. movie.segments[s + 1].program \in Nat
        <5>1. movie.segments[s + 1] \in Mmts!Segment
          BY <1>1, <3>1, MovieParts
        <5> QED
          BY <5>1 DEF Mmts!Segment
      <4>4. sought \in Nat
        BY <1>1, DurationTyped DEF MmtsTypes
      <4> QED
        BY <4>2, <4>3, <4>4
    <3>5. Mmts!BeginOf(s + 1) = Mmts!FindSourceOffset(movie, a)
      BY <3>4, Zenon DEF Mmts!BeginOf
    <3>6. CutSoFar(x.made, s + 1, Mmts!BeginOf(s + 1))
      <4>1. Mmts!BeginOf(s + 1) \in 0 .. F
        BY <1>1, <3>5, SourceOffset
      <4> QED
        BY <4>1, <2>6
    <3>7. SoFar(x.made, e.segment, e.next, e.gate, e.complete)
      BY <3>1, <3>5, <3>6, SegmentBegins
    <3>8. \A q \in s + 1 + 1 .. L : sought < movie.segments[q].program
      <4>1. \A q \in s + 1 + 1 .. L : q \in s + 1 .. L
        BY <3>1
      <4> QED
        BY <4>1, <2>4
    <3> HIDE DEF e, s, a
    <3>9. /\ \A q \in 1 .. L : q < y.c.segment \/ y.c.eof => Done(y.made, q)
          /\ SoFar(y.made, y.c.segment, y.c.next, y.c.gate, y.c.complete)
          /\ \A q \in y.c.segment + 1 .. L : sought < movie.segments[q].program
          /\ ~ y.c.eof
      BY <2>2, <2>7, <3>2, <3>3, <3>7, <3>8
    <3>10. CutStage(y)
      BY <2>3, <3>9, Zenon DEF CutStage
    <3> QED
      BY <3>10 DEF y
  <2> QED
    BY <2>8, <2>9
<1>5. CASE ~ c.eof /\ ~ over /\ c.next = F
  <2>1. movie.segments = <<>>
    BY <1>1, <1>5
  <2>2. t = [c |-> [c EXCEPT !.eof = TRUE], made |-> <<>>]
    BY <1>5, Zenon DEF Mmts!Turn
  <2> DEFINE y == After(movie, x)
  <2>3. y.made = x.made
    <3>1. t.made = <<>>
      BY <2>2
    <3>2. x.made \o t.made = x.made
      BY <3>1, <1>1
    <3> HIDE DEF t
    <3> QED
      BY <1>3, <1>5, <3>2
  <2> QED
    BY <2>1, <2>3 DEF CutStage
<1>6. CASE ~ c.eof /\ ~ over /\ c.next # F
  <2> DEFINE e == [c EXCEPT !.next = c.next + n, !.gate = z.gate, !.complete = z.complete]
             y == After(movie, x)
  <2>1. t = [c |-> e, made |-> z.made]
    BY <1>6, Zenon DEF Mmts!Turn
  <2>2. n \in 0 .. F - c.next
    <3>1. ChunkSize \in Nat \ {0} /\ F - c.next \in Nat
      BY FileAssumption, <1>1 DEF Mmts!MoviesAssumption
    <3> QED
      BY <3>1, LessOfTwo
  <2>3. z \in InHandler(movie) /\ z.made \in Seq(Packet)
    <3>1. z \in InHandler(movie)
      BY <1>1, <2>2, ConvertedIs
    <3> QED
      BY <3>1 DEF InHandler
  <2>4. y.c = e /\ y.made = x.made \o z.made
    <3> DEFINE new == x.made \o z.made
    <3>1. y = [c |-> e, made |-> new]
      <4>1. t.c = e /\ t.made = z.made
        <5> HIDE DEF e, z, t
        <5> QED
          BY <2>1
      <4> QED
        BY <1>3, <1>6, <4>1
    <3> HIDE DEF y, e, new
    <3>2. y.c = e /\ y.made = new
      BY <3>1, SMTT(30)
    <3> QED
      BY <3>2, SMTT(30) DEF new
  <2>5. /\ e.segment = c.segment /\ e.next = c.next + n /\ e.gate = z.gate
        /\ e.complete = z.complete /\ e.eof = c.eof
    <3> HIDE DEF n, z
    <3> QED
      BY <1>1, SMTT(30) DEF Conversions
  <2>6. CASE movie.segments = <<>>
    <3>1. x.made \in Seq(Unedited) /\ z.made \in Seq(Unedited)
      BY <1>1, <2>2, <2>6, ChunkUnedited DEF CutStage
    <3>2. x.made \o z.made \in Seq(Unedited)
      BY <3>1
    <3> QED
      BY <2>4, <2>6, <3>2 DEF CutStage
  <2>7. CASE movie.segments # <<>>
    <3> DEFINE s == c.segment
    <3>1. s \in 1 .. L
      BY <2>7, <1>1 DEF Mmts!NoSegment
    <3>2. /\ \A q \in 1 .. L : q < s => Done(x.made, q)
          /\ SoFar(x.made, s, c.next, c.gate, c.complete)
          /\ \A q \in s + 1 .. L : sought < movie.segments[q].program
      BY <1>6, <2>7 DEF CutStage
    <3>3. SoFar(x.made \o z.made, s, c.next + n, z.gate, z.complete)
      BY <1>1, <2>2, <3>1, <3>2, ChunkKeeps
    <3>4. \A q \in 1 .. L : q < s => Done(x.made \o z.made, q)
      BY <1>1, <2>3, <3>2, DoneGrows
    <3> HIDE DEF y, e, n, z, c
    <3>5. /\ \A q \in 1 .. L : q < y.c.segment \/ y.c.eof => Done(y.made, q)
          /\ SoFar(y.made, y.c.segment, y.c.next, y.c.gate, y.c.complete)
          /\ \A q \in y.c.segment + 1 .. L : sought < movie.segments[q].program
          /\ ~ y.c.eof
      BY <1>6, <2>4, <2>5, <3>2, <3>3, <3>4
    <3>6. CutStage(y)
      BY <2>7, <3>5, Zenon DEF CutStage
    <3> QED
      BY <3>6 DEF y
  <2> QED
    BY <2>6, <2>7
<1> QED
  BY <1>2, <1>4, <1>5, <1>6

\* The conversion begins in the segment of what is sought; those before it are over.
LEMMA OriginCuts ==
  ASSUME MmtsTypes
  PROVE  CutStage([c |-> Origin, made |-> <<>>])
<1> DEFINE x == [c |-> Origin, made |-> <<>>]
           L == Len(movie.segments)
           F == Len(movie.frags)
           s0 == Mmts!SegmentAt(movie, sought)
           t0 == Mmts!SourceTime(movie, sought)
<1>1. /\ movie \in Movies /\ L \in Nat /\ F \in Nat /\ sought \in Nat
      /\ movie.segments = <<>> <=> L = 0
  BY MovieParts, DurationTyped DEF MmtsTypes
<1>2. x.c = Origin /\ x.made = <<>> /\ x.made \in Seq(Packet)
  OBVIOUS
<1> HIDE DEF x
<1>3. CASE movie.segments = <<>>
  <2>1. x.made \in Seq(Unedited)
    BY <1>2
  <2>2. CutStage(x)
    BY <1>3, <2>1 DEF CutStage
  <2> QED
    BY <2>2 DEF x
<1>4. CASE movie.segments # <<>>
  <2>1. ASSUME NEW i \in 1 .. L
        PROVE  /\ movie.segments[i].program \in Nat
               /\ Mmts!EndOf(i) \in Nat /\ Mmts!EndOf(i) > movie.segments[i].program
    <3>1. PICK S \in Mmts!Segment : S = movie.segments[i] /\ S.start < S.end
      BY <1>1, MovieParts
    <3>2. PICK a \in Nat, b \in Nat, g \in Nat : a = S.start /\ b = S.end /\ g = S.program
      BY DEF Mmts!Segment
    <3>3. Mmts!EndOf(i) = g + b - a /\ a < b
      BY <3>1, <3>2 DEF Mmts!EndOf
    <3>4. Mmts!EndOf(i) \in Nat /\ Mmts!EndOf(i) > g
      BY <3>3
    <3> QED
      BY <3>1, <3>2, <3>4
  <2>2. \A list, p : list = <<>> => CutSoFar(list, p, Mmts!BeginOf(p)) /\ CutSoFar(list, L, F)
    BY DEF CutSoFar
  <2>3. CASE sought = Mmts!Duration(movie)
    <3>1. Origin = [Mmts!StartAt(movie, L, sought) EXCEPT !.eof = TRUE]
      BY <2>3, <1>4, Zenon DEF Origin, Mmts!ConversionAt
    <3>2. Origin.eof
      BY <3>1 DEF Mmts!StartAt
    <3>3. ASSUME NEW i \in 1 .. L PROVE ~ (sought < Mmts!EndOf(i))
      <4>1. L \in 1 .. L
        BY <1>1
      <4>2. sought = Mmts!EndOf(L)
        BY <2>3, <1>4, Zenon DEF Mmts!Duration, Mmts!EndOf
      <4>3. CASE i = L
        BY <4>1, <4>2, <4>3, <2>1
      <4>4. CASE i # L
        <5>1. L \in i + 1 .. L
          BY <4>4, <1>1
        <5>2. Mmts!EndOf(i) <= movie.segments[L].program
          BY <5>1, SegmentsFollow
        <5>3. /\ movie.segments[L].program \in Nat /\ Mmts!EndOf(L) \in Nat
              /\ Mmts!EndOf(L) > movie.segments[L].program /\ Mmts!EndOf(i) \in Nat
          BY <4>1, <2>1
        <5> HIDE DEF L
        <5> QED
          BY <4>2, <5>2, <5>3
      <4> QED
        BY <4>3, <4>4
    <3>4. \A i \in 1 .. L : Done(x.made, i)
      BY <3>3 DEF Done
    <3>5. CutStage(x)
      BY <1>2, <1>4, <2>2, <3>2, <3>4 DEF CutStage
    <3> QED
      BY <3>5 DEF x
  <2>4. CASE sought # Mmts!Duration(movie)
    <3>1. Origin = Mmts!StartAt(movie, s0, t0)
      BY <2>4, <1>4, Zenon DEF Origin, Mmts!ConversionAt
    <3>2. /\ s0 \in 1 .. L
          /\ s0 = L \/ sought < movie.segments[s0 + 1].program
          /\ s0 > 1 => sought >= movie.segments[s0].program
      BY <1>1, <1>4, SegmentIs, Zenon
    <3>3. Origin.segment = s0 /\ Origin.eof = FALSE
      BY <3>1 DEF Mmts!StartAt
    <3> HIDE DEF s0, t0, L, F
    <3>4. movie.segments[s0].program <= sought
      <4>1. CASE s0 = 1
        <5>1. movie.segments[s0].program = 0
          BY <1>1, <3>2, <4>1, MovieParts DEF L
        <5> QED
          BY <5>1, <1>1
      <4>2. CASE s0 # 1
        BY <1>1, <2>1, <3>2, <4>2
      <4> QED
        BY <4>1, <4>2
    <3>5. Mmts!BeginOf(s0) = Mmts!FindSourceOffset(movie, t0)
      BY <3>4, Zenon DEF Mmts!BeginOf, t0
    <3>6. SoFar(x.made, Origin.segment, Origin.next, Origin.gate, Origin.complete)
      <4>1. CutSoFar(x.made, s0, Mmts!BeginOf(s0))
        BY <1>2, <2>2
      <4> QED
        BY <3>1, <3>2, <3>5, <4>1, SegmentBegins DEF L
    <3>7. ASSUME NEW i \in 1 .. L, i < s0 PROVE Done(x.made, i)
      <4>1. s0 \in i + 1 .. L
        BY <3>7, <3>2, <1>1
      <4>2. Mmts!EndOf(i) <= movie.segments[s0].program
        BY <4>1, SegmentsFollow DEF L
      <4>3. ~ (sought < Mmts!EndOf(i))
        BY <4>2, <3>2, <3>4, <2>1, <1>1
      <4> QED
        BY <4>3 DEF Done
    <3>8. ASSUME NEW i \in s0 + 1 .. L PROVE sought < movie.segments[i].program
      <4>1. s0 + 1 \in 1 .. L /\ i \in 1 .. L /\ s0 # L
        BY <3>2, <1>1
      <4>2. sought < movie.segments[s0 + 1].program
        BY <4>1, <3>2
      <4>3. CASE i = s0 + 1
        BY <4>2, <4>3
      <4>4. CASE i # s0 + 1
        <5>1. i \in s0 + 1 + 1 .. L
          BY <4>4, <3>2, <1>1
        <5>2. Mmts!EndOf(s0 + 1) <= movie.segments[i].program
          BY <4>1, <5>1, SegmentsFollow DEF L
        <5>3. /\ movie.segments[s0 + 1].program \in Nat /\ Mmts!EndOf(s0 + 1) \in Nat
              /\ Mmts!EndOf(s0 + 1) > movie.segments[s0 + 1].program
              /\ movie.segments[i].program \in Nat
          BY <4>1, <2>1
        <5> QED
          BY <4>2, <5>2, <5>3, <1>1
      <4> QED
        BY <4>3, <4>4
    <3>9. CutStage(x)
      BY <1>2, <1>4, <3>3, <3>6, <3>7, <3>8 DEF CutStage, L
    <3> QED
      BY <3>9 DEF x
  <2> QED
    BY <2>3, <2>4
<1> QED
  BY <1>3, <1>4

\* What is converted from the last seek on is cut right.
LEMMA ImageIsCut ==
  ASSUME MmtsTypes, image = Mmts!Rest(movie, Origin)
  PROVE  Mmts!CutRight
<1> DEFINE N == Mmts!TurnsMax(movie)
           C == Mmts!Course(movie, Origin)
           T == {k \in 0 .. N : CutStage(C[k])}
<1>1. movie \in Movies /\ Origin \in Conversions(movie) /\ N \in Nat
  BY OriginTyped, TurnsMaxTyped DEF MmtsTypes
<1>2. /\ C \in [0 .. N -> Stage(movie)] /\ C[0] = [c |-> Origin, made |-> <<>>]
      /\ \A k \in 1 .. N : C[k] = After(movie, C[k - 1])
  BY <1>1, CourseIs
<1>3. C[N].c.eof /\ image = C[N].made
  BY <1>1, CourseEnds DEF Mmts!Rest
<1> HIDE DEF N, C
<1>4. 0 \in T
  BY <1>1, <1>2, OriginCuts
<1>5. ASSUME NEW k \in 1 .. N, k - 1 \in T PROVE k \in T
  <2>1. k - 1 \in 0 .. N /\ k \in 0 .. N
    BY <1>1
  <2>2. C[k - 1] \in Stage(movie) /\ CutStage(C[k - 1]) /\ C[k] = After(movie, C[k - 1])
    BY <2>1, <1>2, <1>5
  <2>3. CutStage(C[k])
    BY <2>2, TurnCuts
  <2> QED
    BY <2>1, <2>3
<1>6. CutStage(C[N])
  <2>1. \A k \in 0 .. N : k \in T
    <3> HIDE DEF T
    <3> QED
      BY <1>1, <1>4, <1>5, UpTo
  <2>2. N \in 0 .. N
    BY <1>1
  <2> QED
    BY <2>1, <2>2
<1>7. CASE movie.segments = <<>>
  <2>1. image \in Seq(Unedited)
    BY <1>3, <1>6, <1>7 DEF CutStage
  <2>2. ASSUME NEW k \in 1 .. Len(image) PROVE image[k].segment = Mmts!NoSegment
    <3>1. image[k] \in Unedited
      BY <2>1
    <3> QED
      BY <3>1 DEF Unedited
  <2>3. 1 .. Len(movie.segments) = {}
    BY <1>7
  <2> QED
    BY <2>2, <2>3 DEF Mmts!CutRight
<1>8. CASE movie.segments # <<>>
  <2>1. /\ \A s \in 1 .. Len(movie.segments) : Done(image, s)
        /\ CutSoFar(image, Len(movie.segments), Len(movie.frags))
    BY <1>3, <1>6, <1>8 DEF CutStage
  <2> QED
    BY <2>1, Zenon DEF Mmts!CutRight, Done, CutSoFar
<1> QED
  BY <1>7, <1>8

\* A recording is converted as its edit list says (CMmtsEditGate, AdvanceEditSegment,
\* SetEditSegment): times in the program's range, in order, of each access unit
\* nothing without its beginning or past a loss, and all the video of each segment;
\* for all recordings, edit lists and chunk sizes, from whatever was sought.
THEOREM CutHolds == Spec => []CutRight
<1> DEFINE I == kind = "mmts" => MmtsInv /\ ImageInv
<1>1. Init => I
  <2> SUFFICES ASSUME Init, kind = "mmts" PROVE MmtsInv /\ ImageInv
    OBVIOUS
  <2>1. Mmts!Init
    BY DEF Init
  <2>2. /\ MmtsInv /\ conv = Origin /\ output = <<>> /\ offset = 0 /\ position = 0
        /\ image = Mmts!Rest(movie, conv)
    BY <2>1, MmtsInit DEF Mmts!Init, Origin
  <2> QED
    BY <2>2, ImageAtSeek DEF MmtsInv
<1>2. I /\ [Next]_vars => I'
  <2> SUFFICES ASSUME I, [Next]_vars, kind' = "mmts" PROVE (MmtsInv /\ ImageInv)'
    OBVIOUS
  <2>1. CASE Next
    <3>1. kind' = kind
      BY <2>1 DEF Next
    <3>2. MmtsInv /\ ImageInv /\ Mmts!Next
      BY <2>1, <3>1 DEF Next
    <3> QED
      BY <3>2, MmtsNext, NextIsPlain
  <2>2. CASE UNCHANGED vars
    <3>1. /\ kind' = kind
          /\ UNCHANGED <<movie, conv, output, offset, position, sought, rewind, image>>
      BY <2>2 DEF vars, forMmts, read
    <3> QED
      BY <3>1, ImageStays DEF MmtsInv, MmtsTypes, Mmts!WindowReaches
  <2> QED
    BY <2>1, <2>2
<1>3. I => CutRight
  BY ImageIsCut DEF MmtsInv, ImageInv, CutRight
<1> QED
  BY <1>1, <1>2, <1>3, PTL DEF Spec

-----------------------------------------------------------------------------
(* The search for a time *)

LEMMA Sums ==
  ASSUME NEW N \in Nat, NEW s, \A k \in 1 .. N : s[k] \in Int
  PROVE  \E g \in [0 .. N -> Int] : g[0] = 0 /\ \A k \in 1 .. N : g[k] = g[k - 1] + s[k]
<1> DEFINE S == Int
           a == 0
           h == [k \in 1 .. N |-> [x \in S |-> x + s[k]]]
<1>1. a \in S /\ h \in [1 .. N -> [S -> S]]
  BY SMT
<1> HIDE DEF h, S, a
<1>2. PICK g \in [0 .. N -> S] : g[0] = a /\ \A k \in 1 .. N : g[k] = h[k][g[k - 1]]
  <2>1. \E g \in [0 .. N -> S] : Computes(g, N, a, h)
    BY <1>1, Recursion, Zenon
  <2> QED
    BY <2>1 DEF Computes
<1>3. \A k \in 1 .. N : g[k - 1] \in S
  BY <1>2
<1>4. \A k \in 1 .. N : g[k] = g[k - 1] + s[k]
  BY <1>2, <1>3 DEF h
<1> QED
  BY <1>2, <1>4 DEF S, a

LEMMA ClocksAre ==
  ASSUME NEW steps \in [1 .. Last -> Steps]
  PROVE  /\ Ts!ClocksOf(steps) \in [Ts!Clocks -> Int]
         /\ \A k \in 1 .. Last : Ts!ClocksOf(steps)[k] - Ts!ClocksOf(steps)[k - 1] \in Steps
<1> DEFINE F == Ts!ClocksOf(steps)
<1>1. Last \in Nat /\ Steps \subseteq Int
  BY FileAssumption DEF Ts!SeekAssumption
<1>2. \A k \in 1 .. Last : steps[k] \in Steps /\ steps[k] \in Int
  BY <1>1
<1>3. PICK g \in [0 .. Last -> Int] :
        g[0] = 0 /\ \A k \in 1 .. Last : g[k] = g[k - 1] + steps[k]
  BY <1>1, <1>2, Sums
<1>4. \A k \in 1 .. Last : k - 1 \in 0 .. Last /\ k # 0
  BY <1>1
<1>6. g = [k \in 0 .. Last |-> IF k = 0 THEN 0 ELSE g[k - 1] + steps[k]]
  BY <1>1, <1>3
<1>7. F = [k \in Ts!Clocks |-> IF k = 0 THEN 0 ELSE F[k - 1] + steps[k]]
  BY <1>6, Zenon DEF Ts!ClocksOf, Ts!Clocks
<1> HIDE DEF F
<1>8. F[0] = 0 /\ \A k \in 1 .. Last : F[k] = F[k - 1] + steps[k]
  BY <1>7, <1>1 DEF Ts!Clocks
<1> DEFINE T == {k \in 0 .. Last : F[k] \in Int}
<1>9. 0 \in T
  BY <1>8, <1>1
<1>10. ASSUME NEW k \in 1 .. Last, k - 1 \in T PROVE k \in T
  <2>1. F[k - 1] \in Int /\ k \in 0 .. Last
    BY <1>10, <1>1
  <2>2. F[k] \in Int
    BY <1>2, <1>8, <2>1
  <2> QED
    BY <2>1, <2>2
<1>11. \A k \in 0 .. Last : k \in T
  <2> HIDE DEF T
  <2> QED
    BY <1>1, <1>9, <1>10, UpTo
<1>12. F \in [Ts!Clocks -> Int]
  <2>1. \A k \in Ts!Clocks : F[k] \in Int
    BY <1>11 DEF Ts!Clocks
  <2>2. F = [k \in Ts!Clocks |-> F[k]]
    BY <1>7
  <2> QED
    BY <2>1, <2>2
<1>13. ASSUME NEW k \in 1 .. Last PROVE F[k] - F[k - 1] \in Steps
  <2>1. F[k - 1] \in Int
    BY <1>4, <1>11
  <2>2. F[k] - F[k - 1] = steps[k]
    BY <2>1, <1>2, <1>8
  <2> QED
    BY <2>2, <1>2
<1> QED
  BY <1>12, <1>13 DEF F

LEMMA LeastOfTwo ==
  ASSUME NEW a \in Int, NEW b \in Int
  PROVE  Ts!Min({a, b}) = IF a <= b THEN a ELSE b
<1>1. \E x \in {a, b} : \A y \in {a, b} : x <= y
  OBVIOUS
<1>2. /\ Ts!Min({a, b}) \in {a, b}
      /\ \A y \in {a, b} : Ts!Min({a, b}) <= y
  BY <1>1, Zenon DEF Ts!Min
<1> QED
  BY <1>2

LEMMA GreatestOfTwo ==
  ASSUME NEW a \in Int, NEW b \in Int
  PROVE  Ts!Max({a, b}) = IF a >= b THEN a ELSE b
<1>1. \E x \in {a, b} : \A y \in {a, b} : x >= y
  OBVIOUS
<1>2. /\ Ts!Max({a, b}) \in {a, b}
      /\ \A y \in {a, b} : Ts!Max({a, b}) >= y
  BY <1>1, Zenon DEF Ts!Max
<1> QED
  BY <1>2

\* Where the clocks are counted from: while places are tried the goal is what is left
\* to move behind prev, and prev is the clock that was read last once the place is near
\* enough, for the place of an attempt made again is not; while the stream is read on,
\* what is left is to the clock read last, which is not past the goal by more than
\* one clock.
SeekInv ==
  /\ clk \in [Ts!Clocks -> Int] /\ \A k \in 1 .. Last : clk[k] - clk[k - 1] \in Steps
  /\ goal \in Int /\ Ts!Landed
  /\ phase = "search" =>
       /\ at \in Ts!Clocks /\ {pos, prev, msec, rate} \subseteq Int
       /\ goal = prev + msec + Tol
       /\ ~ Ts!Outside(msec) => prev = clk[at]
  /\ phase = "forward" =>
       /\ at \in Ts!Clocks /\ {prev, msec, next} \subseteq Int
       /\ goal = prev + msec /\ next = goal - clk[at]
       /\ \E s \in Steps \union {Store} : Store - next <= s

LEMMA SeekNumbers ==
  /\ Last \in Nat \ {0} /\ Gap \in Nat \ {0} /\ Second \in Nat \ {0} /\ Tol \in Nat
  /\ Store \in 0 .. Tol /\ Steps \subseteq Int /\ Wanted \subseteq Nat /\ Ts!Size \in Nat
<1>1. \A a, b \in Nat : (a + 1) * b \in Nat
  OBVIOUS
<1> QED
  BY <1>1, FileAssumption DEF Ts!SeekAssumption, Ts!Size

LEMMA RateTyped ==
  ASSUME NEW c \in [Ts!Clocks -> Int]
  PROVE  Ts!GetRate(c) \in Int
<1>1. c[Last] - c[0] \in Int
  BY SeekNumbers DEF Ts!Clocks
<1>2. \A a, b \in Nat : \A d \in Int : d > 0 => (a * b) \div d \in Int
  OBVIOUS
<1> QED
  BY <1>1, <1>2, SeekNumbers DEF Ts!GetRate

LEMMA SeekInit == Ts!Init => SeekInv
<1> SUFFICES ASSUME Ts!Init PROVE SeekInv
  OBVIOUS
<1>1. /\ clk \in [Ts!Clocks -> Int]
      /\ \A k \in 1 .. Last : clk[k] - clk[k - 1] \in Steps
  BY ClocksAre DEF Ts!Init
<1>2. at \in Ts!Clocks /\ clk[at] \in Int /\ at \in Nat
  BY <1>1 DEF Ts!Init, Ts!Clocks
<1>3. pos \in Int
  <2>1. \A a, b \in Nat : a * b + 1 \in Int /\ (a + 1) * b \in Int
    OBVIOUS
  <2> QED
    BY <2>1, <1>2, SeekNumbers DEF Ts!Init
<1>4. rate \in Int
  BY <1>1, RateTyped DEF Ts!Init
<1>5. PICK w \in Int : msec = w - Tol /\ goal = prev + w
  <2>1. PICK d \in Wanted : \E w \in {d, -d} : msec = w - Tol /\ goal = prev + w
    BY DEF Ts!Init
  <2>2. d \in Int
    BY SeekNumbers
  <2> QED
    BY <2>1, <2>2
<1>6. phase = "search" /\ prev = clk[at]
  BY DEF Ts!Init
<1> QED
  BY <1>1, <1>2, <1>3, <1>4, <1>5, <1>6, SeekNumbers DEF SeekInv, Ts!Landed

\* The place to try is in the file, and the clock behind it has a number.
LEMMA PlaceTyped ==
  ASSUME pos \in Int, rate \in Int, msec \in Int
  PROVE  Ts!Approx \in Nat /\ Ts!FirstClock(Ts!Approx) \in Nat
<1> DEFINE q == Ts!Quot(rate * msec, Second)
           a == pos + q
           b == Ts!Size - rate * 2
<1>1. q \in Int
  <2>1. \A x \in Int, d \in Nat \ {0} : x \div d \in Int /\ -((-x) \div d) \in Int
    OBVIOUS
  <2>2. rate * msec \in Int
    OBVIOUS
  <2> QED
    BY <2>1, <2>2, SeekNumbers DEF Ts!Quot
<1>2. a \in Int /\ b \in Int
  BY <1>1, SeekNumbers
<1>3. Ts!Min({a, b}) \in Int
  BY <1>2, LeastOfTwo
<1>4. Ts!Approx = Ts!Max({0, Ts!Min({a, b})})
  BY Zenon DEF Ts!Approx
<1> HIDE DEF q, a, b
<1>5. Ts!Approx \in Nat
  BY <1>3, <1>4, GreatestOfTwo
<1>6. \A p \in Nat, d \in Nat \ {0} : (p + d - 1) \div d \in Nat
  OBVIOUS
<1> QED
  BY <1>5, <1>6, SeekNumbers DEF Ts!FirstClock

\* An attempt counts what it moved from the clock that was kept.
LEMMA AttemptKeeps == SeekInv /\ Ts!Attempt => SeekInv'
<1> SUFFICES ASSUME SeekInv, Ts!Attempt PROVE SeekInv'
  OBVIOUS
<1> DEFINE c == Ts!FirstClock(Ts!Approx)
           n == msec - (clk[c] - prev)
<1>1. /\ at \in Ts!Clocks /\ {pos, prev, msec, rate} \subseteq Int
      /\ goal = prev + msec + Tol /\ goal \in Int
      /\ clk \in [Ts!Clocks -> Int] /\ phase = "search" /\ phase' = phase
      /\ clk' = clk /\ goal' = goal
  BY DEF SeekInv, Ts!Attempt, Ts!Searching, Ts!file
<1>2. c \in Ts!Clocks /\ Ts!Approx \in Nat
  <2>1. c <= Last
    BY DEF Ts!Attempt
  <2> QED
    BY <1>1, <2>1, PlaceTyped, SeekNumbers DEF Ts!Clocks
<1>3. clk[c] \in Int /\ n \in Int
  BY <1>1, <1>2
<1>4. Ts!Slower \in Int /\ Ts!Faster \in Int
  BY <1>1 DEF Ts!Slower, Ts!Faster
<1>5. at' = c
  BY DEF Ts!Attempt
<1>6. SUFFICES /\ {pos', prev', msec', rate'} \subseteq Int
               /\ goal = prev' + msec' + Tol
               /\ ~ Ts!Outside(msec') => prev' = clk[c]
  BY <1>1, <1>2, <1>5 DEF SeekInv, Ts!Landed, Ts!Outside
<1> HIDE DEF c
<1>7. CASE Ts!Overshot(msec, n)
  <2>1. rate' = Ts!Slower /\ pos' = pos /\ prev' = prev /\ msec' = msec
    BY <1>7, Zenon DEF Ts!Attempt, c
  <2>2. Ts!Outside(msec)
    BY DEF Ts!Attempt, Ts!Searching
  <2> QED
    BY <1>1, <1>4, <2>1, <2>2
<1>8. CASE ~ Ts!Overshot(msec, n)
  <2>1. /\ pos' = Ts!Approx /\ prev' = clk[c] /\ msec' = n
        /\ rate' = IF Ts!FellShort(msec, n) THEN Ts!Faster ELSE rate
    BY <1>8, Zenon DEF Ts!Attempt, Ts!Keep, c
  <2>2. rate' \in Int
    BY <1>1, <1>4, <2>1
  <2>3. goal = clk[c] + n + Tol
    BY <1>1, <1>3, SeekNumbers
  <2> QED
    BY <1>1, <1>2, <1>3, <2>1, <2>2, <2>3
<1> QED
  BY <1>7, <1>8

\* Reading on begins at the clock that is counted from.
LEMMA SearchEndKeeps == SeekInv /\ Ts!SearchEnds => SeekInv'
<1> SUFFICES ASSUME SeekInv, Ts!SearchEnds PROVE SeekInv'
  OBVIOUS
<1>1. /\ at \in Ts!Clocks /\ {prev, msec} \subseteq Int
      /\ goal = prev + msec + Tol /\ goal \in Int
      /\ ~ Ts!Outside(msec) => prev = clk[at]
      /\ clk' = clk /\ goal' = goal /\ at' = at /\ prev' = prev
  BY DEF SeekInv, Ts!SearchEnds, Ts!file
<1>2. clk \in [Ts!Clocks -> Int] /\ \A k \in 1 .. Last : clk[k] - clk[k - 1] \in Steps
  BY DEF SeekInv
<1>3. CASE Ts!Outside(msec)
  <2>1. phase' = "done" /\ found' = FALSE
    BY <1>3 DEF Ts!SearchEnds, Ts!Return
  <2> QED
    BY <1>1, <1>2, <2>1 DEF SeekInv, Ts!Landed
<1>4. CASE ~ Ts!Outside(msec)
  <2>1. phase' = "forward" /\ msec' = msec + Tol /\ next' = msec + Tol
    BY <1>4 DEF Ts!SearchEnds, Ts!Ahead
  <2>2. Store - (msec + Tol) <= Store
    BY <1>1, <1>4, SeekNumbers DEF Ts!Outside
  <2>3. goal = prev + (msec + Tol) /\ msec + Tol \in Int /\ prev = clk[at]
    BY <1>1, <1>4, SeekNumbers
  <2>4. msec + Tol = goal - clk[at]
    BY <2>3, <1>1
  <2> QED
    BY <1>1, <1>2, <2>1, <2>2, <2>3, <2>4 DEF SeekInv, Ts!Landed
<1> QED
  BY <1>3, <1>4

\* Reading on moves one clock nearer to the goal, or past it by less than that.
LEMMA ForwardKeeps == SeekInv /\ Ts!Forward => SeekInv'
<1> SUFFICES ASSUME SeekInv, Ts!Forward PROVE SeekInv'
  OBVIOUS
<1>1. /\ at \in Ts!Clocks /\ {prev, msec, next} \subseteq Int
      /\ goal = prev + msec /\ next = goal - clk[at] /\ goal \in Int
      /\ clk \in [Ts!Clocks -> Int]
      /\ \A k \in 1 .. Last : clk[k] - clk[k - 1] \in Steps
  BY DEF SeekInv, Ts!Forward
<1>2. /\ clk' = clk /\ goal' = goal /\ at' = at + 1 /\ prev' = prev /\ msec' = msec
      /\ next' = msec - (clk[at + 1] - prev)
      /\ phase = "forward" /\ phase' = phase /\ Store < next /\ at < Last
  BY DEF Ts!Forward, Ts!file
<1>3. at + 1 \in 1 .. Last /\ at + 1 \in Ts!Clocks /\ at \in Int /\ (at + 1) - 1 = at
  BY <1>1, <1>2, SeekNumbers DEF Ts!Clocks
<1>4. PICK s \in Steps : s = clk[at + 1] - clk[at]
  <2>1. clk[at + 1] - clk[(at + 1) - 1] \in Steps
    BY <1>1, <1>3
  <2> QED
    BY <2>1, <1>3
<1>5. PICK a \in Int, b \in Int : a = clk[at] /\ b = clk[at + 1]
  BY <1>1, <1>3
<1>6. next' = goal - b /\ next' \in Int
  BY <1>1, <1>2, <1>5
<1>7. Store - next' <= s
  BY <1>1, <1>2, <1>4, <1>5, <1>6, SeekNumbers
<1> QED
  BY <1>1, <1>2, <1>3, <1>5, <1>6, <1>7 DEF SeekInv, Ts!Landed

\* What the search returns: the place it is at, or nothing.
LEMMA ForwardEndKeeps == SeekInv /\ Ts!ForwardEnds => SeekInv'
<1> SUFFICES ASSUME SeekInv, Ts!ForwardEnds PROVE SeekInv'
  OBVIOUS
<1>1. /\ at \in Ts!Clocks /\ next \in Int /\ next = goal - clk[at] /\ goal \in Int
      /\ clk \in [Ts!Clocks -> Int]
      /\ \A k \in 1 .. Last : clk[k] - clk[k - 1] \in Steps
      /\ next <= Store
      /\ clk' = clk /\ goal' = goal /\ at' = at /\ phase' = "done"
  BY DEF SeekInv, Ts!ForwardEnds, Ts!Return, Ts!file
<1>2. PICK s \in Steps \union {Store} : Store - next <= s
  BY DEF SeekInv, Ts!ForwardEnds
<1>3. clk[at] \in Int /\ s \in Int /\ Store \in Int
  BY <1>1, SeekNumbers
<1>4. clk[at] - (goal - Store) \in 0 .. s
  BY <1>1, <1>2, <1>3
<1> QED
  BY <1>1, <1>4 DEF SeekInv, Ts!Landed

LEMMA SeekNext == SeekInv /\ Ts!Next => SeekInv'
<1> SUFFICES ASSUME SeekInv, Ts!Next PROVE SeekInv'
  OBVIOUS
<1>1. /\ clk \in [Ts!Clocks -> Int] /\ \A k \in 1 .. Last : clk[k] - clk[k - 1] \in Steps
      /\ goal \in Int
  BY DEF SeekInv
<1>2. CASE Ts!AtAnEnd
  <2>1. phase' = "end" /\ clk' = clk /\ goal' = goal
    BY <1>2 DEF Ts!AtAnEnd, Ts!file
  <2> QED
    BY <1>1, <2>1 DEF SeekInv, Ts!Landed
<1>3. CASE Ts!AttemptFails
  <2>1. phase' = "done" /\ found' = FALSE /\ clk' = clk /\ goal' = goal
    BY <1>3 DEF Ts!AttemptFails, Ts!Return, Ts!file
  <2> QED
    BY <1>1, <2>1 DEF SeekInv, Ts!Landed
<1>4. CASE Ts!ForwardFails
  <2>1. phase' = "done" /\ found' = FALSE /\ clk' = clk /\ goal' = goal
    BY <1>4 DEF Ts!ForwardFails, Ts!Return, Ts!file
  <2> QED
    BY <1>1, <2>1 DEF SeekInv, Ts!Landed
<1>5. CASE Ts!Returned
  BY <1>5 DEF SeekInv, Ts!Landed, Ts!Outside, Ts!Returned, Ts!vars
<1> QED
  BY <1>2, <1>3, <1>4, <1>5, AttemptKeeps, SearchEndKeeps, ForwardKeeps, ForwardEndKeeps
  DEF Ts!Next

\* When a seek by a time returns true at a clock (CTsSender::Seek(int)), that clock is
\* at most INITIAL_STORE_MSEC before the goal and behind that place by no more than one
\* clock, for all files, though their clocks jump or go back, wherever playback was,
\* for all distances, tolerances and numbers of attempts: the time that was moved is
\* counted without a gap over attempts kept, made again and read on.
THEOREM SeekIsNearItsGoal == Spec => []SeekLands
<1> DEFINE I == kind = "ts" => SeekInv
<1>1. Init => I
  BY SeekInit DEF Init
<1>2. I /\ [Next]_vars => I'
  <2> SUFFICES ASSUME I, [Next]_vars, kind' = "ts" PROVE SeekInv'
    OBVIOUS
  <2>1. CASE Next
    <3>1. kind' = kind
      BY <2>1 DEF Next
    <3>2. SeekInv /\ Ts!Next
      BY <2>1, <3>1 DEF Next
    <3> QED
      BY <3>2, SeekNext
  <2>2. CASE UNCHANGED vars
    <3>1. kind' = kind /\ UNCHANGED forTs
      BY <2>2 DEF vars
    <3>2. UNCHANGED <<clk, at, pos, prev, msec, next, rate, phase, found, goal>>
      BY <3>1 DEF forTs
    <3> QED
      BY <3>1, <3>2 DEF SeekInv, Ts!Landed, Ts!Outside
  <2> QED
    BY <2>1, <2>2
<1>3. I => SeekLands
  BY DEF SeekInv, SeekLands
<1> QED
  BY <1>1, <1>2, <1>3, PTL DEF Spec

-----------------------------------------------------------------------------
(* Packets and bytes *)

LEMMA UnitTyped == UnitSize \in Nat /\ UnitSize > 1 /\ CcMod \in Nat \ {0}
  BY FileAssumption DEF Sending!TransferAssumption

LEMMA Times == ASSUME NEW u \in Nat, NEW i \in Int, NEW j \in Int, i <= j PROVE u * i <= u * j
<1>1. u * (j - i) >= 0
  <2>1. j - i >= 0 /\ j - i \in Int
    OBVIOUS
  <2> QED
    BY <2>1
<1>2. u * (j - i) = u * j - u * i
  OBVIOUS
<1> QED
  BY <1>1, <1>2

LEMMA Parts ==
  ASSUME NEW u \in Nat \ {0}, NEW p \in Nat
  PROVE  p \div u \in Nat /\ p % u \in 0 .. u - 1 /\ p = u * (p \div u) + (p % u)
OBVIOUS

LEMMA PartsOnly ==
  ASSUME NEW u \in Nat \ {0}, NEW i \in Nat, NEW r \in 0 .. u - 1
  PROVE  (u * i + r) \div u = i /\ (u * i + r) % u = r
<1> DEFINE p == u * i + r
<1>1. p \in Nat
  OBVIOUS
<1> HIDE DEF p
<1>2. PICK j \in Nat, s \in 0 .. u - 1 : j = p \div u /\ s = p % u /\ p = u * j + s
  BY <1>1, Parts
<1>3. ~ i < j
  <2> SUFFICES ASSUME i + 1 <= j PROVE FALSE
    OBVIOUS
  <2>1. u * (i + 1) <= u * j
    BY Times
  <2>2. u * (i + 1) = u * i + u
    OBVIOUS
  <2> QED
    BY <2>1, <2>2, <1>2 DEF p
<1>4. ~ j < i
  <2> SUFFICES ASSUME j + 1 <= i PROVE FALSE
    OBVIOUS
  <2>1. u * (j + 1) <= u * i
    BY Times
  <2>2. u * (j + 1) = u * j + u
    OBVIOUS
  <2> QED
    BY <2>1, <2>2, <1>2 DEF p
<1>5. i = j
  BY <1>2, <1>3, <1>4
<1>6. u * i = u * j
  BY <1>5
<1> QED
  BY <1>2, <1>5, <1>6 DEF p

LEMMA Multiple == ASSUME NEW u \in Nat \ {0}, NEW p \in Nat, p % u = 0 PROVE \E i \in Nat : p = u * i
<1>1. p \div u \in Nat /\ p = u * (p \div u) + (p % u)
  BY Parts
<1>2. PICK i \in Nat : i = p \div u
  BY <1>1
<1> QED
  BY <1>1, <1>2

\* A packet's bytes, and the packet before it.
LEMMA Block ==
  ASSUME NEW u \in Nat \ {0}, NEW e \in Nat, e % u = 0, NEW p \in Nat
  PROVE  /\ (e + u) % u = 0 /\ (e + u) \div u = e \div u + 1
         /\ p \in e .. e + u - 1 => p \div u = e \div u /\ (p % u = 0 => p = e)
         /\ p % u = 0 /\ p < e => p + u <= e
<1>1. PICK i \in Nat : i = e \div u /\ e = u * i
  BY Parts
<1>2. u * (i + 1) = u * i + u /\ 0 \in 0 .. u - 1
  OBVIOUS
<1>3. (e + u) % u = 0 /\ (e + u) \div u = i + 1
  <2>1. (u * (i + 1) + 0) \div u = i + 1 /\ (u * (i + 1) + 0) % u = 0
    BY <1>2, PartsOnly
  <2>2. e + u = u * (i + 1) + 0
    BY <1>1, <1>2
  <2> QED
    BY <2>1, <2>2
<1>4. ASSUME p \in e .. e + u - 1 PROVE p \div u = i /\ (p % u = 0 => p = e)
  <2>1. PICK r \in 0 .. u - 1 : p = u * i + r
    <3>1. p - e \in 0 .. u - 1 /\ p = e + (p - e)
      BY <1>4
    <3> QED
      BY <3>1, <1>1
  <2>2. p \div u = i /\ p % u = r
    BY <2>1, PartsOnly
  <2> QED
    BY <2>1, <2>2, <1>1
<1>5. ASSUME p % u = 0, p < e PROVE p + u <= e
  <2>1. PICK j \in Nat : p = u * j
    BY <1>5, Multiple
  <2>2. ~ i <= j
    <3> SUFFICES ASSUME i <= j PROVE FALSE
      OBVIOUS
    <3>1. u * i <= u * j
      BY Times
    <3> QED
      BY <3>1, <2>1, <1>1, <1>5
  <2>3. u * (j + 1) <= u * i
    BY <2>2, Times
  <2>4. u * (j + 1) = u * j + u
    OBVIOUS
  <2> QED
    BY <2>1, <2>3, <2>4, <1>1
<1> QED
  BY <1>1, <1>3, <1>4, <1>5

\* The whole packets from h to c.
LEMMA BlocksTo ==
  ASSUME NEW u \in Nat \ {0}, NEW h \in Nat, NEW c \in Nat, h <= c
  PROVE  LET n == (c - h) \div u
         IN  /\ n \in Nat /\ h + n * u <= c /\ c = h + n * u + ((c - h) % u)
             /\ (c - h) % u \in 0 .. u - 1
             /\ h % u = 0 /\ c % u = 0 => h + n * u = c
<1> DEFINE d == c - h
<1>1. d \in Nat
  OBVIOUS
<1> HIDE DEF d
<1>2. PICK n \in Nat, r \in 0 .. u - 1 : n = d \div u /\ r = d % u /\ d = u * n + r
  BY <1>1, Parts
<1>3. u * n = n * u /\ n * u \in Nat
  OBVIOUS
<1>4. c = h + n * u + r /\ h + n * u <= c
  BY <1>2, <1>3 DEF d
<1>5. ASSUME h % u = 0, c % u = 0 PROVE r = 0
  <2>1. PICK i \in Nat, j \in Nat : h = u * i /\ c = u * j
    BY <1>5, Multiple
  <2>2. ~ j < i
    <3> SUFFICES ASSUME j + 1 <= i PROVE FALSE
      OBVIOUS
    <3>1. u * (j + 1) <= u * i
      BY Times
    <3>2. u * (j + 1) = u * j + u
      OBVIOUS
    <3> QED
      BY <3>1, <3>2, <2>1
  <2>3. d = u * (j - i) + 0 /\ j - i \in Nat
    <3>1. u * (j - i) = u * j - u * i
      OBVIOUS
    <3> QED
      BY <3>1, <2>1, <2>2 DEF d
  <2>4. (u * (j - i) + 0) % u = 0
    <3>1. 0 \in 0 .. u - 1
      OBVIOUS
    <3> QED
      BY <3>1, <2>3, PartsOnly
  <2> QED
    BY <2>3, <2>4, <1>2
<1> QED
  BY <1>2, <1>3, <1>4, <1>5 DEF d

-----------------------------------------------------------------------------
(* What is sent of a transport stream *)

\* Of a stream s of which a run of bytes was gone through, from fr up to e and but for
\* lo: the packets that are whole, those the filter drops, and whether it is in a table
\* of the schedule; and which bytes are in no packet that was sent or belongs to a table.
Item == [at : Nat, cc : Int]
Kind(s, p) == s[p \div UnitSize + 1].eit
Inside(fr, lo, e) == {p \in fr .. e - 1 : p % UnitSize = 0 /\ p \notin lo}
DroppedIn(s, w, p) ==
  \E q \in w : /\ q <= p /\ Kind(s, q) = "schedule" /\ Kind(s, p) # "none"
               /\ \A r \in w : q < r /\ r <= p => Kind(s, r) # "present"
InTable(s, w) ==
  \E q \in w : Kind(s, q) = "schedule" /\ \A r \in w : q < r => Kind(s, r) # "present"
UnitsOf(o) == {o[k].at : k \in 1 .. Len(o)}
Covers(o, b) == \E k \in 1 .. Len(o) : o[k].at <= b /\ b < o[k].at + UnitSize
Missed(s, fr, lo, o, e) ==
  {b \in fr .. e - 1 : ~ Covers(o, b) /\ b \notin lo
                       /\ ~ (b \div UnitSize < Len(s) /\ Kind(s, b) # "none")}

\* The packets that were sent lie in the run and follow each other; their counters do,
\* and the filter's is the next; and if the stream was in sync, they are all that are
\* whole and not dropped.
InRun(fr, o, e) == \A k \in 1 .. Len(o) : fr <= o[k].at /\ o[k].at + UnitSize <= e
InSequence(o) == \A k \in 1 .. Len(o) - 1 : o[k].at + UnitSize <= o[k + 1].at
Counts(o, cc) ==
  /\ \A j \in 1 .. Len(o) : \A k \in 1 .. Len(o) :
       /\ o[j].cc # -1 /\ o[k].cc # -1 /\ j < k
       /\ \A i \in j + 1 .. k - 1 : o[i].cc = -1
       => o[k].cc = (o[j].cc + 1) % CcMod
  /\ \A j \in 1 .. Len(o) :
       o[j].cc # -1 /\ (\A i \in j + 1 .. Len(o) : o[i].cc = -1)
       => cc = (o[j].cc + 1) % CcMod
  /\ cc = -1 => \A j \in 1 .. Len(o) : o[j].cc = -1
Exact(s, w, f) ==
  /\ UnitsOf(f.out) = {p \in w : ~ DroppedIn(s, w, p)}
  /\ f.drop <=> InTable(s, w)
Filtering == [drop : BOOLEAN, cc : Nat \cup {-1}, out : Seq(Item)]
Filtered(s, fr, lo, clean, f, e) ==
  /\ f \in Filtering
  /\ InRun(fr, f.out, e) /\ InSequence(f.out) /\ Counts(f.out, f.cc)
  /\ clean => Exact(s, Inside(fr, lo, e), f)

Eits == {"schedule", "present", "on", "bare", "none"}

\* One packet more.
LEMMA TableGoesOn ==
  ASSUME NEW s, NEW e \in Nat, NEW w \in SUBSET (0 .. e - 1), Kind(s, e) \in Eits
  PROVE  /\ \A p \in w : DroppedIn(s, w \cup {e}, p) <=> DroppedIn(s, w, p)
         /\ DroppedIn(s, w \cup {e}, e)
              <=> \/ Kind(s, e) = "schedule"
                  \/ Kind(s, e) \in {"on", "bare"} /\ InTable(s, w)
         /\ InTable(s, w \cup {e})
              <=> Kind(s, e) = "schedule" \/ (Kind(s, e) # "present" /\ InTable(s, w))
<1>1. \A q \in w : q \in Nat /\ q < e
  OBVIOUS
<1>2. ASSUME NEW p \in w PROVE DroppedIn(s, w \cup {e}, p) <=> DroppedIn(s, w, p)
  BY <1>1 DEF DroppedIn
<1>3. InTable(s, w \cup {e})
        <=> Kind(s, e) = "schedule" \/ (Kind(s, e) # "present" /\ InTable(s, w))
  BY <1>1 DEF InTable
<1>4. DroppedIn(s, w \cup {e}, e)
        <=> \/ Kind(s, e) = "schedule"
            \/ Kind(s, e) \in {"on", "bare"} /\ InTable(s, w)
  BY <1>1 DEF DroppedIn, InTable, Eits
<1> QED
  BY <1>2, <1>3, <1>4

LEMMA InsideNext ==
  ASSUME NEW fr \in Nat, NEW e \in Nat, fr <= e, e % UnitSize = 0,
         NEW lo, lo \subseteq 0 .. e - 1
  PROVE  Inside(fr, lo, e + UnitSize) = Inside(fr, lo, e) \cup {e}
<1> DEFINE u == UnitSize
<1>1. u \in Nat \ {0} /\ e % u = 0
  BY UnitTyped
<1> HIDE DEF u
<1>2. ASSUME NEW p \in e .. e + u - 1, p % u = 0 PROVE p = e
  <2>1. p \in Nat
    OBVIOUS
  <2> QED
    BY <1>1, <1>2, <2>1, Block
<1>3. e \notin lo
  OBVIOUS
<1>4. ASSUME NEW p PROVE p \in Inside(fr, lo, e + u) <=> p \in Inside(fr, lo, e) \cup {e}
  BY <1>1, <1>2, <1>3 DEF Inside, u
<1> QED
  BY <1>4 DEF u

LEMMA UnitsAppend ==
  ASSUME NEW o \in Seq(Item), NEW x \in Item
  PROVE  /\ UnitsOf(Append(o, x)) = UnitsOf(o) \cup {x.at}
         /\ \A b \in Nat : Covers(Append(o, x), b)
              <=> Covers(o, b) \/ (x.at <= b /\ b < x.at + UnitSize)
<1> DEFINE y == Append(o, x)
<1>1. /\ Len(y) = Len(o) + 1 /\ Len(o) \in Nat /\ y[Len(o) + 1] = x
      /\ \A k \in 1 .. Len(o) : y[k] = o[k]
  OBVIOUS
<1> HIDE DEF y
<1>2. \A k : k \in 1 .. Len(y) <=> k \in 1 .. Len(o) \/ k = Len(o) + 1
  BY <1>1
<1>3. UnitsOf(y) = UnitsOf(o) \cup {x.at}
  BY <1>1, <1>2, Zenon DEF UnitsOf
<1>4. ASSUME NEW b \in Nat
      PROVE Covers(y, b) <=> Covers(o, b) \/ (x.at <= b /\ b < x.at + UnitSize)
  BY <1>1, <1>2, Zenon DEF Covers
<1> QED
  BY <1>3, <1>4 DEF y

LEMMA RunGrows ==
  ASSUME NEW fr \in Nat, NEW e \in Nat, NEW d \in Nat, NEW o \in Seq(Item), InRun(fr, o, e)
  PROVE  InRun(fr, o, e + d)
<1> SUFFICES ASSUME NEW k \in 1 .. Len(o) PROVE fr <= o[k].at /\ o[k].at + UnitSize <= e + d
  BY DEF InRun
<1>1. fr <= o[k].at /\ o[k].at + UnitSize <= e
  BY DEF InRun
<1>2. o[k] \in Item
  OBVIOUS
<1>3. o[k].at \in Nat /\ UnitSize \in Nat
  BY <1>2, UnitTyped, SMTT(30) DEF Item
<1> QED
  BY <1>1, <1>3, SMTT(30)

\* What one packet does to a run.
LEMMA AppendKeeps ==
  ASSUME NEW fr \in Nat, NEW e \in Nat, fr <= e, NEW o \in Seq(Item), NEW cc \in Int,
         InRun(fr, o, e), InSequence(o)
  PROVE  LET y == Append(o, [at |-> e, cc |-> cc])
         IN  y \in Seq(Item) /\ InRun(fr, y, e + UnitSize) /\ InSequence(y)
<1> DEFINE x == [at |-> e, cc |-> cc]
           y == Append(o, x)
<1>1. x \in Item /\ x.at = e
  BY DEF Item
<1>2. /\ y \in Seq(Item) /\ Len(y) = Len(o) + 1 /\ Len(o) \in Nat /\ y[Len(o) + 1] = x
      /\ \A k \in 1 .. Len(o) : y[k] = o[k] /\ o[k].at \in Nat
  <2> HIDE DEF x
  <2>1. /\ y \in Seq(Item) /\ Len(y) = Len(o) + 1 /\ Len(o) \in Nat /\ y[Len(o) + 1] = x
        /\ \A k \in 1 .. Len(o) : y[k] = o[k] /\ o[k] \in Item
    BY <1>1
  <2> QED
    BY <2>1, SMTT(30) DEF Item
<1> HIDE DEF x, y
<1>3. UnitSize \in Nat
  BY UnitTyped
<1>4. InRun(fr, y, e + UnitSize)
  <2> SUFFICES ASSUME NEW k \in 1 .. Len(y)
               PROVE  fr <= y[k].at /\ y[k].at + UnitSize <= e + UnitSize
    BY DEF InRun
  <2>1. CASE k = Len(o) + 1
    BY <2>1, <1>1, <1>2, <1>3
  <2>2. CASE k # Len(o) + 1
    <3>1. k \in 1 .. Len(o)
      BY <2>2, <1>2
    <3>2. y[k].at \in Nat /\ fr <= y[k].at /\ y[k].at + UnitSize <= e
      BY <3>1, <1>2 DEF InRun
    <3> QED
      BY <3>2, <1>3
  <2> QED
    BY <2>1, <2>2
<1>5. InSequence(y)
  <2> SUFFICES ASSUME NEW k \in 1 .. Len(y) - 1
               PROVE  y[k].at + UnitSize <= y[k + 1].at
    BY DEF InSequence
  <2>1. k \in 1 .. Len(o) /\ y[k] = o[k]
    BY <1>2
  <2>2. CASE k = Len(o)
    BY <2>1, <2>2, <1>1, <1>2 DEF InRun
  <2>3. CASE k # Len(o)
    <3>1. k \in 1 .. Len(o) - 1 /\ k + 1 \in 1 .. Len(o)
      BY <2>1, <2>3, <1>2
    <3> QED
      BY <2>1, <3>1, <1>2, SMTT(30) DEF InSequence
  <2> QED
    BY <2>2, <2>3
<1> QED
  BY <1>2, <1>4, <1>5 DEF x, y

LEMMA CountsPlain ==
  ASSUME NEW o \in Seq(Item), NEW cc, Counts(o, cc), NEW e \in Nat
  PROVE  Counts(Append(o, [at |-> e, cc |-> -1]), cc)
<1> DEFINE x == [at |-> e, cc |-> -1]
           y == Append(o, x)
<1>1. x \in Item /\ x.cc = -1
  BY DEF Item
<1>2. /\ Len(y) = Len(o) + 1 /\ Len(o) \in Nat /\ y[Len(o) + 1] = x
      /\ \A k \in 1 .. Len(o) : y[k] = o[k]
  BY <1>1
<1> HIDE DEF x, y
<1>3. \A k \in 1 .. Len(y) : y[k].cc # -1 => k \in 1 .. Len(o)
  BY <1>1, <1>2
<1>4. ASSUME NEW j \in 1 .. Len(y), NEW k \in 1 .. Len(y), y[j].cc # -1, y[k].cc # -1, j < k,
             \A i \in j + 1 .. k - 1 : y[i].cc = -1
      PROVE  y[k].cc = (y[j].cc + 1) % CcMod
  <2>1. j \in 1 .. Len(o) /\ k \in 1 .. Len(o)
    BY <1>3, <1>4
  <2>2. \A i \in j + 1 .. k - 1 : o[i].cc = -1
    BY <1>2, <1>4, <2>1
  <2> QED
    BY <1>2, <1>4, <2>1, <2>2, SMTT(30) DEF Counts
<1>5. ASSUME NEW j \in 1 .. Len(y), y[j].cc # -1, \A i \in j + 1 .. Len(y) : y[i].cc = -1
      PROVE  cc = (y[j].cc + 1) % CcMod
  <2>1. j \in 1 .. Len(o)
    BY <1>3, <1>5
  <2>2. \A i \in j + 1 .. Len(o) : o[i].cc = -1
    BY <1>2, <1>5, <2>1
  <2> QED
    BY <1>2, <1>5, <2>1, <2>2 DEF Counts
<1>6. ASSUME cc = -1, NEW j \in 1 .. Len(y) PROVE y[j].cc = -1
  BY <1>3, <1>2, <1>6 DEF Counts
<1> QED
  BY <1>4, <1>5, <1>6 DEF Counts, x, y

\* A packet of a table gets the filter's counter, which goes on by one.
LEMMA CountsNumbered ==
  ASSUME NEW o \in Seq(Item), NEW cc \in Nat \cup {-1}, Counts(o, cc), NEW e \in Nat,
         NEW c, c = IF cc = -1 THEN 0 ELSE cc
  PROVE  Counts(Append(o, [at |-> e, cc |-> c]), (c + 1) % CcMod)
<1> DEFINE x == [at |-> e, cc |-> c]
           y == Append(o, x)
<1>1. x \in Item /\ x.cc = c /\ c \in Nat
  BY DEF Item
<1>2. /\ Len(y) = Len(o) + 1 /\ Len(o) \in Nat /\ y[Len(o) + 1] = x
      /\ \A k \in 1 .. Len(o) : y[k] = o[k]
  BY <1>1
<1> HIDE DEF x, y
<1>3. \A k \in 1 .. Len(y) : k \in 1 .. Len(o) \/ k = Len(o) + 1
  BY <1>2
<1>4. ASSUME NEW j \in 1 .. Len(y), NEW k \in 1 .. Len(y), y[j].cc # -1, y[k].cc # -1, j < k,
             \A i \in j + 1 .. k - 1 : y[i].cc = -1
      PROVE  y[k].cc = (y[j].cc + 1) % CcMod
  <2>1. j \in 1 .. Len(o)
    BY <1>2, <1>4
  <2>2. CASE k \in 1 .. Len(o)
    <3>1. \A i \in j + 1 .. k - 1 : o[i].cc = -1
      BY <1>2, <1>4, <2>1, <2>2
    <3> QED
      BY <1>2, <1>4, <2>1, <2>2, <3>1 DEF Counts
  <2>3. CASE k = Len(o) + 1
    <3>1. \A i \in j + 1 .. Len(o) : o[i].cc = -1
      BY <1>2, <1>4, <2>1, <2>3
    <3>2. cc = (o[j].cc + 1) % CcMod
      BY <1>2, <1>4, <2>1, <3>1 DEF Counts
    <3>3. cc # -1
      BY <1>2, <1>4, <2>1 DEF Counts
    <3> QED
      BY <1>1, <1>2, <2>1, <2>3, <3>2, <3>3
  <2> QED
    BY <2>2, <2>3, <1>3
<1>5. ASSUME NEW j \in 1 .. Len(y), y[j].cc # -1, \A i \in j + 1 .. Len(y) : y[i].cc = -1
      PROVE  (c + 1) % CcMod = (y[j].cc + 1) % CcMod
  <2>1. j = Len(o) + 1
    <3> SUFFICES ASSUME j \in 1 .. Len(o) PROVE FALSE
      BY <1>3
    <3>1. Len(o) + 1 \in j + 1 .. Len(y)
      BY <1>2
    <3> QED
      BY <3>1, <1>1, <1>2, <1>5
  <2> QED
    BY <2>1, <1>1, <1>2
<1>6. (c + 1) % CcMod # -1
  <2>1. CcMod \in Nat \ {0} /\ c + 1 \in Nat
    BY <1>1, UnitTyped
  <2> QED
    BY <2>1, Parts
<1> QED
  BY <1>4, <1>5, <1>6, SMTT(30) DEF Counts, x, y

LEMMA FilterIs ==
  ASSUME NEW f \in Filtering, NEW e \in Nat
  PROVE  LET x   == Sending!Filter(f, e)
             eit == Sending!EitAt(e)
             c   == IF f.cc = -1 THEN 0 ELSE f.cc
         IN  \/ /\ eit = "schedule" \/ (eit \in {"on", "bare"} /\ f.drop)
                /\ x = [drop |-> TRUE, cc |-> f.cc, out |-> f.out]
             \/ /\ eit = "none" \/ (eit = "bare" /\ ~ f.drop)
                /\ x = [drop |-> f.drop, cc |-> f.cc,
                        out |-> Append(f.out, [at |-> e, cc |-> -1])]
             \/ /\ eit \notin {"schedule", "none", "bare"} /\ ~ (eit = "on" /\ f.drop)
                /\ x = [drop |-> FALSE, cc |-> (c + 1) % CcMod,
                        out |-> Append(f.out, [at |-> e, cc |-> c])]
<1> DEFINE eit == Sending!EitAt(e)
           c == IF f.cc = -1 THEN 0 ELSE f.cc
           a == Append(f.out, [at |-> e, cc |-> -1])
           b == Append(f.out, [at |-> e, cc |-> c])
<1>1. f = [drop |-> f.drop, cc |-> f.cc, out |-> f.out]
  BY DEF Filtering
<1>2. Sending!NoPos = -1
  BY DEF Sending!NoPos
<1> HIDE DEF eit
<1>3. CASE Sending!Drops(f, eit)
  <2>1. Sending!Filter(f, e) = [f EXCEPT !.drop = TRUE]
    BY <1>3, Zenon DEF Sending!Filter, eit
  <2> QED
    BY <1>1, <1>3, <2>1 DEF Sending!Drops, eit
<1>4. CASE ~ Sending!Drops(f, eit) /\ eit \in {"none", "bare"}
  <2>1. Sending!Filter(f, e) = [f EXCEPT !.out = a]
    BY <1>4, <1>2, Zenon DEF Sending!Filter, eit
  <2> HIDE DEF a
  <2>2. Sending!Filter(f, e) = [drop |-> f.drop, cc |-> f.cc, out |-> a]
    BY <1>1, <2>1
  <2> QED
    BY <1>4, <2>2 DEF Sending!Drops, eit, a
<1>5. CASE ~ Sending!Drops(f, eit) /\ eit \notin {"none", "bare"}
  <2>1. Sending!Filter(f, e) = [drop |-> FALSE, cc |-> (c + 1) % CcMod, out |-> b]
    BY <1>5, <1>2, Zenon DEF Sending!Filter, eit
  <2> HIDE DEF b
  <2> QED
    BY <1>5, <2>1 DEF Sending!Drops, eit, b
<1> QED
  BY <1>3, <1>4, <1>5

\* The packets of the file that are gone through.
LEMMA KindIs ==
  ASSUME stream \in Recordings, NEW e \in Nat, e + UnitSize <= Len(stream) * UnitSize
  PROVE  /\ e \div UnitSize < Len(stream) /\ e \div UnitSize \in Nat
         /\ Kind(stream, e) \in Eits
         /\ Sending!EitAt(e) = IF e % UnitSize = 0 THEN Kind(stream, e) ELSE "none"
<1> DEFINE u == UnitSize
           n == Len(stream)
<1>1. stream \in Seq(Sending!Packets) /\ u \in Nat \ {0}
  BY UnitTyped, FileAssumption DEF Sending!TransferAssumption
<1>2. n \in Nat
  BY <1>1
<1>3. e + u <= n * u
  OBVIOUS
<1> HIDE DEF u, n
<1>4. PICK i \in Nat, r \in 0 .. u - 1 : i = e \div u /\ e = u * i + r
  <2>1. e \div u \in Nat /\ e % u \in 0 .. u - 1 /\ e = u * (e \div u) + (e % u)
    BY <1>1, Parts
  <2> QED
    BY <2>1
<1>5. i < n
  <2> SUFFICES ASSUME n <= i PROVE FALSE
    BY <1>2
  <2>1. u * n <= u * i
    BY <1>1, <1>2, Times
  <2>2. u * n = n * u /\ n * u \in Int /\ u * i \in Int
    BY <1>1, <1>2
  <2> QED
    BY <1>1, <1>3, <1>4, <2>1, <2>2
<1>6. i + 1 \in 1 .. n
  BY <1>2, <1>5
<1>7. stream[i + 1].eit \in Eits
  <2>1. stream[i + 1] \in Sending!Packets
    BY <1>1, <1>6 DEF n
  <2> QED
    BY <2>1 DEF Sending!Packets, Eits
<1>8. Sending!EitAt(e) = IF e % UnitSize = 0 THEN Kind(stream, e) ELSE "none"
  BY Zenon DEF Sending!EitAt, Sending!Aligned, Sending!PacketAt, Kind
<1> QED
  BY <1>4, <1>5, <1>7, <1>8 DEF u, n, Kind

\* One packet through the filter: a run that was sent right is one packet longer, and
\* no byte more is missed.
LEMMA FilterKeeps ==
  ASSUME stream \in Recordings, NEW fr \in Nat, NEW e \in Nat, fr <= e,
         e + UnitSize <= Len(stream) * UnitSize,
         NEW lo, lo \subseteq 0 .. e - 1, NEW clean \in BOOLEAN, clean => e % UnitSize = 0,
         NEW f, Filtered(stream, fr, lo, clean, f, e)
  PROVE  /\ Filtered(stream, fr, lo, clean, Sending!Filter(f, e), e + UnitSize)
         /\ Missed(stream, fr, lo, Sending!Filter(f, e).out, e + UnitSize)
              \subseteq Missed(stream, fr, lo, f.out, e)
<1> DEFINE x == Sending!Filter(f, e)
           eit == Sending!EitAt(e)
           c == IF f.cc = -1 THEN 0 ELSE f.cc
           w == Inside(fr, lo, e)
           w2 == Inside(fr, lo, e + UnitSize)
           k == Kind(stream, e)
<1>1. /\ f \in Filtering /\ InRun(fr, f.out, e) /\ InSequence(f.out) /\ Counts(f.out, f.cc)
      /\ clean => Exact(stream, w, f)
  BY DEF Filtered
<1>2. f.drop \in BOOLEAN /\ f.cc \in Nat \cup {-1} /\ f.out \in Seq(Item)
  BY <1>1 DEF Filtering
<1>3. /\ UnitSize \in Nat /\ UnitSize > 1 /\ c \in Nat /\ (c + 1) % CcMod \in Nat
  <2>1. c \in Nat /\ CcMod \in Nat \ {0}
    BY <1>2, UnitTyped
  <2>2. \A d \in Nat : d % CcMod \in Nat
    BY <2>1, Parts
  <2> HIDE DEF c
  <2> QED
    BY <2>1, <2>2, UnitTyped
<1>4. /\ k \in Eits /\ eit = IF e % UnitSize = 0 THEN k ELSE "none"
      /\ e \div UnitSize < Len(stream)
  BY KindIs
<1>5. clean => eit = k /\ w2 = w \cup {e} /\ w \subseteq 0 .. e - 1
  <2>1. w \subseteq 0 .. e - 1
    BY DEF Inside
  <2> QED
    BY <1>4, <2>1, InsideNext
<1>6. \/ /\ eit = "schedule" \/ (eit \in {"on", "bare"} /\ f.drop)
         /\ x = [drop |-> TRUE, cc |-> f.cc, out |-> f.out]
      \/ /\ eit = "none" \/ (eit = "bare" /\ ~ f.drop)
         /\ x = [drop |-> f.drop, cc |-> f.cc, out |-> Append(f.out, [at |-> e, cc |-> -1])]
      \/ /\ eit \notin {"schedule", "none", "bare"} /\ ~ (eit = "on" /\ f.drop)
         /\ x = [drop |-> FALSE, cc |-> (c + 1) % CcMod,
                 out |-> Append(f.out, [at |-> e, cc |-> c])]
  BY <1>1, FilterIs
<1>7. clean =>
        /\ \A p \in w : DroppedIn(stream, w2, p) <=> DroppedIn(stream, w, p)
        /\ DroppedIn(stream, w2, e) <=> k = "schedule" \/ (k \in {"on", "bare"} /\ f.drop)
        /\ InTable(stream, w2) <=> k = "schedule" \/ (k # "present" /\ f.drop)
        /\ f.drop <=> InTable(stream, w)
        /\ UnitsOf(f.out) = {p \in w : ~ DroppedIn(stream, w, p)}
  <2> SUFFICES ASSUME clean
               PROVE /\ \A p \in w : DroppedIn(stream, w2, p) <=> DroppedIn(stream, w, p)
                     /\ DroppedIn(stream, w2, e)
                          <=> k = "schedule" \/ (k \in {"on", "bare"} /\ f.drop)
                     /\ InTable(stream, w2) <=> k = "schedule" \/ (k # "present" /\ f.drop)
                     /\ f.drop <=> InTable(stream, w)
                     /\ UnitsOf(f.out) = {p \in w : ~ DroppedIn(stream, w, p)}
    OBVIOUS
  <2>1. /\ f.drop <=> InTable(stream, w)
        /\ UnitsOf(f.out) = {p \in w : ~ DroppedIn(stream, w, p)}
    BY <1>1 DEF Exact
  <2> HIDE DEF w, w2
  <2>2. /\ \A p \in w : DroppedIn(stream, w \cup {e}, p) <=> DroppedIn(stream, w, p)
        /\ DroppedIn(stream, w \cup {e}, e)
             <=> k = "schedule" \/ (k \in {"on", "bare"} /\ InTable(stream, w))
        /\ InTable(stream, w \cup {e})
             <=> k = "schedule" \/ (k # "present" /\ InTable(stream, w))
    BY <1>4, <1>5, TableGoesOn
  <2> QED
    BY <1>5, <2>1, <2>2
<1> DEFINE new == Missed(stream, fr, lo, x.out, e + UnitSize)
           old == Missed(stream, fr, lo, f.out, e)
<1>8. ASSUME NEW b \in new, b < e, \A d \in Nat : Covers(f.out, d) => Covers(x.out, d)
      PROVE  b \in old
  BY <1>8 DEF Missed
<1>9. ASSUME x.out = f.out PROVE InRun(fr, x.out, e + UnitSize) /\ InSequence(x.out)
  <2>1. InRun(fr, f.out, e + UnitSize)
    BY <1>1, <1>2, <1>3, RunGrows, SMTT(30)
  <2> HIDE DEF x
  <2> QED
    BY <1>1, <1>9, <2>1
<1> HIDE DEF x, eit, c, w, w2, k, new, old
<1>10. CASE /\ eit = "schedule" \/ (eit \in {"on", "bare"} /\ f.drop)
            /\ x = [drop |-> TRUE, cc |-> f.cc, out |-> f.out]
  <2>1. x \in Filtering /\ x.out = f.out /\ x.cc = f.cc /\ x.drop = TRUE
    BY <1>2, <1>10 DEF Filtering
  <2>2. clean => Exact(stream, w2, x)
    <3> SUFFICES ASSUME clean PROVE Exact(stream, w2, x)
      OBVIOUS
    <3>1. InTable(stream, w2) /\ DroppedIn(stream, w2, e)
      BY <1>5, <1>7, <1>10
    <3>2. {p \in w2 : ~ DroppedIn(stream, w2, p)} = {p \in w : ~ DroppedIn(stream, w, p)}
      BY <1>5, <1>7, <3>1
    <3> QED
      BY <1>7, <2>1, <3>1, <3>2 DEF Exact
  <2>3. new \subseteq old
    <3> SUFFICES ASSUME NEW b \in new PROVE b \in old
      OBVIOUS
    <3>1. b < e
      <4> SUFFICES ASSUME b >= e PROVE FALSE
        BY DEF new, Missed
      <4>1. b \in e .. e + UnitSize - 1 /\ e % UnitSize = 0 /\ k # "none" /\ b \in Nat
        BY <1>4, <1>10, <1>3 DEF new, Missed
      <4>2. b \div UnitSize = e \div UnitSize
        <5>1. UnitSize \in Nat \ {0}
          BY <1>3
        <5> QED
          BY <4>1, <5>1, Block, ZenonT(40)
      <4> QED
        BY <4>1, <4>2, <1>4 DEF new, Missed, Kind, k
    <3> QED
      BY <2>1, <3>1, <1>8
  <2> QED
    BY <1>1, <1>9, <2>1, <2>2, <2>3 DEF Filtered, x, w2, new, old
<1>11. CASE /\ eit = "none" \/ (eit = "bare" /\ ~ f.drop)
            /\ x = [drop |-> f.drop, cc |-> f.cc,
                    out |-> Append(f.out, [at |-> e, cc |-> -1])]
  <2> DEFINE i == [at |-> e, cc |-> -1]
             y == Append(f.out, i)
  <2>1. i \in Item /\ i.at = e
    BY DEF Item
  <2>2. /\ UnitsOf(y) = UnitsOf(f.out) \cup {e}
        /\ \A b \in Nat : Covers(y, b) <=> Covers(f.out, b) \/ (e <= b /\ b < e + UnitSize)
    <3> HIDE DEF i
    <3> QED
      BY <1>2, <2>1, UnitsAppend
  <2>3. y \in Seq(Item) /\ InRun(fr, y, e + UnitSize) /\ InSequence(y)
    BY <1>1, <1>2, AppendKeeps
  <2>4. Counts(y, f.cc)
    BY <1>1, <1>2, CountsPlain
  <2> HIDE DEF y
  <2>5. x.out = y /\ x.cc = f.cc /\ x.drop = f.drop /\ x \in Filtering
    BY <1>2, <1>11, <2>3 DEF Filtering, y
  <2>6. clean => Exact(stream, w2, x)
    <3> SUFFICES ASSUME clean PROVE Exact(stream, w2, x)
      OBVIOUS
    <3>1. ~ DroppedIn(stream, w2, e) /\ (InTable(stream, w2) <=> x.drop)
      BY <1>4, <1>5, <1>7, <1>11, <2>5 DEF Eits
    <3>2. {p \in w2 : ~ DroppedIn(stream, w2, p)}
            = {p \in w : ~ DroppedIn(stream, w, p)} \cup {e}
      BY <1>5, <1>7, <3>1
    <3> QED
      BY <1>7, <2>2, <2>5, <3>1, <3>2 DEF Exact
  <2>7. new \subseteq old
    <3> SUFFICES ASSUME NEW b \in new PROVE b \in old
      OBVIOUS
    <3>1. b \in Nat /\ b < e + UnitSize /\ ~ Covers(y, b)
      BY <1>3, <2>5 DEF new, Missed
    <3>2. b < e
      BY <2>2, <3>1
    <3> QED
      BY <2>2, <2>5, <3>2, <1>8
  <2> QED
    BY <2>3, <2>4, <2>5, <2>6, <2>7 DEF Filtered, x, w2, new, old
<1>12. CASE /\ eit \notin {"schedule", "none", "bare"} /\ ~ (eit = "on" /\ f.drop)
            /\ x = [drop |-> FALSE, cc |-> (c + 1) % CcMod,
                    out |-> Append(f.out, [at |-> e, cc |-> c])]
  <2> DEFINE i == [at |-> e, cc |-> c]
             y == Append(f.out, i)
  <2>1. i \in Item /\ i.at = e
    BY <1>3 DEF Item
  <2>2. /\ UnitsOf(y) = UnitsOf(f.out) \cup {e}
        /\ \A b \in Nat : Covers(y, b) <=> Covers(f.out, b) \/ (e <= b /\ b < e + UnitSize)
    <3> HIDE DEF i
    <3> QED
      BY <1>2, <2>1, UnitsAppend
  <2>3. y \in Seq(Item) /\ InRun(fr, y, e + UnitSize) /\ InSequence(y)
    BY <1>1, <1>2, <1>3, AppendKeeps
  <2>4. Counts(y, (c + 1) % CcMod)
    BY <1>1, <1>2, CountsNumbered DEF c
  <2> HIDE DEF y
  <2>5. x.out = y /\ x.cc = (c + 1) % CcMod /\ x.drop = FALSE /\ x \in Filtering
    BY <1>3, <1>12, <2>3 DEF Filtering, y
  <2>6. clean => Exact(stream, w2, x)
    <3> SUFFICES ASSUME clean PROVE Exact(stream, w2, x)
      OBVIOUS
    <3>1. ~ DroppedIn(stream, w2, e) /\ ~ InTable(stream, w2)
      BY <1>4, <1>5, <1>7, <1>12 DEF Eits
    <3>2. {p \in w2 : ~ DroppedIn(stream, w2, p)}
            = {p \in w : ~ DroppedIn(stream, w, p)} \cup {e}
      BY <1>5, <1>7, <3>1
    <3> QED
      BY <1>7, <2>2, <2>5, <3>1, <3>2 DEF Exact
  <2>7. new \subseteq old
    <3> SUFFICES ASSUME NEW b \in new PROVE b \in old
      OBVIOUS
    <3>1. b \in Nat /\ b < e + UnitSize /\ ~ Covers(y, b)
      BY <1>3, <2>5 DEF new, Missed
    <3>2. b < e
      BY <2>2, <3>1
    <3> QED
      BY <2>2, <2>5, <3>2, <1>8
  <2> QED
    BY <2>3, <2>4, <2>5, <2>6, <2>7 DEF Filtered, x, w2, new, old
<1> QED
  BY <1>6, <1>10, <1>11, <1>12 DEF x, new, old

LEMMA FilterTyped ==
  ASSUME NEW f \in Filtering, NEW e \in Nat
  PROVE  Sending!Filter(f, e) \in Filtering
<1> DEFINE c == IF f.cc = -1 THEN 0 ELSE f.cc
<1>1. f.drop \in BOOLEAN /\ f.cc \in Nat \cup {-1} /\ f.out \in Seq(Item) /\ c \in Nat
  BY DEF Filtering
<1>2. (c + 1) % CcMod \in Nat
  <2>1. CcMod \in Nat \ {0} /\ \A d \in Nat : d % CcMod \in Nat
    BY UnitTyped, Parts
  <2> HIDE DEF c
  <2> QED
    BY <1>1, <2>1
<1>3. /\ Append(f.out, [at |-> e, cc |-> -1]) \in Seq(Item)
      /\ Append(f.out, [at |-> e, cc |-> c]) \in Seq(Item)
  <2>1. [at |-> e, cc |-> -1] \in Item /\ [at |-> e, cc |-> c] \in Item
    BY <1>1 DEF Item
  <2> QED
    BY <1>1, <2>1
<1> DEFINE eit == Sending!EitAt(e)
           x == Sending!Filter(f, e)
           a == Append(f.out, [at |-> e, cc |-> -1])
           b == Append(f.out, [at |-> e, cc |-> c])
           d == (c + 1) % CcMod
<1>4. \/ x = [drop |-> TRUE, cc |-> f.cc, out |-> f.out]
      \/ x = [drop |-> f.drop, cc |-> f.cc, out |-> a]
      \/ x = [drop |-> FALSE, cc |-> d, out |-> b]
  BY FilterIs
<1> HIDE DEF c, eit, x, a, b, d
<1>5. d \in Nat /\ a \in Seq(Item) /\ b \in Seq(Item)
  BY <1>2, <1>3 DEF a, b, d
<1>6. \A t \in BOOLEAN, n \in Nat \cup {-1}, o \in Seq(Item) :
        [drop |-> t, cc |-> n, out |-> o] \in Filtering
  BY Zenon DEF Filtering
<1>7. x \in Filtering
  <2>1. d \in Nat \cup {-1} /\ TRUE \in BOOLEAN /\ FALSE \in BOOLEAN
    BY <1>5
  <2> QED
    BY <1>1, <1>4, <1>5, <1>6, <2>1, Zenon
<1> QED
  BY <1>7 DEF x

\* The filter over all whole packets from h to c, one after the other.
LEMMA ThroughIs ==
  ASSUME NEW h \in Nat, NEW c \in Nat, h <= c, NEW a \in Filtering,
         a = [drop |-> filter.drop, cc |-> filter.cc, out |-> sent]
  PROVE  \E g \in [0 .. (c - h) \div UnitSize -> Filtering] :
           /\ g[0] = a /\ Sending!Through(h, c) = g[(c - h) \div UnitSize]
           /\ \A k \in 1 .. (c - h) \div UnitSize :
                g[k] = Sending!Filter(g[k - 1], h + (k - 1) * UnitSize)
<1> DEFINE N == (c - h) \div UnitSize
           S == Filtering
           H(x, k) == Sending!Filter(x, h + (k - 1) * UnitSize)
           q == [k \in 1 .. N |-> [x \in S |-> H(x, k)]]
           F[k \in 0 .. N] == IF k = 0 THEN a ELSE H(F[k - 1], k)
<1>1. N \in Nat
  <2>1. c - h \in Nat /\ UnitSize \in Nat \ {0}
    BY UnitTyped
  <2> QED
    BY <2>1, Parts
<1>2. ASSUME NEW k \in 1 .. N, NEW x \in S PROVE H(x, k) \in S
  <2>1. h + (k - 1) * UnitSize \in Nat
    <3>1. k - 1 \in Nat /\ UnitSize \in Nat
      BY <1>1, UnitTyped
    <3>2. (k - 1) * UnitSize \in Nat
      BY <3>1
    <3> QED
      BY <3>2
  <2> QED
    BY <2>1, FilterTyped
<1>3. Sending!Through(h, c) = F[N]
  BY Zenon DEF Sending!Through
<1> HIDE DEF N, H
<1>4. q \in [1 .. N -> [S -> S]]
  BY <1>2
<1>5. PICK g \in [0 .. N -> S] : g[0] = a /\ \A k \in 1 .. N : g[k] = q[k][g[k - 1]]
  <2> HIDE DEF q, S
  <2>1. \E g \in [0 .. N -> S] : Computes(g, N, a, q)
    <3>1. a \in S
      BY DEF S
    <3> QED
      BY <1>1, <1>4, <3>1, Recursion, Zenon
  <2> QED
    BY <2>1 DEF Computes
<1>6. \A k \in 1 .. N : k - 1 \in 0 .. N /\ k \in 0 .. N /\ k # 0
  BY <1>1
<1>7. \A k \in 1 .. N : g[k] = H(g[k - 1], k)
  BY <1>5, <1>6
<1>8. g = [k \in 0 .. N |-> IF k = 0 THEN a ELSE H(g[k - 1], k)]
  BY <1>1, <1>5, <1>7
<1>9. F = [k \in 0 .. N |-> IF k = 0 THEN a ELSE H(F[k - 1], k)]
  BY <1>8, Zenon DEF F
<1> HIDE DEF F
<1>10. F[0] = a /\ \A k \in 1 .. N : F[k] = H(F[k - 1], k)
  BY <1>1, <1>9
<1> DEFINE T == {k \in 0 .. N : F[k] \in S}
<1>11. 0 \in T
  BY <1>1, <1>10
<1>12. ASSUME NEW k \in 1 .. N, k - 1 \in T PROVE k \in T
  BY <1>2, <1>6, <1>10, <1>12
<1>13. \A k \in 0 .. N : k \in T
  <2> HIDE DEF T
  <2> QED
    BY <1>1, <1>11, <1>12, UpTo
<1>14. F \in [0 .. N -> S]
  <2>1. F = [k \in 0 .. N |-> F[k]]
    BY <1>9
  <2> QED
    BY <2>1, <1>13
<1> QED
  BY <1>3, <1>10, <1>14, Zenon DEF N, S, H

LEMMA Before ==
  \A h, c, v, w \in Nat : v <= w /\ h + w <= c => h + v \in Nat /\ h <= h + v /\ h + v <= c
OBVIOUS

\* All packets of a run from h to c are gone through: what was sent right before is so
\* up to c, and of the bytes from h on only a part of a packet, at the end, is missed.
LEMMA ThroughKeeps ==
  ASSUME stream \in Recordings, NEW fr \in Nat, NEW h \in Nat, NEW c \in Nat,
         fr <= h, h <= c, c <= Len(stream) * UnitSize,
         NEW lo, lo \subseteq 0 .. h - 1, NEW clean \in BOOLEAN,
         clean => h % UnitSize = 0 /\ c % UnitSize = 0, NEW a,
         a = [drop |-> filter.drop, cc |-> filter.cc, out |-> sent],
         Filtered(stream, fr, lo, clean, a, h)
  PROVE  LET x == Sending!Through(h, c)
         IN  /\ Filtered(stream, fr, lo, clean, x, c)
             /\ Missed(stream, fr, lo, x.out, c)
                  \subseteq Missed(stream, fr, lo, sent, h) \cup c - ((c - h) % UnitSize) .. c - 1
<1> DEFINE N == (c - h) \div UnitSize
           E(k) == h + k * UnitSize
           M(o, k) == Missed(stream, fr, lo, o, E(k))
<1>1. a \in Filtering /\ a.out = sent
  BY DEF Filtered
<1>2. PICK g \in [0 .. N -> Filtering] :
        /\ g[0] = a /\ Sending!Through(h, c) = g[N]
        /\ \A k \in 1 .. N : g[k] = Sending!Filter(g[k - 1], E(k - 1))
  BY ONLY <1>1, ThroughIs, h \in Nat, c \in Nat, h <= c,
          a = [drop |-> filter.drop, cc |-> filter.cc, out |-> sent], SMT
<1>3. /\ N \in Nat /\ E(N) <= c /\ c = E(N) + ((c - h) % UnitSize)
      /\ (c - h) % UnitSize \in 0 .. UnitSize - 1
      /\ clean => E(N) = c
  <2>1. UnitSize \in Nat \ {0}
    BY UnitTyped
  <2> QED
    BY <2>1, BlocksTo
<1>4. /\ UnitSize \in Nat \ {0} /\ E(0) = h
      /\ \A k \in 0 .. N : E(k) \in Nat /\ h <= E(k) /\ E(k) <= c
      /\ \A k \in 1 .. N : E(k) = E(k - 1) + UnitSize
  <2>1. UnitSize \in Nat \ {0}
    BY UnitTyped
  <2>2. \A k \in 0 .. N : UnitSize * k \in Nat /\ UnitSize * k = k * UnitSize
    BY <1>3, <2>1
  <2>3. \A k \in 0 .. N : UnitSize * k <= UnitSize * N
    BY <1>3, <2>1, Times, SMTT(30)
  <2>4. \A k \in 1 .. N : (k - 1) * UnitSize + UnitSize = k * UnitSize
    BY <1>3, <2>1
  <2>5. E(0) = h
    <3>1. 0 * UnitSize = 0
      BY <2>1
    <3> QED
      BY <3>1
  <2>6. ASSUME NEW k \in 0 .. N PROVE E(k) \in Nat /\ h <= E(k) /\ E(k) <= c
    <3>1. PICK v \in Nat, w \in Nat : v = k * UnitSize /\ w = N * UnitSize /\ v <= w
      <4>1. N \in 0 .. N
        BY <1>3
      <4> QED
        BY <2>2, <2>3, <4>1
    <3>2. h + w <= c /\ v <= w
      BY <1>3, <3>1
    <3>3. h + v \in Nat /\ h <= h + v /\ h + v <= c
      BY ONLY <3>2, h \in Nat, c \in Nat, v \in Nat, w \in Nat
    <3> QED
      BY <3>1, <3>3, Zenon
  <2>7. ASSUME NEW k \in 1 .. N PROVE E(k) = E(k - 1) + UnitSize
    <3>1. PICK v \in Nat, w \in Nat : v = (k - 1) * UnitSize /\ w = k * UnitSize /\ v + UnitSize = w
      <4>1. k - 1 \in 0 .. N /\ k \in 0 .. N
        BY <1>3
      <4> QED
        BY <2>2, <2>4, <4>1
    <3> QED
      BY <3>1, <2>1
  <2> QED
    BY <2>1, <2>5, <2>6, <2>7
<1> DEFINE T == {k \in 0 .. N : /\ Filtered(stream, fr, lo, clean, g[k], E(k))
                                /\ M(g[k].out, k) \subseteq M(sent, 0)
                                /\ clean => E(k) % UnitSize = 0}
<1> HIDE DEF N, E
<1>5. 0 \in T
  <2>1. g[0].out = sent /\ E(0) = h /\ 0 \in 0 .. N /\ g[0] = a
    BY <1>1, <1>2, <1>3, <1>4
  <2> QED
    BY <2>1
<1>6. ASSUME NEW k \in 1 .. N, k - 1 \in T PROVE k \in T
  <2> DEFINE j == k - 1
             e == E(j)
  <2>1. j \in 0 .. N /\ k \in 0 .. N
    BY <1>3
  <2>2. /\ Filtered(stream, fr, lo, clean, g[j], e)
        /\ M(g[j].out, j) \subseteq M(sent, 0)
        /\ clean => e % UnitSize = 0
    BY <1>6
  <2>3. E(k) = e + UnitSize /\ g[k] = Sending!Filter(g[j], e)
    BY <1>2, <1>4
  <2>4. /\ e \in Nat /\ fr <= e /\ e + UnitSize <= Len(stream) * UnitSize
        /\ lo \subseteq 0 .. e - 1
    <3>1. e \in Nat /\ h <= e
      BY <1>4, <2>1
    <3>2. e + UnitSize <= c
      BY <1>4, <2>1, <2>3
    <3>3. PICK v \in Int : v = Len(stream) * UnitSize /\ c <= v
      <4>1. stream \in Seq(Sending!Packets)
        BY FileAssumption DEF Sending!TransferAssumption
      <4>2. Len(stream) \in Nat
        BY <4>1
      <4> QED
        BY <4>2, <1>4
    <3>4. e + UnitSize <= v
      BY <3>1, <3>2, <3>3, <1>4
    <3>5. lo \subseteq 0 .. e - 1
      BY <3>1
    <3> QED
      BY <3>1, <3>3, <3>4, <3>5
  <2> HIDE DEF e, j
  <2>5. /\ Filtered(stream, fr, lo, clean, g[k], E(k))
        /\ Missed(stream, fr, lo, g[k].out, E(k)) \subseteq Missed(stream, fr, lo, g[j].out, e)
    BY <2>2, <2>3, <2>4, FilterKeeps
  <2>6. clean => E(k) % UnitSize = 0
    BY <1>4, <2>2, <2>3, <2>4, Block
  <2> QED
    BY <2>1, <2>2, <2>5, <2>6 DEF e
<1>7. N \in T
  <2>1. \A k \in 0 .. N : k \in T
    <3> HIDE DEF T
    <3> QED
      BY <1>3, <1>5, <1>6, UpTo
  <2> QED
    BY <2>1, <1>3
<1> DEFINE x == Sending!Through(h, c)
           r == (c - h) % UnitSize
<1>8. /\ Filtered(stream, fr, lo, clean, x, E(N)) /\ E(N) \in Nat
      /\ Missed(stream, fr, lo, x.out, E(N)) \subseteq Missed(stream, fr, lo, sent, h)
      /\ c = E(N) + r /\ r \in Nat
  BY <1>2, <1>3, <1>4, <1>7
<1> HIDE DEF x, r
<1>9. Filtered(stream, fr, lo, clean, x, c)
  <2>1. x.out \in Seq(Item)
    BY <1>8 DEF Filtered, Filtering
  <2>2. InRun(fr, x.out, E(N))
    BY <1>8 DEF Filtered
  <2>3. InRun(fr, x.out, c)
    BY <1>8, <2>1, <2>2, RunGrows
  <2>4. clean => Exact(stream, Inside(fr, lo, c), x)
    BY <1>3, <1>8 DEF Filtered
  <2> QED
    BY <1>8, <2>3, <2>4 DEF Filtered
<1>10. ASSUME NEW b \in Missed(stream, fr, lo, x.out, c), b < E(N)
       PROVE  b \in Missed(stream, fr, lo, x.out, E(N))
  BY <1>8, <1>10 DEF Missed
<1>11. ASSUME NEW b \in Missed(stream, fr, lo, x.out, c), b >= E(N) PROVE b \in c - r .. c - 1
  BY <1>8, <1>11 DEF Missed
<1>12. \A b \in Missed(stream, fr, lo, x.out, c) : b < E(N) \/ b >= E(N)
  BY <1>8 DEF Missed
<1> QED
  BY <1>8, <1>9, <1>10, <1>11, <1>12 DEF x, r

-----------------------------------------------------------------------------
(* Where the sender is in a transport stream *)

\* The buffer lies in what is written; what is read has nothing between m_head and
\* m_curr; and a stream that was in sync so far was gone through by whole packets.
PosInv ==
  /\ stream \in Recordings /\ size \in Sending!Sizes
  /\ tail \in 0 .. size /\ lastPos \in 0 .. size
  /\ \/ head = -1 /\ curr = -1
     \/ head \in Nat /\ curr \in Nat /\ head <= curr /\ curr <= tail
  /\ step \in {"need", "resync", "behind", "again"} => head = curr
  /\ step = "again" => curr # -1
  /\ skips \in Nat
  /\ skips = 0 => head = curr \/ (head % UnitSize = 0 /\ curr % UnitSize = 0)
  /\ mode # "send" => sent = <<>> /\ filter = Sending!NoFilter

\* What was sent is right up to End; each resync may have cost a part of a packet, but
\* one of them only when the packets since then are sent.
Owed == IF curr # -1 /\ (curr - head) % UnitSize # 0 THEN 1 ELSE 0
Now == [drop |-> filter.drop, cc |-> filter.cc, out |-> sent]
SentTo(e) ==
  /\ from \in Nat /\ from <= e /\ lost \subseteq 0 .. e - 1
  /\ Filtered(stream, from, lost, skips = 0, Now, e)
  /\ skips = 0 => \A p \in Inside(from, lost, e) : p + UnitSize <= e
  /\ Cardinality(Missed(stream, from, lost, sent, e)) <= (UnitSize - 1) * (skips - Owed)
SentInv == mode = "send" \/ step = "idle" => SentTo(Sending!End)

LEMMA SizesIn ==
  ASSUME stream \in Recordings, NEW n \in Sending!Sizes
  PROVE  n \in Nat /\ n <= Len(stream) * UnitSize
<1> DEFINE top == Len(stream) * UnitSize
<1>1. top \in Nat
  <2>1. stream \in Seq(Sending!Packets)
    BY FileAssumption DEF Sending!TransferAssumption
  <2>2. Len(stream) \in Nat /\ UnitSize \in Nat
    BY <2>1, UnitTyped
  <2> QED
    BY <2>2
<1>2. Sending!Sizes = {k \in Written : k < top} \cup {top}
  BY Zenon DEF Sending!Sizes
<1> HIDE DEF top
<1>3. Written \subseteq Nat
  BY FileAssumption DEF Sending!TransferAssumption
<1>4. n \in Nat /\ n <= top
  BY <1>1, <1>2, <1>3
<1> QED
  BY <1>4 DEF top

LEMMA PosInit == Sending!Init => PosInv
<1> SUFFICES ASSUME Sending!Init PROVE PosInv
  OBVIOUS
<1>1. size \in Nat
  BY SizesIn DEF Sending!Init
<1> QED
  BY <1>1 DEF Sending!Init, PosInv, Sending!NoPos

\* Of transferring, only what it leaves alone matters for where the sender is.
LEMMA TransferOnlySends ==
  ASSUME NEW c, NEW l, Sending!Transfer(c, l)
  PROVE  mode # "send" => UNCHANGED <<filter, sent>>
BY DEF Sending!Transfer, Sending!Sends

LEMMA PosGrow == PosInv /\ Sending!Grow => PosInv'
<1> SUFFICES ASSUME PosInv, Sending!Grow PROVE PosInv'
  OBVIOUS
<1>1. UNCHANGED <<stream, step, mode, head, curr, tail, lastPos, filter, sent, skips>>
  BY DEF Sending!Grow, Sending!call, Sending!hist
<1>2. size' \in Sending!Sizes /\ size' > size
  BY DEF Sending!Grow
<1>3. size \in Nat /\ size' \in Nat
  BY <1>2, SizesIn DEF PosInv
<1>4. Sending!Sizes' = Sending!Sizes
  BY <1>1 DEF Sending!Sizes
<1> QED
  BY <1>1, <1>2, <1>3, <1>4 DEF PosInv, Sending!NoFilter

LEMMA AfterIs ==
  ASSUME NEW f, NEW n, NEW r \in {"need", "resync", "behind"}
  PROVE  /\ Sending!After(r, f, n) \in {"packet", "end", "again"}
         /\ Sending!After(r, f, n) = "again" => r = "resync"
BY DEF Sending!After

LEMMA PosRead == ASSUME PosInv, NEW n \in ReadLengths, Sending!Read(n) PROVE PosInv'
<1>1. /\ UNCHANGED <<stream, size, mode, lastPos, filter, sent, skips>>
      /\ step \in {"need", "resync", "behind"} /\ n <= size - tail
      /\ head' = Sending!Carried /\ curr' = Sending!Carried /\ tail' = tail + n
  BY DEF Sending!Read, Sending!Readings, Sending!data, Sending!call, Sending!hist
<1>2. n \in Nat /\ size \in Nat
  BY SizesIn, FileAssumption DEF Sending!TransferAssumption, PosInv
<1>3. Sending!Carried \in Nat /\ Sending!Carried <= tail
  BY <1>2 DEF Sending!Carried, Sending!NoPos, PosInv
<1>4. Sending!Sizes' = Sending!Sizes
  BY <1>1 DEF Sending!Sizes
<1> QED
  BY <1>1, <1>2, <1>3, <1>4 DEF PosInv, Sending!NoFilter

LEMMA PosReadNothing == PosInv /\ Sending!ReadNothing => PosInv'
<1> SUFFICES ASSUME PosInv, Sending!ReadNothing PROVE PosInv'
  OBVIOUS
<1>1. /\ UNCHANGED <<stream, size, mode, tail, lastPos, filter, sent, skips>>
      /\ head' = -1 /\ curr' = -1
      /\ step' = IF step = "behind" THEN Sending!After(step, clock, left) ELSE "end"
  BY DEF Sending!ReadNothing, Sending!data, Sending!call, Sending!NoPos
<1>2. step' # "again"
  BY <1>1, AfterIs
<1>3. Sending!Sizes' = Sending!Sizes
  BY <1>1 DEF Sending!Sizes
<1> QED
  BY <1>1, <1>2, <1>3 DEF PosInv, Sending!NoFilter

LEMMA PosNeedMore == PosInv /\ Sending!NeedMore => PosInv'
<1> SUFFICES ASSUME PosInv, Sending!NeedMore PROVE PosInv'
  OBVIOUS
<1>1. /\ UNCHANGED <<stream, size, mode, curr, tail, lastPos, skips>>
      /\ head' = curr /\ step' = "need"
  BY DEF Sending!NeedMore, Sending!data, Sending!call
<1>2. mode # "send" => UNCHANGED <<filter, sent>>
  BY TransferOnlySends DEF Sending!NeedMore
<1>3. Sending!Sizes' = Sending!Sizes
  BY <1>1 DEF Sending!Sizes
<1> QED
  BY <1>1, <1>2, <1>3 DEF PosInv, Sending!NoFilter

LEMMA AtPacketIs ==
  ASSUME PosInv, Sending!AtPacket
  PROVE  /\ head \in Nat /\ curr \in Nat /\ head <= curr /\ tail \in Nat
         /\ curr + UnitSize \in Nat /\ curr + UnitSize < tail
<1>1. size \in Nat
  BY SizesIn DEF PosInv
<1>2. curr # -1 /\ tail - curr > UnitSize
  BY DEF Sending!AtPacket, Sending!Enough, Sending!NoPos
<1> QED
  BY <1>1, <1>2, UnitTyped DEF PosInv

\* Where it is found to be in sync again lies in the buffer.
LEMMA PlaceIs ==
  ASSUME PosInv, curr \in Nat, Sending!Places # {}
  PROVE  Sending!Min(Sending!Places) \in curr .. tail
<1>1. tail \in Nat
  <2>1. size \in Nat
    BY SizesIn DEF PosInv
  <2> QED
    BY <2>1 DEF PosInv
<1>2. SyncLen * UnitSize + 1 \in Nat
  <2>1. SyncLen \in Nat /\ UnitSize \in Nat
    BY UnitTyped, FileAssumption DEF Sending!TransferAssumption
  <2> QED
    BY <2>1
<1> DEFINE P == Sending!Places
           z == SyncLen * UnitSize
<1>3. P \subseteq curr .. tail - z - 1
  BY Zenon DEF Sending!Places
<1>4. z \in Int
  BY UnitTyped, FileAssumption DEF Sending!TransferAssumption
<1> HIDE DEF P, z
<1>5. P \subseteq curr .. tail
  <2>1. z \in Nat
    <3>1. SyncLen \in Nat /\ UnitSize \in Nat
      BY UnitTyped, FileAssumption DEF Sending!TransferAssumption
    <3> QED
      BY <3>1 DEF z
  <2> QED
    BY <1>1, <1>3, <2>1
<1>6. P \in SUBSET Nat /\ P # {}
  BY <1>5 DEF P
<1>7. \E x \in P : \A y \in P : x <= y
  BY <1>6, HasLeast, Zenon
<1>8. Sending!Min(P) \in P
  BY <1>7, Zenon DEF Sending!Min
<1> QED
  BY <1>5, <1>8 DEF P

\* Nothing further was gone through: the buffer goes on at a place that was found, or
\* all of it is given up.
LEMMA ResyncIs ==
  ASSUME PosInv, Sending!Resync
  PROVE  /\ head \in Nat /\ curr \in Nat /\ head <= curr /\ curr <= tail /\ tail \in Nat
         /\ skips \in Nat /\ skips' = skips + 1
         /\ UNCHANGED <<stream, size, mode, tail, lastPos, from, lost>>
         /\ step' \in {"packet", "resync"}
         /\ \/ curr' \in curr .. tail /\ step' = "packet" /\ UNCHANGED <<head, filter, sent>>
            \/ Sending!Transfer(tail, pcr) /\ head' = tail /\ curr' = tail
<1>1. tail \in Nat
  <2>1. size \in Nat
    BY SizesIn DEF PosInv
  <2> QED
    BY <2>1 DEF PosInv
<1>2. curr # -1
  BY AtPacketIs DEF Sending!Resync, PosInv
<1>3. head \in Nat /\ curr \in Nat /\ head <= curr /\ curr <= tail
  BY <1>2 DEF PosInv
<1>4. CASE Sending!Places # {}
  <2>1. /\ curr' = Sending!Min(Sending!Places) /\ step' = "packet"
        /\ UNCHANGED <<head, filter, sent>>
    BY <1>4 DEF Sending!Resync
  <2> QED
    BY <1>1, <1>3, <1>4, <2>1, PlaceIs DEF Sending!Resync, Sending!data, PosInv
<1>5. CASE Sending!Places = {}
  <2>1. Sending!Transfer(tail, pcr) /\ head' = tail /\ curr' = tail /\ step' = "resync"
    BY <1>5 DEF Sending!Resync
  <2> QED
    BY <1>1, <1>3, <2>1 DEF Sending!Resync, Sending!data, PosInv
<1> QED
  BY <1>4, <1>5

LEMMA PosResync == PosInv /\ Sending!Resync => PosInv'
<1> SUFFICES ASSUME PosInv, Sending!Resync PROVE PosInv'
  OBVIOUS
<1>1. /\ head \in Nat /\ curr \in Nat /\ head <= curr /\ curr <= tail /\ tail \in Nat
      /\ skips \in Nat /\ skips' = skips + 1
      /\ UNCHANGED <<stream, size, mode, tail, lastPos, from, lost>>
      /\ step' \in {"packet", "resync"}
      /\ \/ curr' \in curr .. tail /\ step' = "packet" /\ UNCHANGED <<head, filter, sent>>
         \/ Sending!Transfer(tail, pcr) /\ head' = tail /\ curr' = tail
  BY ResyncIs
<1>2. mode # "send" => UNCHANGED <<filter, sent>>
  BY <1>1, TransferOnlySends
<1>3. Sending!Sizes' = Sending!Sizes
  BY <1>1 DEF Sending!Sizes
<1> QED
  BY <1>1, <1>2, <1>3 DEF PosInv, Sending!NoFilter

\* A packet that is gone through, and what is sent with it.
LEMMA PacketIs ==
  ASSUME PosInv, Sending!Packet
  PROVE  /\ head \in Nat /\ curr \in Nat /\ head <= curr /\ tail \in Nat
         /\ curr % UnitSize = 0 /\ (curr + UnitSize) % UnitSize = 0
         /\ curr' = curr + UnitSize /\ curr' \in Nat /\ curr' <= tail
         /\ UNCHANGED <<stream, size, mode, tail, lastPos, from, lost, skips>>
         /\ step' \in {"packet", "end", "behind"}
         /\ \/ Sending!Transfer(curr', pcr') /\ head' = curr'
            \/ UNCHANGED <<head, filter, sent>> /\ step' # "behind"
<1>1. /\ head \in Nat /\ curr \in Nat /\ head <= curr /\ tail \in Nat
      /\ curr + UnitSize \in Nat /\ curr + UnitSize < tail
  BY AtPacketIs DEF Sending!Packet
<1>2. curr % UnitSize = 0
  BY DEF Sending!Packet, Sending!Synced, Sending!InSync, Sending!Aligned
<1>3. (curr + UnitSize) % UnitSize = 0
  <2>1. UnitSize \in Nat \ {0}
    BY UnitTyped
  <2> QED
    BY <1>1, <1>2, <2>1, Block
<1>4. /\ curr' = curr + UnitSize
      /\ UNCHANGED <<stream, size, mode, tail, lastPos, from, lost, skips>>
  BY DEF Sending!Packet, Sending!data
<1>5. \A f, n : Sending!After("behind", f, n) \in {"packet", "end"}
  BY DEF Sending!After
<1>6. \/ /\ Sending!Transfer(curr', pcr') /\ head' = curr'
         /\ step' \in {"packet", "end", "behind"}
      \/ UNCHANGED <<head, filter, sent>> /\ step' \in {"packet", "end"}
  BY <1>4, <1>5, Zenon DEF Sending!Packet
<1> QED
  BY <1>1, <1>2, <1>3, <1>4, <1>6

LEMMA PosPacket == PosInv /\ Sending!Packet => PosInv'
<1> SUFFICES ASSUME PosInv, Sending!Packet PROVE PosInv'
  OBVIOUS
<1>1. /\ head \in Nat /\ curr \in Nat /\ head <= curr /\ tail \in Nat
      /\ curr % UnitSize = 0 /\ (curr + UnitSize) % UnitSize = 0
      /\ curr' = curr + UnitSize /\ curr' \in Nat /\ curr' <= tail
      /\ UNCHANGED <<stream, size, mode, tail, lastPos, from, lost, skips>>
      /\ step' \in {"packet", "end", "behind"}
      /\ \/ Sending!Transfer(curr', pcr') /\ head' = curr'
         \/ UNCHANGED <<head, filter, sent>> /\ step' # "behind"
  BY PacketIs
<1>2. mode # "send" => UNCHANGED <<filter, sent>>
  BY <1>1, TransferOnlySends
<1>3. Sending!Sizes' = Sending!Sizes
  BY <1>1 DEF Sending!Sizes
<1>4. curr <= curr' /\ curr' % UnitSize = 0
  BY <1>1, UnitTyped
<1>5. skips' = 0 => head' = curr' \/ (head' % UnitSize = 0 /\ curr' % UnitSize = 0)
  BY <1>1, <1>4 DEF PosInv
<1> QED
  BY <1>1, <1>2, <1>3, <1>4, <1>5 DEF PosInv, Sending!NoFilter

LEMMA PosCalls ==
  ASSUME PosInv,
         \/ Sending!GoBack \/ Sending!Return \/ Sending!Send \/ Sending!Open
         \/ \E to \in 0 .. size : Sending!Seek(to)
  PROVE  PosInv'
<1> USE DEF Sending!Called, Sending!NoPos, Sending!NoFilter, Sending!data, Sending!hist
<1>1. size \in Nat
  BY SizesIn DEF PosInv
<1>2. UNCHANGED <<stream, size>>
  BY DEF Sending!GoBack, Sending!Return, Sending!Send, Sending!Open, Sending!Seek
<1>3. Sending!Sizes' = Sending!Sizes
  BY <1>2 DEF Sending!Sizes
<1>4. CASE Sending!GoBack
  BY <1>1, <1>2, <1>3, <1>4 DEF Sending!GoBack, PosInv
<1>5. CASE Sending!Return
  BY <1>1, <1>2, <1>3, <1>5 DEF Sending!Return, PosInv
<1>6. CASE Sending!Send
  BY <1>1, <1>2, <1>3, <1>6 DEF Sending!Send, PosInv
<1>7. CASE Sending!Open
  BY <1>1, <1>2, <1>3, <1>7 DEF Sending!Open, PosInv
<1>8. ASSUME NEW to \in 0 .. size, Sending!Seek(to) PROVE PosInv'
  BY <1>1, <1>2, <1>3, <1>8 DEF Sending!Seek, PosInv
<1> QED
  BY <1>4, <1>5, <1>6, <1>7, <1>8

LEMMA PosStep == PosInv /\ Sending!Next => PosInv'
BY PosGrow, PosRead, PosReadNothing, PosNeedMore, PosResync, PosPacket, PosCalls
   DEF Sending!Next

-----------------------------------------------------------------------------
(* What a step sends *)

LEMMA AddsAtMost ==
  ASSUME NEW A, IsFiniteSet(A), NEW c \in Nat, NEW r \in Nat, NEW B,
         B \subseteq A \cup (c - r .. c - 1)
  PROVE  /\ IsFiniteSet(B) /\ Cardinality(A) \in Nat /\ Cardinality(B) \in Nat
         /\ Cardinality(B) <= Cardinality(A) + r
<1> DEFINE C == c - r .. c - 1
<1>1. IsFiniteSet(C) /\ Cardinality(C) = r
  <2>1. c - r \in Int /\ c - 1 \in Int
    OBVIOUS
  <2>2. /\ IsFiniteSet(C)
        /\ Cardinality(C) = IF c - r > c - 1 THEN 0 ELSE (c - 1) - (c - r) + 1
    BY <2>1, FS_Interval
  <2> QED
    BY <2>2
<1> HIDE DEF C
<1>2. IsFiniteSet(A \cup C) /\ IsFiniteSet(A \cap C)
      /\ Cardinality(A \cup C) = Cardinality(A) + Cardinality(C) - Cardinality(A \cap C)
  BY <1>1, FS_Union, FS_Intersection
<1>3. /\ Cardinality(A) \in Nat /\ Cardinality(A \cap C) \in Nat
      /\ Cardinality(A \cup C) \in Nat
  BY <1>2, FS_CardinalityType
<1>4. IsFiniteSet(B) /\ Cardinality(B) <= Cardinality(A \cup C) /\ Cardinality(B) \in Nat
  BY <1>2, FS_Subset, FS_CardinalityType DEF C
<1> QED
  BY <1>1, <1>2, <1>3, <1>4

LEMMA MissedFinite ==
  ASSUME NEW s, NEW fr \in Nat, NEW lo, NEW o, NEW e \in Nat
  PROVE  IsFiniteSet(Missed(s, fr, lo, o, e))
<1>1. IsFiniteSet(fr .. e - 1)
  BY FS_Interval
<1>2. Missed(s, fr, lo, o, e) \subseteq fr .. e - 1
  BY DEF Missed
<1> QED
  BY <1>1, <1>2, FS_Subset

LEMMA FilteredAlso ==
  ASSUME NEW s, NEW fr, NEW lo, NEW c1 \in BOOLEAN, NEW c2 \in BOOLEAN, NEW f, NEW e,
         Filtered(s, fr, lo, c1, f, e), c2 => c1
  PROVE  Filtered(s, fr, lo, c2, f, e)
BY DEF Filtered

\* What is transferred up to c.
LEMMA TransferKeeps ==
  ASSUME PosInv, mode = "send", head \in Nat, SentTo(head),
         NEW c, c \in Nat, head <= c, c <= tail, NEW l, Sending!Transfer(c, l),
         NEW clean \in BOOLEAN,
         clean => skips = 0 /\ (head = c \/ (head % UnitSize = 0 /\ c % UnitSize = 0))
  PROVE  /\ Filtered(stream, from, lost, clean,
                     [drop |-> filter'.drop, cc |-> filter'.cc, out |-> sent'], c)
         /\ Missed(stream, from, lost, sent', c)
              \subseteq Missed(stream, from, lost, sent, head)
                          \cup (c - ((c - head) % UnitSize) .. c - 1)
         /\ clean => \A p \in Inside(from, lost, c) : p + UnitSize <= c
<1>1. /\ from \in Nat /\ from <= head /\ lost \subseteq 0 .. head - 1
      /\ Filtered(stream, from, lost, clean, Now, head)
  <2>1. (skips = 0) \in BOOLEAN
    OBVIOUS
  <2>2. Filtered(stream, from, lost, skips = 0, Now, head)
    BY DEF SentTo
  <2> QED
    BY <2>1, <2>2, FilteredAlso DEF SentTo
<1>2. CASE c = head
  <2>1. UNCHANGED <<filter, sent>>
    BY <1>2 DEF Sending!Transfer
  <2>2. clean => \A p \in Inside(from, lost, c) : p + UnitSize <= c
    BY <1>2 DEF SentTo
  <2> QED
    BY <1>1, <1>2, <2>1, <2>2 DEF Now
<1>3. CASE c # head
  <2> DEFINE t == Sending!Through(head, c)
  <2>1. filter' = [drop |-> t.drop, cc |-> t.cc] /\ sent' = t.out
    <3>1. c > head
      BY <1>3
    <3> QED
      BY <3>1, Zenon DEF Sending!Transfer, Sending!Sends
  <2>2. c <= Len(stream) * UnitSize
    <3>1. size \in Nat /\ size <= Len(stream) * UnitSize
      BY SizesIn DEF PosInv
    <3>2. PICK n : n = Len(stream) * UnitSize
      OBVIOUS
    <3>3. n \in Int
      <4>1. stream \in Seq(Sending!Packets)
        BY FileAssumption DEF Sending!TransferAssumption, PosInv
      <4>2. Len(stream) \in Nat
        BY <4>1
      <4> QED
        BY <3>2, <4>2, UnitTyped
    <3>4. tail \in Nat /\ tail <= size
      BY <3>1 DEF PosInv
    <3>5. c <= n
      BY <3>1, <3>2, <3>3, <3>4
    <3> QED
      BY <3>2, <3>5
  <2>3. clean => head % UnitSize = 0 /\ c % UnitSize = 0
    BY <1>3
  <2>4. /\ Filtered(stream, from, lost, clean, t, c)
        /\ Missed(stream, from, lost, t.out, c)
             \subseteq Missed(stream, from, lost, sent, head)
                         \cup (c - ((c - head) % UnitSize) .. c - 1)
    BY <1>1, <2>2, <2>3, ThroughKeeps DEF PosInv, Now
  <2> HIDE DEF t
  <2>5. t = [drop |-> filter'.drop, cc |-> filter'.cc, out |-> sent']
    BY <2>1, <2>4 DEF Filtered, Filtering
  <2>6. ASSUME clean, NEW p \in Inside(from, lost, c) PROVE p + UnitSize <= c
    <3>1. p \in Nat /\ p < c /\ p % UnitSize = 0 /\ UnitSize \in Nat \ {0}
      BY <1>1, UnitTyped DEF Inside
    <3> QED
      BY <2>3, <2>6, <3>1, Block
  <2> QED
    BY <2>1, <2>4, <2>5, <2>6
<1> QED
  BY <1>2, <1>3

\* Up to c, where the buffer is left empty behind what was gone through.
LEMMA SentMoves ==
  ASSUME PosInv, mode = "send", head \in Nat, SentTo(head),
         NEW c, c \in Nat, head <= c, c <= tail, NEW l, Sending!Transfer(c, l),
         UNCHANGED <<stream, from, lost>>, head' = c, curr' = c, skips \in Nat, skips' \in Nat,
         skips' = 0 => skips = 0 /\ (head = c \/ (head % UnitSize = 0 /\ c % UnitSize = 0)),
         (UnitSize - 1) * (skips - Owed) + ((c - head) % UnitSize) <= (UnitSize - 1) * skips'
  PROVE  SentTo(head)'
<1> DEFINE clean == skips' = 0
           r == (c - head) % UnitSize
           A == Missed(stream, from, lost, sent, head)
           B == Missed(stream, from, lost, sent', c)
           f == [drop |-> filter'.drop, cc |-> filter'.cc, out |-> sent']
<1>1. clean \in BOOLEAN
  OBVIOUS
<1>2. /\ Filtered(stream, from, lost, clean, f, c)
      /\ B \subseteq A \cup (c - r .. c - 1)
      /\ clean => \A p \in Inside(from, lost, c) : p + UnitSize <= c
  BY <1>1, TransferKeeps
<1>3. r \in Nat
  <2>1. c - head \in Nat /\ UnitSize \in Nat \ {0}
    BY UnitTyped
  <2> QED
    BY <2>1, Parts
<1>4. /\ from \in Nat /\ from <= c /\ lost \subseteq 0 .. c - 1
      /\ Cardinality(A) <= (UnitSize - 1) * (skips - Owed)
  BY DEF SentTo
<1>5. Owed \in {0, 1} /\ Owed' = 0
  <2>1. 0 % UnitSize = 0
    <3>1. UnitSize \in Nat \ {0}
      BY UnitTyped
    <3> QED
      BY <3>1
  <2>2. curr' - head' = 0
    OBVIOUS
  <2> QED
    BY <2>1, <2>2 DEF Owed
<1>6. Cardinality(A) \in Nat /\ Cardinality(B) \in Nat /\ Cardinality(B) <= Cardinality(A) + r
  <2> HIDE DEF r, A, B
  <2>1. IsFiniteSet(A)
    BY <1>4, MissedFinite DEF A
  <2> QED
    BY <1>2, <1>3, <2>1, AddsAtMost
<1>7. Cardinality(B) <= (UnitSize - 1) * skips'
  <2>1. PICK x, y : x = (UnitSize - 1) * (skips - Owed) /\ y = (UnitSize - 1) * skips'
    OBVIOUS
  <2>2. x \in Int /\ y \in Int
    BY <1>5, <2>1, UnitTyped
  <2>3. x + r <= y /\ Cardinality(A) <= x
    BY <1>4, <2>1
  <2> HIDE DEF r, A, B
  <2>4. Cardinality(B) <= y
    BY <1>3, <1>6, <2>2, <2>3
  <2> QED
    BY <2>1, <2>4
<1>8. Cardinality(B) <= (UnitSize - 1) * (skips' - Owed')
  <2>1. \A n \in Nat : n - 0 = n
    OBVIOUS
  <2>2. skips' - Owed' = skips'
    BY <1>5, <2>1, Zenon
  <2> QED
    BY <1>7, <2>2
<1>9. f = Now'
  BY DEF Now
<1> HIDE DEF B, f, clean
<1> QED
  BY <1>2, <1>4, <1>8, <1>9 DEF SentTo, B, clean

LEMMA OwedIs ==
  /\ Owed \in {0, 1} /\ (curr = -1 => Owed = 0) /\ (head = curr /\ curr \in Nat => Owed = 0)
  /\ (PosInv /\ skips = 0 => Owed = 0)
<1>1. UnitSize \in Nat \ {0}
  BY UnitTyped
<1>2. 0 % UnitSize = 0
  BY <1>1
<1>3. head = curr /\ curr \in Nat => Owed = 0
  <2>1. head = curr /\ curr \in Nat => curr - head = 0
    OBVIOUS
  <2> QED
    BY <1>2, <2>1 DEF Owed
<1>4. ASSUME PosInv, skips = 0 PROVE Owed = 0
  <2>1. CASE curr = -1
    BY <2>1 DEF Owed
  <2>2. CASE curr # -1 /\ head = curr
    BY <1>3, <1>4, <2>2 DEF PosInv
  <2>3. CASE curr # -1 /\ head # curr
    <3>1. head \in Nat /\ curr \in Nat /\ head <= curr /\ head % UnitSize = 0 /\ curr % UnitSize = 0
      BY <1>4, <2>3 DEF PosInv
    <3>2. (curr - head) % UnitSize = 0
      <4>1. PICK n \in Nat, r \in 0 .. UnitSize - 1 :
              r = (curr - head) % UnitSize /\ n = (curr - head) \div UnitSize
        <5>1. curr - head \in Nat
          BY <3>1
        <5> QED
          BY <1>1, <5>1, Parts
      <4>2. curr = head + n * UnitSize + r /\ head + n * UnitSize = curr
        BY <1>1, <3>1, <4>1, BlocksTo
      <4>3. n * UnitSize \in Nat
        BY <1>1
      <4> QED
        BY <3>1, <4>1, <4>2, <4>3
    <3> QED
      BY <3>2 DEF Owed
  <2> QED
    BY <2>1, <2>2, <2>3
<1> QED
  BY <1>3, <1>4 DEF Owed

LEMMA SentStays ==
  ASSUME SentTo(Sending!End), UNCHANGED <<stream, from, lost, skips, sent, filter>>,
         Sending!End' = Sending!End, Owed' = Owed
  PROVE  SentTo(Sending!End)'
BY DEF SentTo, Now

LEMMA SentRead ==
  ASSUME PosInv, SentInv, NEW n \in ReadLengths, Sending!Read(n)
  PROVE  SentInv'
<1> SUFFICES ASSUME mode' = "send" \/ step' = "idle" PROVE SentTo(Sending!End)'
  BY DEF SentInv
<1>1. /\ UNCHANGED <<stream, mode, from, lost, skips, sent, filter>>
      /\ step \in {"need", "resync", "behind"}
      /\ head' = Sending!Carried /\ curr' = Sending!Carried
      /\ step' \in {step, Sending!After(step, clock, left)}
  BY DEF Sending!Read, Sending!Readings, Sending!data, Sending!call, Sending!hist
<1>2. mode = "send" /\ SentTo(Sending!End)
  BY <1>1, AfterIs DEF SentInv
<1>3. /\ tail \in Nat /\ Sending!Carried \in Nat /\ Sending!Carried = Sending!End
      /\ head = curr /\ (curr = -1 \/ curr \in Nat)
  <2>1. size \in Nat
    BY SizesIn DEF PosInv
  <2> QED
    BY <1>1, <2>1 DEF PosInv, Sending!Carried, Sending!End, Sending!NoPos
<1>4. Sending!End' = Sending!End
  BY <1>1, <1>3 DEF Sending!End, Sending!NoPos
<1>5. Owed = 0 /\ Owed' = 0
  <2>1. Owed = 0
    BY <1>3, OwedIs
  <2>2. curr' - head' = 0
    BY <1>1, <1>3
  <2>3. 0 % UnitSize = 0
    <3>1. UnitSize \in Nat \ {0}
      BY UnitTyped
    <3> QED
      BY <3>1
  <2> QED
    BY <2>1, <2>2, <2>3 DEF Owed
<1> QED
  BY <1>1, <1>2, <1>4, <1>5, SentStays

\* What is left of the buffer is lost, as it was read and not gone through.
LEMMA SentReadNothing == PosInv /\ SentInv /\ Sending!ReadNothing => SentInv'
<1> SUFFICES ASSUME PosInv, SentInv, Sending!ReadNothing, mode' = "send" \/ step' = "idle"
             PROVE  SentTo(Sending!End)'
  BY DEF SentInv
<1>1. /\ UNCHANGED <<stream, mode, from, skips, sent, filter, tail>>
      /\ step \in {"need", "resync", "behind"}
      /\ head' = -1 /\ curr' = -1 /\ lost' = lost \cup (Sending!Carried .. tail - 1)
      /\ step' \in {"end", Sending!After(step, clock, left)}
  BY DEF Sending!ReadNothing, Sending!Readings, Sending!data, Sending!call, Sending!NoPos
<1>2. mode = "send" /\ SentTo(Sending!End)
  BY <1>1, AfterIs DEF SentInv
<1> DEFINE e == Sending!End
<1>3. /\ tail \in Nat /\ e \in Nat /\ Sending!Carried = e /\ e <= tail
      /\ head = curr /\ (curr = -1 \/ curr \in Nat)
  <2>1. size \in Nat
    BY SizesIn DEF PosInv
  <2> QED
    BY <1>1, <2>1 DEF PosInv, Sending!Carried, Sending!End, Sending!NoPos
<1>4. e' = tail
  BY <1>1 DEF Sending!End, Sending!NoPos
<1>5. Owed = 0 /\ Owed' = 0
  BY <1>1, <1>3, OwedIs DEF Owed
<1> HIDE DEF e
<1>6. /\ from \in Nat /\ from <= e /\ lost \subseteq 0 .. e - 1
      /\ Filtered(stream, from, lost, skips = 0, Now, e)
      /\ skips = 0 => \A p \in Inside(from, lost, e) : p + UnitSize <= e
      /\ Cardinality(Missed(stream, from, lost, sent, e)) <= (UnitSize - 1) * (skips - Owed)
  BY <1>2 DEF SentTo, e
<1>7. Inside(from, lost', tail) = Inside(from, lost, e)
  <2>1. \A p : p \in Inside(from, lost', tail) <=> p \in Inside(from, lost, e)
    BY <1>1, <1>3, <1>6 DEF Inside
  <2> QED
    BY <2>1
<1>8. Filtered(stream, from, lost', skips = 0, Now, tail)
  <2>1. Now \in Filtering /\ Now.out \in Seq(Item) /\ InRun(from, Now.out, e)
    BY <1>6 DEF Filtered, Filtering
  <2>2. InRun(from, Now.out, tail)
    <3>1. PICK d \in Nat : tail = e + d
      <4>1. tail - e \in Nat /\ tail = e + (tail - e)
        BY <1>3
      <4> QED
        BY <4>1
    <3> QED
      BY <1>3, <1>6, <2>1, <3>1, RunGrows
  <2> QED
    BY <1>6, <1>7, <2>2 DEF Filtered
<1>9. Cardinality(Missed(stream, from, lost', sent, tail))
        <= Cardinality(Missed(stream, from, lost, sent, e))
  <2>1. Missed(stream, from, lost', sent, tail) \subseteq Missed(stream, from, lost, sent, e)
    BY <1>1, <1>3, <1>6 DEF Missed
  <2>2. IsFiniteSet(Missed(stream, from, lost, sent, e))
    BY <1>3, <1>6, MissedFinite
  <2> QED
    BY <2>1, <2>2, FS_Subset
<1>10. Cardinality(Missed(stream, from, lost', sent, tail))
         <= (UnitSize - 1) * (skips - 0)
  <2>1. /\ IsFiniteSet(Missed(stream, from, lost, sent, e))
        /\ IsFiniteSet(Missed(stream, from, lost', sent, tail))
    BY <1>3, <1>6, MissedFinite
  <2>2. /\ Cardinality(Missed(stream, from, lost, sent, e)) \in Nat
        /\ Cardinality(Missed(stream, from, lost', sent, tail)) \in Nat
    BY <2>1, FS_CardinalityType
  <2>3. PICK a, b, x : /\ a = Cardinality(Missed(stream, from, lost', sent, tail))
                       /\ b = Cardinality(Missed(stream, from, lost, sent, e))
                       /\ x = (UnitSize - 1) * (skips - 0)
    OBVIOUS
  <2>4. x \in Int
    BY <2>3, UnitTyped DEF PosInv
  <2>5. b <= x
    BY <1>5, <1>6, <2>3, Zenon
  <2>6. a <= x
    BY <1>9, <2>2, <2>3, <2>4, <2>5
  <2> QED
    BY <2>3, <2>6
<1>11. lost' \subseteq 0 .. tail - 1 /\ from <= tail
  BY <1>1, <1>3, <1>6
<1>12. skips = 0 => \A p \in Inside(from, lost', tail) : p + UnitSize <= tail
  <2>1. \A p \in Inside(from, lost, e) : p \in Nat
    BY <1>6 DEF Inside
  <2>2. UnitSize \in Nat
    BY UnitTyped
  <2> QED
    BY <1>3, <1>6, <1>7, <2>1, <2>2
<1>13. Now' = Now
  BY <1>1 DEF Now
<1> QED
  BY <1>1, <1>4, <1>5, <1>6, <1>8, <1>10, <1>11, <1>12, <1>13, Zenon DEF SentTo, e

LEMMA SentNeedMore == PosInv /\ SentInv /\ Sending!NeedMore => SentInv'
<1> SUFFICES ASSUME PosInv, SentInv, Sending!NeedMore, mode' = "send" \/ step' = "idle"
             PROVE  SentTo(Sending!End)'
  BY DEF SentInv
<1>1. /\ UNCHANGED <<stream, mode, curr, tail, from, lost, skips>>
      /\ head' = curr /\ step' = "need" /\ Sending!Transfer(curr, pcr)
  BY DEF Sending!NeedMore, Sending!data, Sending!call
<1>2. mode = "send" /\ SentTo(Sending!End)
  BY <1>1 DEF SentInv
<1>3. CASE curr = -1
  <2>1. UNCHANGED <<filter, sent>>
    <3>1. head = -1 /\ ~ (curr > head)
      BY <1>3 DEF PosInv
    <3> QED
      BY <1>1, <3>1 DEF Sending!Transfer
  <2>2. Sending!End' = Sending!End /\ Owed = 0 /\ Owed' = 0
    BY <1>1, <1>3 DEF Sending!End, Sending!NoPos, Owed
  <2> QED
    BY <1>1, <1>2, <2>1, <2>2, SentStays
<1>4. CASE curr # -1
  <2>1. head \in Nat /\ curr \in Nat /\ head <= curr /\ curr <= tail /\ skips \in Nat
    BY <1>4 DEF PosInv
  <2>2. Sending!End = head /\ (Sending!End)' = head'
    BY <1>1, <1>4 DEF Sending!End, Sending!NoPos
  <2>3. SentTo(head)
    BY <1>2, <2>2
  <2>4. (UnitSize - 1) * (skips - Owed) + ((curr - head) % UnitSize) <= (UnitSize - 1) * skips'
    <3>1. curr - head \in Nat /\ UnitSize \in Nat \ {0}
      BY <2>1, UnitTyped
    <3>2. PICK r \in 0 .. UnitSize - 1 : r = (curr - head) % UnitSize
      BY <3>1, Parts
    <3>3. CASE Owed = 0
      <4>1. r = 0
        BY <1>4, <3>2, <3>3 DEF Owed
      <4>2. (UnitSize - 1) * skips \in Int
        BY <2>1, <3>1
      <4>3. skips - Owed = skips
        BY <2>1, <3>3
      <4> QED
        BY <1>1, <3>2, <4>1, <4>2, <4>3
    <3>4. CASE Owed = 1
      <4>1. (UnitSize - 1) * (skips - 1) = (UnitSize - 1) * skips - (UnitSize - 1)
        BY <2>1, <3>1
      <4>2. (UnitSize - 1) * skips \in Int
        BY <2>1, <3>1
      <4> QED
        BY <1>1, <3>1, <3>2, <3>4, <4>1, <4>2
    <3> QED
      BY <3>3, <3>4, OwedIs
  <2>5. SentTo(head)'
    <3>1. skips' = 0 => skips = 0 /\ (head = curr \/ (head % UnitSize = 0 /\ curr % UnitSize = 0))
      BY <1>1 DEF PosInv
    <3>2. skips' \in Nat /\ curr' = curr
      BY <1>1, <2>1
    <3> QED
      BY <1>1, <1>2, <2>1, <2>3, <2>4, <3>1, <3>2, SentMoves
  <2> QED
    BY <2>2, <2>5 DEF SentTo
<1> QED
  BY <1>3, <1>4

LEMMA SentResync == PosInv /\ SentInv /\ Sending!Resync => SentInv'
<1> SUFFICES ASSUME PosInv, SentInv, Sending!Resync, mode' = "send" \/ step' = "idle"
             PROVE  SentTo(Sending!End)'
  BY DEF SentInv
<1>1. /\ head \in Nat /\ curr \in Nat /\ head <= curr /\ curr <= tail /\ tail \in Nat
      /\ skips \in Nat /\ skips' = skips + 1
      /\ UNCHANGED <<stream, size, mode, tail, lastPos, from, lost>>
      /\ step' \in {"packet", "resync"}
      /\ \/ curr' \in curr .. tail /\ step' = "packet" /\ UNCHANGED <<head, filter, sent>>
         \/ Sending!Transfer(tail, pcr) /\ head' = tail /\ curr' = tail
  BY ResyncIs
<1>2. mode = "send" /\ SentTo(Sending!End)
  BY <1>1 DEF SentInv
<1>3. /\ Sending!End = head /\ (Sending!End)' = head' /\ curr' # -1
  BY <1>1 DEF Sending!End, Sending!NoPos
<1>4. SentTo(head)
  BY <1>2, <1>3
<1>5. /\ UnitSize \in Nat \ {0} /\ Owed \in {0, 1} /\ skips' # 0 /\ skips' \in Nat
  BY <1>1, UnitTyped, OwedIs
<1>6. CASE curr' \in curr .. tail /\ UNCHANGED <<head, filter, sent>>
  <2>1. Owed' \in {0, 1}
    BY DEF Owed
  <2>2. (UnitSize - 1) * (skips - Owed) <= (UnitSize - 1) * (skips' - Owed')
    <3>1. PICK v \in Nat, i \in Int, j \in Int :
            v = UnitSize - 1 /\ i = skips - Owed /\ j = skips' - Owed' /\ i <= j
      <4>1. /\ UnitSize - 1 \in Nat /\ skips - Owed \in Int /\ skips' - Owed' \in Int
            /\ skips - Owed <= skips' - Owed'
        <5>1. PICK a \in {0, 1}, b \in {0, 1}, k \in Nat :
                a = Owed /\ b = Owed' /\ k = skips /\ skips' = k + 1
          BY <1>1, <1>5, <2>1, Zenon
        <5>2. k - a \in Int /\ (k + 1) - b \in Int /\ k - a <= (k + 1) - b
          OBVIOUS
        <5>3. UnitSize - 1 \in Nat
          BY <1>5
        <5> QED
          BY <5>1, <5>2, <5>3, Zenon
      <4> QED
        BY <4>1
    <3>2. v * i <= v * j
      BY <3>1, Times
    <3> QED
      BY <3>1, <3>2
  <2>3. /\ from \in Nat /\ from <= head /\ lost \subseteq 0 .. head - 1
        /\ Filtered(stream, from, lost, skips = 0, Now, head)
        /\ Cardinality(Missed(stream, from, lost, sent, head)) <= (UnitSize - 1) * (skips - Owed)
    BY <1>4 DEF SentTo
  <2>4. Filtered(stream, from, lost, skips' = 0, Now, head)
    <3>1. (skips = 0) \in BOOLEAN /\ (skips' = 0) \in BOOLEAN /\ (skips' = 0 => skips = 0)
      BY <1>5
    <3> QED
      BY <2>3, <3>1, FilteredAlso
  <2>5. Cardinality(Missed(stream, from, lost, sent, head))
          <= (UnitSize - 1) * (skips' - Owed')
    <3>1. PICK x, y : x = (UnitSize - 1) * (skips - Owed) /\ y = (UnitSize - 1) * (skips' - Owed')
      OBVIOUS
    <3>2. x \in Int /\ y \in Int
      BY <1>1, <1>5, <2>1, <3>1
    <3>3. Cardinality(Missed(stream, from, lost, sent, head)) \in Nat
      BY <1>1, <2>3, MissedFinite, FS_CardinalityType
    <3>4. Cardinality(Missed(stream, from, lost, sent, head)) <= y
      BY <2>2, <2>3, <3>1, <3>2, <3>3
    <3> QED
      BY <3>1, <3>4
  <2>6. Now' = Now
    BY <1>6 DEF Now
  <2>7. SentTo(head)'
    BY <1>1, <1>5, <1>6, <2>3, <2>4, <2>5, <2>6, Zenon DEF SentTo
  <2> QED
    BY <1>3, <2>7 DEF SentTo
<1>7. CASE Sending!Transfer(tail, pcr) /\ head' = tail /\ curr' = tail
  <2>1. head <= tail
    BY <1>1
  <2>2. (UnitSize - 1) * (skips - Owed) + ((tail - head) % UnitSize) <= (UnitSize - 1) * skips'
    <3>1. PICK r \in 0 .. UnitSize - 1 : r = (tail - head) % UnitSize
      <4>1. tail - head \in Nat
        BY <1>1, <2>1
      <4> QED
        BY <1>5, <4>1, Parts
    <3>2. PICK v \in Nat, i \in Int : v = UnitSize - 1 /\ i = skips - Owed /\ i <= skips
      BY <1>1, <1>5
    <3>3. v * i <= v * skips
      BY <1>1, <3>2, Times
    <3>4. v * (skips + 1) = v * skips + v /\ v * skips \in Int /\ v * i \in Int
      BY <1>1, <3>2
    <3>5. r <= v
      BY <1>5, <3>1, <3>2
    <3>6. v * i + r <= v * (skips + 1)
      BY <3>1, <3>2, <3>3, <3>4, <3>5
    <3> QED
      BY <1>1, <3>1, <3>2, <3>6
  <2>3. SentTo(head)'
    <3>1. skips' = 0 => skips = 0 /\ (head = tail \/ (head % UnitSize = 0 /\ tail % UnitSize = 0))
      BY <1>5
    <3>2. tail <= tail /\ UNCHANGED <<stream, from, lost>>
      BY <1>1
    <3> QED
      BY <1>1, <1>2, <1>4, <1>5, <1>7, <2>1, <2>2, <3>1, <3>2, SentMoves
  <2> QED
    BY <1>3, <2>3 DEF SentTo
<1> QED
  BY <1>1, <1>6, <1>7

LEMMA SentPacket == PosInv /\ SentInv /\ Sending!Packet => SentInv'
<1> SUFFICES ASSUME PosInv, SentInv, Sending!Packet, mode' = "send" \/ step' = "idle"
             PROVE  SentTo(Sending!End)'
  BY DEF SentInv
<1> DEFINE c == curr'
<1>1. /\ head \in Nat /\ curr \in Nat /\ head <= curr /\ tail \in Nat
      /\ curr % UnitSize = 0 /\ (curr + UnitSize) % UnitSize = 0
      /\ c = curr + UnitSize /\ c \in Nat /\ c <= tail
      /\ UNCHANGED <<stream, size, mode, tail, lastPos, from, lost, skips>>
      /\ step' \in {"packet", "end", "behind"}
      /\ \/ Sending!Transfer(c, pcr') /\ head' = c
         \/ UNCHANGED <<head, filter, sent>> /\ step' # "behind"
  BY PacketIs
<1>2. mode = "send" /\ SentTo(Sending!End)
  BY <1>1 DEF SentInv
<1>3. /\ Sending!End = head /\ (Sending!End)' = head' /\ head <= c
  BY <1>1, UnitTyped DEF Sending!End, Sending!NoPos
<1>4. SentTo(head) /\ skips \in Nat
  BY <1>2, <1>3 DEF PosInv
<1>5. UnitSize \in Nat \ {0}
  BY UnitTyped
<1>6. (c - head) % UnitSize = (curr - head) % UnitSize
  <2>1. PICK n \in Nat, r \in 0 .. UnitSize - 1 :
          r = (curr - head) % UnitSize /\ curr - head = UnitSize * n + r
    <3>1. curr - head \in Nat
      BY <1>1
    <3> QED
      BY <1>5, <3>1, Parts
  <2>2. UnitSize * (n + 1) = UnitSize * n + UnitSize /\ UnitSize * n \in Nat
    BY <1>5
  <2>3. c - head = UnitSize * (n + 1) + r
    <3>1. c - head = (curr - head) + UnitSize
      BY <1>1, <1>5
    <3> QED
      BY <2>1, <2>2, <3>1, <1>5
  <2>4. (UnitSize * (n + 1) + r) % UnitSize = r
    BY <1>5, PartsOnly
  <2> QED
    BY <2>1, <2>3, <2>4
<1> HIDE DEF c
<1>7. CASE Sending!Transfer(c, pcr') /\ head' = c
  <2>1. (UnitSize - 1) * (skips - Owed) + ((c - head) % UnitSize) <= (UnitSize - 1) * skips'
    <3>1. PICK r \in 0 .. UnitSize - 1 : r = (curr - head) % UnitSize
      <4>1. curr - head \in Nat
        BY <1>1
      <4> QED
        BY <1>5, <4>1, Parts
    <3>2. CASE Owed = 0
      <4>1. r = 0
        BY <1>1, <3>1, <3>2 DEF Owed
      <4>2. (UnitSize - 1) * skips \in Int
        BY <1>4, <1>5
      <4>3. skips - Owed = skips
        BY <1>4, <3>2
      <4> QED
        BY <1>1, <1>6, <3>1, <4>1, <4>2, <4>3
    <3>3. CASE Owed = 1
      <4>1. (UnitSize - 1) * (skips - 1) = (UnitSize - 1) * skips - (UnitSize - 1)
        BY <1>4, <1>5
      <4>2. (UnitSize - 1) * skips \in Int
        BY <1>4, <1>5
      <4> QED
        BY <1>1, <1>5, <1>6, <3>1, <3>3, <4>1, <4>2
    <3> QED
      BY <3>2, <3>3, OwedIs
  <2>2. SentTo(head)'
    <3>1. skips' = 0 => skips = 0 /\ (head = c \/ (head % UnitSize = 0 /\ c % UnitSize = 0))
      BY <1>1 DEF PosInv
    <3>2. skips' \in Nat /\ curr' = c /\ UNCHANGED <<stream, from, lost>>
      BY <1>1, <1>4 DEF c
    <3> QED
      BY <1>1, <1>2, <1>3, <1>4, <1>7, <2>1, <3>1, <3>2, SentMoves
  <2> QED
    BY <1>3, <2>2 DEF SentTo
<1>8. CASE UNCHANGED <<head, filter, sent>>
  <2>1. Owed' = Owed
    <3>1. (curr' - head') % UnitSize = (curr - head) % UnitSize /\ curr # -1 /\ curr' # -1
      BY <1>1, <1>6, <1>8 DEF c
    <3> QED
      BY <3>1 DEF Owed
  <2> QED
    BY <1>1, <1>2, <1>3, <1>8, <2>1, SentStays
<1> QED
  BY <1>1, <1>7, <1>8

\* Nothing was sent yet since a seek came to its place.
LEMMA NothingSent ==
  ASSUME PosInv, Sending!Return, mode # "send"
  PROVE  SentTo(Sending!End)'
<1> DEFINE e == Sending!End
<1>1. /\ UNCHANGED <<stream, head, curr, tail, skips, sent, filter>>
      /\ from' = (IF curr = -1 THEN tail ELSE head) /\ lost' = {}
  BY DEF Sending!Return, Sending!data, Sending!Sends, Sending!NoPos
<1>2. e' = e /\ from' = e /\ e \in Nat
  <2>1. tail \in Nat
    <3>1. size \in Nat
      BY SizesIn DEF PosInv
    <3> QED
      BY <3>1 DEF PosInv
  <2> QED
    BY <1>1, <2>1 DEF Sending!End, Sending!NoPos, PosInv
<1>3. Now' = [drop |-> FALSE, cc |-> -1, out |-> <<>>] /\ sent' = <<>>
  <2>1. filter' = [drop |-> FALSE, cc |-> -1] /\ sent' = <<>>
    BY <1>1 DEF PosInv, Sending!NoFilter, Sending!NoPos
  <2>2. filter'.drop = FALSE /\ filter'.cc = -1
    BY <2>1
  <2> QED
    BY <2>1, <2>2, Zenon DEF Now
<1> DEFINE f == [drop |-> FALSE, cc |-> -1, out |-> <<>>]
<1> HIDE DEF e
<1>4. Inside(e, {}, e) = {} /\ Missed(stream, e, {}, <<>>, e) = {}
  BY <1>2 DEF Inside, Missed
<1>5. Filtered(stream, e, {}, skips = 0, f, e)
  <2>1. f \in Filtering
    BY DEF Filtering
  <2>2. f.out = <<>> /\ f.cc = -1 /\ f.drop = FALSE /\ Len(<<>>) = 0
    OBVIOUS
  <2> HIDE DEF f
  <2>3. InRun(e, f.out, e) /\ InSequence(f.out) /\ Counts(f.out, f.cc)
    BY <2>2 DEF InRun, InSequence, Counts
  <2>4. Exact(stream, {}, f)
    <3>1. UnitsOf(f.out) = {}
      BY <2>2 DEF UnitsOf
    <3> QED
      BY <2>2, <3>1 DEF Exact, InTable
  <2> QED
    BY <1>4, <2>1, <2>3, <2>4 DEF Filtered
<1>6. Cardinality(Missed(stream, e, {}, <<>>, e)) <= (UnitSize - 1) * (skips - Owed)
  <2>1. Cardinality({}) = 0
    BY FS_EmptySet
  <2>2. PICK v \in Nat, i \in Nat : v = UnitSize - 1 /\ i = skips - Owed
    <3>1. skips - Owed \in Nat /\ UnitSize - 1 \in Nat
      BY OwedIs, UnitTyped DEF PosInv
    <3> QED
      BY <3>1
  <2>3. v * i \in Nat
    OBVIOUS
  <2>4. 0 <= v * i
    BY <2>3
  <2> QED
    BY <1>4, <2>1, <2>2, <2>4
<1>7. Owed' = Owed
  BY <1>1 DEF Owed
<1>8. e <= e /\ {} \subseteq 0 .. e - 1
  BY <1>2
<1> QED
  BY <1>1, <1>2, <1>3, <1>4, <1>5, <1>6, <1>7, <1>8, Zenon DEF SentTo, e

LEMMA SentCalls ==
  ASSUME PosInv, SentInv,
         \/ Sending!GoBack \/ Sending!Return \/ Sending!Send \/ Sending!Open
         \/ \E to \in 0 .. size : Sending!Seek(to)
  PROVE  SentInv'
<1>1. CASE Sending!GoBack \/ Sending!Open \/ \E to \in 0 .. size : Sending!Seek(to)
  <2>1. mode' # "send" /\ step' # "idle"
    BY <1>1 DEF Sending!GoBack, Sending!Open, Sending!Seek, Sending!Called
  <2> QED
    BY <2>1 DEF SentInv
<1>2. CASE Sending!Send
  <2>1. /\ UNCHANGED <<stream, head, curr, tail, from, lost, skips, sent, filter>>
        /\ SentTo(Sending!End)
    BY <1>2 DEF Sending!Send, Sending!data, Sending!hist, SentInv
  <2>2. Sending!End' = Sending!End /\ Owed' = Owed
    BY <2>1 DEF Sending!End, Owed
  <2> QED
    BY <2>1, <2>2, SentStays DEF SentInv
<1>3. CASE Sending!Return /\ mode = "send"
  <2>1. /\ UNCHANGED <<stream, head, curr, tail, from, lost, skips, sent, filter>>
        /\ SentTo(Sending!End)
    BY <1>3 DEF Sending!Return, Sending!data, Sending!Sends, SentInv
  <2>2. Sending!End' = Sending!End /\ Owed' = Owed
    BY <2>1 DEF Sending!End, Owed
  <2> QED
    BY <2>1, <2>2, SentStays DEF SentInv
<1>4. CASE Sending!Return /\ mode # "send"
  BY <1>4, NothingSent DEF SentInv
<1> QED
  BY <1>1, <1>2, <1>3, <1>4

LEMMA SentGrow == PosInv /\ SentInv /\ Sending!Grow => SentInv'
<1> SUFFICES ASSUME SentInv, Sending!Grow PROVE SentInv'
  OBVIOUS
<1>1. UNCHANGED <<stream, mode, step, head, curr, tail, from, lost, skips, sent, filter>>
  BY DEF Sending!Grow, Sending!call, Sending!hist
<1>2. Sending!End' = Sending!End /\ Owed' = Owed
  BY <1>1 DEF Sending!End, Owed
<1> QED
  BY <1>1, <1>2, SentStays DEF SentInv

LEMMA SentStep == PosInv /\ SentInv /\ Sending!Next => SentInv'
BY SentGrow, SentRead, SentReadNothing, SentNeedMore, SentResync, SentPacket, SentCalls
   DEF Sending!Next

LEMMA SendingCardinality == \A S : Sending!Cardinality(S) = Cardinality(S)
  BY Zenon DEF Sending!Cardinality, Cardinality, Sending!IsFiniteSet, IsFiniteSet

\* What the invariant says is what is wanted of what was sent.
LEMMA SentIsAsItShould == PosInv /\ SentInv => Sending!SentRight
<1> SUFFICES ASSUME PosInv, SentInv, mode = "send"
             PROVE  Sending!NothingMissed /\ Sending!InOrder /\ Sending!Continuous
  BY DEF Sending!SentRight
<1> DEFINE e == Sending!End
           W == Inside(from, lost, e)
<1>1. /\ from \in Nat /\ from <= e /\ lost \subseteq 0 .. e - 1
      /\ Filtered(stream, from, lost, skips = 0, Now, e)
      /\ skips = 0 => \A p \in W : p + UnitSize <= e
      /\ Cardinality(Missed(stream, from, lost, sent, e)) <= (UnitSize - 1) * (skips - Owed)
  BY DEF SentInv, SentTo
<1>2. Now.out = sent /\ Now.cc = filter.cc /\ Now.drop = filter.drop
  BY DEF Now
<1>3. /\ sent \in Seq(Item) /\ InSequence(sent) /\ Counts(sent, filter.cc)
      /\ InRun(from, sent, e) /\ (skips = 0 => Exact(stream, W, Now))
  BY <1>1, <1>2 DEF Filtered, Filtering
<1>4. e \in Nat
  <2>1. size \in Nat
    BY SizesIn DEF PosInv
  <2> QED
    BY <2>1 DEF PosInv, Sending!End, Sending!NoPos
<1>5. Sending!Units = UnitsOf(sent)
  <2>1. DOMAIN sent = 1 .. Len(sent)
    BY <1>3
  <2>2. \A x : x \in Sending!Units <=> \E k \in 1 .. Len(sent) : x = sent[k].at
    BY <2>1, Zenon DEF Sending!Units, Sending!ToSet
  <2> QED
    BY <2>2, Zenon DEF UnitsOf
<1>6. \A b : b \in Sending!Bytes <=> \E k \in 1 .. Len(sent) :
               b \in sent[k].at .. sent[k].at + UnitSize - 1
  BY <1>5, Zenon DEF Sending!Bytes, UnitsOf
<1>7. ASSUME NEW b \in Nat PROVE b \in Sending!Bytes <=> Covers(sent, b)
  <2>1. ASSUME NEW k \in 1 .. Len(sent) PROVE sent[k].at \in Nat
    <3>1. sent[k] \in Item
      BY <1>3
    <3> QED
      BY <3>1 DEF Item
  <2>2. \A k \in 1 .. Len(sent) :
          b \in sent[k].at .. sent[k].at + UnitSize - 1
            <=> sent[k].at <= b /\ b < sent[k].at + UnitSize
    BY <2>1, UnitTyped, SMTT(30)
  <2> QED
    BY <1>6, <2>2, Zenon DEF Covers
<1> HIDE DEF e
<1>8. skips = 0 => Sending!Units = {p \in Sending!Whole : ~ Sending!OfSchedule(p)}
  <2> SUFFICES ASSUME skips = 0
               PROVE  Sending!Units = {p \in Sending!Whole : ~ Sending!OfSchedule(p)}
    OBVIOUS
  <2>1. Sending!Whole = W
    <3>1. \A p : p \in from .. e - UnitSize <=> p \in from .. e - 1 /\ p + UnitSize <= e
      BY <1>1, <1>4, UnitTyped
    <3>2. Sending!Whole = {p \in from .. e - UnitSize : p % UnitSize = 0 /\ p \notin lost}
      BY Zenon DEF Sending!Whole, Sending!Aligned, e
    <3> QED
      BY <1>1, <3>1, <3>2 DEF Inside
  <2>2. \A p : Sending!OfSchedule(p) <=> DroppedIn(stream, W, p)
    BY <2>1, Zenon DEF Sending!OfSchedule, DroppedIn, Sending!PacketAt, Kind
  <2>3. UnitsOf(sent) = {p \in W : ~ DroppedIn(stream, W, p)}
    BY <1>2, <1>3 DEF Exact
  <2> HIDE DEF W
  <2> QED
    BY <1>5, <2>1, <2>2, <2>3
<1>9. Sending!NothingMissed
  <2> DEFINE B == {b \in from .. Sending!End - 1 :
                     b \notin Sending!Bytes /\ b \notin lost
                     /\ ~ (b \div UnitSize < Len(stream) /\ Sending!PacketAt(b).eit # "none")}
  <2>1. B = Missed(stream, from, lost, sent, e)
    <3>1. \A b \in from .. e - 1 : b \in Nat
      BY <1>1
    <3> QED
      BY <1>7, <3>1, Zenon DEF Missed, Kind, Sending!PacketAt, e
  <2>2. Sending!Cardinality(B) <= skips * (UnitSize - 1)
    <3>1. PICK v \in Nat, i \in Int, s \in Nat, o \in {0, 1} :
            v = UnitSize - 1 /\ o = Owed /\ s = skips /\ i = s - o
      <4>1. UnitSize - 1 \in Nat /\ skips - Owed \in Int /\ skips \in Nat /\ Owed \in {0, 1}
        BY UnitTyped, OwedIs DEF PosInv
      <4> QED
        BY <4>1
    <3>2. i <= s /\ v * i <= v * s /\ v * s = s * v /\ v * i \in Int /\ v * s \in Int
      BY <3>1, Times
    <3>3. Cardinality(Missed(stream, from, lost, sent, e)) \in Nat
      BY <1>1, <1>4, MissedFinite, FS_CardinalityType
    <3>4. Cardinality(Missed(stream, from, lost, sent, e)) <= v * i
      BY <1>1, <3>1
    <3>5. Cardinality(Missed(stream, from, lost, sent, e)) <= s * v
      BY <3>2, <3>3, <3>4
    <3> HIDE DEF B
    <3>6. Sending!Cardinality(B) = Cardinality(Missed(stream, from, lost, sent, e))
      BY <2>1, SendingCardinality
    <3> QED
      BY <3>1, <3>5, <3>6
  <2> QED
    BY <1>8, <2>2 DEF Sending!NothingMissed
<1>10. Sending!InOrder
  BY <1>3 DEF InSequence, Sending!InOrder
<1>11. Sending!Continuous
  <2> SUFFICES ASSUME NEW j \in Sending!Numbered, NEW k \in Sending!Numbered, j < k,
                      Sending!Numbered \cap (j + 1 .. k - 1) = {}
               PROVE  sent[k].cc = (sent[j].cc + 1) % CcMod
    BY DEF Sending!Continuous
  <2>1. /\ j \in 1 .. Len(sent) /\ k \in 1 .. Len(sent) /\ sent[j].cc # -1 /\ sent[k].cc # -1
        /\ Len(sent) \in Nat
    BY <1>3 DEF Sending!Numbered, Sending!NoPos
  <2>2. \A i \in j + 1 .. k - 1 : sent[i].cc = -1
    <3> SUFFICES ASSUME NEW i \in j + 1 .. k - 1, sent[i].cc # -1 PROVE FALSE
      OBVIOUS
    <3>1. i \in 1 .. Len(sent)
      BY <2>1
    <3> QED
      BY <3>1 DEF Sending!Numbered, Sending!NoPos
  <2> QED
    BY <1>3, <2>1, <2>2 DEF Counts
<1> QED
  BY <1>9, <1>10, <1>11

\* What CTsSender sends since a seek is what follows there (RotateBuffer, ReadToPcr and
\* FilterEitPacket), for all streams and sizes, wherever reads end and whenever one
\* returns nothing: in order, none twice, each table's packets with counters that go on,
\* of an undamaged stream all that are not of the schedule, and of a damaged one all but
\* less than a packet for each time it had to be found again.
THEOREM SentIsRight == Spec => []SentRight
<1> DEFINE I == kind = "packets" => PosInv /\ SentInv
<1>1. Init => I
  <2>1. Sending!Init => SentInv
    BY DEF Sending!Init, SentInv
  <2> QED
    BY <2>1, PosInit DEF Init
<1>2. I /\ [Next]_vars => I'
  <2> SUFFICES ASSUME I, [Next]_vars, kind' = "packets" PROVE PosInv' /\ SentInv'
    OBVIOUS
  <2>1. CASE Next
    <3>1. kind' = kind
      BY <2>1 DEF Next
    <3>2. PosInv /\ SentInv /\ Sending!Next
      BY <2>1, <3>1 DEF Next
    <3> QED
      BY <3>2, PosStep, SentStep
  <2>2. CASE UNCHANGED vars
    <3>1. kind' = kind /\ UNCHANGED forPackets
      BY <2>2 DEF vars
    <3>2. /\ UNCHANGED <<stream, size, step, mode, head, curr, tail, lastPos>>
          /\ UNCHANGED <<filter, sent, from, lost, skips>>
      BY <3>1 DEF forPackets
    <3>3. PosInv /\ SentInv
      BY <3>1
    <3>4. Sending!Sizes' = Sending!Sizes /\ Sending!End' = Sending!End /\ Owed' = Owed
      BY <3>2 DEF Sending!Sizes, Sending!End, Owed
    <3>5. PosInv'
      BY <3>2, <3>3, <3>4 DEF PosInv, Sending!NoFilter
    <3>6. SentInv'
      BY <3>2, <3>3, <3>4, SentStays DEF SentInv
    <3> QED
      BY <3>5, <3>6
  <2> QED
    BY <2>1, <2>2
<1>3. I => SentRight
  BY SentIsAsItShould DEF SentRight
<1> QED
  BY <1>1, <1>2, <1>3, PTL DEF Spec

-----------------------------------------------------------------------------
(* The length of a file that grows                                         *)

\* What a pause or a resumption costs until it is noticed.
Cost == RenewSize + Growing!Max(Calls) - 1

\* The recorder has written for t, g of it since the size was last seen; k is what the
\* pauses and resumptions may cost.
NoRoom(t, g, k) ==
  /\ fileSize = (t - g) * Rate /\ g \in 0 .. sinceSize
  /\ \/ /\ fileState = "maybe" /\ duration = t - g /\ sinceDur = sinceSize
        /\ recording => g = sinceSize \/ k >= Cost
        /\ ~ recording => g = 0 \/ k >= Cost
     \/ /\ fileState = "extending" /\ sinceDur = 0
        /\ recording => duration - t \in -k .. k
        /\ ~ recording /\ g > 0 => duration - t \in Cost - k .. k - Cost + sinceSize - g
        /\ ~ recording /\ g = 0 =>
             duration - t \in Cost - k + sinceSize - (RenewSize - 1) .. k - 1 + sinceSize
     \/ /\ fileState = "fixed" /\ sinceDur = 0
        /\ recording => duration - t \in Cost - k - g .. k - Cost - g
        /\ ~ recording /\ g > 0 => duration - t \in 2 * Cost - k - g .. k - 2 * Cost - g
        /\ ~ recording /\ g = 0 => duration - t \in -k .. k

\* A recorder that reserves room writes until it is done.
WithRoom(t, k) ==
  /\ sinceDur = 0 /\ fileSize \in Int
  /\ \/ /\ recording /\ fileState = "special" /\ duration = t
        /\ fileSize <= (content \div Reserve + 1) * Reserve
     \/ /\ ~ recording /\ fileState = "special" /\ k >= Cost
        /\ fileSize > content => duration - t \in 0 .. sinceSize
     \/ /\ ~ recording /\ fileState = "fixed" /\ k >= Cost
        /\ fileSize = content /\ duration - t \in 0 .. RenewSize - 1

\* How the length stands to the time recorded, in each state of the file.
GrowInv ==
  /\ reserves \in BOOLEAN /\ recording \in BOOLEAN /\ breaks \in Nat
  /\ duration \in Int /\ sinceSize \in 0 .. RenewSize - 1
  /\ \E t \in Nat : \E g \in Nat : \E k \in Nat :
       /\ content = t * Rate /\ k = breaks * Cost
       /\ IF reserves THEN WithRoom(t, k) ELSE NoRoom(t, g, k)

LEMMA GrowNumbers ==
  /\ Rate \in Nat \ {0} /\ RenewSize \in Nat \ {0} /\ Reserve \in Nat \ {0}
  /\ Cost \in Nat \ {0} /\ RenewSize - 1 <= Cost
  /\ Calls \subseteq Nat \ {0} /\ \A d \in Calls : d + RenewSize - 1 <= Cost
<1>1. /\ Rate \in Nat \ {0} /\ RenewSize \in Nat \ {0} /\ Reserve \in Nat \ {0}
      /\ Calls \subseteq Nat \ {0} /\ \E d \in Calls : \A c \in Calls : c <= d
  BY FileAssumption DEF Growing!GrowthAssumption
<1>2. \E x \in Calls : \A y \in Calls : x >= y
  BY <1>1
<1>3. Growing!Max(Calls) \in Calls /\ \A y \in Calls : Growing!Max(Calls) >= y
  BY <1>2, Zenon DEF Growing!Max
<1>4. PICK m \in Nat \ {0} : m = Growing!Max(Calls)
  BY <1>1, <1>3
<1>5. PICK c : c = Cost
  OBVIOUS
<1>6. c = RenewSize + m - 1
  BY <1>4, <1>5 DEF Cost
<1>7. c \in Nat /\ RenewSize - 1 <= c /\ \A d \in Calls : d + RenewSize - 1 <= c
  <2>1. c \in Nat /\ RenewSize - 1 <= c
    BY <1>1, <1>6
  <2>2. ASSUME NEW d \in Calls PROVE d + RenewSize - 1 <= c
    <3>1. d \in Nat /\ d <= m
      BY <1>1, <1>3, <1>4
    <3> QED
      BY <1>1, <1>6, <3>1
  <2> QED
    BY <2>1, <2>2
<1> QED
  BY <1>1, <1>5, <1>7

LEMMA RatesDiffer == ASSUME NEW a \in Int, NEW b \in Int, a * Rate = b * Rate PROVE a = b
<1>1. ASSUME NEW x \in Int, NEW y \in Int, x < y, x * Rate = y * Rate PROVE FALSE
  <2>1. Rate * (x + 1) <= Rate * y
    BY <1>1, GrowNumbers, Times
  <2>2. Rate * (x + 1) = Rate * x + Rate /\ Rate * x = x * Rate /\ Rate * y = y * Rate
    BY <1>1, GrowNumbers
  <2>3. x * Rate \in Int
    BY <1>1, GrowNumbers
  <2> QED
    BY <1>1, <2>1, <2>2, <2>3, GrowNumbers
<1> QED
  BY <1>1

\* Room is reserved for no less when more is written.
LEMMA RoomGrows ==
  ASSUME NEW a \in Nat, NEW b \in Nat, a <= b
  PROVE  (a \div Reserve + 1) * Reserve <= (b \div Reserve + 1) * Reserve
<1>1. Reserve \in Nat \ {0}
  BY GrowNumbers
<1>2. PICK i \in Nat, r \in 0 .. Reserve - 1 : i = a \div Reserve /\ a = Reserve * i + r
  BY <1>1, Parts
<1>3. PICK j \in Nat, s \in 0 .. Reserve - 1 : j = b \div Reserve /\ b = Reserve * j + s
  BY <1>1, Parts
<1>4. i <= j
  <2> SUFFICES ASSUME j + 1 <= i PROVE FALSE
    OBVIOUS
  <2>1. Reserve * (j + 1) <= Reserve * i
    BY <1>1, Times
  <2>2. Reserve * (j + 1) = Reserve * j + Reserve
    BY <1>1
  <2> QED
    BY <1>1, <1>2, <1>3, <2>1, <2>2
<1>5. Reserve * (i + 1) <= Reserve * (j + 1)
  BY <1>1, <1>4, Times
<1>6. Reserve * (i + 1) = (i + 1) * Reserve /\ Reserve * (j + 1) = (j + 1) * Reserve
  BY <1>1
<1> QED
  BY <1>2, <1>3, <1>5, <1>6

LEMMA GrowInit == Growing!Init => GrowInv
<1> SUFFICES ASSUME Growing!Init PROVE GrowInv
  OBVIOUS
<1>1. PICK t \in Recorded : content = t * Rate
  BY DEF Growing!Init
<1>2. t \in Nat
  BY FileAssumption DEF Growing!GrowthAssumption
<1>3. content \div Rate = t
  <2>1. Rate * t + 0 = t * Rate /\ 0 \in 0 .. Rate - 1
    BY <1>2, GrowNumbers
  <2>2. (Rate * t + 0) \div Rate = t
    BY <1>2, <2>1, GrowNumbers, PartsOnly
  <2> QED
    BY <1>1, <2>1, <2>2
<1>4. breaks = 0 /\ 0 = breaks * Cost
  BY GrowNumbers DEF Growing!Init
<1>5. /\ duration = t /\ sinceSize = 0 /\ sinceDur = 0
      /\ reserves \in BOOLEAN /\ recording \in BOOLEAN /\ (reserves => recording)
      /\ fileState = IF reserves THEN "special" ELSE "maybe"
      /\ fileSize = Growing!Size(content, recording)
  BY <1>3 DEF Growing!Init
<1>6. CASE reserves
  <2>1. fileSize = (content \div Reserve + 1) * Reserve
    BY <1>5, <1>6, Zenon DEF Growing!Size
  <2>2. fileSize \in Int /\ fileSize <= (content \div Reserve + 1) * Reserve
    <3>1. content \in Nat
      BY <1>1, <1>2, GrowNumbers
    <3>2. content \div Reserve \in Nat
      BY <3>1, GrowNumbers, Parts
    <3>3. fileSize \in Int
      BY <2>1, <3>2, GrowNumbers
    <3> QED
      BY <2>1, <3>3
  <2>3. WithRoom(t, 0)
    BY <1>5, <1>6, <2>2 DEF WithRoom
  <2> QED
    BY <1>1, <1>2, <1>4, <1>5, <1>6, <2>3, GrowNumbers DEF GrowInv
<1>7. CASE ~ reserves
  <2>1. fileSize = (t - 0) * Rate
    BY <1>1, <1>2, <1>5, <1>7 DEF Growing!Size
  <2>2. NoRoom(t, 0, 0)
    BY <1>2, <1>5, <1>7, <2>1, SMTT(30) DEF NoRoom
  <2> QED
    BY <1>1, <1>2, <1>4, <1>5, <1>7, <2>2, GrowNumbers DEF GrowInv
<1> QED
  BY <1>5, <1>6, <1>7

LEMMA CostStays == Cost' = Cost
BY DEF Cost

\* What a call of Send does to the length, by whether the size is looked at.
LEMMA SendIs ==
  ASSUME NEW d, Growing!Send(d)
  PROVE  LET bytes == Growing!Size(content', recording)
             look == sinceSize + d >= RenewSize
         IN  /\ content' = IF recording THEN content + d * Rate ELSE content
             /\ UNCHANGED <<reserves, recording, breaks>>
             /\ fileSize' = (IF look THEN bytes ELSE fileSize)
             /\ sinceSize' = (IF look THEN 0 ELSE sinceSize + d)
             /\ fileState = "maybe" =>
                  \/ ~ look /\ fileState' = "maybe" /\ duration' = duration
                     /\ sinceDur' = sinceDur + d
                  \/ look /\ bytes = fileSize /\ fileState' = "fixed" /\ duration' = duration
                     /\ sinceDur' = 0
                  \/ look /\ bytes # fileSize /\ fileState' = "extending"
                     /\ duration' = duration + sinceDur + d /\ sinceDur' = 0
             /\ fileState = "extending" =>
                  \/ (~ look \/ bytes # fileSize) /\ fileState' = "extending"
                     /\ duration' = duration + sinceDur + d /\ sinceDur' = 0
                  \/ look /\ bytes = fileSize /\ fileState' = "fixed"
                     /\ duration' = duration - RenewSize /\ sinceDur' = 0
             /\ fileState = "fixed" =>
                  \/ (~ look \/ bytes = fileSize) /\ fileState' = "fixed" /\ duration' = duration
                     /\ sinceDur' = 0
                  \/ look /\ bytes # fileSize /\ fileState' = "extending"
                     /\ duration' = duration + sinceDur + d /\ sinceDur' = 0
             /\ fileState = "special" =>
                  \/ (~ look \/ ~ (bytes < fileSize)) /\ fileState' = "special"
                     /\ duration' = duration + sinceDur + d /\ sinceDur' = 0
                  \/ look /\ bytes < fileSize /\ fileState' = "fixed" /\ duration' = duration
                     /\ sinceDur' = 0
<1> DEFINE bytes == Growing!Size(content', recording)
<1>1. /\ content' = IF recording THEN content + d * Rate ELSE content
      /\ UNCHANGED <<reserves, recording, breaks>>
      /\ Growing!Watch(d, bytes) /\ Growing!Lengthen(d, bytes)
  BY Zenon DEF Growing!Send
<1> HIDE DEF bytes
<1> USE DEF Growing!Looks, Growing!Stops, Growing!Restored
<1>2. /\ fileSize' = (IF sinceSize + d >= RenewSize THEN bytes ELSE fileSize)
      /\ sinceSize' = (IF sinceSize + d >= RenewSize THEN 0 ELSE sinceSize + d)
  BY <1>1 DEF Growing!Watch
<1>3. CASE fileState = "maybe"
  BY <1>1, <1>2, <1>3 DEF Growing!Watch, Growing!Lengthen, bytes
<1>4. CASE fileState = "extending"
  BY <1>1, <1>2, <1>4 DEF Growing!Watch, Growing!Lengthen, bytes
<1>5. CASE fileState = "fixed"
  BY <1>1, <1>2, <1>5 DEF Growing!Watch, Growing!Lengthen, bytes
<1>6. CASE fileState = "special"
  BY <1>1, <1>2, <1>6, SMTT(30) DEF Growing!Watch, Growing!Lengthen, bytes
<1> QED
  BY <1>1, <1>2, <1>3, <1>4, <1>5, <1>6 DEF bytes

LEMMA SendNoRoom ==
  ASSUME ~ reserves, recording \in BOOLEAN, duration \in Int, sinceSize \in 0 .. RenewSize - 1,
         NEW t \in Nat, NEW g \in Nat, NEW k \in Nat, content = t * Rate, NoRoom(t, g, k),
         NEW d \in Calls, Growing!Send(d)
  PROVE  /\ \E t2 \in Nat : \E g2 \in Nat :
              content' = t2 * Rate /\ NoRoom(t2, g2, k)'
         /\ duration' \in Int /\ sinceSize' \in 0 .. RenewSize - 1
<1>1. PICK C \in Nat, R \in Nat \ {0}, s \in Nat :
        /\ C = Cost /\ R = RenewSize /\ s = sinceSize /\ s <= R - 1
        /\ d \in Nat \ {0} /\ R - 1 <= C /\ d + R - 1 <= C
  BY GrowNumbers
<1>2. PICK T \in Nat, G \in Nat, S \in Nat :
        /\ T = IF recording THEN t + d ELSE t
        /\ G = IF s + d >= R THEN 0 ELSE IF recording THEN g + d ELSE g
        /\ S = IF s + d >= R THEN 0 ELSE s + d
  BY <1>1
<1>3. /\ content' = IF recording THEN content + d * Rate ELSE content
      /\ recording' = recording /\ sinceSize' = S
  BY <1>1, <1>2, SendIs
<1>4. Growing!Size(content', recording) = content'
  BY Zenon DEF Growing!Size
<1>5. content' = T * Rate
  <2>1. (t + d) * Rate = t * Rate + d * Rate
    BY <1>1, GrowNumbers
  <2> QED
    BY <1>2, <1>3, <2>1
<1>6. fileSize = (t - g) * Rate /\ g <= s
  BY <1>1 DEF NoRoom
<1>7. content' = fileSize <=> ~ recording /\ g = 0
  <2>1. content' = fileSize => T = t - g
    BY <1>5, <1>6, RatesDiffer
  <2>2. T = t - g <=> ~ recording /\ g = 0
    BY <1>1, <1>2
  <2> QED
    BY <1>5, <1>6, <2>1, <2>2
<1>8. fileSize' = (T - G) * Rate
  <2>1. CASE s + d >= R
    <3>1. fileSize' = content'
      BY <1>1, <1>4, <2>1, SendIs
    <3>2. T - G = T
      BY <1>2, <2>1
    <3> QED
      BY <1>5, <3>1, <3>2
  <2>2. CASE ~ (s + d >= R)
    <3>1. fileSize' = fileSize
      BY <1>1, <2>2, SendIs
    <3>2. T - G = t - g
      BY <1>1, <1>2, <2>2
    <3> QED
      BY <1>6, <3>1, <3>2
  <2> QED
    BY <2>1, <2>2
<1>9. G \in 0 .. S /\ S \in 0 .. R - 1
  BY <1>1, <1>2, <1>6
<1>10. Cost' = C /\ RenewSize' = R
  BY <1>1, CostStays
<1>11. PICK D \in Int : D = duration
  OBVIOUS
<1>12. PICK b \in BOOLEAN : b = recording
  OBVIOUS
\* What is to be shown of the new state, with the state's names gone.
<1> DEFINE Maybe(e) == e = T - G /\ (b => G = S \/ k >= C) /\ (~ b => G = 0 \/ k >= C)
           Extends(e) == /\ b => e - T \in -k .. k
                         /\ ~ b /\ G > 0 => e - T \in C - k .. k - C + S - G
                         /\ ~ b /\ G = 0 => e - T \in C - k + S - (R - 1) .. k - 1 + S
           Fixes(e) == /\ b => e - T \in C - k - G .. k - C - G
                       /\ ~ b /\ G > 0 => e - T \in 2 * C - k - G .. k - 2 * C - G
                       /\ ~ b /\ G = 0 => e - T \in -k .. k
<1>13. ASSUME NEW e \in Int, duration' = e,
              \/ fileState' = "maybe" /\ sinceDur' = S /\ Maybe(e)
              \/ fileState' = "extending" /\ sinceDur' = 0 /\ Extends(e)
              \/ fileState' = "fixed" /\ sinceDur' = 0 /\ Fixes(e)
       PROVE  /\ \E t2 \in Nat : \E g2 \in Nat : content' = t2 * Rate /\ NoRoom(t2, g2, k)'
              /\ duration' \in Int /\ sinceSize' \in 0 .. RenewSize - 1
  <2>1. CASE fileState' = "maybe" /\ sinceDur' = S /\ Maybe(e)
    <3>1. NoRoom(T, G, k)'
      BY <1>3, <1>8, <1>9, <1>10, <1>12, <1>13, <2>1 DEF NoRoom
    <3> QED
      BY <1>1, <1>3, <1>5, <1>9, <1>13, <3>1
  <2>2. CASE fileState' = "extending" /\ sinceDur' = 0 /\ Extends(e)
    <3>1. NoRoom(T, G, k)'
      BY <1>3, <1>8, <1>9, <1>10, <1>12, <1>13, <2>2 DEF NoRoom
    <3> QED
      BY <1>1, <1>3, <1>5, <1>9, <1>13, <3>1
  <2>3. CASE fileState' = "fixed" /\ sinceDur' = 0 /\ Fixes(e)
    <3>1. NoRoom(T, G, k)'
      BY <1>3, <1>8, <1>9, <1>10, <1>12, <1>13, <2>3 DEF NoRoom
    <3> QED
      BY <1>1, <1>3, <1>5, <1>9, <1>13, <3>1
  <2> QED
    BY <1>13, <2>1, <2>2, <2>3
<1>14. CASE fileState = "maybe"
  <2>1. /\ D = t - g /\ sinceDur = s /\ (b => g = s \/ k >= C)
        /\ (~ b => g = 0 \/ k >= C)
    BY <1>1, <1>11, <1>12, <1>14 DEF NoRoom
  <2>2. \/ /\ s + d < R /\ fileState' = "maybe" /\ duration' = D /\ sinceDur' = s + d
        \/ /\ s + d >= R /\ ~ b /\ g = 0 /\ fileState' = "fixed" /\ duration' = D
           /\ sinceDur' = 0
        \/ /\ s + d >= R /\ (b \/ g # 0) /\ fileState' = "extending"
           /\ duration' = D + s + d /\ sinceDur' = 0
    BY <1>1, <1>4, <1>7, <1>11, <1>12, <1>14, <2>1, SendIs
  <2>3. s + d < R => Maybe(D) /\ S = s + d
    BY <1>1, <1>2, <1>6, <1>12, <2>1
  <2>4. s + d >= R /\ ~ b /\ g = 0 => Fixes(D)
    BY <1>1, <1>2, <1>12, <2>1
  <2>5. s + d >= R /\ (b \/ g # 0) => Extends(D + s + d)
    BY <1>1, <1>2, <1>6, <1>12, <2>1
  <2>6. D + s + d \in Int
    BY <1>1
  <2> HIDE DEF Maybe, Fixes, Extends
  <2> QED
    BY <1>13, <2>2, <2>3, <2>4, <2>5, <2>6
<1>15. CASE fileState = "extending"
  <2>1. /\ b => D - t \in -k .. k
        /\ ~ b /\ g > 0 => D - t \in C - k .. k - C + s - g
        /\ ~ b /\ g = 0 => D - t \in C - k + s - (R - 1) .. k - 1 + s
        /\ sinceDur = 0
    BY <1>1, <1>11, <1>12, <1>15 DEF NoRoom
  <2>2. \/ /\ (s + d < R \/ b \/ g # 0) /\ fileState' = "extending" /\ duration' = D + d
           /\ sinceDur' = 0
        \/ /\ s + d >= R /\ ~ b /\ g = 0 /\ fileState' = "fixed" /\ duration' = D - R
           /\ sinceDur' = 0
    <3>1. D + 0 + d = D + d
      BY <1>1
    <3> QED
      BY <1>1, <1>4, <1>7, <1>11, <1>12, <1>15, <2>1, <3>1, SendIs
  <2>3. s + d < R \/ b \/ g # 0 => Extends(D + d)
    BY <1>1, <1>2, <1>6, <1>12, <2>1
  <2>4. s + d >= R /\ ~ b /\ g = 0 => Fixes(D - R)
    BY <1>1, <1>2, <1>12, <2>1
  <2>5. D + d \in Int /\ D - R \in Int
    BY <1>1
  <2> HIDE DEF Maybe, Fixes, Extends
  <2> QED
    BY <1>13, <2>2, <2>3, <2>4, <2>5
<1>16. CASE fileState = "fixed"
  <2>1. /\ b => D - t \in C - k - g .. k - C - g
        /\ ~ b /\ g > 0 => D - t \in 2 * C - k - g .. k - 2 * C - g
        /\ ~ b /\ g = 0 => D - t \in -k .. k
        /\ sinceDur = 0
    BY <1>1, <1>11, <1>12, <1>16 DEF NoRoom
  <2>2. \/ /\ (s + d < R \/ (~ b /\ g = 0)) /\ fileState' = "fixed" /\ duration' = D
           /\ sinceDur' = 0
        \/ /\ s + d >= R /\ (b \/ g # 0) /\ fileState' = "extending" /\ duration' = D + d
           /\ sinceDur' = 0
    <3>1. D + 0 + d = D + d
      BY <1>1
    <3> QED
      BY <1>1, <1>4, <1>7, <1>11, <1>12, <1>16, <2>1, <3>1, SendIs
  <2>3. s + d < R \/ (~ b /\ g = 0) => Fixes(D)
    BY <1>1, <1>2, <1>6, <1>12, <2>1
  <2>4. s + d >= R /\ (b \/ g # 0) => Extends(D + d)
    BY <1>1, <1>2, <1>6, <1>12, <2>1
  <2>5. D + d \in Int
    BY <1>1
  <2> HIDE DEF Maybe, Fixes, Extends
  <2> QED
    BY <1>13, <2>2, <2>3, <2>4, <2>5
<1> QED
  BY <1>14, <1>15, <1>16 DEF NoRoom

LEMMA SendWithRoom ==
  ASSUME reserves, recording \in BOOLEAN, duration \in Int, sinceSize \in 0 .. RenewSize - 1,
         NEW t \in Nat, NEW k \in Nat, content = t * Rate, WithRoom(t, k),
         NEW d \in Calls, Growing!Send(d)
  PROVE  /\ \E t2 \in Nat : content' = t2 * Rate /\ WithRoom(t2, k)'
         /\ duration' \in Int /\ sinceSize' \in 0 .. RenewSize - 1
<1>1. PICK C \in Nat, R \in Nat \ {0}, s \in Nat, D \in Int :
        /\ C = Cost /\ R = RenewSize /\ s = sinceSize /\ D = duration /\ s <= R - 1
        /\ d \in Nat \ {0} /\ R - 1 <= C
  BY GrowNumbers
<1>2. /\ content' = IF recording THEN content + d * Rate ELSE content
      /\ reserves /\ recording' = recording
      /\ sinceSize' = IF s + d >= R THEN 0 ELSE s + d
  BY <1>1, SendIs
<1>3. Cost' = C /\ RenewSize' = R /\ Reserve' = Reserve
  BY <1>1, CostStays
<1>4. sinceSize' \in 0 .. RenewSize - 1
  BY <1>1, <1>2
<1>5. sinceDur = 0 /\ fileSize \in Int /\ content \in Nat
  BY GrowNumbers DEF WithRoom
<1>6. CASE recording
  <2>1. /\ fileState = "special" /\ D = t
        /\ fileSize <= (content \div Reserve + 1) * Reserve
    BY <1>1, <1>6 DEF WithRoom
  <2>2. t + d \in Nat /\ content' = (t + d) * Rate
    <3>1. (t + d) * Rate = t * Rate + d * Rate
      BY <1>1, GrowNumbers
    <3> QED
      BY <1>1, <1>2, <1>6, <3>1
  <2>3. content' \in Nat /\ content <= content'
    <3>1. d * Rate \in Nat
      BY <1>1, GrowNumbers
    <3> QED
      BY <1>2, <1>5, <1>6, <3>1
  <2>4. PICK Q \in Int : Q = (content' \div Reserve + 1) * Reserve
    <3>1. content' \div Reserve \in Nat
      BY <2>3, GrowNumbers, Parts
    <3> QED
      BY <3>1, GrowNumbers
  <2>5. PICK P \in Int : P = (content \div Reserve + 1) * Reserve
    <3>1. content \div Reserve \in Nat
      BY <1>5, GrowNumbers, Parts
    <3> QED
      BY <3>1, GrowNumbers
  <2>6. P <= Q
    BY <1>5, <2>3, <2>4, <2>5, RoomGrows
  <2>7. Growing!Size(content', recording) = Q
    BY <1>2, <1>6, <2>4, Zenon DEF Growing!Size
  <2>8. fileSize <= Q /\ ~ (Q < fileSize)
    BY <1>5, <2>1, <2>5, <2>6
  <2>9. D + 0 + d = t + d
    BY <1>1, <2>1
  <2>10. /\ fileState' = "special" /\ duration' = t + d /\ sinceDur' = 0
         /\ fileSize' \in {Q, fileSize}
    BY <1>1, <1>5, <2>1, <2>7, <2>8, <2>9, SendIs
  <2>11. WithRoom(t + d, k)'
    BY <1>2, <1>3, <1>5, <1>6, <2>4, <2>8, <2>10 DEF WithRoom
  <2> QED
    BY <1>4, <2>2, <2>10, <2>11
<1>7. CASE ~ recording
  <2>1. content' = content /\ Growing!Size(content', recording) = content
    BY <1>2, <1>7 DEF Growing!Size
  <2>2. k >= C
    BY <1>1, <1>7 DEF WithRoom
  <2>3. CASE fileState = "special"
    <3>1. fileSize > content => D - t \in 0 .. s
      BY <1>1, <1>7, <2>3 DEF WithRoom
    <3>2. \/ /\ s + d < R /\ fileState' = "special" /\ duration' = D + d /\ sinceDur' = 0
             /\ fileSize' = fileSize /\ sinceSize' = s + d
          \/ /\ s + d >= R /\ ~ (content < fileSize) /\ fileState' = "special"
             /\ duration' = D + d /\ sinceDur' = 0 /\ fileSize' = content
          \/ /\ content < fileSize /\ fileState' = "fixed" /\ duration' = D /\ sinceDur' = 0
             /\ fileSize' = content
      <4>1. duration + sinceDur + d = D + d
        BY <1>1, <1>5
      <4>2. CASE s + d < R
        <5>1. ~ (sinceSize + d >= RenewSize)
          BY <1>1, <4>2
        <5>2. /\ fileState' = "special" /\ duration' = duration + sinceDur + d
              /\ sinceDur' = 0 /\ fileSize' = fileSize
          BY <2>3, <5>1, SendIs
        <5> QED
          BY <1>1, <1>2, <4>1, <4>2, <5>2
      <4>3. CASE s + d >= R /\ ~ (content < fileSize)
        <5>1. sinceSize + d >= RenewSize
          BY <1>1, <4>3
        <5>2. /\ fileState' = "special" /\ duration' = duration + sinceDur + d
              /\ sinceDur' = 0 /\ fileSize' = content
          BY <2>1, <2>3, <4>3, <5>1, SendIs
        <5> QED
          BY <4>1, <4>3, <5>2
      <4>4. CASE s + d >= R /\ content < fileSize
        <5>1. sinceSize + d >= RenewSize
          BY <1>1, <4>4
        <5> QED
          BY <1>1, <2>1, <2>3, <4>4, <5>1, SendIs
      <4> QED
        BY <1>1, <4>2, <4>3, <4>4
    <3>3. WithRoom(t, k)'
      <4>1. CASE s + d < R /\ fileState' = "special"
        <5>1. fileSize > content => D + d - t \in 0 .. s + d
          BY <1>1, <3>1
        <5> QED
          BY <1>1, <1>2, <1>3, <1>5, <1>7, <2>1, <2>2, <3>2, <4>1, <5>1 DEF WithRoom
      <4>2. CASE s + d >= R /\ fileState' = "special"
        <5>1. ~ (content > content)
          BY <1>5
        <5> QED
          BY <1>1, <1>2, <1>3, <1>5, <1>7, <2>1, <2>2, <3>2, <4>2, <5>1 DEF WithRoom
      <4>3. CASE fileState' = "fixed"
        <5>1. fileSize > content
          BY <1>5, <3>2, <4>3
        <5>2. D - t \in 0 .. R - 1
          BY <1>1, <3>1, <5>1
        <5> QED
          BY <1>2, <1>3, <1>5, <1>7, <2>1, <2>2, <3>2, <4>3, <5>2 DEF WithRoom
      <4> QED
        BY <1>1, <3>2, <4>1, <4>2, <4>3
    <3>4. duration' \in Int
      BY <1>1, <3>2
    <3> QED
      BY <1>4, <2>1, <3>3, <3>4
  <2>4. CASE fileState = "fixed"
    <3>1. fileSize = content /\ D - t \in 0 .. R - 1
      BY <1>1, <1>7, <2>4 DEF WithRoom
    <3>2. fileState' = "fixed" /\ duration' = D /\ sinceDur' = 0 /\ fileSize' = content
      BY <1>1, <1>5, <2>1, <2>4, <3>1, SendIs
    <3>3. WithRoom(t, k)'
      BY <1>2, <1>3, <1>5, <1>7, <2>1, <2>2, <3>1, <3>2 DEF WithRoom
    <3> QED
      BY <1>1, <1>4, <2>1, <3>2, <3>3
  <2> QED
    BY <1>7, <2>3, <2>4 DEF WithRoom
<1> QED
  BY <1>6, <1>7

LEMMA BreakNoRoom ==
  ASSUME recording \in BOOLEAN, duration \in Int, sinceSize \in 0 .. RenewSize - 1,
         NEW t \in Nat, NEW g \in Nat, NEW k \in Nat, NoRoom(t, g, k), Growing!Break
  PROVE  NoRoom(t, g, k + Cost)'
<1>1. PICK C \in Nat \ {0}, R \in Nat \ {0}, s \in Nat, D \in Int :
        /\ C = Cost /\ R = RenewSize /\ s = sinceSize /\ D = duration /\ s <= R - 1
        /\ R - 1 <= C
  BY GrowNumbers
<1>2. /\ recording' = ~ recording /\ fileSize' = fileSize /\ fileState' = fileState
      /\ duration' = D /\ sinceDur' = sinceDur /\ sinceSize' = s
  BY <1>1 DEF Growing!Break, Growing!lengths
<1>3. Cost' = C /\ RenewSize' = R /\ Rate' = Rate /\ (k + Cost)' = k + C
  BY <1>1, CostStays
<1>4. PICK b \in BOOLEAN : b = recording
  OBVIOUS
<1>5. g <= s /\ fileSize = (t - g) * Rate
  BY <1>1 DEF NoRoom
<1>6. PICK K \in Nat : K = k + C
  BY <1>1
<1>7. recording' = ~ b /\ g \in 0 .. s /\ (k + Cost)' = K
  BY <1>2, <1>3, <1>4, <1>5, <1>6
<1>8. CASE fileState = "maybe"
  <2>1. D = t - g /\ sinceDur = s
    BY <1>1, <1>8 DEF NoRoom
  <2>2. K >= C
    BY <1>1, <1>6
  <2> QED
    BY <1>2, <1>3, <1>5, <1>7, <1>8, <2>1, <2>2 DEF NoRoom
<1>9. CASE fileState = "extending"
  <2>1. /\ b => D - t \in -k .. k
        /\ ~ b /\ g > 0 => D - t \in C - k .. k - C + s - g
        /\ ~ b /\ g = 0 => D - t \in C - k + s - (R - 1) .. k - 1 + s
        /\ sinceDur = 0
    BY <1>1, <1>4, <1>9 DEF NoRoom
  <2>2. /\ ~ b => D - t \in -K .. K
        /\ b /\ g > 0 => D - t \in C - K .. K - C + s - g
        /\ b /\ g = 0 => D - t \in C - K + s - (R - 1) .. K - 1 + s
    BY <1>1, <1>5, <1>6, <2>1
  <2> QED
    BY <1>2, <1>3, <1>5, <1>7, <1>9, <2>1, <2>2 DEF NoRoom
<1>10. CASE fileState = "fixed"
  <2>1. /\ b => D - t \in C - k - g .. k - C - g
        /\ ~ b /\ g > 0 => D - t \in 2 * C - k - g .. k - 2 * C - g
        /\ ~ b /\ g = 0 => D - t \in -k .. k
        /\ sinceDur = 0
    BY <1>1, <1>4, <1>10 DEF NoRoom
  <2>2. /\ ~ b => D - t \in C - K - g .. K - C - g
        /\ b /\ g > 0 => D - t \in 2 * C - K - g .. K - 2 * C - g
        /\ b /\ g = 0 => D - t \in -K .. K
    BY <1>1, <1>5, <1>6, <2>1
  <2> QED
    BY <1>2, <1>3, <1>5, <1>7, <1>10, <2>1, <2>2 DEF NoRoom
<1> QED
  BY <1>8, <1>9, <1>10 DEF NoRoom

LEMMA GrowStep == GrowInv /\ [Growing!Next]_forGrowing => GrowInv'
<1> SUFFICES ASSUME GrowInv, [Growing!Next]_forGrowing PROVE GrowInv'
  OBVIOUS
<1>1. /\ reserves \in BOOLEAN /\ recording \in BOOLEAN /\ breaks \in Nat
      /\ duration \in Int /\ sinceSize \in 0 .. RenewSize - 1
  BY DEF GrowInv
<1>2. PICK t \in Nat, g \in Nat, k \in Nat :
        /\ content = t * Rate /\ k = breaks * Cost
        /\ IF reserves THEN WithRoom(t, k) ELSE NoRoom(t, g, k)
  BY DEF GrowInv
<1>3. Cost' = Cost /\ Cost \in Nat \ {0}
  BY CostStays, GrowNumbers
<1>4. ASSUME NEW d \in Calls, Growing!Send(d) PROVE GrowInv'
  <2>1. reserves' = reserves /\ recording' = recording /\ breaks' = breaks
    BY <1>4, SendIs
  <2>2. k = breaks' * Cost'
    BY <1>2, <1>3, <2>1
  <2>3. CASE reserves
    <3>1. /\ \E t2 \in Nat : content' = t2 * Rate /\ WithRoom(t2, k)'
          /\ duration' \in Int /\ sinceSize' \in 0 .. RenewSize - 1
      BY <1>1, <1>2, <1>4, <2>3, SendWithRoom
    <3> QED
      BY <1>1, <2>1, <2>2, <2>3, <3>1 DEF GrowInv
  <2>4. CASE ~ reserves
    <3>1. /\ \E t2 \in Nat : \E g2 \in Nat : content' = t2 * Rate /\ NoRoom(t2, g2, k)'
          /\ duration' \in Int /\ sinceSize' \in 0 .. RenewSize - 1
      BY <1>1, <1>2, <1>4, <2>4, SendNoRoom
    <3> QED
      BY <1>1, <2>1, <2>2, <2>4, <3>1 DEF GrowInv
  <2> QED
    BY <2>3, <2>4
<1>5. CASE Growing!Break
  <2>1. /\ recording' = ~ recording /\ breaks' = breaks + 1 /\ (reserves => recording)
        /\ content' = content /\ reserves' = reserves /\ fileSize' = fileSize
        /\ fileState' = fileState /\ duration' = duration /\ sinceSize' = sinceSize
        /\ sinceDur' = sinceDur
    BY <1>5 DEF Growing!Break, Growing!lengths
  <2>2. k + Cost \in Nat /\ k + Cost = breaks' * Cost'
    <3>1. (breaks + 1) * Cost = breaks * Cost + Cost
      BY <1>1, <1>3
    <3> QED
      BY <1>2, <1>3, <2>1, <3>1
  <2>3. CASE reserves
    <3>1. WithRoom(t, k + Cost)'
      <4>1. WithRoom(t, k) /\ recording /\ ~ recording'
        BY <1>2, <2>1, <2>3
      <4>2. k + Cost >= Cost /\ (k + Cost)' = k + Cost /\ duration - t \in 0 .. sinceSize
        BY <1>1, <1>3, <4>1, GrowNumbers DEF WithRoom
      <4> QED
        BY <1>3, <2>1, <4>1, <4>2 DEF WithRoom
    <3> QED
      BY <1>1, <1>2, <2>1, <2>2, <2>3, <3>1 DEF GrowInv
  <2>4. CASE ~ reserves
    <3>1. NoRoom(t, g, k + Cost)'
      BY <1>1, <1>2, <1>5, <2>4, BreakNoRoom
    <3> QED
      BY <1>1, <1>2, <2>1, <2>2, <2>4, <3>1 DEF GrowInv
  <2> QED
    BY <2>3, <2>4
<1>6. ASSUME UNCHANGED <<content, reserves, recording, fileState, fileSize, duration, sinceSize,
                         sinceDur, breaks>>
      PROVE  GrowInv'
  <2>1. IF reserves' THEN WithRoom(t, k)' ELSE NoRoom(t, g, k)'
    BY <1>2, <1>3, <1>6 DEF WithRoom, NoRoom
  <2>2. content' = t * Rate' /\ k = breaks' * Cost'
    BY <1>2, <1>3, <1>6
  <2> QED
    BY <1>1, <1>6, <2>1, <2>2 DEF GrowInv
<1>7. ASSUME NEW b \in Backs, Growing!Seek(b) PROVE GrowInv'
  BY <1>6, <1>7 DEF Growing!Seek, Growing!recorder, Growing!lengths
<1>8. ASSUME NEW s \in Speeds, Growing!SetSpeed(s) PROVE GrowInv'
  BY <1>6, <1>8 DEF Growing!SetSpeed, Growing!recorder, Growing!lengths
<1>9. CASE UNCHANGED forGrowing
  BY <1>6, <1>9 DEF forGrowing
<1> QED
  BY <1>4, <1>5, <1>7, <1>8, <1>9 DEF Growing!Next

LEMMA GreatestOff ==
  ASSUME NEW m \in Int
  PROVE  Growing!Max({m, -m}) = IF m >= 0 THEN m ELSE -m
<1>1. \E x \in {m, -m} : \A y \in {m, -m} : x >= y
  OBVIOUS
<1>2. /\ Growing!Max({m, -m}) \in {m, -m}
      /\ \A y \in {m, -m} : Growing!Max({m, -m}) >= y
  BY <1>1, Zenon DEF Growing!Max
<1> QED
  BY <1>2

LEMMA GrowTracks == GrowInv => Growing!LengthTracks
<1> SUFFICES ASSUME GrowInv, fileState # "maybe", ~ Growing!Unnoticed
             PROVE  LET more == IF fileState # "fixed" /\ ~ recording THEN 1 ELSE 0
                    IN  Growing!Off <= (breaks + more) * Growing!CheckCost
  BY DEF Growing!LengthTracks
<1>1. PICK t \in Nat, g \in Nat, k \in Nat :
        /\ content = t * Rate /\ k = breaks * Cost
        /\ IF reserves THEN WithRoom(t, k) ELSE NoRoom(t, g, k)
  BY DEF GrowInv
<1>2. PICK C \in Nat \ {0}, R \in Nat \ {0}, s \in Nat, D \in Int, b \in BOOLEAN, B \in Nat :
        /\ C = Cost /\ R = RenewSize /\ s = sinceSize /\ D = duration /\ s <= R - 1
        /\ R - 1 <= C /\ b = recording /\ B = breaks
  BY GrowNumbers DEF GrowInv
<1>3. Growing!CheckCost = C
  BY <1>2 DEF Growing!CheckCost, Cost
<1>4. content \div Rate = t
  <2>1. Rate * t + 0 = t * Rate /\ 0 \in 0 .. Rate - 1
    BY GrowNumbers
  <2>2. (Rate * t + 0) \div Rate = t
    BY <2>1, GrowNumbers, PartsOnly
  <2> QED
    BY <1>1, <2>1, <2>2
<1>5. PICK m \in Int : m = D - t
  BY <1>2
<1>6. Growing!Off = IF m >= 0 THEN m ELSE -m
  <2>1. duration - content \div Rate = m
    BY <1>2, <1>4, <1>5
  <2>2. Growing!Off = Growing!Max({m, -m})
    BY <2>1, Zenon DEF Growing!Off
  <2> QED
    BY <2>2, GreatestOff
<1>7. (B + 1) * C = k + C /\ (B + 0) * C = k
  BY <1>1, <1>2
<1>8. m \in -k .. k \/ (fileState # "fixed" /\ ~ b /\ m \in -(k + C) .. k + C)
  <2>1. CASE reserves
    <3>1. CASE b
      BY <1>1, <1>2, <1>5, <2>1, <3>1 DEF WithRoom
    <3>2. CASE ~ b /\ fileState = "special"
      <4>1. fileSize > content /\ fileSize \in Int /\ content \in Nat
        BY <1>1, <1>2, <2>1, <3>2, GrowNumbers DEF WithRoom, Growing!Unnoticed
      <4>2. m \in 0 .. s /\ k >= C
        BY <1>1, <1>2, <1>5, <2>1, <3>2, <4>1 DEF WithRoom
      <4> QED
        BY <1>2, <4>2
    <3>3. CASE ~ b /\ fileState = "fixed"
      <4>1. m \in 0 .. R - 1 /\ k >= C
        BY <1>1, <1>2, <1>5, <2>1, <3>3 DEF WithRoom
      <4> QED
        BY <1>2, <4>1
    <3> QED
      BY <1>1, <1>2, <2>1, <3>1, <3>2, <3>3 DEF WithRoom
  <2>2. CASE ~ reserves /\ fileState = "extending"
    <3>1. /\ g <= s
          /\ b => m \in -k .. k
          /\ ~ b /\ g > 0 => m \in C - k .. k - C + s - g
          /\ ~ b /\ g = 0 => m \in C - k + s - (R - 1) .. k - 1 + s
      BY <1>1, <1>2, <1>5, <2>2 DEF NoRoom
    <3> QED
      BY <1>2, <2>2, <3>1
  <2>3. CASE ~ reserves /\ fileState = "fixed"
    <3>1. /\ g <= s
          /\ b => m \in C - k - g .. k - C - g
          /\ ~ b /\ g > 0 => m \in 2 * C - k - g .. k - 2 * C - g
          /\ ~ b /\ g = 0 => m \in -k .. k
      BY <1>1, <1>2, <1>5, <2>3 DEF NoRoom
    <3> QED
      BY <1>2, <3>1
  <2> QED
    BY <1>1, <2>1, <2>2, <2>3 DEF NoRoom
<1>9. CASE fileState # "fixed" /\ ~ b
  <2>1. Growing!Off <= k + C
    BY <1>2, <1>6, <1>8
  <2> QED
    BY <1>2, <1>3, <1>7, <1>9, <2>1
<1>10. CASE ~ (fileState # "fixed" /\ ~ b)
  <2>1. Growing!Off <= k
    BY <1>2, <1>6, <1>8, <1>10
  <2> QED
    BY <1>2, <1>3, <1>7, <1>10, <2>1
<1> QED
  BY <1>9, <1>10

\* The length of a file that is being recorded is off by no more than the time between
\* two looks at the file's size for each pause and resumption, whatever the times of the
\* calls of CTsSender::Send, of the recorder and of the user.
THEOREM LengthIsTracked == Spec => []LengthTracks
<1> DEFINE I == kind = "growing" => GrowInv
<1>1. Init => I
  BY GrowInit DEF Init
<1>2. I /\ [Next]_vars => I'
  <2> SUFFICES ASSUME I, [Next]_vars, kind' = "growing" PROVE GrowInv'
    OBVIOUS
  <2>1. kind' = kind /\ (Growing!Next \/ UNCHANGED forGrowing)
    BY DEF Next, vars
  <2> QED
    BY <2>1, GrowStep
<1>3. I => LengthTracks
  BY GrowTracks DEF LengthTracks
<1> QED
  BY <1>1, <1>2, <1>3, PTL DEF Spec

-----------------------------------------------------------------------------
(* Sums, and sequences joined                                              *)

LEMMA SumsIs ==
  ASSUME NEW s \in Seq(Nat)
  PROVE  /\ Mp4!Sums(s) \in [0 .. Len(s) -> Nat] /\ Mp4!Sums(s)[0] = 0
         /\ \A k \in 1 .. Len(s) : Mp4!Sums(s)[k] = Mp4!Sums(s)[k - 1] + s[k]
<1> DEFINE N == Len(s)
           h == [k \in 1 .. N |-> [x \in Nat |-> x + s[k]]]
           F == Mp4!Sums(s)
<1>1. N \in Nat /\ 0 \in Nat /\ \A k \in 1 .. N : s[k] \in Nat
  OBVIOUS
<1>2. h \in [1 .. N -> [Nat -> Nat]]
  BY <1>1
<1>3. PICK g \in [0 .. N -> Nat] : g[0] = 0 /\ \A k \in 1 .. N : g[k] = h[k][g[k - 1]]
  <2> HIDE DEF h, N
  <2>1. \E g \in [0 .. N -> Nat] : Computes(g, N, 0, h)
    BY <1>1, <1>2, Recursion, Zenon
  <2> QED
    BY <2>1 DEF Computes
<1>4. \A k \in 1 .. N : g[k] = g[k - 1] + s[k]
  <2> SUFFICES ASSUME NEW k \in 1 .. N PROVE g[k] = g[k - 1] + s[k]
    OBVIOUS
  <2>1. g[k - 1] \in Nat
    <3>1. k - 1 \in 0 .. N
      BY <1>1
    <3> QED
      BY <3>1, SMTT(30)
  <2> QED
    BY <1>3, <2>1
<1>5. g = [k \in 0 .. N |-> IF k = 0 THEN 0 ELSE g[k - 1] + s[k]]
  BY <1>1, <1>3, <1>4
<1> HIDE DEF h, F
<1>6. F = [k \in 0 .. N |-> IF k = 0 THEN 0 ELSE F[k - 1] + s[k]]
  BY <1>5, Zenon DEF Mp4!Sums, N, F
<1> HIDE DEF N
<1>7. F[0] = 0 /\ \A k \in 1 .. N : F[k] = F[k - 1] + s[k]
  BY <1>6, <1>1
<1> DEFINE T == {k \in 0 .. N : F[k] \in Nat}
<1>8. 0 \in T
  BY <1>1, <1>7
<1>9. ASSUME NEW k \in 1 .. N, k - 1 \in T PROVE k \in T
  <2>1. k \in 0 .. N
    BY <1>1
  <2>2. F[k - 1] \in Nat
    BY <1>9
  <2>3. F[k] = F[k - 1] + s[k]
    BY <1>7
  <2>4. s[k] \in Nat
    BY <1>1
  <2>5. F[k] \in Nat
    BY <2>2, <2>3, <2>4
  <2> QED
    BY <2>1, <2>5
<1>10. \A k \in 0 .. N : k \in T
  <2> HIDE DEF T
  <2> QED
    BY <1>1, <1>8, <1>9, UpTo
<1>11. F \in [0 .. N -> Nat]
  BY <1>6, <1>10
<1> QED
  BY <1>7, <1>11 DEF N, F

\* What never falls from one number to the next never falls.
LEMMA Rises ==
  ASSUME NEW N \in Nat, NEW F \in [0 .. N -> Int], \A k \in 1 .. N : F[k - 1] <= F[k],
         NEW i \in 0 .. N, NEW j \in i .. N
  PROVE  F[i] <= F[j]
<1> DEFINE T == {k \in 0 .. N : k >= i => F[i] <= F[k]}
<1>1. 0 \in T
  OBVIOUS
<1>2. ASSUME NEW k \in 1 .. N, k - 1 \in T PROVE k \in T
  <2>1. k - 1 \in 0 .. N /\ k \in 0 .. N
    OBVIOUS
  <2>2. PICK a \in Int, b \in Int, c \in Int : a = F[i] /\ b = F[k - 1] /\ c = F[k]
    BY <2>1
  <2>3. b <= c
    BY <2>2
  <2>4. k >= i => a <= c
    <3>1. CASE k = i
      BY <2>2, <3>1
    <3>2. CASE k > i
      <4>1. k - 1 >= i
        BY <3>2
      <4>2. a <= b
        BY <1>2, <2>2, <4>1
      <4> QED
        BY <2>3, <4>2
    <3> QED
      BY <3>1, <3>2
  <2> QED
    BY <2>1, <2>2, <2>4
<1>3. \A k \in 0 .. N : k \in T
  <2> HIDE DEF T
  <2> QED
    BY <1>1, <1>2, UpTo
<1> QED
  BY <1>3

LEMMA SumsGrow ==
  ASSUME NEW s \in Seq(Nat), NEW i \in 0 .. Len(s), NEW j \in i .. Len(s)
  PROVE  Mp4!Sums(s)[i] <= Mp4!Sums(s)[j]
<1>0. PICK N \in Nat : N = Len(s)
  OBVIOUS
<1>1. PICK F \in [0 .. N -> Nat] :
        F = Mp4!Sums(s) /\ \A k \in 1 .. N : F[k] = F[k - 1] + s[k]
  BY <1>0, SumsIs
<1>3. ASSUME NEW k \in 1 .. N PROVE F[k - 1] <= F[k]
  <2>1. k - 1 \in 0 .. N /\ k \in 1 .. Len(s)
    BY <1>0
  <2>2. F[k - 1] \in Nat /\ s[k] \in Nat
    <3>1. F[k - 1] \in Nat
      BY <2>1
    <3> QED
      BY <2>1, <3>1, SMTT(30)
  <2>3. F[k] = F[k - 1] + s[k]
    BY <1>1
  <2>4. \A a, b \in Nat : a <= a + b
    OBVIOUS
  <2> QED
    BY <2>2, <2>3, <2>4, Zenon
<1>4. F \in [0 .. N -> Int] /\ i \in 0 .. N /\ j \in i .. N
  BY <1>0, <1>1
<1>5. F[i] <= F[j]
  BY <1>3, <1>4, Rises
<1> QED
  BY <1>1, <1>5

LEMMA FlatsIs ==
  ASSUME NEW P, NEW ss \in Seq(Seq(P))
  PROVE  /\ Mp4!Flats(ss) \in [0 .. Len(ss) -> Seq(P)] /\ Mp4!Flats(ss)[0] = <<>>
         /\ \A k \in 1 .. Len(ss) : Mp4!Flats(ss)[k] = Mp4!Flats(ss)[k - 1] \o ss[k]
<1> DEFINE N == Len(ss)
           S == Seq(P)
           h == [k \in 1 .. N |-> [x \in S |-> x \o ss[k]]]
           F == Mp4!Flats(ss)
<1>1. N \in Nat /\ <<>> \in S /\ \A k \in 1 .. N : ss[k] \in S
  OBVIOUS
<1>3. \A x, y \in S : x \o y \in S
  BY ConcatProperties
<1>4. h \in [1 .. N -> [S -> S]]
  <2> HIDE DEF N, S
  <2> QED
    BY <1>1, <1>3
<1>5. PICK g \in [0 .. N -> S] : g[0] = <<>> /\ \A k \in 1 .. N : g[k] = h[k][g[k - 1]]
  <2> HIDE DEF h, N, S
  <2>1. \E g \in [0 .. N -> S] : Computes(g, N, <<>>, h)
    BY <1>1, <1>4, Recursion, Zenon
  <2> QED
    BY <2>1 DEF Computes
<1>6. \A k \in 1 .. N : g[k] = g[k - 1] \o ss[k]
  <2> SUFFICES ASSUME NEW k \in 1 .. N PROVE g[k] = g[k - 1] \o ss[k]
    OBVIOUS
  <2> HIDE DEF N, S
  <2>1. k - 1 \in 0 .. N
    BY <1>1
  <2>2. g[k - 1] \in S
    BY <2>1
  <2>3. h[k][g[k - 1]] = g[k - 1] \o ss[k]
    BY <2>2
  <2> QED
    BY <1>5, <2>3
<1>7. g = [k \in 0 .. N |-> IF k = 0 THEN <<>> ELSE g[k - 1] \o ss[k]]
  <2> HIDE DEF N, S, h
  <2>1. \A k \in 0 .. N : k # 0 => k \in 1 .. N
    BY <1>1
  <2>2. \A k \in 0 .. N : g[k] = IF k = 0 THEN <<>> ELSE g[k - 1] \o ss[k]
    BY <1>5, <1>6, <2>1
  <2> QED
    BY <2>2
<1> HIDE DEF h, F
<1>8. F = [k \in 0 .. N |-> IF k = 0 THEN <<>> ELSE F[k - 1] \o ss[k]]
  BY <1>7, Zenon DEF Mp4!Flats, N, F
<1> HIDE DEF N, S
<1>9. F[0] = <<>> /\ \A k \in 1 .. N : F[k] = F[k - 1] \o ss[k]
  BY <1>8, <1>1, SMTT(30)
<1> DEFINE T == {k \in 0 .. N : F[k] \in S}
<1>10. 0 \in T
  BY <1>1, <1>9
<1>11. ASSUME NEW k \in 1 .. N, k - 1 \in T PROVE k \in T
  <2>1. k \in 0 .. N
    BY <1>1
  <2>2. F[k - 1] \in S
    BY <1>11
  <2>3. F[k] = F[k - 1] \o ss[k]
    BY <1>9
  <2>4. F[k] \in S
    BY <1>1, <1>3, <2>2, <2>3
  <2> QED
    BY <2>1, <2>4
<1>12. \A k \in 0 .. N : k \in T
  <2> HIDE DEF T
  <2> QED
    BY <1>1, <1>10, <1>11, UpTo
<1>13. F \in [0 .. N -> S]
  BY <1>8, <1>12
<1> QED
  BY <1>9, <1>13 DEF N, F, S

\* Sums are the sums: what adds s[k] to the number before is Sums(s).
LEMMA SumsAre ==
  ASSUME NEW s \in Seq(Nat), NEW N \in Nat, N = Len(s), NEW G \in [0 .. N -> Nat], G[0] = 0,
         \A k \in 1 .. N : G[k] = G[k - 1] + s[k]
  PROVE  \A k \in 0 .. N : Mp4!Sums(s)[k] = G[k]
<1>1. PICK F \in [0 .. N -> Nat] :
        F = Mp4!Sums(s) /\ F[0] = 0 /\ \A k \in 1 .. N : F[k] = F[k - 1] + s[k]
  BY SumsIs
<1> DEFINE T == {k \in 0 .. N : F[k] = G[k]}
<1>2. 0 \in T
  BY <1>1
<1>3. ASSUME NEW k \in 1 .. N, k - 1 \in T PROVE k \in T
  <2>1. k \in 0 .. N
    OBVIOUS
  <2>2. F[k - 1] = G[k - 1]
    BY <1>3
  <2>3. F[k] = G[k]
    BY <1>1, <2>2
  <2> QED
    BY <2>1, <2>3
<1>4. \A k \in 0 .. N : k \in T
  <2> HIDE DEF T
  <2> QED
    BY <1>2, <1>3, UpTo
<1> QED
  BY <1>1, <1>4

LEMMA FlatsLen ==
  ASSUME NEW P, NEW ss \in Seq(Seq(P)), NEW lens \in Seq(Nat), Len(lens) = Len(ss),
         \A k \in 1 .. Len(ss) : lens[k] = Len(ss[k])
  PROVE  \A k \in 0 .. Len(ss) : Len(Mp4!Flats(ss)[k]) = Mp4!Sums(lens)[k]
<1>0. PICK N \in Nat : N = Len(ss)
  OBVIOUS
<1>1. PICK F \in [0 .. N -> Seq(P)] :
        F = Mp4!Flats(ss) /\ F[0] = <<>> /\ \A k \in 1 .. N : F[k] = F[k - 1] \o ss[k]
  BY <1>0, FlatsIs
<1>2. \A k \in 0 .. N : F[k] \in Seq(P) /\ Len(F[k]) \in Nat
  BY <1>1
<1> DEFINE G == [k \in 0 .. N |-> Len(F[k])]
<1>3. G \in [0 .. N -> Nat]
  BY <1>2
<1>4. G[0] = 0
  BY <1>1
<1>5. ASSUME NEW k \in 1 .. N PROVE G[k] = G[k - 1] + lens[k]
  <2>1. k - 1 \in 0 .. N /\ k \in 0 .. N
    OBVIOUS
  <2>2. F[k - 1] \in Seq(P) /\ ss[k] \in Seq(P)
    BY <1>0, <1>2, <2>1
  <2>3. Len(F[k - 1] \o ss[k]) = Len(F[k - 1]) + Len(ss[k])
    BY <2>2
  <2>4. F[k] = F[k - 1] \o ss[k]
    BY <1>1
  <2>5. lens[k] = Len(ss[k])
    BY <1>0
  <2>6. G[k - 1] = Len(F[k - 1]) /\ G[k] = Len(F[k])
    BY <2>1
  <2> QED
    BY <2>3, <2>4, <2>5, <2>6
<1>6. \A k \in 0 .. N : Mp4!Sums(lens)[k] = G[k]
  <2>1. N = Len(lens)
    BY <1>0
  <2> HIDE DEF G
  <2> QED
    BY <1>3, <1>4, <1>5, <2>1, SumsAre
<1> QED
  BY <1>0, <1>1, <1>6

\* What was joined is found again where it begins.
LEMMA FlatsPart ==
  ASSUME NEW P, NEW ss \in Seq(Seq(P)), NEW i \in 1 .. Len(ss)
  PROVE  \A j \in 1 .. Len(ss[i]) :
           Mp4!Flats(ss)[Len(ss)][Len(Mp4!Flats(ss)[i - 1]) + j] = ss[i][j]
<1>0. PICK N \in Nat : N = Len(ss)
  OBVIOUS
<1>1. PICK F \in [0 .. N -> Seq(P)] :
        F = Mp4!Flats(ss) /\ \A k \in 1 .. N : F[k] = F[k - 1] \o ss[k]
  BY <1>0, FlatsIs
<1>2. i \in 1 .. N /\ i - 1 \in 0 .. N
  BY <1>0
<1>3. PICK c \in Seq(P), d \in Seq(P) : c = F[i - 1] /\ d = ss[i]
  <2>1. F[i - 1] \in Seq(P)
    BY <1>2
  <2>2. ss[i] \in Seq(P)
    OBVIOUS
  <2> QED
    BY <2>1, <2>2, Zenon
<1> DEFINE Has(s) == /\ Len(c) + Len(d) <= Len(s)
                     /\ \A j \in 1 .. Len(d) : s[Len(c) + j] = d[j]
           T == {k \in 0 .. N : k >= i => Has(F[k])}
<1>4. 0 \in T
  BY <1>2
<1>5. ASSUME NEW k \in 1 .. N, k - 1 \in T PROVE k \in T
  <2>0. k - 1 \in 0 .. N /\ k \in 0 .. N
    OBVIOUS
  <2>1. PICK a \in Seq(P), b \in Seq(P) : a = F[k - 1] /\ b = ss[k]
    <3>1. F[k - 1] \in Seq(P)
      BY <2>0
    <3>2. ss[k] \in Seq(P)
      BY <1>0
    <3> QED
      BY <3>1, <3>2, Zenon
  <2>2. F[k] = a \o b
    BY <1>1, <2>1
  <2>3. /\ Len(a \o b) = Len(a) + Len(b)
        /\ \A j \in 1 .. Len(a) : (a \o b)[j] = a[j]
        /\ \A j \in 1 .. Len(b) : (a \o b)[Len(a) + j] = b[j]
    OBVIOUS
  <2>4. Len(a) \in Nat /\ Len(b) \in Nat /\ Len(c) \in Nat /\ Len(d) \in Nat
    BY SMTT(30)
  <2>5. CASE k = i
    <3>1. a = c /\ b = d
      BY <1>3, <2>1, <2>5
    <3>2. Has(F[k])
      BY <2>2, <2>3, <2>4, <3>1
    <3> QED
      BY <2>0, <3>2
  <2>6. CASE k > i
    <3>1. Has(a)
      BY <1>5, <2>1, <2>6, <1>2
    <3>2. \A j \in 1 .. Len(d) : Len(c) + j \in 1 .. Len(a)
      BY <2>4, <3>1, SMTT(30)
    <3>3. Len(c) + Len(d) <= Len(a \o b)
      BY <2>3, <2>4, <3>1
    <3>4. ASSUME NEW j \in 1 .. Len(d) PROVE (a \o b)[Len(c) + j] = d[j]
      <4>1. Len(c) + j \in 1 .. Len(a)
        BY <3>2
      <4>2. a[Len(c) + j] = d[j]
        BY <3>1
      <4> QED
        BY <2>3, <4>1, <4>2
    <3> QED
      BY <2>0, <2>2, <3>3, <3>4
  <2>7. CASE k < i
    BY <2>0, <2>7, <1>2
  <2> QED
    BY <2>5, <2>6, <2>7, <1>2
<1>6. \A k \in 0 .. N : k \in T
  <2> HIDE DEF T
  <2> QED
    BY <1>4, <1>5, UpTo
<1>7. Has(F[N])
  BY <1>2, <1>6
<1> QED
  BY <1>0, <1>1, <1>3, <1>7

-----------------------------------------------------------------------------
(* The samples of a track                                                  *)

Timed == {t \in Mp4!Track : t.scale > 0 /\ (t.delta > 0 \/ Len(t.times) = Len(t.packs))}
Earlier(t, k) == {i \in 0 .. Len(t.packs) - 1 : Mp4!SampleTime(t, i) < Mp4!Bound(t, k)}

LEMMA Mp4Numbers ==
  /\ BlockMsec \in Nat \ {0} /\ CcMod \in Nat \ {0} /\ EitPeriod \in Nat \ {0}
  /\ TotPeriod \in Nat \ {0} /\ BlockListMax \in Nat \ {0} /\ CaptionForward \in Nat
  /\ ReadSizes \subseteq Nat \ {0} /\ SeekTimes \subseteq Nat
BY FileAssumption DEF Mp4!FilesAssumption

LEMMA FileTyped ==
  ASSUME NEW f \in Files
  PROVE  /\ f \in Mp4!Mp4 /\ f.tracks \in Seq(Timed) /\ Len(f.tracks) \in 1 .. 3
         /\ f.captions \in Seq(Mp4!Caption)
<1>1. /\ f \in Mp4!Mp4 /\ Len(f.tracks) \in 1 .. 3
      /\ \A i \in 1 .. Len(f.tracks) :
           /\ f.tracks[i].scale > 0
           /\ f.tracks[i].delta > 0 \/ Len(f.tracks[i].times) = Len(f.tracks[i].packs)
  BY FileAssumption DEF Mp4!FilesAssumption
<1>2. f.tracks \in Seq(Mp4!Track) /\ f.captions \in Seq(Mp4!Caption)
  BY <1>1 DEF Mp4!Mp4
<1>3. \A i \in 1 .. Len(f.tracks) : f.tracks[i] \in Timed
  <2>1. \A i \in 1 .. Len(f.tracks) : f.tracks[i] \in Mp4!Track
    BY <1>2
  <2> QED
    BY <1>1, <2>1 DEF Timed
<1>4. f.tracks \in Seq(Timed)
  <2>1. PICK n \in Nat : n = Len(f.tracks) /\ f.tracks \in [1 .. n -> Mp4!Track]
    BY <1>2
  <2>2. f.tracks \in [1 .. n -> Timed]
    BY <1>3, <2>1
  <2> QED
    BY <2>2
<1> QED
  BY <1>1, <1>2, <1>4

LEMMA Mp4Cardinality == \A S : Mp4!Cardinality(S) = Cardinality(S)
  BY Zenon DEF Mp4!Cardinality, Cardinality, Mp4!IsFiniteSet, IsFiniteSet

\* Numbers up to n - 1 that something holds for are finitely many.
LEMMA FewOf ==
  ASSUME NEW n \in Nat, NEW S \in SUBSET (0 .. n - 1)
  PROVE  IsFiniteSet(S) /\ Cardinality(S) \in 0 .. n
<1>1. IsFiniteSet(0 .. n - 1) /\ Cardinality(0 .. n - 1) = n
  BY FS_Interval
<1>2. IsFiniteSet(S) /\ Cardinality(S) <= Cardinality(0 .. n - 1)
  BY <1>1, FS_Subset
<1>3. Cardinality(S) \in Nat
  BY <1>2, FS_CardinalityType
<1> QED
  BY <1>1, <1>2, <1>3

LEMMA MoreOf ==
  ASSUME NEW n \in Nat, NEW R \in SUBSET (0 .. n - 1), NEW S \in SUBSET R
  PROVE  Cardinality(S) <= Cardinality(R)
  BY FewOf, FS_Subset

LEMMA TrackTyped ==
  ASSUME NEW t \in Timed
  PROVE  /\ t.scale \in Nat /\ t.delta \in Nat /\ t.packs \in Seq(Nat) /\ Len(t.packs) \in Nat
         /\ \A i \in 0 .. Len(t.packs) - 1 : Mp4!SampleTime(t, i) \in Nat
<1>1. /\ t.scale \in Nat /\ t.delta \in Nat /\ t.packs \in Seq(Nat) /\ t.times \in Seq(Nat)
      /\ t.delta > 0 \/ Len(t.times) = Len(t.packs)
  BY DEF Timed, Mp4!Track
<1>2. Len(t.packs) \in Nat
  BY <1>1
<1>3. ASSUME NEW i \in 0 .. Len(t.packs) - 1 PROVE Mp4!SampleTime(t, i) \in Nat
  <2>1. i \in Nat
    BY <1>2
  <2>2. CASE t.delta > 0
    BY <1>1, <2>1, <2>2 DEF Mp4!SampleTime
  <2>3. CASE ~(t.delta > 0)
    <3>1. i + 1 \in 1 .. Len(t.times)
      BY <1>1, <1>2, <2>1, <2>3
    <3>2. t.times[i + 1] \in Nat
      <4>1. PICK s \in Seq(Nat) : s = t.times
        BY <1>1
      <4>2. s[i + 1] \in Nat
        BY <3>1, <4>1
      <4> QED
        BY <4>1, <4>2
    <3> QED
      BY <2>3, <3>2 DEF Mp4!SampleTime
  <2> QED
    BY <2>2, <2>3
<1> QED
  BY <1>1, <1>2, <1>3

LEMMA BoundGrows ==
  ASSUME NEW t \in Timed, NEW k \in Nat
  PROVE  /\ Mp4!Bound(t, k) \in Nat /\ Mp4!Bound(t, k) <= Mp4!Bound(t, k + 1)
         /\ Mp4!Bound(t, 0) = 0
<1>1. PICK s \in Nat : s = t.scale
  BY TrackTyped
<1>2. PICK a \in Nat : a = k * s
  OBVIOUS
<1>3. (k + 1) * s = a + s /\ 0 * s = 0
  BY <1>2
<1>4. a \div 10 \in Nat /\ a \div 10 <= (a + s) \div 10 /\ 0 \div 10 = 0
  OBVIOUS
<1> QED
  BY <1>1, <1>2, <1>3, <1>4 DEF Mp4!Bound

LEMMA PassedTyped ==
  ASSUME NEW t \in Timed, NEW k \in Nat
  PROVE  Mp4!Passed(t, k) \in 0 .. Len(t.packs)
<1>1. Earlier(t, k) \in SUBSET (0 .. Len(t.packs) - 1)
  BY DEF Earlier
<1>2. Cardinality(Earlier(t, k)) \in 0 .. Len(t.packs)
  BY <1>1, FewOf, TrackTyped
<1> QED
  BY <1>2, Mp4Cardinality, Zenon DEF Mp4!Passed, Earlier

LEMMA PassedGrows ==
  ASSUME NEW t \in Timed, NEW k \in Nat
  PROVE  Mp4!Passed(t, k) <= Mp4!Passed(t, k + 1) /\ Mp4!Passed(t, 0) = 0
<1>1. Len(t.packs) \in Nat /\ \A i \in 0 .. Len(t.packs) - 1 : Mp4!SampleTime(t, i) \in Nat
  BY TrackTyped
<1>2. /\ Mp4!Bound(t, k) \in Nat /\ Mp4!Bound(t, k) <= Mp4!Bound(t, k + 1)
      /\ Mp4!Bound(t, 0) = 0 /\ Mp4!Bound(t, k + 1) \in Nat
  <2>1. k + 1 \in Nat
    OBVIOUS
  <2> QED
    BY <2>1, BoundGrows
<1>3. Earlier(t, k) \in SUBSET Earlier(t, k + 1)
  <2>1. ASSUME NEW i \in Earlier(t, k) PROVE i \in Earlier(t, k + 1)
    <3>1. i \in 0 .. Len(t.packs) - 1 /\ Mp4!SampleTime(t, i) < Mp4!Bound(t, k)
      BY DEF Earlier
    <3>2. Mp4!SampleTime(t, i) \in Nat
      BY <1>1, <3>1
    <3>3. Mp4!SampleTime(t, i) < Mp4!Bound(t, k + 1)
      BY <1>2, <3>1, <3>2
    <3> QED
      BY <3>1, <3>3 DEF Earlier
  <2> QED
    BY <2>1
<1>4. Earlier(t, k + 1) \in SUBSET (0 .. Len(t.packs) - 1)
  BY DEF Earlier
<1>5. Cardinality(Earlier(t, k)) <= Cardinality(Earlier(t, k + 1))
  BY <1>1, <1>3, <1>4, MoreOf
<1>6. Earlier(t, 0) = {}
  BY <1>1, <1>2 DEF Earlier
<1>7. Cardinality(Earlier(t, 0)) = 0
  BY <1>6, FS_EmptySet
<1> QED
  BY <1>5, <1>7, Mp4Cardinality, Zenon DEF Mp4!Passed, Earlier

LEMMA Mp4Min ==
  ASSUME NEW a \in Int, NEW b \in Int
  PROVE  Mp4!Min({a, b}) = IF a <= b THEN a ELSE b
<1>1. \E x \in {a, b} : \A y \in {a, b} : x <= y
  OBVIOUS
<1>2. /\ Mp4!Min({a, b}) \in {a, b}
      /\ \A y \in {a, b} : Mp4!Min({a, b}) <= y
  BY <1>1, Zenon DEF Mp4!Min
<1> QED
  BY <1>2

\* A number of steps of d reaches b first at the quotient, rounded up.
LEMMA ReachedAt ==
  ASSUME NEW d \in Nat \ {0}, NEW b \in Nat, NEW i \in Nat
  PROVE  (b + d - 1) \div d \in Nat /\ (i * d < b <=> i < (b + d - 1) \div d)
<1>1. b + d - 1 \in Nat
  OBVIOUS
<1>2. PICK q \in Nat, r \in 0 .. d - 1 : q = (b + d - 1) \div d /\ b + d - 1 = d * q + r
  BY <1>1, Parts
<1>3. d * (i + 1) = d * i + d /\ d * i = i * d /\ d * i \in Nat /\ d * q \in Nat
  OBVIOUS
<1>4. ASSUME i < q PROVE i * d < b
  <2>1. d * (i + 1) <= d * q
    <3>1. i + 1 <= q
      BY <1>4
    <3> QED
      BY <3>1, Times
  <2> QED
    BY <2>1, <1>2, <1>3
<1>5. ASSUME ~(i < q) PROVE ~(i * d < b)
  <2>1. d * q <= d * i
    <3>1. q <= i
      BY <1>5
    <3> QED
      BY <3>1, Times
  <2> QED
    BY <2>1, <1>2, <1>3
<1> QED
  BY <1>2, <1>4, <1>5

\* The division and the search find the same sample.
LEMMA FirstIsPassed ==
  ASSUME NEW t \in Timed, NEW k \in Nat
  PROVE  Mp4!Min({Mp4!First(t, k), Len(t.packs)}) = Mp4!Passed(t, k)
<1>1. PICK n \in Nat : n = Len(t.packs)
  BY TrackTyped
<1>2. PICK p \in 0 .. n : p = Mp4!Passed(t, k)
  BY <1>1, PassedTyped
<1>3. CASE t.delta > 0
  <2>1. PICK d \in Nat \ {0} : d = t.delta
    BY <1>3, TrackTyped
  <2>2. PICK b \in Nat : b = Mp4!Bound(t, k)
    BY BoundGrows
  <2>3. PICK q \in Nat : q = (b + d - 1) \div d
    BY ReachedAt
  <2>4. Mp4!First(t, k) = q
    BY <1>3, <2>1, <2>2, <2>3 DEF Mp4!First
  <2> DEFINE m == IF q <= n THEN q ELSE n
  <2>5. m \in Nat /\ Mp4!Min({q, n}) = m
    BY Mp4Min
  <2>6. \A i \in 0 .. n - 1 : i * d < b <=> i < q
    BY <2>3, ReachedAt
  <2>7. Earlier(t, k) = {i \in 0 .. n - 1 : i * d < b}
    BY <1>1, <1>3, <2>1, <2>2 DEF Earlier, Mp4!SampleTime
  <2>8. {i \in 0 .. n - 1 : i * d < b} = {i \in 0 .. n - 1 : i < q}
    BY <2>6
  <2>9. {i \in 0 .. n - 1 : i < q} = 0 .. m - 1
    OBVIOUS
  <2>10. Cardinality(0 .. m - 1) = m
    <3> HIDE DEF m
    <3>1. m \in Nat /\ m - 1 \in Int
      BY <2>5
    <3>2. Cardinality(0 .. m - 1) = IF 0 > m - 1 THEN 0 ELSE m - 1 - 0 + 1
      BY <3>1, FS_Interval
    <3> QED
      BY <3>1, <3>2
  <2>11. Mp4!Passed(t, k) = m
    BY <2>7, <2>8, <2>9, <2>10, Mp4Cardinality, Zenon DEF Mp4!Passed, Earlier
  <2> QED
    BY <1>1, <2>4, <2>5, <2>11
<1>4. CASE ~(t.delta > 0)
  <2>1. Mp4!First(t, k) = p
    BY <1>2, <1>4 DEF Mp4!First
  <2>2. Mp4!Min({p, n}) = p
    BY Mp4Min
  <2> QED
    BY <1>1, <1>2, <2>1, <2>2
<1> QED
  BY <1>3, <1>4

-----------------------------------------------------------------------------
(* The captions, and what a block takes                                    *)

CaptionsBy(f, k) ==
  {i \in 1 .. Len(f.captions) : f.captions[i].time < k * BlockMsec + CaptionForward}

LEMMA CaptionsTyped ==
  ASSUME NEW f \in Files, NEW k \in Nat
  PROVE  /\ Mp4!CaptionsUpTo(f, k) \in 0 .. Len(f.captions)
         /\ Mp4!CaptionsUpTo(f, k) <= Mp4!CaptionsUpTo(f, k + 1)
         /\ Mp4!CaptionsPassed(f, k) \in 0 .. Mp4!CaptionsUpTo(f, k)
         /\ Mp4!CaptionsPassed(f, k + 1) = Mp4!CaptionsUpTo(f, k + 1)
         /\ Mp4!NoneEarly(f) => /\ Mp4!CaptionsUpTo(f, 0) = 0
                                /\ Mp4!CaptionsPassed(f, k) = Mp4!CaptionsUpTo(f, k)
<1>1. PICK n \in Nat : n = Len(f.captions)
  BY FileTyped
<1>2. \A i \in 1 .. n : f.captions[i].time \in Nat
  <2>1. f.captions \in Seq(Mp4!Caption)
    BY FileTyped
  <2>2. \A i \in 1 .. n : f.captions[i] \in Mp4!Caption
    BY <1>1, <2>1
  <2> QED
    BY <2>2 DEF Mp4!Caption
<1>3. PICK m \in Nat, w \in Nat : m = BlockMsec /\ w = CaptionForward
  BY Mp4Numbers
<1>4. IsFiniteSet(1 .. n) /\ Cardinality(1 .. n) = n
  <2>1. Cardinality(1 .. n) = IF 1 > n THEN 0 ELSE n - 1 + 1
    BY FS_Interval
  <2> QED
    BY <2>1, FS_Interval
<1>5. \A j \in Nat : CaptionsBy(f, j) \in SUBSET (1 .. n)
  BY <1>1 DEF CaptionsBy
<1>6. \A j \in Nat : IsFiniteSet(CaptionsBy(f, j)) /\ Cardinality(CaptionsBy(f, j)) \in 0 .. n
  <2> SUFFICES ASSUME NEW j \in Nat
               PROVE  IsFiniteSet(CaptionsBy(f, j)) /\ Cardinality(CaptionsBy(f, j)) \in 0 .. n
    OBVIOUS
  <2>1. IsFiniteSet(CaptionsBy(f, j)) /\ Cardinality(CaptionsBy(f, j)) <= Cardinality(1 .. n)
    BY <1>4, <1>5, FS_Subset
  <2>2. Cardinality(CaptionsBy(f, j)) \in Nat
    BY <2>1, FS_CardinalityType
  <2> QED
    BY <1>4, <2>1, <2>2
<1>7. CaptionsBy(f, k) \in SUBSET CaptionsBy(f, k + 1)
  <2>1. k * m <= (k + 1) * m /\ k * m \in Nat /\ (k + 1) * m \in Nat
    <3>1. (k + 1) * m = k * m + m /\ k * m \in Nat
      OBVIOUS
    <3> QED
      BY <3>1
  <2>2. ASSUME NEW i \in CaptionsBy(f, k) PROVE i \in CaptionsBy(f, k + 1)
    <3>1. i \in 1 .. n /\ f.captions[i].time < k * m + w
      BY <1>1, <1>3 DEF CaptionsBy
    <3>2. f.captions[i].time < (k + 1) * m + w
      BY <1>2, <2>1, <3>1
    <3> QED
      BY <1>1, <1>3, <3>1, <3>2 DEF CaptionsBy
  <2> QED
    BY <2>2
<1>8. Cardinality(CaptionsBy(f, k)) <= Cardinality(CaptionsBy(f, k + 1))
  <2>1. k + 1 \in Nat
    OBVIOUS
  <2> QED
    BY <1>6, <1>7, <2>1, FS_Subset
<1>9. Mp4!NoneEarly(f) => CaptionsBy(f, 0) = {}
  <2>1. 0 * m + w = w
    OBVIOUS
  <2> QED
    BY <1>1, <1>2, <1>3, <2>1 DEF CaptionsBy, Mp4!NoneEarly
<1>10. Mp4!NoneEarly(f) => Cardinality(CaptionsBy(f, 0)) = 0
  BY <1>9, FS_EmptySet
<1>11. \A j : Mp4!CaptionsUpTo(f, j) = Cardinality(CaptionsBy(f, j))
  BY Mp4Cardinality, Zenon DEF Mp4!CaptionsUpTo, CaptionsBy
<1>12. /\ Mp4!CaptionsUpTo(f, k) \in 0 .. n
       /\ Mp4!CaptionsUpTo(f, k) <= Mp4!CaptionsUpTo(f, k + 1)
       /\ Mp4!NoneEarly(f) => Mp4!CaptionsUpTo(f, 0) = 0
  BY <1>6, <1>8, <1>10, <1>11
<1>13. /\ Mp4!CaptionsPassed(f, k) \in 0 .. Mp4!CaptionsUpTo(f, k)
       /\ Mp4!CaptionsPassed(f, k + 1) = Mp4!CaptionsUpTo(f, k + 1)
       /\ Mp4!NoneEarly(f) => Mp4!CaptionsPassed(f, k) = Mp4!CaptionsUpTo(f, k)
  BY <1>12 DEF Mp4!CaptionsPassed
<1> QED
  BY <1>1, <1>12, <1>13

LEMMA PacksTyped ==
  ASSUME NEW f \in Files
  PROVE  Mp4!Packs(f.captions) \in Seq(Nat) /\ Len(Mp4!Packs(f.captions)) = Len(f.captions)
<1>1. PICK s \in Seq(Mp4!Caption) : s = f.captions
  BY FileTyped
<1>2. PICK n \in Nat : n = Len(s) /\ s \in [1 .. n -> Mp4!Caption]
  OBVIOUS
<1>3. \A i \in 1 .. n : s[i].packs \in Nat
  <2>1. \A i \in 1 .. n : s[i] \in Mp4!Caption
    BY <1>2
  <2> QED
    BY <2>1 DEF Mp4!Caption
<1>4. Mp4!Packs(s) = [i \in 1 .. n |-> s[i].packs]
  BY <1>2 DEF Mp4!Packs
<1>5. Mp4!Packs(s) \in [1 .. n -> Nat]
  BY <1>3, <1>4
<1>6. Mp4!Packs(s) \in Seq(Nat) /\ Len(Mp4!Packs(s)) = n
  BY <1>5
<1> QED
  BY <1>1, <1>2, <1>6

LEMMA ListOf ==
  ASSUME NEW S, NEW d \in Nat, NEW q \in [1 .. d -> S]
  PROVE  q \in Seq(S) /\ Len(q) = d
OBVIOUS

\* Before, between two samples.
LEMMA BeforeTyped ==
  ASSUME NEW s \in Seq(Nat), NEW i \in 0 .. Len(s), NEW j \in i .. Len(s)
  PROVE  /\ Mp4!Before(s, i) \in Nat /\ Mp4!Before(s, j) \in Nat
         /\ Mp4!Before(s, i) <= Mp4!Before(s, j) /\ Mp4!Before(s, 0) = 0
<1>1. j \in 0 .. Len(s) /\ 0 \in 0 .. Len(s)
  OBVIOUS
<1> QED
  BY <1>1, SumsIs, SumsGrow DEF Mp4!Before

\* The packets of the samples between two blocks.
LEMMA CarryTyped ==
  ASSUME NEW pid \in Nat, NEW cc \in Nat, NEW s \in Seq(Nat),
         NEW i \in 0 .. Len(s), NEW j \in i .. Len(s)
  PROVE  /\ Mp4!Carry(pid, cc, s, i, j) \in Seq([pid : Nat, cc : Nat, n : Nat])
         /\ Len(Mp4!Carry(pid, cc, s, i, j)) = Mp4!Before(s, j) - Mp4!Before(s, i)
         /\ Mp4!Before(s, j) - Mp4!Before(s, i) \in Nat
<1>1. PICK a \in Nat, b \in Nat : a = Mp4!Before(s, i) /\ b = Mp4!Before(s, j) /\ a <= b
  BY BeforeTyped
<1>2. PICK d \in Nat : d = b - a
  BY <1>1
<1>3. PICK m \in Nat \ {0} : m = CcMod
  BY Mp4Numbers
<1>4. Mp4!Carry(pid, cc, s, i, j)
        = [n \in 1 .. d |-> [pid |-> pid, cc |-> (cc + n - 1) % m, n |-> a + n - 1]]
  BY <1>1, <1>2, <1>3 DEF Mp4!Carry
<1>5. \A n \in 1 .. d : (cc + n - 1) % m \in Nat /\ a + n - 1 \in Nat
  <2>1. \A n \in 1 .. d : cc + n - 1 \in Nat /\ a + n - 1 \in Nat
    OBVIOUS
  <2> QED
    BY <2>1, Parts
<1>6. [n \in 1 .. d |-> [pid |-> pid, cc |-> (cc + n - 1) % m, n |-> a + n - 1]]
        \in [1 .. d -> [pid : Nat, cc : Nat, n : Nat]]
  BY <1>5
<1>7. /\ [n \in 1 .. d |-> [pid |-> pid, cc |-> (cc + n - 1) % m, n |-> a + n - 1]]
           \in Seq([pid : Nat, cc : Nat, n : Nat])
      /\ Len([n \in 1 .. d |-> [pid |-> pid, cc |-> (cc + n - 1) % m, n |-> a + n - 1]]) = d
  BY <1>6, ListOf
<1> QED
  BY <1>1, <1>2, <1>4, <1>7

-----------------------------------------------------------------------------
(* A file without an archive                                               *)

NoneCounted(f) ==
  [last |-> 0, size |-> [k \in 0 .. Mp4!LastBlock(f) |-> 0],
   mapped |-> <<>>, start |-> <<>>, cc |-> <<>>, curr |-> Mp4!Unknown]

\* There is nothing to count.
LEMMA NoSections ==
  ASSUME NEW f, f.psi = <<>>
  PROVE  Mp4!CountSections(f) = NoneCounted(f)
<1>1. SUBSET (DOMAIN <<>>) = {{}}
  OBVIOUS
<1> QED
  BY <1>1, ZenonT(40)
     DEF Mp4!CountSections, NoneCounted, Mp4!FoldLeft, Mp4!MapThenFoldSet

Mp4Packet == [pid : Nat, cc : Nat, n : Nat]

AllPassed(f, k) ==
  \A i \in 1 .. Len(f.tracks) : Mp4!Passed(f.tracks[i], k) = Len(f.tracks[i].packs)

LEMMA LastBlockIs ==
  ASSUME NEW f
  PROVE  /\ Mp4!LastBlock(f) \in 0 .. BlockListMax - 1
         /\ AllPassed(f, Mp4!LastBlock(f)) \/ Mp4!LastBlock(f) = BlockListMax - 1
<1>1. PICK m \in Nat : m = BlockListMax - 1
  BY Mp4Numbers
<1> DEFINE T == {k \in 0 .. m : AllPassed(f, k) \/ k = m}
<1>2. PICK k \in T : \A j \in T : k <= j
  <2>1. T \in SUBSET Nat /\ m \in T
    OBVIOUS
  <2> HIDE DEF T
  <2> QED
    BY <2>1, HasLeast
<1>3. \A j \in 0 .. k - 1 : ~AllPassed(f, j)
  BY <1>2
<1>4. k \in 0 .. m /\ (AllPassed(f, k) \/ k = m)
  OBVIOUS
<1>5. \E l \in 0 .. m : /\ AllPassed(f, l) \/ l = m
                        /\ \A j \in 0 .. l - 1 : ~AllPassed(f, j)
  BY <1>3, <1>4
<1>6. Mp4!LastBlock(f) = CHOOSE l \in 0 .. m : /\ AllPassed(f, l) \/ l = m
                                               /\ \A j \in 0 .. l - 1 : ~AllPassed(f, j)
  BY <1>1, Zenon DEF Mp4!LastBlock, AllPassed
<1> QED
  BY <1>1, <1>5, <1>6

\* What each track has in block k, and how many packets that is.
Lots(f, list, k) ==
  [i \in 1 .. Len(f.tracks) |->
     Mp4!Carry(Mp4!TrackPid(i), list[k].counter[i], f.tracks[i].packs,
               Mp4!Passed(f.tracks[i], k), Mp4!Passed(f.tracks[i], k + 1))]
Share(f, k) ==
  [i \in 1 .. Len(f.tracks) |->
     Mp4!Before(f.tracks[i].packs, Mp4!Passed(f.tracks[i], k + 1))
     - Mp4!Before(f.tracks[i].packs, Mp4!Passed(f.tracks[i], k))]

\* The counters of a block are counters.
Counted(f, b) ==
  b.counter \in [1 .. Len(f.tracks) -> Nat] /\ b.counterC \in Nat

LEMMA LotTyped ==
  ASSUME NEW f \in Files, NEW k \in Nat, NEW list, Counted(f, list[k]),
         NEW i \in 1 .. Len(f.tracks)
  PROVE  /\ Lots(f, list, k)[i] \in Seq(Mp4Packet)
         /\ Len(Lots(f, list, k)[i]) = Share(f, k)[i] /\ Share(f, k)[i] \in Nat
<1>1. PICK t \in Timed : t = f.tracks[i]
  BY FileTyped
<1>2. PICK s \in Seq(Nat) : s = t.packs
  BY TrackTyped
<1>3. k + 1 \in Nat
  OBVIOUS
<1>4. /\ Mp4!Passed(t, k) \in 0 .. Len(s) /\ Mp4!Passed(t, k + 1) \in 0 .. Len(s)
      /\ Mp4!Passed(t, k) <= Mp4!Passed(t, k + 1)
  BY <1>2, <1>3, PassedTyped, PassedGrows
<1>5. PICK a \in 0 .. Len(s) : a = Mp4!Passed(t, k)
  BY <1>4
<1>6. PICK b \in a .. Len(s) : b = Mp4!Passed(t, k + 1)
  BY <1>4, <1>5
<1>7. Mp4!TrackPid(i) \in Nat
  <2>1. i \in Nat /\ i >= 1
    BY FileTyped
  <2> QED
    BY <2>1 DEF Mp4!TrackPid, Mp4!VIDEO_PID, Mp4!AUDIO1_PID
<1>8. list[k].counter[i] \in Nat
  BY SMTT(30) DEF Counted
<1>9. Lots(f, list, k)[i] = Mp4!Carry(Mp4!TrackPid(i), list[k].counter[i], s, a, b)
  BY <1>1, <1>2, <1>5, <1>6 DEF Lots
<1>10. Share(f, k)[i] = Mp4!Before(s, b) - Mp4!Before(s, a)
  BY <1>1, <1>2, <1>5, <1>6 DEF Share
<1>11. /\ Mp4!Carry(Mp4!TrackPid(i), list[k].counter[i], s, a, b) \in Seq(Mp4Packet)
       /\ Len(Mp4!Carry(Mp4!TrackPid(i), list[k].counter[i], s, a, b))
            = Mp4!Before(s, b) - Mp4!Before(s, a)
       /\ Mp4!Before(s, b) - Mp4!Before(s, a) \in Nat
  BY <1>7, <1>8, CarryTyped DEF Mp4Packet
<1> QED
  BY <1>9, <1>10, <1>11

\* The samples of a block are as many as were counted for it.
LEMMA SamplesTyped ==
  ASSUME NEW f \in Files, NEW k \in Nat, NEW list, Counted(f, list[k])
  PROVE  /\ Lots(f, list, k) \in Seq(Seq(Mp4Packet)) /\ Len(Lots(f, list, k)) = Len(f.tracks)
         /\ Mp4!Samples(f, list, k) = Mp4!Flat(Lots(f, list, k))
         /\ Mp4!Samples(f, list, k) \in Seq(Mp4Packet)
         /\ Share(f, k) \in Seq(Nat) /\ Mp4!Sum(Share(f, k)) \in Nat
         /\ Len(Mp4!Samples(f, list, k)) = Mp4!Sum(Share(f, k))
<1>1. PICK n \in Nat : n = Len(f.tracks)
  <2>1. Len(f.tracks) \in 1 .. 3
    BY FileTyped
  <2>2. Len(f.tracks) \in Nat
    BY <2>1
  <2> QED
    BY <2>2, Zenon
<1>2. /\ Lots(f, list, k) \in [1 .. n -> Seq(Mp4Packet)]
      /\ Share(f, k) \in [1 .. n -> Nat]
      /\ \A i \in 1 .. n : Share(f, k)[i] = Len(Lots(f, list, k)[i])
  <2>1. \A i \in 1 .. n : /\ Lots(f, list, k)[i] \in Seq(Mp4Packet)
                          /\ Len(Lots(f, list, k)[i]) = Share(f, k)[i] /\ Share(f, k)[i] \in Nat
    <3> SUFFICES ASSUME NEW i \in 1 .. n
                 PROVE  /\ Lots(f, list, k)[i] \in Seq(Mp4Packet)
                        /\ Len(Lots(f, list, k)[i]) = Share(f, k)[i] /\ Share(f, k)[i] \in Nat
      OBVIOUS
    <3>1. i \in 1 .. Len(f.tracks)
      BY <1>1
    <3> QED
      BY ONLY <3>1, LotTyped, f \in Files, k \in Nat, Counted(f, list[k]), Zenon
  <2>2. /\ Lots(f, list, k) = [i \in 1 .. n |-> Lots(f, list, k)[i]]
        /\ Share(f, k) = [i \in 1 .. n |-> Share(f, k)[i]]
    BY <1>1 DEF Lots, Share
  <2> QED
    BY <2>1, <2>2
<1>3. PICK ss \in Seq(Seq(Mp4Packet)) : ss = Lots(f, list, k) /\ Len(ss) = n
  BY <1>2, ListOf
<1>4. PICK lens \in Seq(Nat) : lens = Share(f, k) /\ Len(lens) = n
  BY <1>2, ListOf
<1>5. Mp4!Samples(f, list, k) = Mp4!Flat(ss)
  <2>1. \A i \in 1 .. Len(f.tracks) :
          Mp4!Min({Mp4!First(f.tracks[i], k), Len(f.tracks[i].packs)})
            = Mp4!Passed(f.tracks[i], k)
    <3> SUFFICES ASSUME NEW i \in 1 .. Len(f.tracks)
                 PROVE  Mp4!Min({Mp4!First(f.tracks[i], k), Len(f.tracks[i].packs)})
                          = Mp4!Passed(f.tracks[i], k)
      OBVIOUS
    <3>1. f.tracks[i] \in Timed
      BY FileTyped
    <3> QED
      BY ONLY <3>1, FirstIsPassed, k \in Nat, Zenon
  <2>2. [i \in 1 .. Len(f.tracks) |->
           Mp4!Carry(Mp4!TrackPid(i), list[k].counter[i], f.tracks[i].packs,
                     Mp4!Min({Mp4!First(f.tracks[i], k), Len(f.tracks[i].packs)}),
                     Mp4!Passed(f.tracks[i], k + 1))]
          = Lots(f, list, k)
    BY <2>1, Zenon DEF Lots
  <2> QED
    BY <1>3, <2>2, Zenon DEF Mp4!Samples
<1>6. Len(Mp4!Flats(ss)[n]) = Mp4!Sums(lens)[n]
  <2>1. \A i \in 1 .. Len(ss) : lens[i] = Len(ss[i])
    BY <1>2, <1>3, <1>4
  <2>2. n \in 0 .. Len(ss) /\ Len(lens) = Len(ss)
    BY <1>3, <1>4
  <2> QED
    BY <2>1, <2>2, FlatsLen
<1>7. Mp4!Flats(ss)[n] \in Seq(Mp4Packet) /\ Mp4!Sums(lens)[n] \in Nat
  <2>1. n \in 0 .. Len(ss) /\ n \in 0 .. Len(lens)
    BY <1>3, <1>4
  <2>2. Mp4!Flats(ss) \in [0 .. Len(ss) -> Seq(Mp4Packet)]
    BY FlatsIs
  <2>3. Mp4!Sums(lens) \in [0 .. Len(lens) -> Nat]
    BY SumsIs
  <2> QED
    BY <2>1, <2>2, <2>3, SMTT(30)
<1>8. Mp4!Flat(ss) = Mp4!Flats(ss)[n] /\ Mp4!Sum(lens) = Mp4!Sums(lens)[n]
  BY <1>3, <1>4 DEF Mp4!Flat, Mp4!Sum
<1> QED
  BY <1>1, <1>3, <1>4, <1>5, <1>6, <1>7, <1>8

\* The packets of a block, none of them null.
Contents(f, list, k) ==
  Mp4!OwnTables(k) \o Mp4!One(Mp4!PCR_PID, 0, k) \o Mp4!Samples(f, list, k)
  \o Mp4!Captions(f, list, k)

LEMMA OneTyped ==
  ASSUME NEW pid \in Nat, NEW cc \in Nat, NEW n \in Nat
  PROVE  Mp4!One(pid, cc, n) \in Seq(Mp4Packet) /\ Len(Mp4!One(pid, cc, n)) = 1
<1>1. cc % CcMod \in Nat
  BY Mp4Numbers, Parts
<1>2. PICK x \in Mp4Packet : x = [pid |-> pid, cc |-> cc % CcMod, n |-> n]
  BY <1>1 DEF Mp4Packet
<1>3. <<x>> \in Seq(Mp4Packet) /\ Len(<<x>>) = 1
  OBVIOUS
<1> QED
  BY <1>2, <1>3 DEF Mp4!One

LEMMA JoinTyped ==
  ASSUME NEW S, NEW p \in Seq(S), NEW q \in Seq(S)
  PROVE  p \o q \in Seq(S) /\ Len(p \o q) = Len(p) + Len(q)
OBVIOUS

LEMMA TablesTyped ==
  ASSUME NEW f, f.psi = <<>>, NEW k \in Nat
  PROVE  /\ Mp4!OwnTables(k) \in Seq(Mp4Packet) /\ Len(Mp4!OwnTables(k)) \in Nat
         /\ Mp4!BaseSize(f, k) = Len(Mp4!OwnTables(k)) + 1 /\ Len(Mp4!OwnTables(k)) >= 4
<1>1. k \div EitPeriod \in Nat /\ k \div TotPeriod \in Nat
  BY Mp4Numbers, Parts
<1> DEFINE a == Mp4!One(0, k, k)
           b == Mp4!One(16, k, k)
           c == Mp4!One(17, k, k)
           d == Mp4!One(Mp4!PMT_PID, k, k)
           e == IF k % EitPeriod = EitPeriod - 1
                THEN Mp4!One(18, k \div EitPeriod, k \div EitPeriod) ELSE <<>>
           t == IF k % TotPeriod = 0
                THEN Mp4!One(20, k \div TotPeriod, k \div TotPeriod) ELSE <<>>
<1>2. /\ a \in Seq(Mp4Packet) /\ Len(a) = 1 /\ b \in Seq(Mp4Packet) /\ Len(b) = 1
      /\ c \in Seq(Mp4Packet) /\ Len(c) = 1 /\ d \in Seq(Mp4Packet) /\ Len(d) = 1
  <2>1. 0 \in Nat /\ 16 \in Nat /\ 17 \in Nat /\ Mp4!PMT_PID \in Nat
    BY DEF Mp4!PMT_PID
  <2> QED
    BY ONLY <2>1, OneTyped, k \in Nat, Zenon
<1>3. /\ e \in Seq(Mp4Packet)
      /\ Len(e) = IF k % EitPeriod = EitPeriod - 1 THEN 1 ELSE 0
  <2>1. CASE k % EitPeriod = EitPeriod - 1
    <3>1. /\ Mp4!One(18, k \div EitPeriod, k \div EitPeriod) \in Seq(Mp4Packet)
          /\ Len(Mp4!One(18, k \div EitPeriod, k \div EitPeriod)) = 1
      BY ONLY <1>1, OneTyped, 18 \in Nat, Zenon
    <3> QED
      BY <2>1, <3>1, Zenon
  <2>2. CASE k % EitPeriod # EitPeriod - 1
    BY <2>2
  <2> QED
    BY <2>1, <2>2
<1>4. /\ t \in Seq(Mp4Packet)
      /\ Len(t) = IF k % TotPeriod = 0 THEN 1 ELSE 0
  <2>1. CASE k % TotPeriod = 0
    <3>1. /\ Mp4!One(20, k \div TotPeriod, k \div TotPeriod) \in Seq(Mp4Packet)
          /\ Len(Mp4!One(20, k \div TotPeriod, k \div TotPeriod)) = 1
      BY ONLY <1>1, OneTyped, 20 \in Nat, Zenon
    <3> QED
      BY <2>1, <3>1, Zenon
  <2>2. CASE k % TotPeriod # 0
    BY <2>2
  <2> QED
    BY <2>1, <2>2
<1>5. Mp4!OwnTables(k) = a \o b \o c \o d \o e \o t
  BY Zenon DEF Mp4!OwnTables
<1>6. Mp4!BaseSize(f, k) = 5 + (IF k % EitPeriod = EitPeriod - 1 THEN 1 ELSE 0)
                             + (IF k % TotPeriod = 0 THEN 1 ELSE 0)
  BY Zenon DEF Mp4!BaseSize
<1> HIDE DEF a, b, c, d, e, t
<1>7. a \o b \in Seq(Mp4Packet) /\ Len(a \o b) = 2
  <2>1. a \o b \in Seq(Mp4Packet) /\ Len(a \o b) = Len(a) + Len(b)
    BY <1>2, JoinTyped
  <2> QED
    BY <1>2, <2>1
<1>8. a \o b \o c \in Seq(Mp4Packet) /\ Len(a \o b \o c) = 3
  BY <1>2, <1>7, JoinTyped
<1>9. a \o b \o c \o d \in Seq(Mp4Packet) /\ Len(a \o b \o c \o d) = 4
  BY <1>2, <1>8, JoinTyped
<1>10. a \o b \o c \o d \o e \in Seq(Mp4Packet) /\ Len(a \o b \o c \o d \o e) = 4 + Len(e)
  BY <1>3, <1>9, JoinTyped
<1>11. /\ a \o b \o c \o d \o e \o t \in Seq(Mp4Packet)
       /\ Len(a \o b \o c \o d \o e \o t) = 4 + Len(e) + Len(t)
  BY <1>4, <1>10, JoinTyped
<1>12. PICK x \in 0 .. 1 : x = IF k % EitPeriod = EitPeriod - 1 THEN 1 ELSE 0
  OBVIOUS
<1>13. PICK y \in 0 .. 1 : y = IF k % TotPeriod = 0 THEN 1 ELSE 0
  OBVIOUS
<1>14. Len(Mp4!OwnTables(k)) = 4 + x + y /\ Mp4!BaseSize(f, k) = 5 + x + y
  BY <1>3, <1>4, <1>5, <1>6, <1>11, <1>12, <1>13
<1>15. 4 + x + y \in Nat /\ 4 + x + y >= 4 /\ 5 + x + y = 4 + x + y + 1
  OBVIOUS
<1>16. Mp4!OwnTables(k) \in Seq(Mp4Packet)
  BY <1>5, <1>11
<1> QED
  BY <1>14, <1>15, <1>16

LEMMA CaptionsAre ==
  ASSUME NEW f \in Files, NEW k \in Nat, NEW list, Counted(f, list[k])
  PROVE  LET s == Mp4!Packs(f.captions)
             n == Mp4!Before(s, Mp4!CaptionsUpTo(f, k + 1)) - Mp4!Before(s, Mp4!CaptionsUpTo(f, k))
         IN  /\ Mp4!Captions(f, list, k) \in Seq(Mp4Packet)
             /\ Len(Mp4!Captions(f, list, k)) = n /\ n \in Nat
<1>1. PICK s \in Seq(Nat) : s = Mp4!Packs(f.captions) /\ Len(s) = Len(f.captions)
  BY PacksTyped
<1>2. k + 1 \in Nat
  OBVIOUS
<1>3. /\ Mp4!CaptionsUpTo(f, k) \in 0 .. Len(s) /\ Mp4!CaptionsUpTo(f, k + 1) \in 0 .. Len(s)
      /\ Mp4!CaptionsUpTo(f, k) <= Mp4!CaptionsUpTo(f, k + 1)
  BY <1>1, <1>2, CaptionsTyped
<1>4. PICK a \in 0 .. Len(s) : a = Mp4!CaptionsUpTo(f, k)
  BY <1>3
<1>5. PICK b \in a .. Len(s) : b = Mp4!CaptionsUpTo(f, k + 1)
  BY <1>3, <1>4
<1>6. list[k].counterC \in Nat /\ Mp4!CAPTION_PID \in Nat
  BY DEF Counted, Mp4!CAPTION_PID
<1>7. Mp4!Captions(f, list, k) = Mp4!Carry(Mp4!CAPTION_PID, list[k].counterC, s, a, b)
  BY <1>1, <1>4, <1>5 DEF Mp4!Captions
<1>8. /\ Mp4!Carry(Mp4!CAPTION_PID, list[k].counterC, s, a, b) \in Seq(Mp4Packet)
      /\ Len(Mp4!Carry(Mp4!CAPTION_PID, list[k].counterC, s, a, b))
           = Mp4!Before(s, b) - Mp4!Before(s, a)
      /\ Mp4!Before(s, b) - Mp4!Before(s, a) \in Nat
  BY <1>6, CarryTyped DEF Mp4Packet
<1> QED
  BY <1>1, <1>4, <1>5, <1>7, <1>8

\* The room of a block for captions that it is not given: the early ones'.
Spare(f, k) ==
  Mp4!Before(Mp4!Packs(f.captions), Mp4!CaptionsUpTo(f, k))
  - Mp4!Before(Mp4!Packs(f.captions), Mp4!CaptionsPassed(f, k))
Nulls(n) == [i \in 1 .. n |-> [pid |-> Mp4!NULL_PID, cc |-> 0, n |-> 0]]

LEMMA NullsTyped ==
  ASSUME NEW n \in Nat
  PROVE  Nulls(n) \in Seq(Mp4Packet) /\ Len(Nulls(n)) = n
<1>1. [pid |-> Mp4!NULL_PID, cc |-> 0, n |-> 0] \in Mp4Packet
  BY DEF Mp4Packet, Mp4!NULL_PID
<1>2. Nulls(n) \in [1 .. n -> Mp4Packet]
  BY <1>1 DEF Nulls
<1> QED
  BY <1>2, ListOf

LEMMA SpareIs ==
  ASSUME NEW f \in Files, NEW k \in Nat
  PROVE  /\ Spare(f, k) \in Nat
         /\ Mp4!Before(Mp4!Packs(f.captions), Mp4!CaptionsUpTo(f, k)) \in Nat
         /\ Mp4!Before(Mp4!Packs(f.captions), Mp4!CaptionsPassed(f, k)) \in Nat
<1>1. PICK s \in Seq(Nat) : s = Mp4!Packs(f.captions) /\ Len(s) = Len(f.captions)
  BY PacksTyped
<1>2. /\ Mp4!CaptionsUpTo(f, k) \in 0 .. Len(s)
      /\ Mp4!CaptionsPassed(f, k) \in 0 .. Mp4!CaptionsUpTo(f, k)
  BY <1>1, CaptionsTyped
<1>3. PICK a \in 0 .. Len(s) : a = Mp4!CaptionsPassed(f, k)
  BY <1>2
<1>4. PICK b \in a .. Len(s) : b = Mp4!CaptionsUpTo(f, k)
  BY <1>2, <1>3
<1>5. /\ Mp4!Before(s, a) \in Nat /\ Mp4!Before(s, b) \in Nat
      /\ Mp4!Before(s, a) <= Mp4!Before(s, b)
  BY BeforeTyped
<1>6. Mp4!Before(s, b) - Mp4!Before(s, a) \in Nat
  BY <1>5
<1> QED
  BY <1>1, <1>3, <1>4, <1>5, <1>6, Zenon DEF Spare

\* A block's contents leave of the room computed when the file was opened that
\* of the early captions.
LEMMA ContentsLen ==
  ASSUME NEW f \in Files, f.psi = <<>>, NEW list, NEW k \in 0 .. Mp4!LastBlock(f),
         Counted(f, list[k])
  PROVE  /\ Contents(f, list, k) \in Seq(Mp4Packet)
         /\ Len(Contents(f, list, k)) > 0
         /\ Mp4!BlockSize(f, NoneCounted(f), k) = Len(Contents(f, list, k)) + Spare(f, k)
<1>1. k \in Nat /\ k + 1 \in Nat
  BY LastBlockIs, Mp4Numbers
<1>2. PICK t \in Seq(Mp4Packet) : t = Mp4!OwnTables(k) /\ Mp4!BaseSize(f, k) = Len(t) + 1
  BY <1>1, TablesTyped
<1>3. PICK o \in Seq(Mp4Packet) : o = Mp4!One(Mp4!PCR_PID, 0, k) /\ Len(o) = 1
  <2>1. Mp4!PCR_PID \in Nat /\ 0 \in Nat
    BY DEF Mp4!PCR_PID
  <2> QED
    BY <1>1, <2>1, OneTyped, SMTT(30)
<1>4. PICK s \in Seq(Mp4Packet) : s = Mp4!Samples(f, list, k) /\ Len(s) = Mp4!Sum(Share(f, k))
  BY <1>1, SamplesTyped
<1> DEFINE before == Mp4!Before(Mp4!Packs(f.captions), Mp4!CaptionsUpTo(f, k))
           after == Mp4!Before(Mp4!Packs(f.captions), Mp4!CaptionsUpTo(f, k + 1))
           given == Mp4!Before(Mp4!Packs(f.captions), Mp4!CaptionsPassed(f, k))
<1>5. PICK c \in Seq(Mp4Packet) : c = Mp4!Captions(f, list, k) /\ Len(c) = after - before
  BY <1>1, CaptionsAre
<1>6. t \o o \in Seq(Mp4Packet) /\ Len(t \o o) = Len(t) + 1
  BY <1>3, JoinTyped
<1>7. t \o o \o s \in Seq(Mp4Packet) /\ Len(t \o o \o s) = Len(t) + 1 + Len(s)
  BY <1>6, JoinTyped
<1>8. t \o o \o s \o c \in Seq(Mp4Packet) /\ Len(t \o o \o s \o c) = Len(t) + 1 + Len(s) + Len(c)
  BY <1>7, JoinTyped
<1>9. Contents(f, list, k) = t \o o \o s \o c
  BY <1>2, <1>3, <1>4, <1>5 DEF Contents
<1>10. Mp4!BlockSize(f, NoneCounted(f), k) = Len(t) + 1 + 0 + Len(s) + after - given
  <2>1. Share(f, k) = [i \in 1 .. Len(f.tracks) |->
           Mp4!Before(f.tracks[i].packs, Mp4!Passed(f.tracks[i], k + 1))
           - Mp4!Before(f.tracks[i].packs, Mp4!Passed(f.tracks[i], k))]
    BY DEF Share
  <2>2. NoneCounted(f).size[k] = 0
    BY DEF NoneCounted
  <2>3. Mp4!CaptionsPassed(f, k + 1) = Mp4!CaptionsUpTo(f, k + 1)
    BY <1>1, CaptionsTyped, SMTT(30)
  <2>4. Mp4!BlockSize(f, NoneCounted(f), k)
          = Mp4!BaseSize(f, k) + NoneCounted(f).size[k] + Mp4!Sum(Share(f, k)) + after - given
    BY <2>1, <2>3, Zenon DEF Mp4!BlockSize
  <2> QED
    BY <1>2, <1>4, <2>2, <2>4
<1>11. Len(t) \in Nat /\ Len(s) \in Nat /\ Len(c) \in Nat /\ after - before = Len(c)
  BY <1>5
<1>12. before \in Nat /\ after \in Nat /\ given \in Nat /\ Spare(f, k) = before - given
  <2>1. before \in Nat /\ given \in Nat
    BY <1>1, SpareIs
  <2>2. after \in Nat
    BY <1>1, SpareIs
  <2> QED
    BY <2>1, <2>2 DEF Spare
<1> HIDE DEF before, after, given
<1>13. Len(t) + 1 + 0 + Len(s) + after - given
         = Len(t) + 1 + Len(s) + Len(c) + Spare(f, k)
  BY <1>11, <1>12
<1>14. Len(t) + 1 + Len(s) + Len(c) > 0
  BY <1>11
<1> QED
  BY <1>8, <1>9, <1>10, <1>13, <1>14

\* The blocks C of a stream d lie at the positions P, one behind the other.
Laid(L, P, C, d) ==
  /\ P[0] = 0
  /\ \A k \in 0 .. L - 1 : Len(C[k]) > 0 /\ P[k + 1] = P[k] + Len(C[k])
  /\ Len(d) = P[L] /\ \A k \in 0 .. L : P[k] <= P[L]
  /\ \A k \in 0 .. L - 1 : \A j \in 1 .. Len(C[k]) : d[P[k] + j] = C[k][j]

LEMMA JoinedAreLaid ==
  ASSUME NEW L \in Nat, NEW C \in [0 .. L - 1 -> Seq(Mp4Packet)],
         \A k \in 0 .. L - 1 : Len(C[k]) > 0,
         NEW sizes \in Seq(Nat), Len(sizes) = L,
         \A k \in 0 .. L - 1 : sizes[k + 1] = Len(C[k])
  PROVE  LET d == Mp4!Flat([k \in 1 .. L |-> C[k - 1]])
         IN  /\ d \in Seq(Mp4Packet) /\ Mp4!Sums(sizes) \in [0 .. L -> Nat]
             /\ Laid(L, Mp4!Sums(sizes), C, d)
<1>1. [k \in 1 .. L |-> C[k - 1]] \in [1 .. L -> Seq(Mp4Packet)]
  <2>1. \A k \in 1 .. L : k - 1 \in 0 .. L - 1
    OBVIOUS
  <2> QED
    BY <2>1
<1>2. PICK ss \in Seq(Seq(Mp4Packet)) : ss = [k \in 1 .. L |-> C[k - 1]] /\ Len(ss) = L
  BY <1>1, ListOf
<1>3. PICK P \in [0 .. L -> Nat] :
        P = Mp4!Sums(sizes) /\ P[0] = 0 /\ \A k \in 1 .. L : P[k] = P[k - 1] + sizes[k]
  BY SumsIs
<1>4. PICK F \in [0 .. L -> Seq(Mp4Packet)] : F = Mp4!Flats(ss)
  BY <1>2, FlatsIs
<1>5. \A k \in 0 .. L - 1 : ss[k + 1] = C[k] /\ C[k] \in Seq(Mp4Packet)
  <2> SUFFICES ASSUME NEW k \in 0 .. L - 1 PROVE ss[k + 1] = C[k] /\ C[k] \in Seq(Mp4Packet)
    OBVIOUS
  <2>1. k + 1 \in 1 .. L /\ k + 1 - 1 = k
    OBVIOUS
  <2>2. ss[k + 1] = C[k + 1 - 1]
    BY <1>2, <2>1
  <2>3. C[k] \in Seq(Mp4Packet)
    OBVIOUS
  <2> QED
    BY <2>1, <2>2, <2>3, Zenon
<1>6. \A k \in 0 .. L : Len(F[k]) = P[k]
  <2>1. \A k \in 1 .. Len(ss) : sizes[k] = Len(ss[k])
    <3> SUFFICES ASSUME NEW k \in 1 .. L PROVE sizes[k] = Len(ss[k])
      BY <1>2
    <3>1. k - 1 \in 0 .. L - 1 /\ k - 1 + 1 = k
      OBVIOUS
    <3>2. sizes[k - 1 + 1] = Len(C[k - 1]) /\ ss[k - 1 + 1] = C[k - 1]
      BY <1>5, <3>1
    <3> QED
      BY <3>1, <3>2, Zenon
  <2>2. Len(sizes) = Len(ss)
    BY <1>2
  <2>3. \A k \in 0 .. Len(ss) : Len(Mp4!Flats(ss)[k]) = Mp4!Sums(sizes)[k]
    BY <2>1, <2>2, FlatsLen
  <2> QED
    BY <1>2, <1>3, <1>4, <2>3
<1>7. Mp4!Flat(ss) = F[L]
  BY <1>2, <1>4, Zenon DEF Mp4!Flat
<1>8. L \in 0 .. L
  OBVIOUS
<1>9. F[L] \in Seq(Mp4Packet) /\ Len(F[L]) = P[L]
  BY <1>6, <1>8
<1>10. ASSUME NEW k \in 0 .. L - 1
       PROVE  /\ P[k + 1] = P[k] + Len(C[k])
              /\ \A j \in 1 .. Len(C[k]) : F[L][P[k] + j] = C[k][j]
  <2>1. k + 1 \in 1 .. L /\ k + 1 - 1 = k /\ k \in 0 .. L
    OBVIOUS
  <2>2. P[k + 1] = P[k + 1 - 1] + sizes[k + 1]
    BY <1>3, <2>1
  <2>3. sizes[k + 1] = Len(C[k])
    OBVIOUS
  <2>4. k + 1 \in 1 .. Len(ss)
    BY <1>2, <2>1
  <2>5. PICK i \in 1 .. Len(ss) : i = k + 1
    BY <2>4
  <2>6. \A j \in 1 .. Len(C[k]) : F[L][Len(F[k]) + j] = C[k][j]
    <3>1. \A j \in 1 .. Len(ss[i]) :
            Mp4!Flats(ss)[Len(ss)][Len(Mp4!Flats(ss)[i - 1]) + j] = ss[i][j]
      BY FlatsPart, ZenonT(40)
    <3>2. ss[i] = C[k] /\ i - 1 = k
      <4>1. ss[i] = C[k]
        BY <1>5, <2>5, Zenon
      <4>2. i - 1 = k
        BY <2>5
      <4> QED
        BY <4>1, <4>2
    <3> QED
      BY <1>2, <1>4, <3>1, <3>2, ZenonT(40)
  <2>7. Len(F[k]) = P[k]
    BY <1>6, <2>1
  <2> QED
    BY <2>1, <2>2, <2>3, <2>6, <2>7, Zenon
<1>11. ASSUME NEW k \in 0 .. L PROVE P[k] <= P[L]
  <2>1. ASSUME NEW i \in 1 .. L PROVE P[i - 1] <= P[i]
    <3>1. i - 1 \in 0 .. L
      OBVIOUS
    <3>2. P[i - 1] \in Nat /\ sizes[i] \in Nat
      BY <3>1, SMTT(30)
    <3>3. \A a, b \in Nat : a <= a + b
      OBVIOUS
    <3> QED
      BY <1>3, <3>2, <3>3, Zenon
  <2>2. P \in [0 .. L -> Int] /\ L \in k .. L
    OBVIOUS
  <2> QED
    BY <2>1, <2>2, Rises
<1>12. Laid(L, P, C, F[L])
  BY <1>3, <1>9, <1>10, <1>11 DEF Laid
<1> QED
  BY <1>2, <1>3, <1>7, <1>9, <1>12

\* What was computed for a file without an archive when it was opened.
ListOf4(f) == Mp4!BlockList(f, NoneCounted(f))
SizesOf(f) == [j \in 1 .. Mp4!LastBlock(f) |-> Mp4!BlockSize(f, NoneCounted(f), j - 1)]

LEMMA ListIs ==
  ASSUME NEW f \in Files
  PROVE  /\ DOMAIN ListOf4(f) = 0 .. Mp4!LastBlock(f)
         /\ \A k \in 0 .. Mp4!LastBlock(f) :
              /\ ListOf4(f)[k].pos = Mp4!Sums(SizesOf(f))[k]
              /\ Counted(f, ListOf4(f)[k])
<1>1. DOMAIN ListOf4(f) = 0 .. Mp4!LastBlock(f)
  BY DEF ListOf4, Mp4!BlockList
<1>2. ASSUME NEW k \in 0 .. Mp4!LastBlock(f)
      PROVE  /\ ListOf4(f)[k].pos = Mp4!Sums(SizesOf(f))[k]
             /\ Counted(f, ListOf4(f)[k])
  <2>1. k \in Nat
    BY LastBlockIs, Mp4Numbers
  <2>2. ListOf4(f)[k].pos = Mp4!Sums(SizesOf(f))[k]
    BY DEF ListOf4, Mp4!BlockList, Mp4!Before, SizesOf
  <2>3. ListOf4(f)[k].counter
          = [i \in 1 .. Len(f.tracks) |->
               Mp4!Before(f.tracks[i].packs, Mp4!Passed(f.tracks[i], k)) % CcMod]
    BY DEF ListOf4, Mp4!BlockList
  <2>4. ListOf4(f)[k].counterC
          = Mp4!Before(Mp4!Packs(f.captions), Mp4!CaptionsPassed(f, k)) % CcMod
    BY DEF ListOf4, Mp4!BlockList
  <2>5. ASSUME NEW i \in 1 .. Len(f.tracks)
        PROVE  Mp4!Before(f.tracks[i].packs, Mp4!Passed(f.tracks[i], k)) % CcMod \in Nat
    <3>1. PICK t \in Timed : t = f.tracks[i]
      BY FileTyped
    <3>2. PICK s \in Seq(Nat) : s = t.packs
      BY TrackTyped
    <3>3. Mp4!Passed(t, k) \in 0 .. Len(s)
      BY <2>1, <3>2, PassedTyped
    <3>4. Mp4!Sums(s) \in [0 .. Len(s) -> Nat]
      BY SumsIs
    <3>5. PICK b \in Nat : b = Mp4!Before(s, Mp4!Passed(t, k))
      BY <3>3, <3>4 DEF Mp4!Before
    <3>6. b % CcMod \in Nat
      BY Mp4Numbers
    <3> QED
      BY <3>1, <3>2, <3>5, <3>6, Zenon
  <2>6. Mp4!Before(Mp4!Packs(f.captions), Mp4!CaptionsPassed(f, k)) % CcMod \in Nat
    BY <2>1, SpareIs, Mp4Numbers, Parts
  <2> QED
    BY <2>2, <2>3, <2>4, <2>5, <2>6 DEF Counted
<1> QED
  BY <1>1, <1>2

\* The blocks of such a file, whoever makes them.
BlocksOf(f) ==
  [k \in 0 .. Mp4!LastBlock(f) - 1 |-> Contents(f, ListOf4(f), k) \o Nulls(Spare(f, k))]

LEMMA ABlockIs ==
  ASSUME NEW f \in Files, f.psi = <<>>, NEW k \in 0 .. Mp4!LastBlock(f) - 1
  PROVE  /\ BlocksOf(f)[k] = Contents(f, ListOf4(f), k) \o Nulls(Spare(f, k))
         /\ BlocksOf(f)[k] \in Seq(Mp4Packet)
         /\ Contents(f, ListOf4(f), k) \in Seq(Mp4Packet)
         /\ Spare(f, k) \in Nat
         /\ Len(BlocksOf(f)[k]) = Len(Contents(f, ListOf4(f), k)) + Spare(f, k)
         /\ Len(BlocksOf(f)[k]) = Mp4!BlockSize(f, NoneCounted(f), k)
         /\ Len(BlocksOf(f)[k]) > 0
<1>1. PICK L \in Nat : L = Mp4!LastBlock(f)
  BY LastBlockIs, Mp4Numbers
<1>2. k \in 0 .. L /\ k \in Nat
  BY <1>1
<1>3. BlocksOf(f)[k] = Contents(f, ListOf4(f), k) \o Nulls(Spare(f, k))
  BY DEF BlocksOf
<1>4. Counted(f, ListOf4(f)[k])
  BY <1>1, <1>2, ListIs
<1>5. PICK c \in Seq(Mp4Packet) :
        /\ c = Contents(f, ListOf4(f), k) /\ Len(c) > 0
        /\ Mp4!BlockSize(f, NoneCounted(f), k) = Len(c) + Spare(f, k)
  BY <1>1, <1>2, <1>4, ContentsLen
<1>6. PICK n \in Nat : n = Spare(f, k)
  BY <1>2, SpareIs
<1>7. Nulls(n) \in Seq(Mp4Packet) /\ Len(Nulls(n)) = n
  BY NullsTyped
<1>8. c \o Nulls(n) \in Seq(Mp4Packet) /\ Len(c \o Nulls(n)) = Len(c) + n
  BY <1>7, JoinTyped
<1>9. Len(c) + n > 0
  BY <1>5
<1> QED
  BY <1>3, <1>5, <1>6, <1>8, <1>9

LEMMA BlocksTyped ==
  ASSUME NEW f \in Files, f.psi = <<>>
  PROVE  /\ Mp4!LastBlock(f) \in Nat
         /\ BlocksOf(f) \in [0 .. Mp4!LastBlock(f) - 1 -> Seq(Mp4Packet)]
         /\ SizesOf(f) \in Seq(Nat) /\ Len(SizesOf(f)) = Mp4!LastBlock(f)
         /\ \A k \in 0 .. Mp4!LastBlock(f) - 1 :
              SizesOf(f)[k + 1] = Len(BlocksOf(f)[k]) /\ Len(BlocksOf(f)[k]) > 0
<1>1. PICK L \in Nat : L = Mp4!LastBlock(f)
  BY LastBlockIs, Mp4Numbers
<1>2. ASSUME NEW k \in 0 .. L - 1
      PROVE  /\ BlocksOf(f)[k] \in Seq(Mp4Packet)
             /\ Len(BlocksOf(f)[k]) = Mp4!BlockSize(f, NoneCounted(f), k)
             /\ Len(BlocksOf(f)[k]) \in Nat /\ Len(BlocksOf(f)[k]) > 0
  BY <1>1, ABlockIs
<1>3. BlocksOf(f) \in [0 .. L - 1 -> Seq(Mp4Packet)]
  <2>1. BlocksOf(f) = [k \in 0 .. L - 1 |-> BlocksOf(f)[k]]
    BY <1>1 DEF BlocksOf
  <2> QED
    BY <1>2, <2>1
<1>4. \A j \in 1 .. L : j - 1 \in 0 .. L - 1
  OBVIOUS
<1>5. SizesOf(f) \in [1 .. L -> Nat]
  <2>1. \A j \in 1 .. L : Mp4!BlockSize(f, NoneCounted(f), j - 1) \in Nat
    BY <1>2, <1>4
  <2> QED
    BY <1>1, <2>1 DEF SizesOf
<1>6. SizesOf(f) \in Seq(Nat) /\ Len(SizesOf(f)) = L
  BY <1>5, ListOf
<1>7. ASSUME NEW k \in 0 .. L - 1
      PROVE  SizesOf(f)[k + 1] = Len(BlocksOf(f)[k])
  <2>1. k + 1 \in 1 .. L /\ k + 1 - 1 = k
    OBVIOUS
  <2>2. SizesOf(f)[k + 1] = Mp4!BlockSize(f, NoneCounted(f), k + 1 - 1)
    BY <1>1, <2>1 DEF SizesOf
  <2> QED
    BY <1>2, <2>1, <2>2
<1> QED
  BY <1>1, <1>2, <1>3, <1>6, <1>7

LEMMA Mp4Max == \A n \in Nat : Mp4!Max({n, 0}) = n
<1> SUFFICES ASSUME NEW n \in Nat PROVE Mp4!Max({n, 0}) = n
  OBVIOUS
<1>1. \E x \in {n, 0} : \A y \in {n, 0} : x >= y
  OBVIOUS
<1>2. PICK m : m = Mp4!Max({n, 0})
  OBVIOUS
<1>3. m \in {n, 0} /\ \A y \in {n, 0} : m >= y
  BY <1>1, <1>2, Zenon DEF Mp4!Max
<1>4. m = n
  BY <1>3
<1> QED
  BY <1>2, <1>4

\* ReadCurrentBlock: as much as there is room for, the archive reader as it was.
LEMMA BlockIs ==
  ASSUME NEW f \in Files, f.psi = <<>>, NEW info, NEW r, NEW k \in 0 .. Mp4!LastBlock(f) - 1
  PROVE  Mp4!ReadCurrentBlock(f, ListOf4(f), info, r, k) = [cache |-> BlocksOf(f)[k], r |-> r]
<1>1. PICK L \in Nat : L = Mp4!LastBlock(f)
  BY BlocksTyped
<1>2. PICK c \in Seq(Mp4Packet) : c = BlocksOf(f)[k]
  BY <1>1, BlocksTyped
<1>3. Mp4!Size(ListOf4(f), k) = Len(c)
  <2>1. k \in 0 .. L /\ k + 1 \in 0 .. L /\ k + 1 \in 1 .. L /\ k + 1 - 1 = k
    BY <1>1
  <2>2. PICK P \in [0 .. L -> Nat] : P = Mp4!Sums(SizesOf(f))
    BY <1>1, BlocksTyped, SumsIs
  <2>3. P[k + 1] = P[k + 1 - 1] + SizesOf(f)[k + 1]
    <3>1. PICK s \in Seq(Nat) : s = SizesOf(f) /\ Len(s) = L
      BY <1>1, BlocksTyped
    <3>2. \A j \in 1 .. Len(s) : Mp4!Sums(s)[j] = Mp4!Sums(s)[j - 1] + s[j]
      BY SumsIs
    <3> QED
      BY <2>1, <2>2, <3>1, <3>2
  <2>4. SizesOf(f)[k + 1] = Len(c)
    BY <1>1, <1>2, BlocksTyped
  <2>5. ListOf4(f)[k + 1].pos = P[k + 1] /\ ListOf4(f)[k].pos = P[k]
    BY <1>1, <2>1, <2>2, ListIs
  <2>6. P[k] \in Nat /\ Len(c) \in Nat
    BY <2>1
  <2>7. (P[k] + Len(c)) - P[k] = Len(c)
    BY <2>6
  <2>8. P[k + 1] = P[k] + Len(c)
    BY <2>1, <2>3, <2>4
  <2> QED
    <3>1. Mp4!Size(ListOf4(f), k) = P[k + 1] - P[k]
      BY <2>5, Zenon DEF Mp4!Size
    <3> QED
      BY <2>7, <2>8, <3>1, Zenon
<1>4. Mp4!Padded(Contents(f, ListOf4(f), k), Len(c)) = c
  <2>1. PICK a \in Seq(Mp4Packet) : a = Contents(f, ListOf4(f), k)
    BY ABlockIs
  <2>2. PICK n \in Nat : n = Spare(f, k)
    BY ABlockIs
  <2>3. c = a \o Nulls(n) /\ Len(c) = Len(a) + n
    BY <1>2, <2>1, <2>2, ABlockIs
  <2>4. Len(c) - Len(a) = n
    BY <2>3
  <2>5. Mp4!Padded(a, Len(c)) = a \o Nulls(n)
    BY <2>4, Mp4Max, Zenon DEF Mp4!Padded, Nulls
  <2> QED
    BY <2>1, <2>3, <2>5
<1>5. Mp4!ReadCurrentBlock(f, ListOf4(f), info, r, k)
        = [cache |-> Mp4!Padded(Contents(f, ListOf4(f), k), Mp4!Size(ListOf4(f), k)),
           r |-> Mp4!Passing(r).r]
  BY Zenon DEF Mp4!ReadCurrentBlock, Mp4!Block, Contents
<1>6. Mp4!Passing(r).r = r
  BY DEF Mp4!Passing
<1> QED
  BY <1>2, <1>3, <1>4, <1>5, <1>6


\* The stream such a file is.
DataOf(f) == Mp4!Flat([k \in 1 .. Mp4!LastBlock(f) |-> BlocksOf(f)[k - 1]])

LEMMA EndIs ==
  ASSUME NEW f \in Files, f.psi = <<>>
  PROVE  Mp4!Cardinality(DOMAIN ListOf4(f)) - 1 = Mp4!LastBlock(f)
<1>1. PICK L \in Nat : L = Mp4!LastBlock(f)
  BY BlocksTyped
<1>2. Cardinality(0 .. L) = IF 0 > L THEN 0 ELSE L - 0 + 1
  <2>1. 0 \in Int /\ L \in Int
    OBVIOUS
  <2> QED
    BY ONLY <2>1, FS_Interval
<1>3. Cardinality(0 .. L) = L + 1
  BY <1>2
<1>4. Mp4!Cardinality(DOMAIN ListOf4(f)) = L + 1
  BY <1>1, <1>3, ListIs, Mp4Cardinality
<1> QED
  BY <1>1, <1>4

LEMMA ImageIs ==
  ASSUME NEW f \in Files, f.psi = <<>>, NEW info
  PROVE  Mp4!Image(f, ListOf4(f), info) = DataOf(f)
<1>1. PICK L \in Nat : L = Mp4!LastBlock(f)
  BY BlocksTyped
<1>2. PICK C \in [0 .. L - 1 -> Seq(Mp4Packet)] : C = BlocksOf(f)
  BY <1>1, BlocksTyped
<1>3. Mp4!Cardinality(DOMAIN ListOf4(f)) - 1 = L
  BY <1>1, EndIs
<1>4. ASSUME NEW k \in 1 .. L
      PROVE  Mp4!ReadCurrentBlock(f, ListOf4(f), info, Mp4!Opened, k - 1).cache = C[k - 1]
  <2>1. PICK j \in 0 .. L - 1 : j = k - 1
    OBVIOUS
  <2>2. Mp4!ReadCurrentBlock(f, ListOf4(f), info, Mp4!Opened, j)
          = [cache |-> BlocksOf(f)[j], r |-> Mp4!Opened]
    BY <1>1, BlockIs
  <2> QED
    BY <1>2, <2>1, <2>2
<1>5. [k \in 1 .. L |-> Mp4!ReadCurrentBlock(f, ListOf4(f), info, Mp4!Opened, k - 1).cache]
        = [k \in 1 .. L |-> C[k - 1]]
  BY <1>4
<1> QED
  BY <1>1, <1>2, <1>3, <1>5, Zenon DEF Mp4!Image, DataOf

LEMMA DataIs ==
  ASSUME NEW f \in Files, f.psi = <<>>
  PROVE  /\ DataOf(f) \in Seq(Mp4Packet)
         /\ Mp4!Sums(SizesOf(f)) \in [0 .. Mp4!LastBlock(f) -> Nat]
         /\ Laid(Mp4!LastBlock(f), Mp4!Sums(SizesOf(f)), BlocksOf(f), DataOf(f))
<1>1. PICK L \in Nat : L = Mp4!LastBlock(f)
  BY BlocksTyped
<1>2. PICK C \in [0 .. L - 1 -> Seq(Mp4Packet)] :
        C = BlocksOf(f) /\ \A k \in 0 .. L - 1 : Len(C[k]) > 0
  BY <1>1, BlocksTyped
<1>3. PICK s \in Seq(Nat) :
        s = SizesOf(f) /\ Len(s) = L /\ \A k \in 0 .. L - 1 : s[k + 1] = Len(C[k])
  BY <1>1, <1>2, BlocksTyped
<1>4. DataOf(f) = Mp4!Flat([k \in 1 .. L |-> C[k - 1]])
  BY <1>1, <1>2, Zenon DEF DataOf
<1> QED
  BY <1>1, <1>2, <1>3, <1>4, JoinedAreLaid

-----------------------------------------------------------------------------
(* A read of an MP4 file                                                   *)

\* Where a read that began at p may be after some turns: what it has is what
\* the stream has from p on, and the place in the blocks is behind that.
Follows(o, d, p) == \A j \in 1 .. Len(o) : p + j <= Len(d) /\ o[j] = d[p + j]
Places(L, P, C, d, p, r) ==
  {x \in [out : Seq(Mp4Packet), r : {r}, blk : 0 .. L, cache : Seq(Mp4Packet), ptr : Nat] :
     /\ x.blk < L => x.ptr < Len(C[x.blk])
     /\ x.cache = <<>> \/ (x.blk < L /\ x.cache = C[x.blk])
     /\ P[x.blk] + x.ptr = p + Len(x.out)
     /\ Follows(x.out, d, p)}

Lies(b, d, a) == a + Len(b) <= Len(d) /\ \A j \in 1 .. Len(b) : d[a + j] = b[j]

LEMMA PartOf ==
  ASSUME NEW S, NEW b \in Seq(S), NEW q \in Nat, NEW m \in Nat, q + m <= Len(b)
  PROVE  /\ SubSeq(b, q + 1, q + m) \in Seq(S) /\ Len(SubSeq(b, q + 1, q + m)) = m
         /\ \A j \in 1 .. m : SubSeq(b, q + 1, q + m)[j] = b[q + j]
BY SMTT(30)

LEMMA JoinAt ==
  ASSUME NEW S, NEW o \in Seq(S), NEW t \in Seq(S)
  PROVE  /\ \A j \in 1 .. Len(o) : (o \o t)[j] = o[j]
         /\ \A j \in 1 .. Len(t) : (o \o t)[Len(o) + j] = t[j]
OBVIOUS

\* More of a block that lies in the stream.
LEMMA FollowsOn ==
  ASSUME NEW d \in Seq(Mp4Packet), NEW b \in Seq(Mp4Packet), NEW o \in Seq(Mp4Packet),
         NEW a \in Nat, NEW p \in Nat, NEW q \in Nat, NEW m \in Nat,
         a + q = p + Len(o), q + m <= Len(b), Lies(b, d, a), Follows(o, d, p)
  PROVE  /\ o \o SubSeq(b, q + 1, q + m) \in Seq(Mp4Packet)
         /\ Len(o \o SubSeq(b, q + 1, q + m)) = Len(o) + m
         /\ Follows(o \o SubSeq(b, q + 1, q + m), d, p)
<1>1. PICK l \in Nat, c \in Nat, N \in Nat : l = Len(o) /\ c = Len(b) /\ N = Len(d)
  OBVIOUS
<1>2. PICK t \in Seq(Mp4Packet) :
         /\ t = SubSeq(b, q + 1, q + m) /\ Len(t) = m
         /\ \A j \in 1 .. m : t[j] = b[q + j]
  <2>1. /\ SubSeq(b, q + 1, q + m) \in Seq(Mp4Packet)
        /\ Len(SubSeq(b, q + 1, q + m)) = m
        /\ \A j \in 1 .. m : SubSeq(b, q + 1, q + m)[j] = b[q + j]
    BY PartOf
  <2> QED
    BY <2>1, Zenon
<1>3. PICK w \in Seq(Mp4Packet) : w = o \o t /\ Len(w) = l + m
  <2>1. o \o t \in Seq(Mp4Packet) /\ Len(o \o t) = Len(o) + Len(t)
    BY JoinTyped
  <2> QED
    BY <1>1, <1>2, <2>1, Zenon
<1>4. ASSUME NEW j \in 1 .. l + m PROVE p + j <= N /\ w[j] = d[p + j]
  <2>1. CASE j <= l
    <3>1. j \in 1 .. Len(o)
      BY <1>1, <2>1
    <3>2. w[j] = o[j]
      BY <1>3, <3>1
    <3> QED
      BY <1>1, <3>1, <3>2 DEF Follows
  <2>2. CASE j > l
    <3>1. PICK i \in 1 .. m : j = l + i
      <4>1. j - l \in 1 .. m /\ j = l + (j - l)
        BY <2>2
      <4> QED
        BY <4>1
    <3>2. w[j] = t[i]
      <4>1. (o \o t)[Len(o) + i] = t[i]
        <5>1. i \in 1 .. Len(t)
          BY <1>2
        <5> QED
          BY <5>1, JoinAt
      <4> QED
        BY <1>1, <1>3, <3>1, <4>1, Zenon
    <3>3. q + i \in 1 .. c
      BY <1>1, <3>1, SMTT(30)
    <3>4. d[a + (q + i)] = b[q + i] /\ t[i] = b[q + i]
      BY <1>1, <1>2, <3>3 DEF Lies
    <3>5. a + (q + i) = p + j
      <4>1. a + q = p + l /\ i \in Nat
        BY <1>1
      <4> QED
        BY <3>1, <4>1
    <3>6. p + j <= N
      <4>1. a + c <= N
        BY <1>1 DEF Lies
      <4> QED
        BY <4>1, <3>3, <3>5
    <3> QED
      BY <3>2, <3>4, <3>5, <3>6
  <2> QED
    BY <2>1, <2>2
<1>5. Follows(w, d, p)
  BY <1>1, <1>3, <1>4, SMTT(30) DEF Follows
<1> QED
  BY <1>1, <1>2, <1>3, <1>5

LEMMA PlaceAt ==
  ASSUME NEW L, NEW P, NEW C, NEW d, NEW p, NEW r, NEW w \in Seq(Mp4Packet),
         NEW k \in 0 .. L, NEW b \in Seq(Mp4Packet), NEW q \in Nat,
         k < L => q < Len(C[k]), b = <<>> \/ (k < L /\ b = C[k]),
         P[k] + q = p + Len(w), Follows(w, d, p)
  PROVE  [out |-> w, r |-> r, blk |-> k, cache |-> b, ptr |-> q]
           \in Places(L, P, C, d, p, r)
BY DEF Places

LEMMA BlockLies ==
  ASSUME NEW L \in Nat, NEW P \in [0 .. L -> Nat], NEW C \in [0 .. L - 1 -> Seq(Mp4Packet)],
         NEW d \in Seq(Mp4Packet), Laid(L, P, C, d), NEW k \in 0 .. L - 1
  PROVE  /\ C[k] \in Seq(Mp4Packet) /\ Len(C[k]) > 0 /\ P[k] \in Nat
         /\ P[k + 1] = P[k] + Len(C[k]) /\ Lies(C[k], d, P[k])
<1>1. k \in 0 .. L /\ k + 1 \in 0 .. L
  OBVIOUS
<1>2. P[k] \in Nat
  BY <1>1
<1> QED
  BY <1>1, <1>2 DEF Laid, Lies

\* Taking from the block leaves it or stays in it.
Takes(L, P, C, d, p, r, x, n) ==
  /\ L \in Nat /\ P \in [0 .. L -> Nat] /\ C \in [0 .. L - 1 -> Seq(Mp4Packet)]
  /\ d \in Seq(Mp4Packet) /\ Laid(L, P, C, d)
  /\ p \in Nat /\ x \in Places(L, P, C, d, p, r) /\ x.blk < L /\ n \in Nat \ {0}
TakesTo(L, P, C, d, p, r, x, n, y) ==
  y \in Places(L, P, C, d, p, r) /\ (Len(y.out) = Len(x.out) + n \/ y.blk = x.blk + 1)

LEMMA TakeIs ==
  \A L, P, C, d, p, r, x, n :
    Takes(L, P, C, d, p, r, x, n)
    => TakesTo(L, P, C, d, p, r, x, n, Mp4!Take(x, [cache |-> C[x.blk], r |-> r], n))
<1> SUFFICES ASSUME NEW L, NEW P, NEW C, NEW d, NEW p, NEW r, NEW x, NEW n,
                    Takes(L, P, C, d, p, r, x, n)
             PROVE  TakesTo(L, P, C, d, p, r, x, n,
                            Mp4!Take(x, [cache |-> C[x.blk], r |-> r], n))
  OBVIOUS
<1> USE DEF Takes
<1>1. /\ x.out \in Seq(Mp4Packet) /\ x.blk \in 0 .. L /\ x.ptr \in Nat
      /\ P[x.blk] + x.ptr = p + Len(x.out) /\ x.ptr < Len(C[x.blk])
      /\ Follows(x.out, d, p)
  BY DEF Places
<1>2. PICK k \in 0 .. L - 1 : k = x.blk
  BY <1>1
<1>3. PICK b \in Seq(Mp4Packet), o \in Seq(Mp4Packet) : b = C[k] /\ o = x.out
  <2>1. C[k] \in Seq(Mp4Packet)
    OBVIOUS
  <2> QED
    BY <1>1, <2>1, Zenon
<1>4. PICK q \in Nat, c \in Nat, l \in Nat : q = x.ptr /\ c = Len(b) /\ l = Len(o) /\ q < c
  <2>1. Len(b) \in Nat /\ Len(o) \in Nat
    OBVIOUS
  <2>2. x.ptr < Len(b)
    BY <1>1, <1>2, <1>3
  <2> QED
    BY <1>1, <2>1, <2>2, Zenon
<1>5. PICK e \in Nat \ {0} : e = c - q /\ c = q + e
  <2>1. c - q \in Nat \ {0} /\ c = q + (c - q)
    BY <1>4, SMTT(30)
  <2> QED
    BY <2>1
<1>6. PICK m \in Nat \ {0} :
        m = Mp4!Min({n, c - q}) /\ m <= e /\ (m = e \/ m = n)
  <2>1. Mp4!Min({n, e}) = IF n <= e THEN n ELSE e
    <3>1. n \in Int /\ e \in Int
      OBVIOUS
    <3> QED
      BY <3>1, Mp4Min, Zenon
  <2>2. PICK m \in Nat \ {0} : m = IF n <= e THEN n ELSE e
    OBVIOUS
  <2>3. m <= e /\ (m = e \/ m = n)
    BY <2>2
  <2> QED
    BY <1>5, <2>1, <2>2, <2>3, Zenon
<1>7. PICK a \in Nat : a = P[k] /\ a + q = p + l
  <2>1. P[k] \in Nat
    BY BlockLies
  <2> QED
    BY <1>1, <1>2, <1>3, <1>4, <2>1, Zenon
<1>8. q + m <= c /\ (q + m >= c \/ m = n) /\ (q + m >= c => q + m = c)
  <2>1. m \in Nat /\ e \in Nat /\ q \in Nat /\ c = q + e /\ m <= e
    BY <1>5, <1>6
  <2>2. CASE m = e
    BY <2>1, <2>2
  <2>3. CASE m = n
    BY <2>1, <2>3
  <2> QED
    BY <1>6, <2>2, <2>3
<1>9. P[k + 1] = a + c /\ Lies(b, d, a)
  <2>1. P[k + 1] = P[k] + Len(C[k]) /\ Lies(C[k], d, P[k])
    <3>1. P[k] \in Nat
      OBVIOUS
    <3> QED
      BY ONLY <3>1, Laid(L, P, C, d), L \in Nat, C \in [0 .. L - 1 -> Seq(Mp4Packet)],
              d \in Seq(Mp4Packet), k \in 0 .. L - 1 DEF Laid, Lies
  <2> QED
    BY <1>3, <1>4, <1>7, <2>1, Zenon
<1>10. PICK w \in Seq(Mp4Packet) :
         w = o \o SubSeq(b, q + 1, q + m) /\ Len(w) = l + m /\ Follows(w, d, p)
  <2>1. Follows(o, d, p) /\ a + q = p + Len(o) /\ q + m <= Len(b) /\ Lies(b, d, a)
    BY <1>1, <1>3, <1>4, <1>7, <1>8, <1>9, Zenon
  <2>2. /\ o \o SubSeq(b, q + 1, q + m) \in Seq(Mp4Packet)
        /\ Len(o \o SubSeq(b, q + 1, q + m)) = Len(o) + m
        /\ Follows(o \o SubSeq(b, q + 1, q + m), d, p)
    BY <2>1, FollowsOn
  <2> QED
    BY <1>4, <2>2, Zenon
<1> DEFINE y == Mp4!Take(x, [cache |-> C[x.blk], r |-> r], n)
<1>11. y = [out |-> w, r |-> r,
            blk |-> IF q + m >= c THEN k + 1 ELSE k,
            cache |-> IF q + m >= c THEN <<>> ELSE b,
            ptr |-> IF q + m >= c THEN 0 ELSE q + m]
  BY <1>2, <1>3, <1>4, <1>6, <1>10, Zenon DEF Mp4!Take
<1> HIDE DEF y
<1>12. Len(w) \in Nat /\ p + Len(w) = a + q + m
  <2>1. l + m \in Nat /\ p + (l + m) = a + q + m
    BY <1>7
  <2> QED
    BY <1>10, <2>1, Zenon
<1>13. CASE q + m >= c
  <2>1. y = [out |-> w, r |-> r, blk |-> k + 1, cache |-> <<>>, ptr |-> 0]
    BY <1>11, <1>13
  <2>2. k + 1 < L => 0 < Len(C[k + 1])
    BY DEF Laid
  <2>3. P[k + 1] + 0 = p + Len(w)
    <3>1. q + m = c
      BY <1>8, <1>13
    <3>2. p + Len(w) = a + c
      <4>1. a + q + m = a + (q + m)
        OBVIOUS
      <4> QED
        BY <1>12, <3>1, <4>1, Zenon
    <3>3. a + c \in Nat /\ (a + c) + 0 = a + c
      BY <1>4, <1>7, SMTT(30)
    <3> QED
      BY <1>9, <3>2, <3>3, Zenon
  <2>4. k + 1 \in 0 .. L
    OBVIOUS
  <2>5. y \in Places(L, P, C, d, p, r)
    <3>1. <<>> \in Seq(Mp4Packet) /\ 0 \in Nat
      OBVIOUS
    <3>2. [out |-> w, r |-> r, blk |-> k + 1, cache |-> <<>>, ptr |-> 0]
            \in Places(L, P, C, d, p, r)
      BY <1>10, <2>2, <2>3, <2>4, <3>1, PlaceAt, Zenon
    <3> QED
      BY <2>1, <3>2, Zenon
  <2> QED
    <3>1. y.blk = x.blk + 1
      BY <1>2, <2>1
    <3> QED
      BY <2>5, <3>1, Zenon DEF y, TakesTo
<1>14. CASE ~ (q + m >= c)
  <2>1. y = [out |-> w, r |-> r, blk |-> k, cache |-> b, ptr |-> q + m]
    BY <1>11, <1>14
  <2>2. q + m < Len(C[k]) /\ k < L /\ b = C[k]
    <3>1. q + m < c
      BY <1>14
    <3> QED
      BY <1>3, <1>4, <3>1
  <2>3. P[k] + (q + m) = p + Len(w)
    BY <1>7, <1>12, SMTT(30)
  <2>4. k \in 0 .. L /\ q + m \in Nat
    OBVIOUS
  <2>5. y \in Places(L, P, C, d, p, r)
    <3>1. [out |-> w, r |-> r, blk |-> k, cache |-> b, ptr |-> q + m]
            \in Places(L, P, C, d, p, r)
      BY <1>10, <2>2, <2>3, <2>4, PlaceAt, Zenon
    <3> QED
      BY <2>1, <3>1, Zenon
  <2>6. m = n
    BY <1>8, <1>14
  <2>7. y.out = w
    BY <2>1
  <2>8. Len(y.out) = Len(x.out) + n
    BY <1>3, <1>4, <1>10, <2>6, <2>7, Zenon
  <2> QED
    BY <2>5, <2>8, Zenon DEF y, TakesTo
<1> QED
  BY <1>13, <1>14


\* The open file has no archive, and its list of blocks is the one computed.
Opened4 == mp4 \in Files /\ mp4.psi = <<>> /\ blockList = ListOf4(mp4)
LastOf == Mp4!LastBlock(mp4)
Starts == Mp4!Sums(SizesOf(mp4))
Whence(p, r) == Places(LastOf, Starts, BlocksOf(mp4), DataOf(mp4), p, r)

\* There is nothing more to read, or to be read.
Enough4(x, n) == Len(x.out) >= n \/ x.blk = LastOf

LEMMA OpenedIs ==
  ASSUME Opened4
  PROVE  /\ LastOf \in Nat /\ Starts \in [0 .. LastOf -> Nat]
         /\ BlocksOf(mp4) \in [0 .. LastOf - 1 -> Seq(Mp4Packet)]
         /\ DataOf(mp4) \in Seq(Mp4Packet)
         /\ Laid(LastOf, Starts, BlocksOf(mp4), DataOf(mp4))
         /\ Mp4!End = LastOf
         /\ \A k \in 0 .. LastOf : blockList[k].pos = Starts[k]
<1>1. Mp4!End = LastOf
  BY EndIs DEF Opened4, LastOf, Mp4!End
<1>2. \A k \in 0 .. LastOf : blockList[k].pos = Starts[k]
  BY ListIs DEF Opened4, LastOf, Starts
<1> QED
  BY <1>1, <1>2, BlocksTyped, DataIs DEF Opened4, LastOf, Starts

\* One turn of Read's loop.
LEMMA TurnIs ==
  ASSUME Opened4, NEW n \in Nat \ {0}, NEW p \in Nat, NEW r, NEW x \in Whence(p, r)
  PROVE  /\ Mp4!Turn(x, n) \in Whence(p, r)
         /\ Enough4(x, n) => Mp4!Turn(x, n) = x
         /\ ~ Enough4(x, n) => Enough4(Mp4!Turn(x, n), n) \/ Mp4!Turn(x, n).blk = x.blk + 1
<1>0. PICK L \in Nat : L = LastOf
  BY OpenedIs
<1>1. PICK P \in [0 .. L -> Nat], C \in [0 .. L - 1 -> Seq(Mp4Packet)],
           d \in Seq(Mp4Packet) :
        L = LastOf /\ P = Starts /\ C = BlocksOf(mp4) /\ d = DataOf(mp4)
  BY <1>0, OpenedIs
<1>2. Laid(L, P, C, d) /\ Mp4!End = L
  BY <1>1, OpenedIs
<1>3. x \in Places(L, P, C, d, p, r) /\ Whence(p, r) = Places(L, P, C, d, p, r)
  BY <1>1, Zenon DEF Whence
<1>4. /\ x.out \in Seq(Mp4Packet) /\ Len(x.out) \in Nat /\ x.blk \in 0 .. L /\ x.r = r
      /\ x.cache = <<>> \/ (x.blk < L /\ x.cache = C[x.blk])
  BY <1>3 DEF Places
<1>5. CASE Enough4(x, n)
  <2>1. CASE Len(x.out) >= n
    BY <1>3, <1>5, <2>1, Zenon DEF Mp4!Turn
  <2>2. CASE x.blk = L
    <3>1. x.cache = <<>>
      BY <1>4, <2>2
    <3> QED
      BY <1>2, <1>3, <1>5, <2>2, <3>1, Zenon DEF Mp4!Turn
  <2> QED
    BY <1>1, <1>5, <2>1, <2>2 DEF Enough4
<1>6. CASE ~ Enough4(x, n)
  <2>1. ~ (Len(x.out) >= n) /\ x.blk \in 0 .. L - 1 /\ x.blk < L /\ x.blk # L
    BY <1>1, <1>4, <1>6 DEF Enough4
  <2>2. PICK m \in Nat \ {0} : m = n - Len(x.out)
    <3>1. n - Len(x.out) \in Nat \ {0}
      BY <1>4, <2>1, SMTT(30)
    <3> QED
      BY <3>1
  <2>3. (IF x.cache # <<>> THEN [cache |-> x.cache, r |-> x.r]
         ELSE Mp4!ReadCurrentBlock(mp4, blockList, psiInfo, x.r, x.blk))
          = [cache |-> C[x.blk], r |-> r]
    <3>1. CASE x.cache = <<>>
      <4>1. Mp4!ReadCurrentBlock(mp4, blockList, psiInfo, r, x.blk)
              = [cache |-> BlocksOf(mp4)[x.blk], r |-> r]
        BY <1>1, <2>1, BlockIs DEF Opened4, LastOf
      <4> QED
        BY <1>1, <1>4, <3>1, <4>1, Zenon
    <3>2. CASE x.cache # <<>>
      BY <1>4, <3>2, Zenon
    <3> QED
      BY <3>1, <3>2
  <2>4. Mp4!Turn(x, n) = Mp4!Take(x, [cache |-> C[x.blk], r |-> r], m)
    BY <1>2, <2>1, <2>2, <2>3, Zenon DEF Mp4!Turn
  <2>5. /\ Mp4!Take(x, [cache |-> C[x.blk], r |-> r], m) \in Places(L, P, C, d, p, r)
        /\ \/ Len(Mp4!Take(x, [cache |-> C[x.blk], r |-> r], m).out) = Len(x.out) + m
           \/ Mp4!Take(x, [cache |-> C[x.blk], r |-> r], m).blk = x.blk + 1
    <3>1. Takes(L, P, C, d, p, r, x, m)
      BY <1>2, <1>3, <2>1, Zenon DEF Takes
    <3>2. TakesTo(L, P, C, d, p, r, x, m, Mp4!Take(x, [cache |-> C[x.blk], r |-> r], m))
      BY ONLY <3>1, TakeIs, Zenon
    <3> QED
      BY ONLY <3>2, Zenon DEF TakesTo
  <2>6. Len(x.out) + m >= n
    BY <1>4, <2>2
  <2>7. Len(Mp4!Turn(x, n).out) >= n \/ Mp4!Turn(x, n).blk = x.blk + 1
    BY <2>4, <2>5, <2>6, Zenon
  <2> QED
    BY <1>3, <1>6, <2>4, <2>5, <2>7, Zenon DEF Enough4
<1> QED
  BY <1>5, <1>6

\* Where a read begins.
Here == [out |-> <<>>, r |-> psi, blk |-> blk, cache |-> cache, ptr |-> ptr]

\* One turn for each block is enough.
LEMMA TurnsAre4 ==
  ASSUME Opened4, NEW n \in Nat \ {0}, NEW p \in Nat, Here \in Whence(p, psi)
  PROVE  LET x == Mp4!Turns(n)[Mp4!End + 1] IN x \in Whence(p, psi) /\ Enough4(x, n)
<1>1. PICK N \in Nat \ {0} : N = Mp4!End + 1 /\ N = LastOf + 1
  <2>1. LastOf \in Nat /\ Mp4!End = LastOf
    BY OpenedIs
  <2>2. LastOf + 1 \in Nat \ {0}
    BY <2>1
  <2> QED
    BY <2>1, <2>2
<1> DEFINE S == Whence(p, psi)
           a == Here
           h == [k \in 1 .. N |-> [x \in S |-> Mp4!Turn(x, n)]]
           F == Mp4!Turns(n)
<1>2. a \in S
  OBVIOUS
<1>3. \A x \in S : Mp4!Turn(x, n) \in S
  BY TurnIs
<1> HIDE DEF S, a
<1>4. h \in [1 .. N -> [S -> S]]
  BY <1>3
<1>5. PICK g \in [0 .. N -> S] : g[0] = a /\ \A k \in 1 .. N : g[k] = h[k][g[k - 1]]
  <2> HIDE DEF h
  <2>1. \E g \in [0 .. N -> S] : Computes(g, N, a, h)
    BY <1>1, <1>2, <1>4, Recursion, Zenon
  <2> QED
    BY <2>1 DEF Computes
<1>6. g = [k \in 0 .. N |-> IF k = 0 THEN a ELSE Mp4!Turn(g[k - 1], n)]
  <2>1. ASSUME NEW k \in 1 .. N PROVE g[k] = Mp4!Turn(g[k - 1], n)
    <3>1. g[k - 1] \in S
      <4>1. k - 1 \in 0 .. N
        BY <1>1
      <4> QED
        BY <4>1
    <3> QED
      BY <1>5, <3>1
  <2> QED
    BY <1>1, <1>5, <2>1
<1>7. F = [k \in 0 .. N |-> IF k = 0 THEN a ELSE Mp4!Turn(F[k - 1], n)]
  BY <1>1, <1>6, Zenon DEF Mp4!Turns, Here, a
<1> HIDE DEF F
<1>8. F[0] = a /\ \A k \in 1 .. N : F[k] = Mp4!Turn(F[k - 1], n)
  BY <1>7, <1>1
<1> DEFINE Far(x, k) == x \in S /\ (Enough4(x, n) \/ x.blk >= k)
           T == {k \in 0 .. N : Far(F[k], k)}
<1>9. 0 \in T
  <2>1. a.blk \in Nat
    BY <1>2, OpenedIs DEF S, Whence, Places
  <2>2. Far(a, 0)
    BY <1>2, <2>1
  <2> HIDE DEF Far
  <2> QED
    BY <1>1, <1>8, <2>2
<1>10. ASSUME NEW k \in 1 .. N, k - 1 \in T PROVE k \in T
  <2>1. PICK x \in S : x = F[k - 1] /\ (Enough4(x, n) \/ x.blk >= k - 1)
    BY <1>10
  <2>2. F[k] = Mp4!Turn(x, n)
    BY <1>8, <2>1
  <2>3. /\ Mp4!Turn(x, n) \in S
        /\ Enough4(x, n) => Mp4!Turn(x, n) = x
        /\ ~ Enough4(x, n) => Enough4(Mp4!Turn(x, n), n) \/ Mp4!Turn(x, n).blk = x.blk + 1
    BY TurnIs DEF S
  <2>4. x.blk \in Nat
    <3>1. x \in Whence(p, psi)
      BY <2>1, Zenon DEF S
    <3>2. x.blk \in 0 .. LastOf
      BY <3>1 DEF Whence, Places
    <3> QED
      BY <3>2, OpenedIs
  <2>5. x.blk >= k - 1 => x.blk + 1 >= k
    BY <2>4
  <2>6. Enough4(Mp4!Turn(x, n), n) \/ Mp4!Turn(x, n).blk >= k
    BY <2>1, <2>3, <2>5, Zenon
  <2>7. Far(F[k], k)
    BY <2>2, <2>3, <2>6, Zenon
  <2> HIDE DEF Far
  <2> QED
    BY <2>7
<1>11. \A k \in 0 .. N : k \in T
  <2> HIDE DEF T
  <2> QED
    BY <1>1, <1>9, <1>10, UpTo
<1>12. F[N] \in S /\ (Enough4(F[N], n) \/ F[N].blk >= N)
  <2>1. N \in T
    BY <1>1, <1>11
  <2> QED
    BY <2>1
<1>13. ~ (F[N].blk >= N)
  <2>1. F[N].blk \in 0 .. LastOf /\ LastOf \in Nat
    BY <1>12, OpenedIs DEF S, Whence, Places
  <2> QED
    BY <1>1, <2>1
<1> QED
  BY <1>1, <1>12, <1>13, Zenon DEF S, F


(***************************************************************************)
(* The position is in the blocks, and the block that is kept is the one it *)
(* is in.                                                                  *)
(***************************************************************************)
Stands ==
  /\ blk \in 0 .. LastOf /\ ptr \in Nat
  /\ blk < LastOf => ptr < Len(BlocksOf(mp4)[blk])
  /\ cache = <<>> \/ (blk < LastOf /\ cache = BlocksOf(mp4)[blk])
Mp4Inv == Opened4 /\ image = DataOf(mp4) /\ Stands

\* What a plain file does, with the position of an MP4 file.
ReadsOn4 ==
  /\ \E n \in 1 .. Len(image) :
       /\ Mp4!Pos + n <= Len(image) /\ out' = SubSeq(image, Mp4!Pos + 1, Mp4!Pos + n)
       /\ (Mp4!Pos)' = Mp4!Pos + n
  /\ image' = image
ReadsNothing4 ==
  Mp4!Pos >= Len(image) /\ out' = <<>> /\ image' = image /\ (Mp4!Pos)' = Mp4!Pos
Moves4 == (Mp4!Pos)' \in Nat /\ out' = Mp4!NotRead /\ image' = image

LEMMA PosIs ==
  ASSUME Opened4, Stands
  PROVE  Mp4!Pos \in Nat /\ Mp4!Pos = Starts[blk] + ptr
<1>1. blockList[blk].pos = Starts[blk] /\ Starts[blk] \in Nat
  BY OpenedIs DEF Stands
<1> QED
  BY <1>1 DEF Mp4!Pos, Stands

LEMMA Mp4Init == Mp4!Init /\ mp4.psi = <<>> => Mp4Inv /\ Mp4!Pos = 0 /\ out = <<>>
<1> SUFFICES ASSUME Mp4!Init, mp4.psi = <<>> PROVE Mp4Inv /\ Mp4!Pos = 0 /\ out = <<>>
  OBVIOUS
<1>1. mp4 \in Files /\ blk = 0 /\ ptr = 0 /\ cache = <<>> /\ out = <<>>
  BY DEF Mp4!Init
<1>2. Mp4!CountSections(mp4) = NoneCounted(mp4)
  BY NoSections
<1>3. Opened4
  BY <1>1, <1>2 DEF Mp4!Init, Mp4!Lists, Opened4, ListOf4
<1>4. image = DataOf(mp4)
  BY <1>1, <1>3, ImageIs DEF Mp4!Init, Opened4
<1>5. /\ LastOf \in Nat /\ Starts[0] = 0
      /\ 0 < LastOf => 0 < Len(BlocksOf(mp4)[0])
  <2>1. LastOf \in Nat /\ Laid(LastOf, Starts, BlocksOf(mp4), DataOf(mp4))
    BY <1>3, OpenedIs
  <2>2. 0 < LastOf => 0 \in 0 .. LastOf - 1
    BY <2>1
  <2> QED
    BY <2>1, <2>2 DEF Laid
<1>6. Stands
  BY <1>1, <1>5 DEF Stands
<1>7. Mp4!Pos = 0
  BY <1>1, <1>3, <1>5, <1>6, PosIs
<1> QED
  BY <1>1, <1>3, <1>4, <1>6, <1>7 DEF Mp4Inv

LEMMA HereIs ==
  ASSUME Mp4Inv
  PROVE  Here \in Whence(Mp4!Pos, psi)
<1>1. /\ blk \in 0 .. LastOf /\ ptr \in Nat
      /\ blk < LastOf => ptr < Len(BlocksOf(mp4)[blk])
      /\ cache = <<>> \/ (blk < LastOf /\ cache = BlocksOf(mp4)[blk])
  BY DEF Mp4Inv, Stands
<1>2. Opened4 /\ Mp4!Pos \in Nat /\ Mp4!Pos = Starts[blk] + ptr
  BY PosIs DEF Mp4Inv
<1>3. cache \in Seq(Mp4Packet)
  <2>1. LastOf \in Nat /\ BlocksOf(mp4) \in [0 .. LastOf - 1 -> Seq(Mp4Packet)]
    BY <1>2, OpenedIs
  <2>2. CASE cache = <<>>
    BY <2>2
  <2>3. CASE blk < LastOf /\ cache = BlocksOf(mp4)[blk]
    <3>1. blk \in 0 .. LastOf - 1
      BY <1>1, <2>1, <2>3
    <3> QED
      BY <2>1, <2>3, <3>1
  <2> QED
    BY <1>1, <2>2, <2>3
<1>4. Starts[blk] + ptr = Mp4!Pos + Len(<<>>)
  <2>1. Len(<<>>) = 0 /\ Mp4!Pos + 0 = Mp4!Pos
    BY <1>2
  <2> QED
    BY <1>2, <2>1, Zenon
<1>5. Follows(<<>>, DataOf(mp4), Mp4!Pos)
  BY DEF Follows
<1>6. <<>> \in Seq(Mp4Packet)
  OBVIOUS
<1> QED
  BY <1>1, <1>3, <1>4, <1>5, <1>6, PlaceAt, Zenon DEF Here, Whence

\* What the turns end with is where the file is after a read.
LEMMA ReadIs4 ==
  ASSUME Mp4Inv, NEW n \in Nat \ {0}, Mp4!Read(n)
  PROVE  Mp4Inv' /\ (ReadsOn4 \/ ReadsNothing4)
<1>1. Opened4 /\ Mp4!Pos \in Nat /\ image = DataOf(mp4)
  BY PosIs DEF Mp4Inv
<1>2. PICK p \in Nat : p = Mp4!Pos
  BY <1>1
<1>3. PICK x \in Whence(p, psi) : x = Mp4!Turns(n)[Mp4!End + 1] /\ Enough4(x, n)
  BY <1>1, <1>2, HereIs, TurnsAre4
<1>4. /\ out' = x.out /\ blk' = x.blk /\ cache' = x.cache /\ ptr' = x.ptr
      /\ mp4' = mp4 /\ blockList' = blockList /\ image' = image
  BY <1>3, Zenon DEF Mp4!Read, Mp4!Becomes
<1>5. /\ x.out \in Seq(Mp4Packet) /\ x.blk \in 0 .. LastOf /\ x.ptr \in Nat
      /\ x.blk < LastOf => x.ptr < Len(BlocksOf(mp4)[x.blk])
      /\ x.cache = <<>> \/ (x.blk < LastOf /\ x.cache = BlocksOf(mp4)[x.blk])
      /\ Starts[x.blk] + x.ptr = p + Len(x.out)
      /\ Follows(x.out, DataOf(mp4), p)
  BY <1>3 DEF Whence, Places
<1>6. Opened4'
  BY <1>1, <1>4, Zenon DEF Opened4
<1>7. Stands'
  BY <1>4, <1>5, Zenon DEF Stands, LastOf
<1>8. Mp4Inv'
  BY <1>1, <1>4, <1>6, <1>7, Zenon DEF Mp4Inv
<1>9. PICK m \in Nat, o \in Seq(Mp4Packet) : m = Len(o) /\ o = x.out
  <2>1. Len(x.out) \in Nat
    BY <1>5
  <2> QED
    BY <1>5, <2>1
<1>10. (Mp4!Pos)' = p + m
  <2>1. (Mp4!Pos)' = blockList[x.blk].pos + x.ptr
    BY <1>4, Zenon DEF Mp4!Pos
  <2>2. blockList[x.blk].pos = Starts[x.blk]
    BY <1>1, <1>5, OpenedIs
  <2> QED
    BY <1>5, <1>9, <2>1, <2>2, Zenon
<1>11. PICK d \in Seq(Mp4Packet) : d = DataOf(mp4)
  BY <1>1, OpenedIs
<1>12. \A j \in 1 .. m : p + j <= Len(d) /\ o[j] = d[p + j]
  BY <1>5, <1>9, <1>11, Zenon DEF Follows
<1>13. CASE m > 0
  <2>1. m \in 1 .. m
    BY <1>13
  <2>2. p + m <= Len(d)
    BY <1>12, <2>1
  <2>3. m \in 1 .. Len(d)
    BY <2>2, <1>13
  <2>4. o = SubSeq(d, p + 1, p + m)
    <3>1. PICK t \in Seq(Mp4Packet) : t = SubSeq(d, p + 1, p + m) /\ Len(t) = m
                                      /\ \A j \in 1 .. m : t[j] = d[p + j]
      <4>1. /\ SubSeq(d, p + 1, p + m) \in Seq(Mp4Packet)
            /\ Len(SubSeq(d, p + 1, p + m)) = m
            /\ \A j \in 1 .. m : SubSeq(d, p + 1, p + m)[j] = d[p + j]
        BY <2>2, PartOf
      <4> QED
        BY <4>1, Zenon
    <3>2. Len(o) = Len(t) /\ \A j \in 1 .. Len(o) : o[j] = t[j]
      BY <1>9, <1>12, <3>1
    <3> QED
      BY <3>1, <3>2
  <2>5. ReadsOn4
    BY <1>1, <1>2, <1>4, <1>9, <1>10, <1>11, <2>2, <2>3, <2>4, Zenon DEF ReadsOn4
  <2> QED
    BY <1>8, <2>5
<1>14. CASE m = 0
  <2>1. x.blk = LastOf
    BY <1>3, <1>9, <1>14 DEF Enough4
  <2>2. o = <<>>
    BY <1>9, <1>14
  <2>3. p >= Len(d)
    <3>1. Len(d) = Starts[LastOf] /\ Starts[LastOf] \in Nat
      BY <1>1, <1>11, OpenedIs DEF Laid
    <3>2. Starts[LastOf] + x.ptr = p + m
      BY <1>5, <1>9, <2>1, Zenon
    <3> QED
      BY <1>5, <1>14, <3>1, <3>2
  <2>4. p + m = p
    BY <1>14
  <2>5. ReadsNothing4
    BY <1>1, <1>2, <1>4, <1>9, <1>10, <1>11, <2>2, <2>3, <2>4, Zenon DEF ReadsNothing4
  <2> QED
    BY <1>8, <2>5
<1> QED
  BY <1>13, <1>14

\* SetPointer's search finds the block.
LEMMA BlockFound ==
  ASSUME Opened4, NEW p \in Nat
  PROVE  /\ Mp4!BlockOf(p) \in 0 .. LastOf /\ Starts[Mp4!BlockOf(p)] <= p
         /\ Mp4!BlockOf(p) < LastOf => p < Starts[Mp4!BlockOf(p) + 1]
<1>1. PICK L \in Nat : L = LastOf /\ Mp4!End = L
  BY OpenedIs
<1>2. PICK P \in [0 .. L -> Nat] : P = Starts /\ P[0] = 0 /\ \A k \in 0 .. L : blockList[k].pos = P[k]
  <2>1. Starts[0] = 0
    BY OpenedIs DEF Laid
  <2> QED
    BY <1>1, <2>1, OpenedIs
<1> DEFINE In(k) == P[k] <= p /\ (k < L => p < P[k + 1])
<1>3. \E k \in 0 .. L : In(k)
  <2> SUFFICES ASSUME \A k \in 0 .. L : ~ In(k) PROVE FALSE
    OBVIOUS
  <2> DEFINE T == {k \in 0 .. L : P[k] <= p}
  <2>1. 0 \in T
    BY <1>2
  <2>2. ASSUME NEW k \in 1 .. L, k - 1 \in T PROVE k \in T
    <3>1. PICK j \in 0 .. L : j = k - 1 /\ j + 1 = k /\ j < L
      BY <2>2
    <3>2. P[j] <= p /\ ~ In(j)
      BY <2>2, <3>1
    <3>3. ~ (p < P[k])
      BY <3>1, <3>2
    <3>4. P[k] \in Nat
      OBVIOUS
    <3> QED
      BY <3>3, <3>4
  <2>3. \A k \in 0 .. L : k \in T
    <3> HIDE DEF T
    <3> QED
      BY <2>1, <2>2, UpTo
  <2>4. L \in T
    BY <2>3
  <2>5. In(L)
    BY <2>4
  <2> HIDE DEF In
  <2> QED
    BY <2>5
<1>4. Mp4!BlockOf(p) = CHOOSE k \in 0 .. L : In(k)
  <2>1. \A k \in 0 .. L : (/\ blockList[k].pos <= p
                           /\ k < L => p < blockList[k + 1].pos) <=> In(k)
    <3> SUFFICES ASSUME NEW k \in 0 .. L
                 PROVE  (/\ blockList[k].pos <= p
                         /\ k < L => p < blockList[k + 1].pos) <=> In(k)
      OBVIOUS
    <3>1. k < L => k + 1 \in 0 .. L
      OBVIOUS
    <3> QED
      BY <1>2, <3>1
  <2>2. (CHOOSE k \in 0 .. L : /\ blockList[k].pos <= p
                               /\ k < L => p < blockList[k + 1].pos)
          = CHOOSE k \in 0 .. L : In(k)
    <3> HIDE DEF In
    <3> QED
      BY <2>1, Zenon
  <2> QED
    BY <1>1, <2>2, Zenon DEF Mp4!BlockOf
<1>5. Mp4!BlockOf(p) \in 0 .. L /\ In(Mp4!BlockOf(p))
  <2> HIDE DEF In
  <2> QED
    BY <1>3, <1>4, Zenon
<1> QED
  BY <1>1, <1>2, <1>5, Zenon

LEMMA SetPointerIs4 ==
  ASSUME Mp4Inv, NEW p \in Nat, Mp4!SetPointer(p)
  PROVE  Mp4Inv' /\ Moves4
<1>1. Opened4 /\ image = DataOf(mp4)
  BY DEF Mp4Inv
<1>2. PICK L \in Nat : L = LastOf
  BY <1>1, OpenedIs
<1>3. PICK P \in [0 .. L -> Nat] : P = Starts
  BY <1>1, <1>2, OpenedIs
<1>4. PICK K \in 0 .. L : K = Mp4!BlockOf(p) /\ P[K] <= p /\ (K < L => p < P[K + 1])
  BY <1>1, <1>2, <1>3, BlockFound
<1>5. PICK a \in Nat : a = P[K] /\ a = blockList[K].pos /\ a <= p
  BY <1>1, <1>2, <1>3, <1>4, OpenedIs
<1>6. PICK q \in Nat : q = p - a /\ a + q = p
  BY <1>5, SMTT(30)
<1>7. /\ blk' = K /\ cache' = (IF K = blk THEN cache ELSE <<>>) /\ ptr' = q
      /\ out' = Mp4!NotRead /\ mp4' = mp4 /\ blockList' = blockList /\ image' = image
  BY <1>4, <1>5, <1>6, Zenon DEF Mp4!SetPointer
<1>8. K < L => q < Len(BlocksOf(mp4)[K])
  <2> SUFFICES ASSUME K < L PROVE q < Len(BlocksOf(mp4)[K])
    OBVIOUS
  <2>1. K \in 0 .. L - 1
    OBVIOUS
  <2>2. Laid(L, P, BlocksOf(mp4), DataOf(mp4)) /\ BlocksOf(mp4) \in [0 .. L - 1 -> Seq(Mp4Packet)]
    BY <1>1, <1>2, <1>3, OpenedIs
  <2>3. P[K + 1] = P[K] + Len(BlocksOf(mp4)[K])
    BY <2>1, <2>2 DEF Laid
  <2>4. PICK c \in Nat : c = Len(BlocksOf(mp4)[K])
    BY <2>1, <2>2
  <2>5. p < a + c
    BY <1>4, <1>5, <2>3, <2>4, Zenon
  <2>6. q < c
    BY <1>6, <2>5
  <2> QED
    BY <2>4, <2>6, Zenon
<1>9. cache' = <<>> \/ (K < L /\ cache' = BlocksOf(mp4)[K])
  BY <1>2, <1>7 DEF Mp4Inv, Stands
<1>10. Stands'
  BY <1>2, <1>7, <1>8, <1>9, Zenon DEF Stands, LastOf
<1>11. Opened4'
  BY <1>1, <1>7, Zenon DEF Opened4
<1>12. Mp4Inv'
  BY <1>1, <1>7, <1>10, <1>11, Zenon DEF Mp4Inv
<1>13. (Mp4!Pos)' = p
  BY <1>5, <1>6, <1>7, Zenon DEF Mp4!Pos
<1> QED
  BY <1>7, <1>12, <1>13, Zenon DEF Moves4

LEMMA NextIsPlain4 == Mp4Inv /\ Mp4!Next => Mp4Inv' /\ (ReadsOn4 \/ ReadsNothing4 \/ Moves4)
<1> SUFFICES ASSUME Mp4Inv, Mp4!Next PROVE Mp4Inv' /\ (ReadsOn4 \/ ReadsNothing4 \/ Moves4)
  OBVIOUS
<1>1. Opened4
  BY DEF Mp4Inv
<1>2. /\ LastOf \in Nat /\ Mp4!End = LastOf
      /\ \A k \in 0 .. LastOf : blockList[k].pos = Starts[k] /\ Starts[k] \in Nat
  BY <1>1, OpenedIs, SMTT(30)
<1>3. ASSUME NEW n \in ReadSizes, Mp4!Read(n) PROVE Mp4Inv' /\ (ReadsOn4 \/ ReadsNothing4)
  <2>1. n \in Nat \ {0}
    BY Mp4Numbers
  <2> QED
    BY <1>3, <2>1, ReadIs4
<1>4. CASE Mp4!Seek
  <2>1. PICK t \in SeekTimes : Mp4!SetPointer(Mp4!BytesFromMsec(t))
    BY <1>4 DEF Mp4!Seek
  <2>2. PICK b \in Nat, L \in Nat : b = t \div BlockMsec /\ L = LastOf
    <3>1. t \in Nat /\ BlockMsec \in Nat \ {0}
      BY Mp4Numbers
    <3>2. t \div BlockMsec \in Nat
      BY <3>1, Parts
    <3> QED
      BY <1>2, <3>2
  <2>3. Mp4!Min({b, L}) = IF b <= L THEN b ELSE L
    <3>1. b \in Int /\ L \in Int
      OBVIOUS
    <3> QED
      BY <3>1, Mp4Min, Zenon
  <2>4. Mp4!Min({b, L}) \in 0 .. L
    BY <2>3
  <2>5. Mp4!BytesFromMsec(t) \in Nat
    <3>1. Mp4!BytesFromMsec(t) = blockList[Mp4!Min({b, L})].pos
      BY <1>2, <2>2, Zenon DEF Mp4!BytesFromMsec
    <3> QED
      BY <1>2, <2>2, <2>4, <3>1
  <2> QED
    BY <2>1, <2>5, SetPointerIs4
<1>5. CASE Mp4!Move
  <2>1. PICK p \in ({Mp4!Pos - 1, Mp4!Pos + 1} \cap 0 .. Mp4!GetSize) \cup {Mp4!GetSize + 1} :
          Mp4!SetPointer(p)
    BY <1>5 DEF Mp4!Move
  <2>2. Mp4!GetSize \in Nat
    BY <1>2 DEF Mp4!GetSize
  <2>3. p \in Nat
    BY <2>1, <2>2
  <2> QED
    BY <2>1, <2>3, SetPointerIs4
<1> QED
  BY <1>3, <1>4, <1>5 DEF Mp4!Next

\* IReadOnlyFile's promise for MP4 files without an archive, whatever their
\* tracks, sample times and captions: each read returns what follows the position
\* in the stream of the blocks, each as a fresh reader makes it, whatever was read
\* and sought before (SetPointer's cached block), and nothing only at the end.
\* With an archive it does not hold of every file: see the README.
THEOREM Mp4IsPlainFile == kind = "mp4" /\ mp4.psi = <<>> /\ Spec => IsPlainFile
<1> DEFINE I == kind = "mp4" /\ Mp4Inv
           p == CASE kind = "mp4" -> Mp4!Pos [] kind = "mmts" -> position [] OTHER -> 0
<1>1. kind = "mp4" => p = Mp4!Pos
  BY Zenon
<1>2. kind' = "mp4" => p' = (Mp4!Pos)'
  BY Zenon
<1>3. kind = "mp4" /\ mp4.psi = <<>> /\ Init => I /\ p = 0 /\ out = <<>>
  <2> SUFFICES ASSUME kind = "mp4", mp4.psi = <<>>, Init PROVE I /\ p = 0 /\ out = <<>>
    OBVIOUS
  <2>1. Mp4!Init
    BY DEF Init
  <2>2. Mp4Inv /\ Mp4!Pos = 0 /\ out = <<>>
    BY <2>1, Mp4Init
  <2> QED
    BY <2>2, <1>1, Zenon
<1>4. I /\ [Next]_vars => I' /\ [Plain!Next]_Plain!pvars
  <2> SUFFICES ASSUME I, [Next]_vars PROVE I' /\ [Plain!Next]_Plain!pvars
    OBVIOUS
  <2>1. /\ I'
        /\ \/ ReadsOn4 \/ ReadsNothing4 \/ Moves4
           \/ image' = image /\ (Mp4!Pos)' = Mp4!Pos /\ out' = out
    <3>1. CASE Next
      <4>1. kind' = kind /\ Mp4!Next
        BY <3>1 DEF Next
      <4> QED
        BY <4>1, NextIsPlain4
    <3>2. CASE UNCHANGED vars
      <4>1. /\ kind' = kind /\ out' = out /\ image' = image
            /\ mp4' = mp4 /\ blockList' = blockList /\ blk' = blk /\ cache' = cache /\ ptr' = ptr
        BY <3>2 DEF vars, forMp4, read
      <4>2. (Mp4!Pos)' = Mp4!Pos
        BY <4>1, Zenon DEF Mp4!Pos
      <4>3. Mp4Inv'
        BY <4>1, Zenon DEF Mp4Inv, Opened4, Stands, LastOf
      <4> QED
        BY <4>1, <4>2, <4>3
    <3> QED
      BY <3>1, <3>2
  <2>2. p = Mp4!Pos /\ p' = (Mp4!Pos)'
    BY <2>1, <1>1, <1>2
  <2> HIDE DEF p
  <2>3. CASE ReadsOn4
    <3>1. Plain!Read
      BY <2>2, <2>3, Zenon DEF ReadsOn4, Plain!Read, p
    <3> QED
      BY <2>1, <3>1 DEF Plain!Next
  <2>4. CASE ReadsNothing4
    <3>1. Plain!ReadNothing
      BY <2>2, <2>4, Zenon DEF ReadsNothing4, Plain!ReadNothing, p
    <3> QED
      BY <2>1, <3>1 DEF Plain!Next
  <2>5. CASE Moves4
    <3>1. Plain!Move
      BY <2>2, <2>5, Zenon DEF Moves4, Plain!Move, p, Plain!NotRead, Mp4!NotRead
    <3> QED
      BY <2>1, <3>1 DEF Plain!Next
  <2>6. CASE image' = image /\ (Mp4!Pos)' = Mp4!Pos /\ out' = out
    <3>1. UNCHANGED Plain!pvars
      BY <2>2, <2>6, Zenon DEF Plain!pvars, p
    <3> QED
      BY <2>1, <3>1
  <2> QED
    BY <2>1, <2>3, <2>4, <2>5, <2>6
<1>5. (p = 0 /\ out = <<>> /\ [][Plain!Next]_Plain!pvars) => IsPlainFile
  BY DEF IsPlainFile, Plain!Spec
<1> QED
  BY <1>3, <1>4, <1>5, PTL DEF Spec

-----------------------------------------------------------------------------
(* The packets of a pid in the stream                                      *)

LEMMA FlatTyped ==
  ASSUME NEW P, NEW ss \in Seq(Seq(P))
  PROVE  Mp4!Flat(ss) \in Seq(P) /\ Mp4!Flat(ss) = Mp4!Flats(ss)[Len(ss)]
<1>1. Len(ss) \in 0 .. Len(ss)
  OBVIOUS
<1>2. Mp4!Flats(ss) \in [0 .. Len(ss) -> Seq(P)]
  BY FlatsIs
<1> QED
  BY <1>1, <1>2 DEF Mp4!Flat

JoinsOf(P, N, ss, F) ==
  /\ F \in [0 .. N -> Seq(P)] /\ F[0] = <<>>
  /\ \A k \in 1 .. N : F[k] = F[k - 1] \o ss[k]
  /\ Mp4!Flat(ss) = F[N]

LEMMA FlatsOf ==
  \A P, N : \A ss \in Seq(Seq(P)) : Len(ss) = N => \E F : JoinsOf(P, N, ss, F)
<1> SUFFICES ASSUME NEW P, NEW ss \in Seq(Seq(P))
             PROVE  JoinsOf(P, Len(ss), ss, Mp4!Flats(ss))
  OBVIOUS
<1> QED
  BY FlatsIs, FlatTyped DEF JoinsOf

\* Two lists of sequences joined.
LEMMA FlatJoins ==
  ASSUME NEW P, NEW ss \in Seq(Seq(P)), NEW tt \in Seq(Seq(P))
  PROVE  Mp4!Flat(ss \o tt) = Mp4!Flat(ss) \o Mp4!Flat(tt)
<1>1. PICK A \in Nat, B \in Nat : A = Len(ss) /\ B = Len(tt)
  OBVIOUS
<1>2. PICK uu \in Seq(Seq(P)) :
        /\ uu = ss \o tt /\ Len(uu) = A + B
        /\ \A k \in 1 .. A : uu[k] = ss[k]
        /\ \A k \in 1 .. B : uu[A + k] = tt[k]
  <2>1. ss \o tt \in Seq(Seq(P)) /\ Len(ss \o tt) = Len(ss) + Len(tt)
    BY JoinTyped
  <2>2. /\ \A k \in 1 .. Len(ss) : (ss \o tt)[k] = ss[k]
        /\ \A k \in 1 .. Len(tt) : (ss \o tt)[Len(ss) + k] = tt[k]
    BY JoinAt
  <2> QED
    BY <1>1, <2>1, <2>2, Zenon
<1>j3. PICK F : JoinsOf(P, A + B, uu, F)
  BY <1>2, FlatsOf, Zenon
<1>3. /\ F \in [0 .. A + B -> Seq(P)]
      /\ F[0] = <<>> /\ \A k \in 1 .. A + B : F[k] = F[k - 1] \o uu[k]
      /\ Mp4!Flat(uu) = F[A + B]
  BY <1>j3 DEF JoinsOf
<1>j4. PICK G : JoinsOf(P, A, ss, G)
  BY <1>1, FlatsOf, Zenon
<1>4. /\ G \in [0 .. A -> Seq(P)]
      /\ G[0] = <<>> /\ \A k \in 1 .. A : G[k] = G[k - 1] \o ss[k]
      /\ Mp4!Flat(ss) = G[A]
  BY <1>j4 DEF JoinsOf
<1>j5. PICK H : JoinsOf(P, B, tt, H)
  BY <1>1, FlatsOf, Zenon
<1>5. /\ H \in [0 .. B -> Seq(P)]
      /\ H[0] = <<>> /\ \A k \in 1 .. B : H[k] = H[k - 1] \o tt[k]
      /\ Mp4!Flat(tt) = H[B]
  BY <1>j5 DEF JoinsOf
<1>6. \A k \in 0 .. A : F[k] = G[k]
  <2> DEFINE T == {k \in 0 .. A : F[k] = G[k]}
  <2>1. 0 \in T
    BY <1>3, <1>4
  <2>2. ASSUME NEW k \in 1 .. A, k - 1 \in T PROVE k \in T
    <3>1. k \in 1 .. A + B /\ k \in 0 .. A
      OBVIOUS
    <3>2. F[k] = F[k - 1] \o uu[k] /\ G[k] = G[k - 1] \o ss[k] /\ uu[k] = ss[k]
      BY <1>2, <1>3, <1>4, <3>1
    <3>3. F[k - 1] = G[k - 1]
      BY <2>2
    <3> QED
      BY <3>1, <3>2, <3>3
  <2>3. \A k \in 0 .. A : k \in T
    <3> HIDE DEF T
    <3> QED
      BY <2>1, <2>2, UpTo
  <2> QED
    BY <2>3
<1>7. PICK g \in Seq(P) : g = G[A]
  BY <1>4
<1>8. \A k \in 0 .. B : F[A + k] = g \o H[k]
  <2> DEFINE T == {k \in 0 .. B : F[A + k] = g \o H[k]}
  <2>1. 0 \in T
    <3>1. g \o <<>> = g /\ A + 0 = A /\ A \in 0 .. A /\ 0 \in 0 .. B
      OBVIOUS
    <3>2. F[A] = g
      BY <1>6, <1>7, <3>1
    <3> QED
      BY <1>5, <3>1, <3>2, Zenon
  <2>2. ASSUME NEW k \in 1 .. B, k - 1 \in T PROVE k \in T
    <3>1. k \in 0 .. B /\ A + k \in 1 .. A + B /\ (A + k) - 1 = A + (k - 1) /\ k - 1 \in 0 .. B
      OBVIOUS
    <3>2. PICK h \in Seq(P), t \in Seq(P) : h = H[k - 1] /\ t = tt[k]
      <4>1. H[k - 1] \in Seq(P)
        BY <1>5, <3>1
      <4>2. tt[k] \in Seq(P)
        BY <1>1
      <4> QED
        BY <4>1, <4>2
    <3>3. F[A + (k - 1)] = g \o h
      BY <2>2, <3>2, SMTT(30)
    <3>4. F[A + k] = F[A + (k - 1)] \o uu[A + k]
      BY <1>3, <3>1
    <3>5. F[A + k] = (g \o h) \o t
      BY <1>2, <3>2, <3>3, <3>4
    <3>6. (g \o h) \o t = g \o (h \o t)
      BY ONLY g \in Seq(P), h \in Seq(P), t \in Seq(P), SMTT(30)
    <3>7. H[k] = h \o t
      BY <1>5, <3>2
    <3> QED
      BY <3>1, <3>5, <3>6, <3>7
  <2>3. \A k \in 0 .. B : k \in T
    <3> HIDE DEF T
    <3> QED
      BY <2>1, <2>2, UpTo
  <2> QED
    BY <2>3
<1>9. F[A + B] = g \o H[B]
  <2>1. B \in 0 .. B
    OBVIOUS
  <2> QED
    BY <1>8, <2>1
<1> QED
  BY <1>2, <1>3, <1>4, <1>5, <1>7, <1>9

\* What Of takes of a sequence.
Bits(ids, s) == [i \in 1 .. Len(s) |-> IF s[i].pid \in ids THEN <<s[i]>> ELSE <<>>]
PickedIn(ids, s) == Mp4!Flat(Bits(ids, s))

LEMMA BitsTyped ==
  ASSUME NEW ids, NEW s \in Seq(Mp4Packet)
  PROVE  Bits(ids, s) \in Seq(Seq(Mp4Packet)) /\ Len(Bits(ids, s)) = Len(s)
<1>1. PICK n \in Nat : n = Len(s)
  OBVIOUS
<1>2. \A i \in 1 .. n : s[i] \in Mp4Packet
  BY <1>1
<1>3. \A i \in 1 .. n : (IF s[i].pid \in ids THEN <<s[i]>> ELSE <<>>) \in Seq(Mp4Packet)
  <2> SUFFICES ASSUME NEW i \in 1 .. n
               PROVE  (IF s[i].pid \in ids THEN <<s[i]>> ELSE <<>>) \in Seq(Mp4Packet)
    OBVIOUS
  <2>1. PICK x \in Mp4Packet : x = s[i]
    BY <1>2
  <2>2. <<x>> \in Seq(Mp4Packet) /\ <<>> \in Seq(Mp4Packet)
    OBVIOUS
  <2> QED
    BY <2>1, <2>2
<1>4. Bits(ids, s) \in [1 .. n -> Seq(Mp4Packet)]
  BY <1>1, <1>3 DEF Bits
<1> QED
  BY <1>1, <1>4, ListOf

LEMMA PickedTyped ==
  ASSUME NEW ids, NEW s \in Seq(Mp4Packet)
  PROVE  PickedIn(ids, s) \in Seq(Mp4Packet)
BY BitsTyped, FlatTyped DEF PickedIn

LEMMA PickedJoins ==
  ASSUME NEW ids, NEW s \in Seq(Mp4Packet), NEW t \in Seq(Mp4Packet)
  PROVE  PickedIn(ids, s \o t) = PickedIn(ids, s) \o PickedIn(ids, t)
<1>1. PICK A \in Nat, B \in Nat : A = Len(s) /\ B = Len(t)
  OBVIOUS
<1>2. PICK u \in Seq(Mp4Packet) :
        /\ u = s \o t /\ Len(u) = A + B
        /\ \A k \in 1 .. A : u[k] = s[k]
        /\ \A k \in 1 .. B : u[A + k] = t[k]
  <2>1. s \o t \in Seq(Mp4Packet) /\ Len(s \o t) = Len(s) + Len(t)
    BY JoinTyped
  <2>2. /\ \A k \in 1 .. Len(s) : (s \o t)[k] = s[k]
        /\ \A k \in 1 .. Len(t) : (s \o t)[Len(s) + k] = t[k]
    BY JoinAt
  <2> QED
    BY <1>1, <2>1, <2>2, Zenon
<1>3. PICK a \in Seq(Seq(Mp4Packet)), b \in Seq(Seq(Mp4Packet)), c \in Seq(Seq(Mp4Packet)) :
        /\ a = Bits(ids, s) /\ Len(a) = A
        /\ b = Bits(ids, t) /\ Len(b) = B
        /\ c = Bits(ids, u) /\ Len(c) = A + B
  BY <1>1, <1>2, BitsTyped, ZenonT(40)
<1>4. ASSUME NEW k \in 1 .. A + B PROVE c[k] = (a \o b)[k]
  <2>1. c[k] = IF u[k].pid \in ids THEN <<u[k]>> ELSE <<>>
    BY <1>2, <1>3 DEF Bits
  <2>2. CASE k <= A
    <3>1. k \in 1 .. A /\ k \in 1 .. Len(a) /\ k \in 1 .. Len(s)
      BY <1>1, <1>3, <2>2
    <3>2. (a \o b)[k] = a[k]
      BY <3>1, JoinAt
    <3>3. a[k] = IF s[k].pid \in ids THEN <<s[k]>> ELSE <<>>
      BY <1>3, <3>1 DEF Bits
    <3>4. u[k] = s[k]
      BY <1>2, <3>1
    <3> QED
      BY <2>1, <3>2, <3>3, <3>4, Zenon
  <2>3. CASE k > A
    <3>1. PICK j \in 1 .. B : k = A + j
      <4>1. k - A \in 1 .. B /\ k = A + (k - A)
        BY <2>3
      <4> QED
        BY <4>1
    <3>2. j \in 1 .. Len(b) /\ j \in 1 .. Len(t)
      BY <1>1, <1>3
    <3>3. (a \o b)[A + j] = b[j]
      <4>1. (a \o b)[Len(a) + j] = b[j]
        BY <3>2, JoinAt
      <4> QED
        BY <1>3, <4>1, Zenon
    <3>4. b[j] = IF t[j].pid \in ids THEN <<t[j]>> ELSE <<>>
      BY <1>3, <3>2 DEF Bits
    <3>5. u[k] = t[j]
      BY <1>2, <3>1
    <3> QED
      <4>1. (a \o b)[k] = b[j]
        BY <3>1, <3>3, Zenon
      <4>2. c[k] = IF t[j].pid \in ids THEN <<t[j]>> ELSE <<>>
        BY <2>1, <3>5, Zenon
      <4> QED
        BY <3>4, <4>1, <4>2, Zenon
  <2>4. k <= A \/ k > A
    OBVIOUS
  <2> QED
    BY <2>2, <2>3, <2>4, Zenon
<1>5. c = a \o b
  <2>1. PICK d \in Seq(Seq(Mp4Packet)) : d = a \o b /\ Len(d) = A + B
    <3>1. a \o b \in Seq(Seq(Mp4Packet)) /\ Len(a \o b) = Len(a) + Len(b)
      BY JoinTyped
    <3> QED
      BY <1>3, <3>1, Zenon
  <2>2. \A k \in 1 .. Len(c) : c[k] = d[k]
    BY <1>3, <1>4, <2>1, Zenon
  <2>3. Len(c) = Len(d)
    BY <1>3, <2>1, Zenon
  <2>4. c = d
    BY <2>2, <2>3, SeqEqual, Zenon
  <2> QED
    BY <2>1, <2>4, Zenon
<1>6. Mp4!Flat(c) = Mp4!Flat(a) \o Mp4!Flat(b)
  BY <1>5, FlatJoins, SMTT(30)
<1> QED
  BY <1>2, <1>3, <1>6, Zenon DEF PickedIn

\* All of a sequence, or none.
LEMMA PickedAll ==
  ASSUME NEW ids, NEW s \in Seq(Mp4Packet), \A i \in 1 .. Len(s) : s[i].pid \in ids
  PROVE  PickedIn(ids, s) = s
<1>1. PICK n \in Nat : n = Len(s)
  OBVIOUS
<1>2. PICK b \in Seq(Seq(Mp4Packet)) : b = Bits(ids, s) /\ Len(b) = n
  BY <1>1, BitsTyped
<1>3. \A i \in 1 .. n : b[i] = <<s[i]>>
  BY <1>1, <1>2 DEF Bits
<1>j4. PICK F : JoinsOf(Mp4Packet, n, b, F)
  BY <1>2, FlatsOf, Zenon
<1>4. /\ F \in [0 .. n -> Seq(Mp4Packet)]
      /\ F[0] = <<>> /\ \A k \in 1 .. n : F[k] = F[k - 1] \o b[k]
      /\ Mp4!Flat(b) = F[n]
  BY <1>j4 DEF JoinsOf
<1> DEFINE T == {k \in 0 .. n : F[k] = SubSeq(s, 1, k)}
<1>5. 0 \in T
  <2>1. SubSeq(s, 1, 0) = <<>>
    OBVIOUS
  <2> QED
    BY <1>4, <2>1
<1>6. ASSUME NEW k \in 1 .. n, k - 1 \in T PROVE k \in T
  <2>1. PICK x \in Mp4Packet : x = s[k]
    BY <1>1
  <2>2. F[k] = SubSeq(s, 1, k - 1) \o <<x>>
    <3>1. F[k - 1] = SubSeq(s, 1, k - 1)
      BY <1>6, SMTT(30)
    <3> QED
      BY <1>3, <1>4, <2>1, <3>1, Zenon
  <2>3. SubSeq(s, 1, k - 1) \o <<x>> = SubSeq(s, 1, k)
    BY <1>1, <2>1
  <2>4. k \in 0 .. n
    OBVIOUS
  <2> QED
    BY <2>2, <2>3, <2>4, Zenon
<1>7. \A k \in 0 .. n : k \in T
  <2> HIDE DEF T
  <2> QED
    BY <1>5, <1>6, UpTo
<1>8. F[n] = SubSeq(s, 1, n)
  BY <1>7
<1>9. SubSeq(s, 1, n) = s
  BY <1>1
<1> QED
  BY <1>2, <1>4, <1>8, <1>9 DEF PickedIn

LEMMA PickedNone ==
  ASSUME NEW ids, NEW s \in Seq(Mp4Packet), \A i \in 1 .. Len(s) : s[i].pid \notin ids
  PROVE  PickedIn(ids, s) = <<>>
<1>1. PICK n \in Nat : n = Len(s)
  OBVIOUS
<1>2. PICK b \in Seq(Seq(Mp4Packet)) : b = Bits(ids, s) /\ Len(b) = n
  BY <1>1, BitsTyped
<1>3. \A i \in 1 .. n : b[i] = <<>>
  BY <1>1, <1>2 DEF Bits
<1>j4. PICK F : JoinsOf(Mp4Packet, n, b, F)
  BY <1>2, FlatsOf, Zenon
<1>4. /\ F \in [0 .. n -> Seq(Mp4Packet)]
      /\ F[0] = <<>> /\ \A k \in 1 .. n : F[k] = F[k - 1] \o b[k]
      /\ Mp4!Flat(b) = F[n]
  BY <1>j4 DEF JoinsOf
<1> DEFINE T == {k \in 0 .. n : F[k] = <<>>}
<1>5. 0 \in T
  BY <1>4
<1>6. ASSUME NEW k \in 1 .. n, k - 1 \in T PROVE k \in T
  <2>1. F[k] = <<>> \o <<>>
    BY <1>3, <1>4, <1>6
  <2> QED
    BY <2>1
<1>7. \A k \in 0 .. n : k \in T
  <2> HIDE DEF T
  <2> QED
    BY <1>5, <1>6, UpTo
<1>8. Mp4!Flat(b) = F[n] /\ F[n] = <<>>
  BY <1>4, <1>7
<1> QED
  BY <1>2, <1>8 DEF PickedIn


\* The packets of a pid that are numbered from a to b - 1.
Numbered(pid, v) == [pid |-> pid, cc |-> v % CcMod, n |-> v]
Run(pid, a, b) == [n \in 1 .. b - a |-> Numbered(pid, a + n - 1)]

LEMMA ModAdd ==
  ASSUME NEW m \in Nat \ {0}, NEW a \in Nat, NEW n \in Nat
  PROVE  ((a % m) + n) % m = (a + n) % m
<1>1. PICK q \in Nat, x \in 0 .. m - 1 : x = a % m /\ a = m * q + x
  BY Parts
<1>2. PICK y \in Nat : y = x + n
  OBVIOUS
<1>3. PICK u \in Nat, r \in 0 .. m - 1 : r = y % m /\ y = m * u + r
  BY Parts, ZenonT(40)
<1>4. PICK w \in Nat : w = q + u
  OBVIOUS
<1>5. m * w = m * q + m * u
  BY <1>4
<1>6. a + n = m * w + r
  <2>1. PICK c \in Nat, d \in Nat, e \in Nat : c = m * w /\ d = m * q /\ e = m * u
    OBVIOUS
  <2>2. a = d + x /\ x + n = e + r /\ c = d + e
    BY <1>1, <1>2, <1>3, <1>5, <2>1, Zenon
  <2>3. a + n = c + r
    BY <2>2
  <2> QED
    BY <2>1, <2>3, Zenon
<1>7. (m * w + r) % m = r
  BY PartsOnly
<1> QED
  BY <1>1, <1>2, <1>3, <1>6, <1>7, Zenon

IsRun(pid, a, b, s) ==
  /\ s \in Seq(Mp4Packet) /\ Len(s) = b - a
  /\ \A n \in 1 .. b - a : s[n] = Numbered(pid, a + n - 1)

LEMMA RunTyped ==
  ASSUME NEW pid \in Nat, NEW a \in Nat, NEW b \in Nat, a <= b
  PROVE  IsRun(pid, a, b, Run(pid, a, b))
<1>1. PICK d \in Nat : d = b - a
  OBVIOUS
<1>2. ASSUME NEW n \in 1 .. d
      PROVE  Numbered(pid, a + n - 1) \in Mp4Packet
  <2>1. PICK v \in Nat : v = a + n - 1
    <3>1. a + n - 1 \in Nat
      OBVIOUS
    <3> QED
      BY <3>1
  <2>2. v % CcMod \in Nat
    BY Mp4Numbers, Parts
  <2> QED
    BY <2>1, <2>2 DEF Mp4Packet, Numbered
<1>3. Run(pid, a, b) = [n \in 1 .. d |-> Numbered(pid, a + n - 1)]
  BY <1>1, Zenon DEF Run
<1>4. Run(pid, a, b) \in [1 .. d -> Mp4Packet]
  BY <1>2, <1>3
<1>5. Run(pid, a, b) \in Seq(Mp4Packet) /\ Len(Run(pid, a, b)) = d
  BY <1>4, ListOf
<1> QED
  BY <1>1, <1>3, <1>5 DEF IsRun

LEMMA RunJoins ==
  ASSUME NEW pid \in Nat, NEW a \in Nat, NEW b \in Nat, NEW c \in Nat, a <= b, b <= c
  PROVE  Run(pid, a, b) \o Run(pid, b, c) = Run(pid, a, c)
<1>0. a <= c
  OBVIOUS
<1>1. PICK d \in Nat, e \in Nat : d = b - a /\ e = c - b /\ d + e = c - a /\ b = a + d
  <2>1. b - a \in Nat /\ c - b \in Nat /\ (b - a) + (c - b) = c - a /\ b = a + (b - a)
    OBVIOUS
  <2> QED
    BY <2>1
<1>2. PICK s \in Seq(Mp4Packet) :
        s = Run(pid, a, b) /\ Len(s) = d /\ \A n \in 1 .. d : s[n] = Numbered(pid, a + n - 1)
  <2>1. IsRun(pid, a, b, Run(pid, a, b))
    BY ONLY RunTyped, a <= b, b <= c, pid \in Nat, a \in Nat, b \in Nat, c \in Nat
  <2> QED
    BY <1>1, <2>1, Zenon DEF IsRun
<1>3. PICK t \in Seq(Mp4Packet) :
        t = Run(pid, b, c) /\ Len(t) = e /\ \A n \in 1 .. e : t[n] = Numbered(pid, b + n - 1)
  <2>1. IsRun(pid, b, c, Run(pid, b, c))
    BY ONLY RunTyped, a <= b, b <= c, pid \in Nat, a \in Nat, b \in Nat, c \in Nat
  <2> QED
    BY <1>1, <2>1, Zenon DEF IsRun
<1>4. PICK u \in Seq(Mp4Packet) :
        u = Run(pid, a, c) /\ Len(u) = d + e /\ \A n \in 1 .. d + e : u[n] = Numbered(pid, a + n - 1)
  <2>1. IsRun(pid, a, c, Run(pid, a, c))
    BY ONLY <1>0, RunTyped, pid \in Nat, a \in Nat, c \in Nat
  <2> QED
    BY <1>1, <2>1, Zenon DEF IsRun
<1>5. PICK w \in Seq(Mp4Packet) :
        /\ w = s \o t /\ Len(w) = d + e
        /\ \A k \in 1 .. d : w[k] = s[k]
        /\ \A k \in 1 .. e : w[d + k] = t[k]
  <2>1. s \o t \in Seq(Mp4Packet) /\ Len(s \o t) = Len(s) + Len(t)
    BY JoinTyped
  <2>2. /\ \A k \in 1 .. Len(s) : (s \o t)[k] = s[k]
        /\ \A k \in 1 .. Len(t) : (s \o t)[Len(s) + k] = t[k]
    BY JoinAt
  <2> QED
    BY <1>2, <1>3, <2>1, <2>2, ZenonT(40)
<1>6. ASSUME NEW k \in 1 .. d + e PROVE w[k] = u[k]
  <2>1. u[k] = Numbered(pid, a + k - 1)
    BY <1>4
  <2>2. CASE k <= d
    <3>1. k \in 1 .. d
      BY <2>2
    <3> QED
      BY <1>2, <1>5, <2>1, <3>1, Zenon
  <2>3. CASE k > d
    <3>1. PICK j \in 1 .. e : k = d + j
      <4>1. k - d \in 1 .. e /\ k = d + (k - d)
        BY <2>3
      <4> QED
        BY <4>1
    <3>2. a + k - 1 = b + j - 1
      BY <1>1, <3>1
    <3>3. w[k] = t[j]
      BY <1>5, <3>1, Zenon
    <3>4. t[j] = Numbered(pid, b + j - 1)
      BY <1>3
    <3> QED
      BY <2>1, <3>2, <3>3, <3>4, Zenon
  <2>4. k <= d \/ k > d
    OBVIOUS
  <2> QED
    BY <2>2, <2>3, <2>4, Zenon
<1>7. Len(w) = Len(u) /\ \A k \in 1 .. Len(w) : w[k] = u[k]
  BY <1>4, <1>5, <1>6, Zenon
<1>8. w = u
  BY <1>7, SeqEqual, Zenon
<1> QED
  BY <1>2, <1>3, <1>4, <1>5, <1>8, Zenon

LEMMA RunEmpty == ASSUME NEW pid, NEW a \in Nat PROVE Run(pid, a, a) = <<>>
<1>1. a - a = 0
  OBVIOUS
<1>2. [n \in 1 .. 0 |-> Numbered(pid, a + n - 1)] = <<>>
  OBVIOUS
<1> QED
  BY <1>1, <1>2, Zenon DEF Run

\* The samples between two blocks go on from those before them.
LEMMA CarryIsRun ==
  ASSUME NEW pid \in Nat, NEW s \in Seq(Nat), NEW i \in 0 .. Len(s), NEW j \in i .. Len(s)
  PROVE  Mp4!Carry(pid, Mp4!Before(s, i) % CcMod, s, i, j)
           = Run(pid, Mp4!Before(s, i), Mp4!Before(s, j))
<1>1. PICK a \in Nat, b \in Nat : a = Mp4!Before(s, i) /\ b = Mp4!Before(s, j) /\ a <= b
  BY BeforeTyped
<1>2. PICK m \in Nat \ {0} : m = CcMod
  BY Mp4Numbers
<1>3. PICK x \in Nat : x = a % m
  <2>1. a % m \in Nat
    BY Parts
  <2> QED
    BY <2>1
<1>4. Mp4!Carry(pid, a % m, s, i, j)
        = [n \in 1 .. b - a |-> [pid |-> pid, cc |-> (x + n - 1) % m, n |-> a + n - 1]]
  BY <1>1, <1>2, <1>3, Zenon DEF Mp4!Carry
<1>5. ASSUME NEW n \in 1 .. b - a PROVE (x + n - 1) % m = (a + n - 1) % m
  <2>1. PICK l \in Nat : l = n - 1
    <3>1. n - 1 \in Nat
      BY <1>1
    <3> QED
      BY <3>1
  <2>2. x + n - 1 = x + l /\ a + n - 1 = a + l
    BY <2>1
  <2>3. ((a % m) + l) % m = (a + l) % m
    BY ModAdd
  <2> QED
    BY <1>3, <2>2, <2>3, Zenon
<1>6. [n \in 1 .. b - a |-> [pid |-> pid, cc |-> (x + n - 1) % m, n |-> a + n - 1]]
        = [n \in 1 .. b - a |-> [pid |-> pid, cc |-> (a + n - 1) % m, n |-> a + n - 1]]
  BY <1>5, Zenon
<1> QED
  BY <1>1, <1>2, <1>4, <1>6, Zenon DEF Run, Numbered

\* Runs that go on from each other, joined.
GoOn(ids, pid, N, ss, B) ==
  /\ pid \in Nat /\ N \in Nat /\ ss \in Seq(Seq(Mp4Packet)) /\ Len(ss) = N
  /\ B \in [0 .. N -> Nat]
  /\ \A k \in 1 .. N : B[k - 1] <= B[k] /\ PickedIn(ids, ss[k]) = Run(pid, B[k - 1], B[k])

LEMMA RunsJoined ==
  ASSUME NEW ids, NEW pid, NEW N, NEW ss, NEW B, GoOn(ids, pid, N, ss, B)
  PROVE  PickedIn(ids, Mp4!Flat(ss)) = Run(pid, B[0], B[N])
<1>0. GoOn(ids, pid, N, ss, B)
  OBVIOUS
<1> USE <1>0 DEF GoOn
<1>1. PICK F : JoinsOf(Mp4Packet, N, ss, F)
  BY FlatsOf, Zenon
<1>2. /\ F \in [0 .. N -> Seq(Mp4Packet)] /\ F[0] = <<>>
      /\ \A k \in 1 .. N : F[k] = F[k - 1] \o ss[k]
      /\ Mp4!Flat(ss) = F[N]
  BY <1>1 DEF JoinsOf
<1> DEFINE T == {k \in 0 .. N : PickedIn(ids, F[k]) = Run(pid, B[0], B[k])}
<1>3. 0 \in T
  <2>1. PickedIn(ids, <<>>) = <<>>
    <3>1. <<>> \in Seq(Mp4Packet) /\ \A i \in 1 .. Len(<<>>) : <<>>[i].pid \notin ids
      OBVIOUS
    <3> QED
      BY <3>1, PickedNone
  <2>2. B[0] \in Nat
    OBVIOUS
  <2>3. Run(pid, B[0], B[0]) = <<>>
    BY <2>2, RunEmpty
  <2>4. 0 \in 0 .. N
    OBVIOUS
  <2> QED
    BY <1>2, <2>1, <2>3, <2>4, Zenon
<1>4. ASSUME NEW k \in 1 .. N, k - 1 \in T PROVE k \in T
  <2>1. k \in 0 .. N /\ k - 1 \in 0 .. N /\ 0 \in 0 .. N
    OBVIOUS
  <2>2. PICK a \in Nat, b \in Nat, c \in Nat : a = B[0] /\ b = B[k - 1] /\ c = B[k]
    BY <2>1
  <2>3. b <= c
    BY <2>2
  <2>4. a <= b
    <3>1. B \in [0 .. N -> Int] /\ \A i \in 1 .. N : B[i - 1] <= B[i]
      OBVIOUS
    <3>2. k - 1 \in 0 .. N
      BY <2>1
    <3>3. B[0] <= B[k - 1]
      BY <2>1, <3>1, <3>2, Rises
    <3> QED
      BY <2>2, <3>3, Zenon
  <2>5. F[k - 1] \in Seq(Mp4Packet) /\ ss[k] \in Seq(Mp4Packet)
    <3>1. F[k - 1] \in Seq(Mp4Packet)
      BY <1>2, <2>1, Zenon
    <3>2. k \in 1 .. Len(ss)
      OBVIOUS
    <3>3. ss[k] \in Seq(Mp4Packet)
      BY <3>2
    <3> QED
      BY <3>1, <3>3
  <2>6. PickedIn(ids, F[k - 1] \o ss[k]) = PickedIn(ids, F[k - 1]) \o PickedIn(ids, ss[k])
    BY <2>5, PickedJoins
  <2>7. PickedIn(ids, F[k - 1]) = Run(pid, a, b) /\ PickedIn(ids, ss[k]) = Run(pid, b, c)
    BY <1>4, <2>2
  <2>8. Run(pid, a, b) \o Run(pid, b, c) = Run(pid, a, c)
    BY ONLY <2>3, <2>4, RunJoins, pid \in Nat, a \in Nat, b \in Nat, c \in Nat, ZenonT(40)
  <2>9. F[k] = F[k - 1] \o ss[k]
    BY <1>2
  <2> QED
    BY <2>1, <2>2, <2>6, <2>7, <2>8, <2>9, Zenon
<1>5. \A k \in 0 .. N : k \in T
  <2> HIDE DEF T
  <2> QED
    BY <1>3, <1>4, UpTo
<1>6. N \in T
  BY <1>5
<1> QED
  BY <1>2, <1>6


\* What else a block holds has other pids.
Ids == {Mp4!VIDEO_PID, Mp4!AUDIO1_PID, Mp4!AUDIO1_PID + 1, Mp4!CAPTION_PID}

LEMMA PickedOne ==
  ASSUME NEW ids \in SUBSET Ids, NEW pid \in {0, 16, 17, 18, 20, Mp4!PMT_PID, Mp4!PCR_PID},
         NEW cc \in Nat, NEW n \in Nat
  PROVE  PickedIn(ids, Mp4!One(pid, cc, n)) = <<>>
<1>1. pid \in Nat /\ pid \notin ids
  BY DEF Ids, Mp4!VIDEO_PID, Mp4!AUDIO1_PID, Mp4!CAPTION_PID, Mp4!PMT_PID, Mp4!PCR_PID
<1>2. PICK s \in Seq(Mp4Packet) : s = Mp4!One(pid, cc, n) /\ Len(s) = 1
  BY <1>1, OneTyped
<1>3. s[1].pid = pid
  BY <1>2 DEF Mp4!One
<1>4. \A i \in 1 .. Len(s) : s[i].pid \notin ids
  BY <1>1, <1>2, <1>3
<1> QED
  BY <1>2, <1>4, PickedNone

LEMMA PickedTables ==
  ASSUME NEW ids \in SUBSET Ids, NEW k \in Nat
  PROVE  PickedIn(ids, Mp4!OwnTables(k)) = <<>>
<1> DEFINE a == Mp4!One(0, k, k)
           b == Mp4!One(16, k, k)
           c == Mp4!One(17, k, k)
           d == Mp4!One(Mp4!PMT_PID, k, k)
           e == IF k % EitPeriod = EitPeriod - 1
                THEN Mp4!One(18, k \div EitPeriod, k \div EitPeriod) ELSE <<>>
           t == IF k % TotPeriod = 0
                THEN Mp4!One(20, k \div TotPeriod, k \div TotPeriod) ELSE <<>>
           None(s) == s \in Seq(Mp4Packet) /\ PickedIn(ids, s) = <<>>
<1>1. k \div EitPeriod \in Nat /\ k \div TotPeriod \in Nat
  BY Mp4Numbers, Parts
<1>2. \A pid \in {0, 16, 17, 18, 20, Mp4!PMT_PID, Mp4!PCR_PID} : \A cc, n \in Nat :
        None(Mp4!One(pid, cc, n))
  <2> SUFFICES ASSUME NEW pid \in {0, 16, 17, 18, 20, Mp4!PMT_PID, Mp4!PCR_PID},
                      NEW cc \in Nat, NEW n \in Nat
               PROVE  None(Mp4!One(pid, cc, n))
    OBVIOUS
  <2>1. pid \in Nat
    BY DEF Mp4!PMT_PID, Mp4!PCR_PID
  <2>2. Mp4!One(pid, cc, n) \in Seq(Mp4Packet)
    BY <2>1, OneTyped
  <2> QED
    BY <2>2, PickedOne
<1>3. None(<<>>)
  <2>1. <<>> \in Seq(Mp4Packet) /\ \A i \in 1 .. Len(<<>>) : <<>>[i].pid \notin ids
    OBVIOUS
  <2> QED
    BY <2>1, PickedNone
<1>4. ASSUME NEW s, NEW r, None(s), None(r) PROVE None(s \o r)
  <2>1. s \o r \in Seq(Mp4Packet)
    BY <1>4
  <2>2. PickedIn(ids, s \o r) = <<>> \o <<>>
    BY <1>4, PickedJoins
  <2>3. <<>> \o <<>> = <<>>
    OBVIOUS
  <2> QED
    BY <2>1, <2>2, <2>3, Zenon
<1> HIDE DEF None
<1>5. None(a) /\ None(b) /\ None(c) /\ None(d)
  BY <1>2
<1>6. None(e) /\ None(t)
  BY <1>1, <1>2, <1>3
<1>7. Mp4!OwnTables(k) = a \o b \o c \o d \o e \o t
  BY Zenon DEF Mp4!OwnTables
<1> HIDE DEF a, b, c, d, e, t
<1>8. None(a \o b)
  BY <1>4, <1>5
<1>9. None(a \o b \o c)
  BY <1>4, <1>5, <1>8
<1>10. None(a \o b \o c \o d)
  BY <1>4, <1>5, <1>9
<1>11. None(a \o b \o c \o d \o e)
  BY <1>4, <1>6, <1>10
<1>12. None(a \o b \o c \o d \o e \o t)
  BY <1>4, <1>6, <1>11
<1> QED
  BY <1>7, <1>12 DEF None

\* Of a run there is all, or nothing.
LEMMA PickedRun ==
  ASSUME NEW ids, NEW pid \in Nat, NEW a \in Nat, NEW b \in Nat, a <= b
  PROVE  PickedIn(ids, Run(pid, a, b)) = IF pid \in ids THEN Run(pid, a, b) ELSE <<>>
<1>1. IsRun(pid, a, b, Run(pid, a, b))
  BY RunTyped
<1>2. PICK s \in Seq(Mp4Packet) :
        s = Run(pid, a, b) /\ Len(s) = b - a
        /\ \A n \in 1 .. b - a : s[n] = Numbered(pid, a + n - 1)
  BY <1>1, Zenon DEF IsRun
<1>3. ASSUME NEW n \in 1 .. Len(s) PROVE s[n].pid = pid
  <2>1. s[n] = Numbered(pid, a + n - 1)
    BY <1>2, Zenon
  <2>2. Numbered(pid, a + n - 1).pid = pid
    BY DEF Numbered
  <2> QED
    BY <2>1, <2>2, Zenon
<1>4. CASE pid \in ids
  <2>1. PickedIn(ids, s) = s
    BY <1>3, <1>4, PickedAll
  <2> QED
    BY <1>2, <1>4, <2>1, Zenon
<1>5. CASE pid \notin ids
  <2>1. PickedIn(ids, s) = <<>>
    BY <1>3, <1>5, PickedNone
  <2> QED
    BY <1>2, <1>5, <2>1, Zenon
<1> QED
  BY <1>4, <1>5

LEMMA PickedOfRun ==
  \A pid \in Nat : \A a, b \in Nat : a <= b =>
    \A ids : PickedIn(ids, Run(pid, a, b)) = IF pid \in ids THEN Run(pid, a, b) ELSE <<>>
<1> SUFFICES ASSUME NEW pid \in Nat, NEW a \in Nat, NEW b \in Nat, a <= b, NEW ids
             PROVE  PickedIn(ids, Run(pid, a, b)) = IF pid \in ids THEN Run(pid, a, b) ELSE <<>>
  BY Zenon
<1> QED
  BY ONLY PickedRun, pid \in Nat, a \in Nat, b \in Nat, a <= b


\* What of a track, and of the captions, comes before block k.
Reach(f, i, k) == Mp4!Before(f.tracks[i].packs, Mp4!Passed(f.tracks[i], k))
Shown(f, k) == Mp4!Before(Mp4!Packs(f.captions), Mp4!CaptionsUpTo(f, k))

LEMMA ReachIs ==
  ASSUME NEW f \in Files, NEW i \in 1 .. Len(f.tracks), NEW k \in Nat
  PROVE  /\ Reach(f, i, k) \in Nat /\ Reach(f, i, k + 1) \in Nat
         /\ Reach(f, i, k) <= Reach(f, i, k + 1) /\ Reach(f, i, 0) = 0
<1>1. PICK t \in Timed : t = f.tracks[i]
  BY FileTyped
<1>2. PICK s \in Seq(Nat) : s = t.packs
  BY TrackTyped
<1>3. k + 1 \in Nat
  OBVIOUS
<1>4. /\ Mp4!Passed(t, k) \in 0 .. Len(s) /\ Mp4!Passed(t, k + 1) \in 0 .. Len(s)
      /\ Mp4!Passed(t, k) <= Mp4!Passed(t, k + 1) /\ Mp4!Passed(t, 0) = 0
  BY <1>2, <1>3, PassedTyped, PassedGrows
<1>5. PICK a \in 0 .. Len(s) : a = Mp4!Passed(t, k)
  BY <1>4
<1>6. PICK b \in a .. Len(s) : b = Mp4!Passed(t, k + 1)
  BY <1>4, <1>5
<1>7. /\ Mp4!Before(s, a) \in Nat /\ Mp4!Before(s, b) \in Nat
      /\ Mp4!Before(s, a) <= Mp4!Before(s, b) /\ Mp4!Before(s, 0) = 0
  BY BeforeTyped
<1>8. /\ Reach(f, i, k) = Mp4!Before(s, a) /\ Reach(f, i, k + 1) = Mp4!Before(s, b)
      /\ Reach(f, i, 0) = Mp4!Before(s, 0)
  BY <1>1, <1>2, <1>4, <1>5, <1>6, Zenon DEF Reach
<1> QED
  BY <1>7, <1>8, Zenon

LEMMA ShownIs ==
  ASSUME NEW f \in Files, NEW k \in Nat
  PROVE  /\ Shown(f, k) \in Nat /\ Shown(f, k + 1) \in Nat
         /\ Shown(f, k) <= Shown(f, k + 1)
         /\ Mp4!NoneEarly(f) => Shown(f, 0) = 0
<1>1. PICK s \in Seq(Nat) : s = Mp4!Packs(f.captions) /\ Len(s) = Len(f.captions)
  BY PacksTyped
<1>2. k + 1 \in Nat
  OBVIOUS
<1>3. /\ Mp4!CaptionsUpTo(f, k) \in 0 .. Len(s) /\ Mp4!CaptionsUpTo(f, k + 1) \in 0 .. Len(s)
      /\ Mp4!CaptionsUpTo(f, k) <= Mp4!CaptionsUpTo(f, k + 1)
      /\ Mp4!NoneEarly(f) => Mp4!CaptionsUpTo(f, 0) = 0
  BY <1>1, <1>2, CaptionsTyped
<1>4. PICK a \in 0 .. Len(s) : a = Mp4!CaptionsUpTo(f, k)
  BY <1>3
<1>5. PICK b \in a .. Len(s) : b = Mp4!CaptionsUpTo(f, k + 1)
  BY <1>3, <1>4
<1>6. /\ Mp4!Before(s, a) \in Nat /\ Mp4!Before(s, b) \in Nat
      /\ Mp4!Before(s, a) <= Mp4!Before(s, b) /\ Mp4!Before(s, 0) = 0
  BY BeforeTyped
<1>7. /\ Shown(f, k) = Mp4!Before(s, a) /\ Shown(f, k + 1) = Mp4!Before(s, b)
      /\ Mp4!NoneEarly(f) => Shown(f, 0) = Mp4!Before(s, 0)
  BY <1>1, <1>3, <1>4, <1>5, Zenon DEF Shown
<1> QED
  BY <1>6, <1>7, Zenon

LEMMA TracksAre ==
  ASSUME NEW f \in Files
  PROVE  \A i \in 1 .. Len(f.tracks) : i \in 1 .. 3
<1>1. PICK n \in 1 .. 3 : n = Len(f.tracks)
  BY FileTyped
<1>2. \A i \in 1 .. n : i \in 1 .. 3
  OBVIOUS
<1> QED
  BY <1>1, <1>2, Zenon

LEMMA PidsDiffer ==
  ASSUME NEW i \in 1 .. 3
  PROVE  /\ Mp4!TrackPid(i) \in Nat /\ Mp4!TrackPid(i) \in Ids
         /\ Mp4!TrackPid(i) # Mp4!CAPTION_PID /\ Mp4!CAPTION_PID \in Nat
         /\ \A j \in 1 .. 3 : j # i => Mp4!TrackPid(j) # Mp4!TrackPid(i)
BY DEF Ids, Mp4!TrackPid, Mp4!VIDEO_PID, Mp4!AUDIO1_PID, Mp4!CAPTION_PID

\* The samples of a block are those after the ones that came before it, and
\* its captions too.
LEMMA LotIs ==
  ASSUME NEW f \in Files, NEW k \in 0 .. Mp4!LastBlock(f), NEW i \in 1 .. Len(f.tracks)
  PROVE  Lots(f, ListOf4(f), k)[i]
           = Run(Mp4!TrackPid(i), Reach(f, i, k), Reach(f, i, k + 1))
<1>0. k \in Nat
  BY LastBlockIs, Mp4Numbers
<1>1. PICK t \in Timed : t = f.tracks[i]
  BY FileTyped
<1>2. PICK s \in Seq(Nat) : s = t.packs
  BY TrackTyped
<1>3. k + 1 \in Nat
  BY <1>0
<1>4. /\ Mp4!Passed(t, k) \in 0 .. Len(s) /\ Mp4!Passed(t, k + 1) \in 0 .. Len(s)
      /\ Mp4!Passed(t, k) <= Mp4!Passed(t, k + 1)
  BY <1>0, <1>2, <1>3, PassedTyped, PassedGrows
<1>5. PICK a \in 0 .. Len(s) : a = Mp4!Passed(t, k)
  BY <1>4
<1>6. PICK b \in a .. Len(s) : b = Mp4!Passed(t, k + 1)
  BY <1>4, <1>5
<1>7. PICK pid \in Nat : pid = Mp4!TrackPid(i)
  <2>1. i \in 1 .. 3
    BY TracksAre, Zenon
  <2> QED
    BY <2>1, PidsDiffer, SMTT(30)
<1>8. ListOf4(f)[k].counter[i] = Mp4!Before(s, a) % CcMod
  <2>1. ListOf4(f)[k].counter
          = [j \in 1 .. Len(f.tracks) |->
               Mp4!Before(f.tracks[j].packs, Mp4!Passed(f.tracks[j], k)) % CcMod]
    BY DEF ListOf4, Mp4!BlockList
  <2> QED
    BY <1>1, <1>2, <1>5, <2>1
<1>9. Lots(f, ListOf4(f), k)[i] = Mp4!Carry(pid, Mp4!Before(s, a) % CcMod, s, a, b)
  <2>1. Lots(f, ListOf4(f), k)[i]
          = Mp4!Carry(Mp4!TrackPid(i), ListOf4(f)[k].counter[i], f.tracks[i].packs,
                      Mp4!Passed(f.tracks[i], k), Mp4!Passed(f.tracks[i], k + 1))
    BY DEF Lots
  <2> QED
    BY <1>1, <1>2, <1>5, <1>6, <1>7, <1>8, <2>1, Zenon
<1>10. Mp4!Carry(pid, Mp4!Before(s, a) % CcMod, s, a, b)
         = Run(pid, Mp4!Before(s, a), Mp4!Before(s, b))
  BY CarryIsRun
<1>11. Reach(f, i, k) = Mp4!Before(s, a) /\ Reach(f, i, k + 1) = Mp4!Before(s, b)
  BY <1>1, <1>2, <1>5, <1>6, Zenon DEF Reach
<1> QED
  BY <1>7, <1>9, <1>10, <1>11, Zenon

LEMMA CaptionsRun ==
  ASSUME NEW f \in Files, Mp4!NoneEarly(f), NEW k \in 0 .. Mp4!LastBlock(f)
  PROVE  Mp4!Captions(f, ListOf4(f), k)
           = Run(Mp4!CAPTION_PID, Shown(f, k), Shown(f, k + 1))
<1>0. k \in Nat /\ k + 1 \in Nat
  BY LastBlockIs, Mp4Numbers
<1>1. PICK s \in Seq(Nat) : s = Mp4!Packs(f.captions) /\ Len(s) = Len(f.captions)
  BY PacksTyped
<1>2. /\ Mp4!CaptionsUpTo(f, k) \in 0 .. Len(s) /\ Mp4!CaptionsUpTo(f, k + 1) \in 0 .. Len(s)
      /\ Mp4!CaptionsUpTo(f, k) <= Mp4!CaptionsUpTo(f, k + 1)
      /\ Mp4!CaptionsPassed(f, k) = Mp4!CaptionsUpTo(f, k)
  BY <1>0, <1>1, CaptionsTyped
<1>3. PICK a \in 0 .. Len(s) : a = Mp4!CaptionsUpTo(f, k)
  BY <1>2
<1>4. PICK b \in a .. Len(s) : b = Mp4!CaptionsUpTo(f, k + 1)
  BY <1>2, <1>3
<1>5. PICK pid \in Nat : pid = Mp4!CAPTION_PID
  BY DEF Mp4!CAPTION_PID
<1>6. ListOf4(f)[k].counterC = Mp4!Before(s, a) % CcMod
  <2>1. ListOf4(f)[k].counterC
          = Mp4!Before(Mp4!Packs(f.captions), Mp4!CaptionsPassed(f, k)) % CcMod
    BY DEF ListOf4, Mp4!BlockList
  <2> QED
    BY <1>1, <1>2, <1>3, <2>1, Zenon
<1>7. Mp4!Captions(f, ListOf4(f), k) = Mp4!Carry(pid, Mp4!Before(s, a) % CcMod, s, a, b)
  BY <1>1, <1>3, <1>4, <1>5, <1>6, Zenon DEF Mp4!Captions
<1>8. Mp4!Carry(pid, Mp4!Before(s, a) % CcMod, s, a, b)
        = Run(pid, Mp4!Before(s, a), Mp4!Before(s, b))
  BY CarryIsRun
<1>9. Shown(f, k) = Mp4!Before(s, a) /\ Shown(f, k + 1) = Mp4!Before(s, b)
  BY <1>1, <1>3, <1>4, ZenonT(40) DEF Shown
<1> QED
  BY <1>5, <1>7, <1>8, <1>9, Zenon


\* Of the samples of a block there are those of the track, or none of captions.
LEMMA PickedSamples ==
  ASSUME NEW f \in Files, NEW k \in 0 .. Mp4!LastBlock(f), NEW i \in 1 .. Len(f.tracks)
  PROVE  PickedIn({Mp4!TrackPid(i)}, Mp4!Samples(f, ListOf4(f), k))
           = Run(Mp4!TrackPid(i), Reach(f, i, k), Reach(f, i, k + 1))
<1>0. k \in Nat
  BY LastBlockIs, Mp4Numbers
<1>1. PICK n : n \in 1 .. 3 /\ n = Len(f.tracks)
  BY FileTyped
<1>2. Counted(f, ListOf4(f)[k])
  BY ListIs
<1>3. PICK ss :
        /\ ss \in Seq(Seq(Mp4Packet)) /\ ss = Lots(f, ListOf4(f), k) /\ Len(ss) = n
        /\ Mp4!Samples(f, ListOf4(f), k) = Mp4!Flat(ss)
  BY <1>0, <1>1, <1>2, SamplesTyped
<1>4. PICK pid \in Nat : pid = Mp4!TrackPid(i)
  <2>1. i \in 1 .. 3
    BY TracksAre, Zenon
  <2> QED
    BY <2>1, PidsDiffer
<1>5. PICK a \in Nat, b \in Nat : a = Reach(f, i, k) /\ b = Reach(f, i, k + 1) /\ a <= b
  BY <1>0, ReachIs
<1>10. PICK ids : ids = {pid}
  OBVIOUS
<1>9. PICK B : B = [j \in 0 .. n |-> IF j < i THEN a ELSE b]
  OBVIOUS
<1>6. B \in [0 .. n -> Nat] /\ n \in Nat /\ B[0] = a /\ B[n] = b
  BY <1>1, <1>9
<1>7. ASSUME NEW j \in 1 .. n
      PROVE  B[j - 1] <= B[j] /\ PickedIn(ids, ss[j]) = Run(pid, B[j - 1], B[j])
  <2>1. j \in 1 .. Len(f.tracks) /\ j \in 1 .. 3 /\ i \in 1 .. 3 /\ j - 1 \in 0 .. n /\ j \in 0 .. n
    <3>1. j \in 1 .. Len(f.tracks)
      BY <1>1, Zenon
    <3>2. j \in 1 .. 3 /\ i \in 1 .. 3
      BY <3>1, TracksAre, Zenon
    <3>3. j - 1 \in 0 .. n /\ j \in 0 .. n
      BY <1>1
    <3> QED
      BY <3>1, <3>2, <3>3
  <2>2. PICK x \in Nat, y \in Nat, q \in Nat :
          x = Reach(f, j, k) /\ y = Reach(f, j, k + 1) /\ x <= y /\ q = Mp4!TrackPid(j)
    BY <1>0, <2>1, ReachIs, PidsDiffer
  <2>3. ss[j] = Run(q, x, y)
    BY <1>3, <2>1, <2>2, LotIs, SMTT(30)
  <2>4. PickedIn(ids, Run(q, x, y)) = IF q \in ids THEN Run(q, x, y) ELSE <<>>
    <3>1. x <= y
      BY <2>2
    <3> QED
      BY ONLY <3>1, PickedOfRun, q \in Nat, x \in Nat, y \in Nat
  <2>5. CASE j = i
    <3>1. B[j - 1] = a /\ B[j] = b /\ q = pid /\ x = a /\ y = b /\ q \in ids
      BY <1>9, <1>10, <1>4, <1>5, <2>1, <2>2, <2>5
    <3> QED
      BY <1>5, <2>3, <2>4, <3>1, Zenon
  <2>6. CASE j # i
    <3>1. B[j - 1] = B[j] /\ B[j] \in Nat
      BY <1>1, <1>9, <2>1, <2>6
    <3>2. q \notin ids
      BY <1>10, <1>4, <2>1, <2>2, <2>6, PidsDiffer
    <3>3. Run(pid, B[j], B[j]) = <<>>
      BY <3>1, RunEmpty
    <3>4. B[j] <= B[j]
      BY <3>1
    <3> QED
      BY <2>3, <2>4, <3>1, <3>2, <3>3, <3>4, ZenonT(40)
  <2> QED
    BY <2>5, <2>6
<1>8. PickedIn(ids, Mp4!Flat(ss)) = Run(pid, B[0], B[n])
  <2>1. GoOn(ids, pid, n, ss, B)
    BY <1>3, <1>4, <1>6, <1>7, ZenonT(40) DEF GoOn
  <2> QED
    BY ONLY <2>1, RunsJoined
<1> QED
  BY <1>3, <1>4, <1>5, <1>6, <1>8, <1>10, Zenon

LEMMA NoCaptionSamples ==
  ASSUME NEW f \in Files, NEW k \in 0 .. Mp4!LastBlock(f)
  PROVE  PickedIn({Mp4!CAPTION_PID}, Mp4!Samples(f, ListOf4(f), k)) = <<>>
<1>0. k \in Nat
  BY LastBlockIs, Mp4Numbers
<1>1. PICK n : n \in 1 .. 3 /\ n = Len(f.tracks)
  BY FileTyped
<1>2. Counted(f, ListOf4(f)[k])
  BY ListIs
<1>3. PICK ss :
        /\ ss \in Seq(Seq(Mp4Packet)) /\ ss = Lots(f, ListOf4(f), k) /\ Len(ss) = n
        /\ Mp4!Samples(f, ListOf4(f), k) = Mp4!Flat(ss)
  BY <1>0, <1>1, <1>2, SamplesTyped
<1>4. PICK pid \in Nat : pid = Mp4!CAPTION_PID
  BY DEF Mp4!CAPTION_PID
<1>10. PICK ids : ids = {pid}
  OBVIOUS
<1>11. PICK B : B = [j \in 0 .. n |-> 0]
  OBVIOUS
<1>6. B \in [0 .. n -> Nat] /\ n \in Nat /\ B[0] = 0 /\ B[n] = 0
  BY <1>1, <1>11
<1>7. ASSUME NEW j \in 1 .. n
      PROVE  B[j - 1] <= B[j] /\ PickedIn(ids, ss[j]) = Run(pid, B[j - 1], B[j])
  <2>1. j \in 1 .. Len(f.tracks) /\ j \in 1 .. 3 /\ j - 1 \in 0 .. n /\ j \in 0 .. n
    <3>1. j \in 1 .. Len(f.tracks)
      BY <1>1, Zenon
    <3>2. j \in 1 .. 3
      BY <3>1, TracksAre, Zenon
    <3>3. j - 1 \in 0 .. n /\ j \in 0 .. n
      BY <1>1
    <3> QED
      BY <3>1, <3>2, <3>3
  <2>2. PICK x \in Nat, y \in Nat, q \in Nat :
          x = Reach(f, j, k) /\ y = Reach(f, j, k + 1) /\ x <= y /\ q = Mp4!TrackPid(j)
    BY <1>0, <2>1, ReachIs, PidsDiffer
  <2>3. ss[j] = Run(q, x, y)
    BY <1>3, <2>1, <2>2, LotIs, SMTT(30)
  <2>4. PickedIn(ids, Run(q, x, y)) = IF q \in ids THEN Run(q, x, y) ELSE <<>>
    <3>1. x <= y
      BY <2>2
    <3> QED
      BY ONLY <3>1, PickedOfRun, q \in Nat, x \in Nat, y \in Nat
  <2>5. B[j - 1] = 0 /\ B[j] = 0
    BY <1>11, <2>1
  <2>6. q \notin ids
    BY <1>10, <1>4, <2>1, <2>2, PidsDiffer
  <2>7. Run(pid, 0, 0) = <<>>
    BY RunEmpty
  <2>8. B[j - 1] <= B[j]
    BY <2>5
  <2> QED
    BY <2>3, <2>4, <2>5, <2>6, <2>7, <2>8, Zenon
<1>8. PickedIn(ids, Mp4!Flat(ss)) = Run(pid, B[0], B[n])
  <2>1. GoOn(ids, pid, n, ss, B)
    BY <1>3, <1>4, <1>6, <1>7, Zenon DEF GoOn
  <2> QED
    BY ONLY <2>1, RunsJoined
<1>9. Run(pid, 0, 0) = <<>>
  BY RunEmpty
<1> QED
  BY <1>3, <1>4, <1>6, <1>8, <1>9, <1>10, Zenon

\* A block: the tables and the clock have other pids.
LEMMA PickedContents ==
  ASSUME NEW f \in Files, NEW k \in 0 .. Mp4!LastBlock(f), NEW ids \in SUBSET Ids
  PROVE  PickedIn(ids, Contents(f, ListOf4(f), k))
           = PickedIn(ids, Mp4!Samples(f, ListOf4(f), k))
             \o PickedIn(ids, Mp4!Captions(f, ListOf4(f), k))
<1>0. k \in Nat
  BY LastBlockIs, Mp4Numbers
<1>1. Counted(f, ListOf4(f)[k])
  BY ListIs
<1>2. PICK t \in Seq(Mp4Packet) : t = Mp4!OwnTables(k) /\ PickedIn(ids, t) = <<>>
  <2>1. Mp4!OwnTables(k) \in Seq(Mp4Packet)
    <3>1. [psi |-> <<>>].psi = <<>>
      OBVIOUS
    <3> QED
      BY <1>0, <3>1, TablesTyped
  <2> QED
    BY <1>0, <2>1, PickedTables
<1>3. PICK o \in Seq(Mp4Packet) : o = Mp4!One(Mp4!PCR_PID, 0, k) /\ PickedIn(ids, o) = <<>>
  <2>1. Mp4!PCR_PID \in Nat /\ 0 \in Nat
    BY DEF Mp4!PCR_PID
  <2>2. Mp4!One(Mp4!PCR_PID, 0, k) \in Seq(Mp4Packet)
    BY <1>0, <2>1, OneTyped
  <2>3. PickedIn(ids, Mp4!One(Mp4!PCR_PID, 0, k)) = <<>>
    BY <1>0, <2>1, PickedOne
  <2> QED
    BY <2>2, <2>3
<1>4. PICK s \in Seq(Mp4Packet) : s = Mp4!Samples(f, ListOf4(f), k)
  BY <1>0, <1>1, SamplesTyped
<1>5. PICK c \in Seq(Mp4Packet) : c = Mp4!Captions(f, ListOf4(f), k)
  BY <1>0, <1>1, CaptionsAre
<1>6. Contents(f, ListOf4(f), k) = ((t \o o) \o s) \o c
  BY <1>2, <1>3, <1>4, <1>5, Zenon DEF Contents
<1>7. t \o o \in Seq(Mp4Packet)
  BY JoinTyped
<1>8. (t \o o) \o s \in Seq(Mp4Packet)
  BY <1>7, JoinTyped
<1>9. PickedIn(ids, t \o o) = <<>>
  <2>1. PickedIn(ids, t \o o) = PickedIn(ids, t) \o PickedIn(ids, o)
    BY PickedJoins
  <2>2. <<>> \o <<>> = <<>>
    OBVIOUS
  <2> QED
    BY <1>2, <1>3, <2>1, <2>2, Zenon
<1>10. PickedIn(ids, (t \o o) \o s) = PickedIn(ids, s)
  <2>1. PickedIn(ids, (t \o o) \o s) = PickedIn(ids, t \o o) \o PickedIn(ids, s)
    BY <1>7, PickedJoins
  <2>2. PickedIn(ids, s) \in Seq(Mp4Packet)
    BY PickedTyped
  <2>3. <<>> \o PickedIn(ids, s) = PickedIn(ids, s)
    BY <2>2
  <2> QED
    BY <1>9, <2>1, <2>3, Zenon
<1>11. PickedIn(ids, ((t \o o) \o s) \o c) = PickedIn(ids, (t \o o) \o s) \o PickedIn(ids, c)
  BY <1>8, PickedJoins
<1> QED
  BY <1>4, <1>5, <1>6, <1>10, <1>11, Zenon

\* What fills a block up has a pid of its own too.
LEMMA PickedNulls ==
  ASSUME NEW ids \in SUBSET Ids, NEW n \in Nat
  PROVE  PickedIn(ids, Nulls(n)) = <<>>
<1>1. Nulls(n) \in Seq(Mp4Packet) /\ Len(Nulls(n)) = n
  BY NullsTyped
<1>2. Mp4!NULL_PID \notin ids
  BY DEF Ids, Mp4!VIDEO_PID, Mp4!AUDIO1_PID, Mp4!CAPTION_PID, Mp4!NULL_PID
<1>3. \A i \in 1 .. Len(Nulls(n)) : Nulls(n)[i].pid \notin ids
  BY <1>1, <1>2 DEF Nulls
<1> QED
  BY <1>1, <1>3, PickedNone

LEMMA PickedInBlock ==
  ASSUME NEW f \in Files, f.psi = <<>>, NEW k \in 0 .. Mp4!LastBlock(f) - 1,
         NEW ids \in SUBSET Ids
  PROVE  PickedIn(ids, BlocksOf(f)[k])
           = PickedIn(ids, Mp4!Samples(f, ListOf4(f), k))
             \o PickedIn(ids, Mp4!Captions(f, ListOf4(f), k))
<1>0. k \in 0 .. Mp4!LastBlock(f)
  BY LastBlockIs, Mp4Numbers
<1>1. PICK c \in Seq(Mp4Packet), n \in Nat :
        c = Contents(f, ListOf4(f), k) /\ n = Spare(f, k) /\ BlocksOf(f)[k] = c \o Nulls(n)
  BY ABlockIs
<1>2. Nulls(n) \in Seq(Mp4Packet)
  BY NullsTyped
<1>3. PickedIn(ids, c \o Nulls(n)) = PickedIn(ids, c) \o PickedIn(ids, Nulls(n))
  BY <1>2, PickedJoins
<1>4. PickedIn(ids, Nulls(n)) = <<>>
  BY PickedNulls
<1>5. PickedIn(ids, c) \o <<>> = PickedIn(ids, c)
  <2>1. PickedIn(ids, c) \in Seq(Mp4Packet)
    BY PickedTyped
  <2> QED
    BY <2>1
<1>6. PickedIn(ids, c)
        = PickedIn(ids, Mp4!Samples(f, ListOf4(f), k))
          \o PickedIn(ids, Mp4!Captions(f, ListOf4(f), k))
  BY <1>0, <1>1, PickedContents
<1> QED
  BY <1>1, <1>3, <1>4, <1>5, <1>6, Zenon

LEMMA NoneOfCaptions ==
  ASSUME NEW f \in Files, NEW k \in 0 .. Mp4!LastBlock(f), NEW pid, pid # Mp4!CAPTION_PID
  PROVE  PickedIn({pid}, Mp4!Captions(f, ListOf4(f), k)) = <<>>
<1>0. k \in Nat
  BY LastBlockIs, Mp4Numbers
<1>1. Counted(f, ListOf4(f)[k])
  BY ListIs
<1>2. PICK c \in Seq(Mp4Packet) : c = Mp4!Captions(f, ListOf4(f), k)
  BY <1>0, <1>1, CaptionsAre
<1>3. PICK m : c = [n \in 1 .. m |->
                      [pid |-> Mp4!CAPTION_PID,
                       cc |-> (ListOf4(f)[k].counterC + n - 1) % CcMod,
                       n |-> Mp4!Before(Mp4!Packs(f.captions), Mp4!CaptionsUpTo(f, k)) + n - 1]]
  BY <1>2, Zenon DEF Mp4!Captions, Mp4!Carry
<1>4. \A i \in DOMAIN c : c[i].pid = Mp4!CAPTION_PID
  BY <1>3
<1>5. \A i \in 1 .. Len(c) : c[i].pid \notin {pid}
  BY <1>4
<1> QED
  BY <1>2, <1>5, PickedNone

LEMMA PickedBlock ==
  ASSUME NEW f \in Files, f.psi = <<>>, NEW k \in 0 .. Mp4!LastBlock(f) - 1,
         NEW i \in 1 .. Len(f.tracks)
  PROVE  PickedIn({Mp4!TrackPid(i)}, BlocksOf(f)[k])
           = Run(Mp4!TrackPid(i), Reach(f, i, k), Reach(f, i, k + 1))
<1>0. k \in Nat /\ k \in 0 .. Mp4!LastBlock(f)
  BY LastBlockIs, Mp4Numbers
<1>1. i \in 1 .. 3
  BY TracksAre, Zenon
<1>2. PICK q \in Nat : q = Mp4!TrackPid(i) /\ q \in Ids /\ q # Mp4!CAPTION_PID
  BY <1>1, PidsDiffer, SMTT(30)
<1>3. PICK x \in Nat, y \in Nat : x = Reach(f, i, k) /\ y = Reach(f, i, k + 1) /\ x <= y
  BY <1>0, ReachIs
<1>4. PickedIn({q}, Mp4!Samples(f, ListOf4(f), k)) = Run(q, x, y)
  BY <1>0, <1>2, <1>3, PickedSamples, SMTT(30)
<1>5. PickedIn({q}, Mp4!Captions(f, ListOf4(f), k)) = <<>>
  BY <1>0, <1>2, NoneOfCaptions
<1>6. {q} \in SUBSET Ids
  BY <1>2
<1>7. PickedIn({q}, BlocksOf(f)[k]) = Run(q, x, y) \o <<>>
  BY <1>4, <1>5, <1>6, PickedInBlock
<1>8. Run(q, x, y) \o <<>> = Run(q, x, y)
  <2>1. IsRun(q, x, y, Run(q, x, y))
    BY <1>3, RunTyped
  <2>2. Run(q, x, y) \in Seq(Mp4Packet)
    BY <2>1, Zenon DEF IsRun
  <2> QED
    BY <2>2
<1> QED
  BY <1>2, <1>3, <1>7, <1>8, Zenon

LEMMA PickedCaptions ==
  ASSUME NEW f \in Files, f.psi = <<>>, Mp4!NoneEarly(f),
         NEW k \in 0 .. Mp4!LastBlock(f) - 1
  PROVE  PickedIn({Mp4!CAPTION_PID}, BlocksOf(f)[k])
           = Run(Mp4!CAPTION_PID, Shown(f, k), Shown(f, k + 1))
<1>0. k \in Nat /\ k \in 0 .. Mp4!LastBlock(f)
  BY LastBlockIs, Mp4Numbers
<1>1. PICK a \in Nat, b \in Nat, pid \in Nat :
        a = Shown(f, k) /\ b = Shown(f, k + 1) /\ a <= b /\ pid = Mp4!CAPTION_PID
  BY <1>0, ShownIs, SMTT(30) DEF Mp4!CAPTION_PID
<1>2. Mp4!Captions(f, ListOf4(f), k) = Run(pid, a, b)
  BY <1>0, <1>1, CaptionsRun
<1>3. PickedIn({pid}, Run(pid, a, b)) = Run(pid, a, b)
  <2>1. a <= b /\ pid \in {pid}
    BY <1>1
  <2> QED
    BY ONLY <2>1, PickedOfRun, pid \in Nat, a \in Nat, b \in Nat, Zenon
<1>4. PickedIn({pid}, Mp4!Samples(f, ListOf4(f), k)) = <<>>
  BY <1>0, <1>1, NoCaptionSamples
<1>5. {pid} \in SUBSET Ids
  BY <1>1 DEF Ids
<1>6. PickedIn({pid}, BlocksOf(f)[k]) = <<>> \o Run(pid, a, b)
  BY <1>2, <1>3, <1>4, <1>5, PickedInBlock
<1>7. <<>> \o Run(pid, a, b) = Run(pid, a, b)
  <2>1. IsRun(pid, a, b, Run(pid, a, b))
    BY <1>1, RunTyped
  <2>2. Run(pid, a, b) \in Seq(Mp4Packet)
    BY <2>1, Zenon DEF IsRun
  <2> QED
    BY <2>2
<1> QED
  BY <1>1, <1>6, <1>7, Zenon


\* What is picked of each block goes on from the one before: so in the stream.
GoesOn(f, ids, pid, N, B) ==
  /\ f \in Files /\ f.psi = <<>> /\ pid \in Nat /\ N = Mp4!LastBlock(f)
  /\ B \in [0 .. N -> Nat]
  /\ \A k \in 0 .. N - 1 :
       /\ B[k] <= B[k + 1]
       /\ PickedIn(ids, BlocksOf(f)[k]) = Run(pid, B[k], B[k + 1])

LEMMA StreamPicked ==
  ASSUME NEW f, NEW ids, NEW pid, NEW N, NEW B, GoesOn(f, ids, pid, N, B)
  PROVE  PickedIn(ids, DataOf(f)) = Run(pid, B[0], B[N])
<1>0. GoesOn(f, ids, pid, N, B)
  OBVIOUS
<1> USE <1>0 DEF GoesOn
<1>1. PICK L \in Nat : L = N
  BY BlocksTyped
<1>2. PICK C \in [0 .. L - 1 -> Seq(Mp4Packet)] : C = BlocksOf(f)
  BY <1>1, BlocksTyped
<1>3. PICK ss : ss = [k \in 1 .. L |-> C[k - 1]]
  OBVIOUS
<1>4. ss \in Seq(Seq(Mp4Packet)) /\ Len(ss) = L
  <2>1. ASSUME NEW k \in 1 .. L PROVE C[k - 1] \in Seq(Mp4Packet)
    <3>1. k - 1 \in 0 .. L - 1
      OBVIOUS
    <3> QED
      BY <3>1
  <2>2. ss \in [1 .. L -> Seq(Mp4Packet)]
    BY <1>3, <2>1
  <2> QED
    BY <2>2, ListOf
<1>5. DataOf(f) = Mp4!Flat(ss)
  BY <1>1, <1>2, <1>3, Zenon DEF DataOf
<1>6. ASSUME NEW k \in 1 .. L
      PROVE  B[k - 1] <= B[k] /\ PickedIn(ids, ss[k]) = Run(pid, B[k - 1], B[k])
  <2>1. PICK j \in 0 .. L - 1 : j = k - 1 /\ j + 1 = k
    <3>1. k - 1 \in 0 .. L - 1 /\ (k - 1) + 1 = k
      OBVIOUS
    <3> QED
      BY <3>1
  <2>2. B[j] <= B[j + 1] /\ PickedIn(ids, BlocksOf(f)[j]) = Run(pid, B[j], B[j + 1])
    BY <1>1
  <2>3. ss[k] = C[j]
    BY <1>3, <2>1
  <2> QED
    BY <1>2, <2>1, <2>2, <2>3, Zenon
<1>7. GoOn(ids, pid, L, ss, B)
  <2>1. B \in [0 .. L -> Nat]
    BY <1>1
  <2> QED
    BY <1>4, <1>6, <2>1, Zenon DEF GoOn
<1>8. PickedIn(ids, Mp4!Flat(ss)) = Run(pid, B[0], B[L])
  BY ONLY <1>7, RunsJoined
<1> QED
  BY <1>1, <1>5, <1>8, Zenon

LEMMA TrackPicked ==
  ASSUME NEW f \in Files, f.psi = <<>>, NEW i \in 1 .. Len(f.tracks)
  PROVE  PickedIn({Mp4!TrackPid(i)}, DataOf(f))
           = Run(Mp4!TrackPid(i), 0, Reach(f, i, Mp4!LastBlock(f)))
<1>1. PICK L \in Nat : L = Mp4!LastBlock(f)
  BY BlocksTyped
<1>2. PICK pid \in Nat : pid = Mp4!TrackPid(i)
  <2>1. i \in 1 .. 3
    BY TracksAre, Zenon
  <2> QED
    BY <2>1, PidsDiffer
<1>3. PICK B : B = [k \in 0 .. L |-> Reach(f, i, k)]
  OBVIOUS
<1>4. B \in [0 .. L -> Nat] /\ B[0] = 0 /\ B[L] = Reach(f, i, L)
  <2>1. \A k \in 0 .. L : Reach(f, i, k) \in Nat /\ Reach(f, i, 0) = 0
    <3> SUFFICES ASSUME NEW k \in 0 .. L
                 PROVE  Reach(f, i, k) \in Nat /\ Reach(f, i, 0) = 0
      OBVIOUS
    <3>1. k \in Nat
      OBVIOUS
    <3> QED
      BY <3>1, ReachIs
  <2>2. 0 \in 0 .. L /\ L \in 0 .. L
    OBVIOUS
  <2> QED
    BY <1>3, <2>1, <2>2
<1>5. \A k \in 0 .. L - 1 :
        /\ B[k] <= B[k + 1]
        /\ PickedIn({pid}, BlocksOf(f)[k]) = Run(pid, B[k], B[k + 1])
  <2> SUFFICES ASSUME NEW k \in 0 .. L - 1
               PROVE  /\ B[k] <= B[k + 1]
                      /\ PickedIn({pid}, BlocksOf(f)[k]) = Run(pid, B[k], B[k + 1])
    OBVIOUS
  <2>1. k \in Nat /\ k \in 0 .. L /\ k + 1 \in 0 .. L
    OBVIOUS
  <2>2. B[k] = Reach(f, i, k) /\ B[k + 1] = Reach(f, i, k + 1)
    BY <1>3, <2>1
  <2>3. Reach(f, i, k) <= Reach(f, i, k + 1)
    BY <2>1, ReachIs
  <2>4. PickedIn({Mp4!TrackPid(i)}, BlocksOf(f)[k])
          = Run(Mp4!TrackPid(i), Reach(f, i, k), Reach(f, i, k + 1))
    BY <1>1, PickedBlock
  <2> QED
    BY <1>2, <2>2, <2>3, <2>4, Zenon
<1>6. PickedIn({pid}, DataOf(f)) = Run(pid, B[0], B[L])
  <2>1. GoesOn(f, {pid}, pid, L, B)
    BY <1>1, <1>4, <1>5, ZenonT(40) DEF GoesOn
  <2> QED
    BY ONLY <2>1, StreamPicked
<1> QED
  BY <1>1, <1>2, <1>4, <1>6, Zenon

LEMMA CaptionsPicked ==
  ASSUME NEW f \in Files, f.psi = <<>>, Mp4!NoneEarly(f)
  PROVE  PickedIn({Mp4!CAPTION_PID}, DataOf(f))
           = Run(Mp4!CAPTION_PID, 0, Shown(f, Mp4!LastBlock(f)))
<1>1. PICK L \in Nat : L = Mp4!LastBlock(f)
  BY BlocksTyped
<1>2. PICK pid \in Nat : pid = Mp4!CAPTION_PID
  BY DEF Mp4!CAPTION_PID
<1>3. PICK B : B = [k \in 0 .. L |-> Shown(f, k)]
  OBVIOUS
<1>4. B \in [0 .. L -> Nat] /\ B[0] = 0 /\ B[L] = Shown(f, L)
  <2>1. \A k \in 0 .. L : Shown(f, k) \in Nat /\ Shown(f, 0) = 0
    BY ShownIs
  <2>2. 0 \in 0 .. L /\ L \in 0 .. L
    OBVIOUS
  <2> QED
    BY <1>3, <2>1, <2>2
<1>5. \A k \in 0 .. L - 1 :
        /\ B[k] <= B[k + 1]
        /\ PickedIn({pid}, BlocksOf(f)[k]) = Run(pid, B[k], B[k + 1])
  <2> SUFFICES ASSUME NEW k \in 0 .. L - 1
               PROVE  /\ B[k] <= B[k + 1]
                      /\ PickedIn({pid}, BlocksOf(f)[k]) = Run(pid, B[k], B[k + 1])
    OBVIOUS
  <2>1. k \in Nat /\ k \in 0 .. L /\ k + 1 \in 0 .. L
    OBVIOUS
  <2>2. B[k] = Shown(f, k) /\ B[k + 1] = Shown(f, k + 1)
    BY <1>3, <2>1
  <2>3. Shown(f, k) <= Shown(f, k + 1)
    BY <2>1, ShownIs
  <2>4. PickedIn({Mp4!CAPTION_PID}, BlocksOf(f)[k])
          = Run(Mp4!CAPTION_PID, Shown(f, k), Shown(f, k + 1))
    BY <1>1, PickedCaptions
  <2> QED
    BY <1>2, <2>2, <2>3, <2>4, Zenon
<1>6. PickedIn({pid}, DataOf(f)) = Run(pid, B[0], B[L])
  <2>1. GoesOn(f, {pid}, pid, L, B)
    BY <1>1, <1>4, <1>5, Zenon DEF GoesOn
  <2> QED
    BY ONLY <2>1, StreamPicked
<1> QED
  BY <1>1, <1>2, <1>4, <1>6, Zenon

\* A list that ends before its limit has passed every sample.
LEMMA AllReached ==
  ASSUME NEW f \in Files, Mp4!LastBlock(f) < BlockListMax - 1, NEW i \in 1 .. Len(f.tracks)
  PROVE  /\ Reach(f, i, Mp4!LastBlock(f)) = Mp4!Sum(f.tracks[i].packs)
         /\ Mp4!Sum(f.tracks[i].packs) \in Nat
<1>1. PICK L \in Nat : L = Mp4!LastBlock(f)
  BY LastBlockIs, Mp4Numbers
<1>2. AllPassed(f, L)
  <2>1. AllPassed(f, L) \/ L = BlockListMax - 1
    BY <1>1, LastBlockIs, Zenon
  <2> QED
    BY <1>1, <2>1, Mp4Numbers
<1>3. Mp4!Passed(f.tracks[i], L) = Len(f.tracks[i].packs)
  BY <1>2, Zenon DEF AllPassed
<1>4. Reach(f, i, L) = Mp4!Sum(f.tracks[i].packs)
  BY <1>3, Zenon DEF Reach, Mp4!Before, Mp4!Sum
<1>5. Reach(f, i, L) \in Nat
  BY ReachIs
<1> QED
  BY <1>1, <1>4, <1>5, Zenon

LEMMA WholeRun ==
  ASSUME NEW pid \in Nat, NEW total \in Nat, Mp4!Of(pid) = Run(pid, 0, total)
  PROVE  Mp4!Whole(pid, total, 0)
<1>1. IsRun(pid, 0, total, Run(pid, 0, total))
  BY RunTyped
<1>2. PICK s : s = Mp4!Of(pid)
  OBVIOUS
<1>3. Len(s) = total - 0 /\ \A n \in 1 .. total - 0 : s[n] = Numbered(pid, 0 + n - 1)
  BY <1>1, <1>2, Zenon DEF IsRun
<1>4. ASSUME NEW j \in 1 .. total
      PROVE  s[j].n = j - 1 /\ s[j].cc = (0 + j - 1) % CcMod
  <2>1. s[j] = Numbered(pid, j - 1) /\ 0 + j - 1 = j - 1
    <3>1. j \in 1 .. total - 0 /\ 0 + j - 1 = j - 1
      OBVIOUS
    <3> QED
      BY <1>3, <3>1, Zenon
  <2>2. Numbered(pid, j - 1).n = j - 1 /\ Numbered(pid, j - 1).cc = (j - 1) % CcMod
    BY DEF Numbered
  <2> QED
    BY <2>1, <2>2, Zenon
<1>5. Len(s) = total
  BY <1>3
<1> QED
  BY <1>2, <1>4, <1>5, Zenon DEF Mp4!Whole

LEMMA OfIs == \A pid : Mp4!Of(pid) = PickedIn({pid}, image)
  BY Zenon DEF Mp4!Of, Mp4!Picked, PickedIn, Bits

\* Zeros are nothing together.
LEMMA NoSum ==
  ASSUME NEW N \in Nat
  PROVE  Mp4!Sum([k \in 1 .. N |-> 0]) = 0
<1>1. PICK s : s = [k \in 1 .. N |-> 0]
  OBVIOUS
<1>2. s \in [1 .. N -> Nat]
  BY <1>1
<1>3. s \in Seq(Nat) /\ Len(s) = N
  BY <1>2, ListOf
<1>4. PICK G : G = [k \in 0 .. N |-> 0]
  OBVIOUS
<1>5. G \in [0 .. N -> Nat] /\ G[0] = 0 /\ G[N] = 0 /\ \A k \in 1 .. N : G[k] = G[k - 1] + s[k]
  BY <1>1, <1>4
<1>6. \A k \in 0 .. N : Mp4!Sums(s)[k] = G[k]
  BY <1>3, <1>5, SumsAre, ZenonT(40)
<1>7. Mp4!Sums(s)[N] = 0
  BY <1>5, <1>6
<1> QED
  BY <1>1, <1>3, <1>7, Zenon DEF Mp4!Sum

\* Everything is there, of a file that is as opened.
LEMMA EverythingMade ==
  ASSUME Mp4Inv, psiInfo.mapped = <<>>, Mp4!End < BlockListMax - 1
  PROVE  Mp4!AllMade
<1>1. mp4 \in Files /\ mp4.psi = <<>> /\ image = DataOf(mp4) /\ Mp4!End = Mp4!LastBlock(mp4)
  <2>1. Opened4 /\ image = DataOf(mp4)
    BY DEF Mp4Inv
  <2> QED
    BY <2>1, OpenedIs DEF Opened4, LastOf
<1>2. PICK f \in Files : f = mp4 /\ f.psi = <<>>
  BY <1>1
<1>3. PICK L \in Nat : L = Mp4!LastBlock(f) /\ Mp4!End = L
  BY <1>1, <1>2, BlocksTyped
<1>4. ASSUME NEW i \in 1 .. Len(f.tracks)
      PROVE  Mp4!Whole(Mp4!TrackPid(i), Mp4!Sum(f.tracks[i].packs), 0)
  <2>1. i \in 1 .. 3
    BY TracksAre, Zenon
  <2>2. PICK pid \in Nat : pid = Mp4!TrackPid(i)
    BY <2>1, PidsDiffer
  <2>3. Mp4!LastBlock(f) < BlockListMax - 1
    BY <1>3
  <2>4. PICK total \in Nat : total = Mp4!Sum(f.tracks[i].packs) /\ total = Reach(f, i, L)
    BY <1>3, <2>3, AllReached
  <2>5. Mp4!Of(pid) = Run(pid, 0, total)
    <3>1. PickedIn({Mp4!TrackPid(i)}, DataOf(f))
            = Run(Mp4!TrackPid(i), 0, Reach(f, i, Mp4!LastBlock(f)))
      BY <1>2, TrackPicked
    <3> QED
      BY <1>1, <1>2, <1>3, <2>2, <2>4, <3>1, OfIs, Zenon
  <2>6. Mp4!Whole(pid, total, 0)
    BY <2>5, WholeRun
  <2> QED
    BY <2>2, <2>4, <2>6, Zenon
<1>5. ASSUME Mp4!NoneEarly(f) PROVE Mp4!CaptionsMade
  <2>1. PICK pid \in Nat : pid = Mp4!CAPTION_PID
    BY DEF Mp4!CAPTION_PID
  <2>2. PICK total \in Nat : total = Shown(f, L)
    BY ShownIs
  <2>3. Mp4!Of(pid) = Run(pid, 0, total)
    <3>1. PickedIn({Mp4!CAPTION_PID}, DataOf(f))
            = Run(Mp4!CAPTION_PID, 0, Shown(f, Mp4!LastBlock(f)))
      BY <1>2, <1>5, CaptionsPicked
    <3> QED
      BY <1>1, <1>2, <1>3, <2>1, <2>2, <3>1, OfIs, Zenon
  <2>4. Mp4!Whole(pid, total, 0)
    BY <2>3, WholeRun
  <2> QED
    BY <1>2, <1>3, <2>1, <2>2, <2>4, Zenon DEF Shown, Mp4!CaptionsMade
<1>6. DOMAIN psiInfo.mapped = {}
  <2>1. DOMAIN <<>> = {}
    OBVIOUS
  <2> QED
    BY <2>1, Zenon
<1>7. {psiInfo.mapped[p] : p \in DOMAIN psiInfo.mapped} = {}
  BY <1>6
<1>8. Mp4!Picked({}) = <<>>
  <2>1. Mp4!Picked({}) = PickedIn({}, image)
    BY Zenon DEF Mp4!Picked, PickedIn, Bits
  <2>2. image \in Seq(Mp4Packet)
    BY <1>1, <1>2, DataIs, Zenon
  <2>3. PickedIn({}, image) = <<>>
    BY <2>2, PickedNone
  <2> QED
    BY <2>1, <2>3, Zenon
<1>9. Mp4!Sum([k \in 1 .. L |-> Mp4!CountSections(mp4).size[k - 1]]) = 0
  <2>1. Mp4!CountSections(mp4).size = [k \in 0 .. L |-> 0]
    BY <1>1, <1>2, <1>3, NoSections DEF NoneCounted
  <2>2. [k \in 1 .. L |-> Mp4!CountSections(mp4).size[k - 1]] = [k \in 1 .. L |-> 0]
    BY <2>1
  <2> QED
    BY <2>2, NoSum, Zenon
<1>10. Len(Mp4!Picked({psiInfo.mapped[p] : p \in DOMAIN psiInfo.mapped})) = 0
  <2>1. Len(<<>>) = 0
    OBVIOUS
  <2> QED
    BY <1>7, <1>8, <2>1, Zenon
<1>11. \A p \in DOMAIN psiInfo.mapped :
         Mp4!Whole(psiInfo.mapped[p], Len(Mp4!Of(psiInfo.mapped[p])), 1)
  BY <1>6
<1> QED
  BY <1>2, <1>3, <1>4, <1>5, <1>9, <1>10, <1>11, Zenon DEF Mp4!AllMade


\* Nothing that is opened with the file changes while it is read.
LEMMA Mp4Stays == ASSUME Mp4!Next PROVE mp4' = mp4 /\ psiInfo' = psiInfo
<1>1. ASSUME NEW p, Mp4!SetPointer(p) PROVE mp4' = mp4 /\ psiInfo' = psiInfo
  BY <1>1 DEF Mp4!SetPointer
<1>2. ASSUME NEW n, Mp4!Read(n) PROVE mp4' = mp4 /\ psiInfo' = psiInfo
  BY <1>2, Zenon DEF Mp4!Read, Mp4!Becomes
<1>3. CASE Mp4!Seek
  <2>1. PICK p : Mp4!SetPointer(p)
    BY <1>3, Zenon DEF Mp4!Seek
  <2> QED
    BY <1>1, <2>1, Zenon
<1>4. CASE Mp4!Move
  <2>1. PICK p : Mp4!SetPointer(p)
    BY <1>4, Zenon DEF Mp4!Move
  <2> QED
    BY <1>1, <2>1, Zenon
<1> QED
  BY <1>2, <1>3, <1>4, Zenon DEF Mp4!Next

\* The remultiplexing loses and repeats nothing (InitializeBlockList against
\* ReadCurrentBlock): of an MP4 file without an archive the blocks together hold
\* every sample of every track once and in order, whatever captions there are,
\* and continuity counters that go on from block to block, whatever the sample
\* times, the time scales and where the blocks' boundaries fall between the
\* samples; and, unless a caption is earlier than CAPTION_FORWARD_MSEC, every
\* caption up to what the last block looks forward to, likewise.  With such a
\* caption it is lost and the counter of the captions jumps (CaptionsMade is false).
\* A file too long for the list of blocks is cut there.
THEOREM AllIsMade ==
  Spec => [](kind = "mp4" /\ mp4.psi = <<>> /\ Mp4!End < BlockListMax - 1 => AllMade)
<1> DEFINE I == kind = "mp4" /\ mp4.psi = <<>> => Mp4Inv /\ psiInfo.mapped = <<>>
           A == kind = "mp4" /\ mp4.psi = <<>> /\ Mp4!End < BlockListMax - 1 => AllMade
<1>1. Init => I
  <2> SUFFICES ASSUME Init, kind = "mp4", mp4.psi = <<>>
               PROVE  Mp4Inv /\ psiInfo.mapped = <<>>
    OBVIOUS
  <2>1. Mp4!Init
    BY DEF Init
  <2>2. Mp4Inv
    BY <2>1, Mp4Init
  <2>3. Mp4!CountSections(mp4) = NoneCounted(mp4)
    BY NoSections
  <2>4. psiInfo.mapped = <<>>
    BY <2>1, <2>3 DEF Mp4!Init, Mp4!Lists, NoneCounted
  <2> QED
    BY <2>2, <2>4
<1>2. I /\ [Next]_vars => I'
  <2> SUFFICES ASSUME I, [Next]_vars, kind' = "mp4", mp4'.psi = <<>>
               PROVE  Mp4Inv' /\ psiInfo'.mapped = <<>>
    OBVIOUS
  <2>1. CASE Next
    <3>1. kind = "mp4" /\ Mp4!Next
      BY <2>1 DEF Next
    <3>2. mp4' = mp4 /\ psiInfo' = psiInfo
      BY <3>1, Mp4Stays
    <3>3. Mp4Inv /\ psiInfo.mapped = <<>>
      BY <3>1, <3>2
    <3> QED
      BY <3>1, <3>2, <3>3, NextIsPlain4
  <2>2. CASE UNCHANGED vars
    <3>1. /\ kind' = kind /\ image' = image /\ psiInfo' = psiInfo
          /\ mp4' = mp4 /\ blockList' = blockList /\ blk' = blk /\ cache' = cache /\ ptr' = ptr
      BY <2>2 DEF vars, forMp4, read
    <3>2. Mp4Inv /\ psiInfo.mapped = <<>>
      BY <3>1
    <3>3. Mp4Inv'
      BY <3>1, <3>2, Zenon DEF Mp4Inv, Opened4, Stands, LastOf
    <3> QED
      BY <3>1, <3>2, <3>3
  <2> QED
    BY <2>1, <2>2
<1>3. I => A
  BY EverythingMade DEF AllMade
<1> QED
  BY <1>1, <1>2, <1>3, PTL DEF Spec
=============================================================================
