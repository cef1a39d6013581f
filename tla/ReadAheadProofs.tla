----------------------------- MODULE ReadAheadProofs -----------------------------
(***************************************************************************)
(* Proofs about ReadAhead for every number and size of buffers and every   *)
(* file.  The invariant says who may touch the file (Phases) and that the  *)
(* buffers read ahead follow each other up to the file's pointer           *)
(* (Chained); from it follows that reading ahead implements the sequential *)
(* reader.                                                                 *)
(***************************************************************************)
EXTENDS ReadAhead, WellFoundedInduction, TLAPS

\* The bytes of k full buffers.
Full(k) == B * k

LEMMA Sizes == N \in Nat /\ N >= 1 /\ B \in Nat /\ B >= 1 /\ FileMax \in Nat
  BY ReadAheadAssumption

LEMMA FullBasics ==
  /\ Full(0) = 0
  /\ \A k \in Nat : Full(k) \in Nat /\ Full(k + 1) = Full(k) + B
  BY Sizes DEF Full

LEMMA FullGrows == ASSUME NEW j \in Nat, NEW k \in Nat, j <= k PROVE Full(j) <= Full(k)
<1>1. B * (k - j) \in Nat
  BY Sizes
<1>2. B * k = B * j + B * (k - j)
  BY Sizes
<1> QED BY <1>1, <1>2, Sizes DEF Full

LEMMA RewindSizeIs == RewindSize = Full(N + 1) /\ RewindSize \in Nat
  BY Sizes DEF RewindSize, Full

Types ==
  /\ queue \in [Slots -> Buffers] /\ tail \in 0 .. N /\ rewind \in Nat
  /\ fp \in Nat /\ low \in Nat /\ size \in Nat

States ==
  /\ con \in {"idle", "stop", "join", "flush", "sync", "seek"}
  /\ next \in {"none", "sync", "seek"}
  /\ started \in BOOLEAN /\ stop \in BOOLEAN /\ event \in BOOLEAN /\ fRead \in BOOLEAN
  /\ at \in {"none", "wait", "woken", "fill"} /\ dry \in BOOLEAN

\* Which steps of the two threads can coincide.
Phases ==
  /\ ~started => con = "idle" /\ at = "none" /\ tail = 0
  /\ con # "flush" => rewind = 0
  /\ con \in {"sync", "seek"} => tail = 0 /\ ~fRead
  /\ at = "fill" => fRead /\ tail < N /\ con # "flush"
  /\ started /\ con \notin {"stop", "join"} => ~stop

\* The buffers read ahead follow each other and end at the file's pointer.
Chained ==
  /\ \A i, j \in 1 .. tail :
       i <= j => /\ queue[i].from <= queue[j].from
                 /\ queue[j].from <= queue[i].from + Full(j - i)
  /\ \A i \in 1 .. tail : i < tail => queue[i + 1].from = queue[i].from + queue[i].len
  /\ tail > 0 => queue[tail].from + queue[tail].len = fp - rewind

\* The position lies within what the file keeps.
Kept == low <= Position /\ Position <= fp - rewind

RInv == Types /\ States /\ Phases /\ Chained /\ Kept

\* Buffers read ahead lie within their number of buffers before the pointer.
LEMMA PositionNear ==
  ASSUME Types, Chained
  PROVE  /\ Position <= fp - rewind /\ fp - rewind <= Position + Full(tail)
         /\ tail > 0 => Position = queue[1].from
<1>1. CASE tail = 0
  BY <1>1, FullBasics, Sizes DEF Types, Position
<1>2. CASE tail > 0
  <2>1. tail \in 1 .. N /\ 1 \in 1 .. tail /\ tail \in 1 .. tail /\ tail - 1 \in Nat
    BY <1>2, Sizes DEF Types
  <2>2. queue[1] \in Buffers /\ queue[tail] \in Buffers
    BY <2>1, Sizes DEF Types, Slots
  <2>3. queue[1].from <= queue[tail].from /\ queue[tail].from <= queue[1].from + Full(tail - 1)
    BY <2>1 DEF Chained
  <2>4. Full(tail) = Full(tail - 1) + B /\ Full(tail - 1) \in Nat
    <3>1. Full((tail - 1) + 1) = Full(tail - 1) + B /\ Full(tail - 1) \in Nat
      BY <2>1, FullBasics
    <3>2. (tail - 1) + 1 = tail
      BY <2>1
    <3> QED BY <3>1, <3>2
  <2>5. queue[tail].from + queue[tail].len = fp - rewind /\ queue[tail].len <= B
    BY <1>2, <2>2, Sizes DEF Chained, Buffers
  <2> QED
    BY <1>2, <2>2, <2>3, <2>4, <2>5, Sizes DEF Position, Buffers, Types
<1> QED BY <1>1, <1>2 DEF Types

-----------------------------------------------------------------------------
LEMMA RInvInit == Init => RInv
<1> SUFFICES ASSUME Init PROVE RInv
  OBVIOUS
<1> USE Sizes DEF Init
<1>1. Types /\ Position = 0
  BY DEF Types, Slots, Buffers, Empty, Position
<1>2. States
  BY DEF States
<1>3. Phases /\ Chained /\ Kept
  BY <1>1 DEF Phases, Chained, Kept, Idle
<1> QED BY <1>1, <1>2, <1>3 DEF RInv

\* The parts that concern data survive what leaves the data alone.
data == <<queue, tail, rewind, fp, low, size>>

LEMMA DataFrame ==
  ASSUME Types, Chained, Kept, UNCHANGED data
  PROVE  Types' /\ Chained' /\ Kept' /\ Position' = Position
<1>1. Position' = Position
  BY DEF Position, data
<1> QED
  BY <1>1 DEF Types, Chained, Kept, data

LEMMA EmptyIsBuffer == Empty \in Buffers
  BY Sizes DEF Empty, Buffers

LEMMA MinusZero == \A x \in Int : x - 0 = x
  OBVIOUS

\* With nothing read ahead the position is the file's pointer.
LEMMA NothingAheadNext ==
  ASSUME queue' \in [Slots -> Buffers], tail' = 0, rewind' = 0,
         fp' \in Nat, low' \in Nat, size' \in Nat, low' <= fp'
  PROVE  Types' /\ Chained' /\ Kept' /\ Position' = fp'
<1>1. Position' = fp'
  <2>1. ~(tail' > 0)
    OBVIOUS
  <2>2. Position' = fp' - rewind'
    BY <2>1, Zenon DEF Position
  <2>3. fp' \in Int
    OBVIOUS
  <2>4. fp' - rewind' = fp'
    BY <2>3, MinusZero, Zenon
  <2> QED BY <2>2, <2>4, Zenon
<1>2. Types'
  BY Sizes DEF Types
<1>3. Chained'
  BY DEF Chained
<1>4. Kept'
  <2>1. fp' \in Int /\ fp' <= fp'
    OBVIOUS
  <2>2. fp' - rewind' = fp'
    BY <2>1, MinusZero, Zenon
  <2> QED BY <1>1, <2>1, <2>2, Zenon DEF Kept
<1> QED
  BY <1>1, <1>2, <1>3, <1>4

\* A read of the file advances its pointer and forgets nothing in front of it.
LEMMA FileReadIs ==
  ASSUME Types, NEW n, FileRead(n), low <= fp
  PROVE  /\ n \in 0 .. B /\ fp' = fp + n /\ fp' \in Nat /\ low' \in Nat /\ size' \in Nat
         /\ low' <= fp /\ (low' = low \/ low' = fp - RewindSize)
<1>1. n \in 0 .. B /\ fp' = fp + n /\ size' = size
  BY DEF FileRead
<1>2. low' = low \/ (low' = fp - RewindSize /\ low' > low)
  BY DEF FileRead
<1> QED
  BY <1>1, <1>2, Sizes, RewindSizeIs DEF Types

\* A read into the sender's buffer when nothing is read ahead.
LEMMA DirectRead ==
  ASSUME RInv, tail = 0, con # "flush", NEW n, FileRead(n),
         queue' = [queue EXCEPT ![N + 1] = [from |-> fp, len |-> n]],
         tail' = tail, rewind' = rewind
  PROVE  /\ Types' /\ Chained' /\ Kept' /\ Position' = fp + n /\ Position = fp
         /\ queue'[N + 1] = [from |-> fp, len |-> n] /\ n \in 0 .. B
<1>1. Position = fp /\ low <= fp /\ rewind = 0
  BY DEF RInv, Phases, Kept, Position, Types
<1>2. /\ n \in 0 .. B /\ fp' = fp + n /\ fp' \in Nat /\ low' \in Nat /\ size' \in Nat
      /\ low' <= fp
  BY <1>1, FileReadIs DEF RInv
<1>3. [from |-> fp, len |-> n] \in Buffers /\ N + 1 \in Slots
  BY <1>2, Sizes DEF Buffers, Slots, RInv, Types
<1>4. queue' \in [Slots -> Buffers] /\ queue'[N + 1] = [from |-> fp, len |-> n]
  BY <1>3 DEF RInv, Types
<1>5. /\ queue' \in [Slots -> Buffers] /\ tail' = 0 /\ rewind' = 0
      /\ fp' \in Nat /\ low' \in Nat /\ size' \in Nat /\ low' <= fp'
  BY <1>1, <1>2, <1>4 DEF RInv, Types
<1> QED BY <1>1, <1>2, <1>4, <1>5, NothingAheadNext

-----------------------------------------------------------------------------
(* The actions that change data *)

LEMMA StartData ==
  ASSUME RInv, Start PROVE Types' /\ Chained' /\ Kept'
<1>1. tail = 0 /\ rewind = 0
  BY DEF RInv, Phases, Start
<1>2. low <= fp
  BY <1>1 DEF RInv, Kept, Position, Types
<1>3. queue' \in [Slots -> Buffers]
  BY EmptyIsBuffer DEF Start
<1>4. /\ queue' \in [Slots -> Buffers] /\ tail' = 0 /\ rewind' = 0
      /\ fp' \in Nat /\ low' \in Nat /\ size' \in Nat /\ low' <= fp'
  BY <1>1, <1>2, <1>3 DEF Start, RInv, Types, file
<1> QED BY <1>4, NothingAheadNext

LEMMA JoinedData ==
  ASSUME RInv, Joined PROVE Types' /\ Chained' /\ Kept'
<1>1. rewind = 0
  BY DEF RInv, Phases, Joined
<1>2. low <= fp
  <2>1. Position \in Int
    BY <1>1, Sizes DEF RInv, Types, Position, Slots, Buffers
  <2> QED BY <1>1, <2>1 DEF RInv, Kept, Types
<1>3. queue' \in [Slots -> Buffers]
  BY EmptyIsBuffer DEF Joined
<1>4. /\ queue' \in [Slots -> Buffers] /\ tail' = 0 /\ rewind' = 0
      /\ fp' \in Nat /\ low' \in Nat /\ size' \in Nat /\ low' <= fp'
  BY <1>1, <1>2, <1>3 DEF Joined, RInv, Types, file
<1> QED BY <1>4, NothingAheadNext

LEMMA ProbeData ==
  ASSUME RInv, Probe PROVE Types' /\ Chained' /\ Kept'
<1>1. tail = 0 /\ rewind = 0
  BY DEF RInv, Phases, Probe
<1>2. /\ queue' \in [Slots -> Buffers] /\ tail' = 0 /\ rewind' = 0
      /\ fp' \in Nat /\ low' \in Nat /\ size' \in Nat /\ low' <= fp'
  BY <1>1 DEF Probe, RInv, Types
<1> QED BY <1>2, NothingAheadNext

LEMMA SeekData ==
  ASSUME RInv, Seek PROVE Types' /\ Chained' /\ Kept'
<1>1. tail = 0 /\ rewind = 0
  BY DEF RInv, Phases, Seek
<1>2. /\ queue' \in [Slots -> Buffers] /\ tail' = 0 /\ rewind' = 0
      /\ fp' \in Nat /\ low' \in Nat /\ size' \in Nat /\ low' <= fp'
  BY <1>1 DEF Seek, RInv, Types
<1> QED BY <1>2, NothingAheadNext

\* Flush goes back over everything that was read ahead.
LEMMA FlushEndData ==
  ASSUME RInv, FlushEnd
  PROVE  Types' /\ Chained' /\ Kept' /\ fp' = Position /\ Position' = Position /\ fp - rewind >= low
<1>1. tail = 0 /\ Position = fp - rewind
  BY DEF FlushEnd, Position
<1>2. low <= fp - rewind
  BY <1>1 DEF RInv, Kept
<1>3. fp - rewind \in Int /\ fp - rewind >= low
  BY <1>2 DEF RInv, Types
<1>4. fp' = fp - rewind
  BY <1>3 DEF FlushEnd, Rewound
<1>5. /\ queue' \in [Slots -> Buffers] /\ tail' = 0 /\ rewind' = 0
      /\ fp' \in Nat /\ low' \in Nat /\ size' \in Nat /\ low' <= fp'
  BY <1>1, <1>3, <1>4 DEF FlushEnd, RInv, Types
<1> QED BY <1>1, <1>3, <1>4, <1>5, NothingAheadNext

\* One turn of Flush gives back the last buffer and counts its bytes.
LEMMA FlushOneData ==
  ASSUME RInv, FlushOne
  PROVE  Types' /\ Chained' /\ Kept' /\ Position' = Position
<1>1. tail \in 1 .. N /\ tail' = tail - 1 /\ tail' \in 0 .. N /\ tail \in Slots
  BY Sizes DEF FlushOne, RInv, Types, Slots
<1>2. queue[tail] \in Buffers /\ rewind' = rewind + queue[tail].len
  BY <1>1 DEF FlushOne, RInv, Types
<1>3. queue[tail].from \in Nat /\ queue[tail].len \in Nat /\ rewind \in Nat
  BY <1>2, Sizes DEF Buffers, RInv, Types
<1>4. rewind' \in Nat /\ fp' = fp /\ low' = low /\ size' = size
  BY <1>2, <1>3 DEF FlushOne, file
<1>5. queue' \in [Slots -> Buffers]
  BY EmptyIsBuffer DEF FlushOne, RInv, Types
<1>6. \A i \in 1 .. tail' : queue'[i] = queue[i] /\ i \in 1 .. tail
  BY <1>1 DEF FlushOne, RInv, Types, Slots
<1>7. Types'
  BY <1>1, <1>4, <1>5 DEF RInv, Types
<1>8. queue[tail].from + queue[tail].len = fp - rewind
  BY <1>1 DEF RInv, Chained
<1>9. queue[tail].from = fp' - rewind'
  BY <1>2, <1>3, <1>4, <1>8 DEF RInv, Types
<1>10. Chained'
  <2>1. \A i, j \in 1 .. tail' :
          i <= j => /\ queue'[i].from <= queue'[j].from
                    /\ queue'[j].from <= queue'[i].from + Full(j - i)
    BY <1>6 DEF RInv, Chained
  <2>2. \A i \in 1 .. tail' : i < tail' => queue'[i + 1].from = queue'[i].from + queue'[i].len
    <3>1. SUFFICES ASSUME NEW i \in 1 .. tail', i < tail'
                   PROVE queue'[i + 1].from = queue'[i].from + queue'[i].len
      OBVIOUS
    <3>2. i + 1 \in 1 .. tail' /\ i < tail
      BY <1>1, <3>1
    <3> QED BY <1>6, <3>1, <3>2 DEF RInv, Chained
  <2>3. tail' > 0 => queue'[tail'].from + queue'[tail'].len = fp' - rewind'
    <3>1. SUFFICES ASSUME tail' > 0 PROVE queue'[tail'].from + queue'[tail'].len = fp' - rewind'
      OBVIOUS
    <3>2. tail' \in 1 .. tail' /\ tail' \in 1 .. tail /\ tail' < tail /\ tail' + 1 = tail
      BY <1>1, <3>1
    <3>3. queue[tail' + 1].from = queue[tail'].from + queue[tail'].len
      BY <3>2 DEF RInv, Chained
    <3> QED BY <1>6, <1>9, <3>2, <3>3
  <2> QED BY <2>1, <2>2, <2>3 DEF Chained
<1>11. Position' = Position
  <2>1. CASE tail' = 0
    <3>1. tail = 1
      BY <1>1, <2>1
    <3>2. Position = queue[1].from
      BY <3>1 DEF Position
    <3>3. ~(tail' > 0)
      BY <2>1
    <3>4. Position' = fp' - rewind'
      BY <3>3, Zenon DEF Position
    <3> QED BY <3>1, <3>2, <3>4, <1>9
  <2>2. CASE tail' > 0
    <3>1. 1 \in 1 .. tail' /\ tail > 0
      BY <1>1, <2>2
    <3>2. Position = queue[1].from
      BY <3>1, Zenon DEF Position
    <3>3. Position' = queue'[1].from
      BY <2>2, Zenon DEF Position
    <3> QED BY <1>6, <3>1, <3>2, <3>3
  <2> QED BY <2>1, <2>2, <1>1
<1>12. Kept'
  <2>1. tail > 0 /\ 1 \in 1 .. tail /\ tail \in 1 .. tail /\ 1 <= tail
    BY <1>1
  <2>2. queue[1].from <= queue[tail].from
    BY <2>1 DEF RInv, Chained
  <2>3. Position = queue[1].from
    BY <2>1, Zenon DEF Position
  <2>4. Position <= fp' - rewind'
    BY <1>9, <2>2, <2>3
  <2>5. low <= Position
    BY DEF RInv, Kept
  <2> QED BY <1>4, <1>11, <2>4, <2>5 DEF Kept
<1> QED BY <1>7, <1>10, <1>11, <1>12

\* A queued read gives the sender the buffer that begins at its position.
LEMMA ReadQueuedData ==
  ASSUME RInv, ReadQueued
  PROVE  /\ Types' /\ Chained' /\ Kept' /\ queue'[N + 1] = queue[1] /\ queue[1] \in Buffers
         /\ Position = queue[1].from /\ Position' = Position + queue[1].len
<1>1. /\ tail \in 1 .. N /\ tail' = tail - 1 /\ tail' \in 0 .. N /\ 1 \in Slots /\ N + 1 \in Slots
      /\ tail > 0
  BY Sizes DEF ReadQueued, RInv, Types, Slots
<1>2. rewind' = rewind /\ rewind = 0 /\ fp' = fp /\ low' = low /\ size' = size
  BY DEF ReadQueued, RInv, Phases, file, Idle
<1>3. queue' \in [Slots -> Buffers]
  <2>1. \A i \in Slots : i # N + 1 /\ i # N => i + 1 \in Slots
    BY Sizes DEF Slots
  <2> QED BY <1>1, <2>1, EmptyIsBuffer DEF ReadQueued, RInv, Types
<1>4. queue'[N + 1] = queue[1] /\ queue[1] \in Buffers
  BY <1>1 DEF ReadQueued, RInv, Types
<1>5. Position = queue[1].from /\ Position \in Nat /\ queue[1].len \in Nat
  BY <1>1, <1>4, Sizes DEF Position, Buffers
<1>6. \A i \in 1 .. tail' : queue'[i] = queue[i + 1] /\ i \in 1 .. tail /\ i + 1 \in 1 .. tail
  <2>1. SUFFICES ASSUME NEW i \in 1 .. tail'
                 PROVE queue'[i] = queue[i + 1] /\ i \in 1 .. tail /\ i + 1 \in 1 .. tail
    OBVIOUS
  <2>2. i \in Slots /\ i # N + 1 /\ i # N /\ i \in 1 .. tail /\ i + 1 \in 1 .. tail
    BY <1>1, <2>1, Sizes DEF Slots
  <2> QED BY <2>2 DEF ReadQueued
<1>7. Types'
  BY <1>1, <1>2, <1>3 DEF RInv, Types
<1>8. \A i, j \in 1 .. tail' :
        i <= j => /\ queue'[i].from <= queue'[j].from
                  /\ queue'[j].from <= queue'[i].from + Full(j - i)
  <2>1. SUFFICES ASSUME NEW i \in 1 .. tail', NEW j \in 1 .. tail', i <= j
                 PROVE /\ queue'[i].from <= queue'[j].from
                       /\ queue'[j].from <= queue'[i].from + Full(j - i)
    OBVIOUS
  <2>2. i + 1 \in 1 .. tail /\ j + 1 \in 1 .. tail /\ i + 1 <= j + 1 /\ (j + 1) - (i + 1) = j - i
    BY <1>6, <2>1
  <2>3. /\ queue[i + 1].from <= queue[j + 1].from
        /\ queue[j + 1].from <= queue[i + 1].from + Full((j + 1) - (i + 1))
    BY <2>2 DEF RInv, Chained
  <2> QED BY <1>6, <2>1, <2>2, <2>3
<1>9. \A i \in 1 .. tail' : i < tail' => queue'[i + 1].from = queue'[i].from + queue'[i].len
  <2>1. SUFFICES ASSUME NEW i \in 1 .. tail', i < tail'
                 PROVE queue'[i + 1].from = queue'[i].from + queue'[i].len
    OBVIOUS
  <2>2. i + 1 \in 1 .. tail' /\ i + 1 \in 1 .. tail /\ i + 1 < tail
    BY <1>1, <2>1
  <2>3. queue[(i + 1) + 1].from = queue[i + 1].from + queue[i + 1].len
    BY <2>2 DEF RInv, Chained
  <2> QED BY <1>6, <2>1, <2>2, <2>3
<1>10. tail' > 0 => queue'[tail'].from + queue'[tail'].len = fp' - rewind'
  <2>1. SUFFICES ASSUME tail' > 0
                 PROVE queue'[tail'].from + queue'[tail'].len = fp' - rewind'
    OBVIOUS
  <2>2. tail' \in 1 .. tail' /\ tail' + 1 = tail
    BY <1>1, <2>1
  <2> QED BY <1>1, <1>2, <1>6, <2>2 DEF RInv, Chained
<1>11. Chained'
  BY <1>8, <1>9, <1>10 DEF Chained
<1>12. Position' = Position + queue[1].len /\ Position' <= fp' - rewind'
  <2>1. CASE tail' = 0
    <3>1. tail = 1 /\ ~(tail' > 0)
      BY <1>1, <2>1
    <3>2. Position' = fp' - rewind'
      BY <3>1, Zenon DEF Position
    <3>3. queue[1].from + queue[1].len = fp - rewind
      BY <1>1, <3>1 DEF RInv, Chained
    <3> QED BY <1>2, <1>5, <3>2, <3>3
  <2>2. CASE tail' > 0
    <3>1. 1 \in 1 .. tail' /\ tail' \in 1 .. tail' /\ 1 <= tail' /\ 1 < tail /\ 1 \in 1 .. tail
      BY <1>1, <2>2
    <3>2. Position' = queue'[1].from
      BY <2>2, Zenon DEF Position
    <3>3. queue[1 + 1].from = queue[1].from + queue[1].len
      BY <3>1 DEF RInv, Chained
    <3>4. queue'[1].from <= queue'[tail'].from /\ queue'[tail'] \in Buffers /\ tail' \in Slots
      BY <1>1, <1>3, <1>8, <3>1, Sizes DEF Slots
    <3>5. queue'[tail'].from + queue'[tail'].len = fp' - rewind'
      BY <1>10, <2>2
    <3>6. queue'[1] \in Buffers
      BY <1>1, <1>3
    <3>7. queue'[1].from \in Nat /\ queue'[tail'].from \in Nat /\ queue'[tail'].len \in Nat
      BY <3>4, <3>6, Sizes DEF Buffers
    <3> QED BY <1>5, <1>6, <3>1, <3>2, <3>3, <3>4, <3>5, <3>7
  <2> QED BY <2>1, <2>2, <1>1
<1>13. Kept'
  <2>1. low <= Position /\ low \in Nat
    BY DEF RInv, Kept, Types
  <2>2. low' <= Position'
    BY <1>2, <1>5, <1>12, <2>1
  <2> QED BY <1>12, <2>2 DEF Kept
<1> QED BY <1>4, <1>5, <1>7, <1>11, <1>12, <1>13

\* A read ahead appends a buffer that begins at the file's pointer; what the
\* file forgets lies farther back than all the buffers.
LEMMA EndFillData ==
  ASSUME RInv, NEW n, NEW ok, EndFill(n, ok)
  PROVE  Types' /\ Chained' /\ Kept' /\ Position' = Position
<1>1. /\ tail \in 0 .. N - 1 /\ tail \in Nat /\ tail + 1 \in Slots /\ tail + 1 # N + 1
      /\ rewind = 0 /\ rewind' = 0 /\ FileRead(n)
  BY Sizes DEF EndFill, RInv, Types, Phases, Slots
<1>2. Position <= fp /\ fp <= Position + Full(tail) /\ Position \in Nat /\ low <= Position
  <2>1. Position <= fp - rewind /\ fp - rewind <= Position + Full(tail)
    BY PositionNear DEF RInv
  <2>2. Position \in Int
    <3>1. 1 \in Slots /\ queue[1] \in Buffers
      BY Sizes DEF Slots, RInv, Types
    <3> QED BY <1>1, <3>1 DEF RInv, Types, Position, Buffers
  <2>3. low <= Position /\ low \in Nat
    BY DEF RInv, Kept, Types
  <2> QED BY <1>1, <2>1, <2>2, <2>3 DEF RInv, Types
<1>3. low <= fp
  BY <1>2 DEF RInv, Types
<1>4. /\ n \in 0 .. B /\ fp' = fp + n /\ fp' \in Nat /\ low' \in Nat /\ size' \in Nat
      /\ low' <= fp /\ (low' = low \/ low' = fp - RewindSize)
  BY <1>1, <1>3, FileReadIs DEF RInv
<1>5. low' <= Position
  <2>1. Full(tail) <= Full(N + 1) /\ Full(tail) \in Nat /\ Full(N + 1) \in Nat
    <3>1. tail \in Nat /\ N + 1 \in Nat /\ tail <= N + 1
      BY <1>1, Sizes
    <3> QED BY <3>1, FullGrows, FullBasics
  <2>2. RewindSize = Full(N + 1)
    BY RewindSizeIs
  <2> QED BY <1>2, <1>4, <2>1, <2>2 DEF RInv, Types
<1>6. n \in Nat /\ [from |-> fp, len |-> n] \in Buffers
  BY <1>4, Sizes DEF Buffers, RInv, Types
<1>7. CASE ~ok
  <2>1. queue' = queue /\ tail' = tail
    BY <1>7 DEF EndFill
  <2>2. fp' = fp
    BY <1>4, <1>7 DEF EndFill, RInv, Types
  <2>3. Position' = Position
    BY <1>1, <2>1, <2>2 DEF Position
  <2>4. Types'
    BY <1>1, <1>4, <2>1 DEF RInv, Types
  <2>5. Chained'
    BY <1>1, <2>1, <2>2 DEF RInv, Chained
  <2>6. fp' - rewind' = fp
    BY <1>1, <2>2 DEF RInv, Types
  <2>7. Kept'
    BY <1>2, <1>5, <2>3, <2>6, Zenon DEF Kept
  <2> QED BY <2>3, <2>4, <2>5, <2>7
<1>8. CASE ok
  <2>1. queue' = [queue EXCEPT ![tail + 1] = [from |-> fp, len |-> n]] /\ tail' = tail + 1
    BY <1>8 DEF EndFill
  <2>2. queue' \in [Slots -> Buffers]
    BY <1>6, <2>1 DEF RInv, Types
  <2>3. queue'[tail + 1].from = fp /\ queue'[tail + 1].len = n
    BY <1>1, <2>1 DEF RInv, Types
  <2>4. \A i \in 1 .. tail : queue'[i] = queue[i] /\ queue[i] \in Buffers
    BY <1>1, <2>1, Sizes DEF RInv, Types, Slots
  <2>5. tail' \in 1 .. N /\ tail' \in 0 .. N
    BY <1>1, <2>1, Sizes
  <2>6. Types'
    BY <1>1, <1>4, <2>2, <2>5 DEF RInv, Types
  <2>7. \A i \in 1 .. tail : queue[i].from <= fp /\ fp <= queue[i].from + Full(tail + 1 - i)
    <3>1. SUFFICES ASSUME NEW i \in 1 .. tail
                   PROVE queue[i].from <= fp /\ fp <= queue[i].from + Full(tail + 1 - i)
      OBVIOUS
    <3>2. tail \in 1 .. tail /\ i <= tail /\ tail - i \in Nat /\ (tail - i) + 1 = tail + 1 - i
          /\ tail > 0
      BY <1>1, <3>1
    <3>3. queue[i].from <= queue[tail].from /\ queue[tail].from <= queue[i].from + Full(tail - i)
      BY <3>2 DEF RInv, Chained
    <3>4. queue[tail].from + queue[tail].len = fp
      BY <1>1, <3>2 DEF RInv, Chained, Types
    <3>5. Full(tail + 1 - i) = Full(tail - i) + B /\ Full(tail - i) \in Nat
      <4>1. Full((tail - i) + 1) = Full(tail - i) + B /\ Full(tail - i) \in Nat
        BY <3>2, FullBasics
      <4> QED BY <3>2, <4>1
    <3>6. queue[i] \in Buffers /\ queue[tail] \in Buffers
      BY <2>4, <3>2
    <3>7. queue[i].from \in Nat /\ queue[tail].from \in Nat /\ queue[tail].len \in 0 .. B
      BY <3>6 DEF Buffers
    <3> QED BY <3>3, <3>4, <3>5, <3>7, Sizes
  <2>8. \A i, j \in 1 .. tail' :
          i <= j => /\ queue'[i].from <= queue'[j].from
                    /\ queue'[j].from <= queue'[i].from + Full(j - i)
    <3>1. SUFFICES ASSUME NEW i \in 1 .. tail', NEW j \in 1 .. tail', i <= j
                   PROVE /\ queue'[i].from <= queue'[j].from
                         /\ queue'[j].from <= queue'[i].from + Full(j - i)
      OBVIOUS
    <3>2. CASE j \in 1 .. tail
      <4>1. i \in 1 .. tail
        BY <1>1, <3>1, <3>2
      <4> QED BY <2>4, <3>1, <3>2, <4>1 DEF RInv, Chained
    <3>3. CASE j = tail + 1 /\ i \in 1 .. tail
      <4>1. queue[i].from <= fp /\ fp <= queue[i].from + Full(tail + 1 - i)
        BY <2>7, <3>3
      <4>2. queue'[i] = queue[i] /\ queue'[j].from = fp
        BY <2>3, <2>4, <3>3
      <4>3. j - i = tail + 1 - i
        BY <1>1, <3>3
      <4> QED BY <4>1, <4>2, <4>3
    <3>4. CASE j = tail + 1 /\ i = tail + 1
      <4>1. j - i = 0 /\ Full(j - i) = 0
        BY <1>1, <3>4, FullBasics
      <4> QED BY <2>3, <3>4, <4>1 DEF RInv, Types
    <3> QED BY <1>1, <2>1, <3>1, <3>2, <3>3, <3>4
  <2>9. \A i \in 1 .. tail' : i < tail' => queue'[i + 1].from = queue'[i].from + queue'[i].len
    <3>1. SUFFICES ASSUME NEW i \in 1 .. tail', i < tail'
                   PROVE queue'[i + 1].from = queue'[i].from + queue'[i].len
      OBVIOUS
    <3>2. i \in 1 .. tail
      BY <1>1, <2>1, <3>1
    <3>3. CASE i < tail
      <4>1. i + 1 \in 1 .. tail
        BY <1>1, <3>2, <3>3
      <4> QED BY <2>4, <3>2, <3>3, <4>1 DEF RInv, Chained
    <3>4. CASE i = tail
      <4>1. tail > 0
        BY <1>1, <3>2
      <4>2. queue[tail].from + queue[tail].len = fp
        BY <1>1, <4>1 DEF RInv, Chained, Types
      <4> QED BY <2>3, <2>4, <3>2, <3>4, <4>2
    <3> QED BY <1>1, <3>2, <3>3, <3>4
  <2>10. queue'[tail'].from + queue'[tail'].len = fp' - rewind'
    BY <1>1, <1>4, <2>1, <2>3
  <2>11. Chained'
    BY <2>8, <2>9, <2>10 DEF Chained
  <2>12. Position' = Position
    <3>1. tail' > 0
      BY <2>5
    <3>2. Position' = queue'[1].from
      BY <3>1, Zenon DEF Position
    <3>3. CASE tail = 0
      <4>1. Position = fp
        BY <1>1, <3>3 DEF Position, RInv, Types
      <4> QED BY <2>3, <3>2, <3>3, <4>1
    <3>4. CASE tail > 0
      <4>1. Position = queue[1].from /\ 1 \in 1 .. tail
        BY <1>1, <3>4 DEF Position
      <4> QED BY <2>4, <3>2, <4>1
    <3> QED BY <1>1, <3>3, <3>4
  <2>13. fp' - rewind' = fp + n
    BY <1>1, <1>4
  <2>14. Position <= fp + n
    BY <1>2, <1>6 DEF RInv, Types
  <2>15. Kept'
    BY <1>5, <2>12, <2>13, <2>14, Zenon DEF Kept
  <2> QED BY <2>6, <2>11, <2>12, <2>15
<1> QED BY <1>7, <1>8

\* Growing changes the file's size alone.
LEMMA GrowData ==
  ASSUME RInv, Grow PROVE Types' /\ Chained' /\ Kept' /\ Position' = Position
<1>1. Position' = Position
  BY DEF Grow, Position
<1>2. size' \in Nat
  BY Sizes DEF Grow, RInv, Types
<1> QED
  BY <1>1, <1>2 DEF RInv, Grow, Types, Chained, Kept

-----------------------------------------------------------------------------
(* Every step preserves the invariant *)

LEMMA StatesNext == ASSUME RInv, [Next]_vars PROVE States'
<1> USE DEF RInv, States
<1>1. CASE Start
  BY <1>1 DEF Start
<1>2. CASE Probe
  BY <1>2 DEF Probe
<1>3. CASE StopThread
  BY <1>3 DEF StopThread, Stopping
<1>4. CASE WakeToStop
  BY <1>4 DEF WakeToStop, Stopping
<1>5. CASE Joined
  BY <1>5 DEF Joined
<1>6. CASE FlushOne
  BY <1>6 DEF FlushOne
<1>7. CASE FlushEnd
  BY <1>7 DEF FlushEnd, ReadsNot
<1>8. CASE Seek
  BY <1>8 DEF Seek
<1>9. CASE ReadQueued
  BY <1>9 DEF ReadQueued
<1>10. ASSUME NEW n \in {"none", "sync", "seek"}, Flush(n) PROVE States'
  BY <1>10 DEF Flush
<1>11. ASSUME NEW n, SyncRead(n) PROVE States'
  BY <1>11 DEF SyncRead
<1>12. ASSUME NEW n, ReadNow(n) PROVE States'
  BY <1>12 DEF ReadNow
<1>13. CASE Wake
  BY <1>13 DEF Wake
<1>14. CASE StartFill
  BY <1>14 DEF StartFill
<1>15. ASSUME NEW n, NEW ok, EndFill(n, ok) PROVE States'
  BY <1>15 DEF EndFill, Resignal
<1>16. CASE Grow
  BY <1>16 DEF Grow
<1>17. CASE UNCHANGED vars
  BY <1>17 DEF vars
<1> QED
  BY <1>1, <1>2, <1>3, <1>4, <1>5, <1>6, <1>7, <1>8, <1>9, <1>10, <1>11, <1>12, <1>13, <1>14,
     <1>15, <1>16, <1>17, Zenon DEF Next, Sender, ReadThread

\* The lock, and m_fRead while the sender is without it, keep the threads apart.
LEMMA PhasesNext == ASSUME RInv, [Next]_vars PROVE Phases'
<1> USE DEF RInv, Phases, Idle
<1>1. CASE Start
  BY <1>1 DEF Start
<1>2. CASE Probe
  BY <1>2 DEF Probe
<1>3. CASE StopThread
  BY <1>3 DEF StopThread, Stopping
<1>4. CASE WakeToStop
  BY <1>4 DEF WakeToStop, Stopping
<1>5. CASE Joined
  BY <1>5 DEF Joined
<1>6. CASE FlushOne
  BY <1>6, Sizes DEF FlushOne, Types
<1>7. CASE FlushEnd
  BY <1>7 DEF FlushEnd, ReadsNot, States
<1>8. CASE Seek
  BY <1>8 DEF Seek
<1>9. CASE ReadQueued
  BY <1>9, Sizes DEF ReadQueued, LockFree, Types
<1>10. ASSUME NEW n \in {"none", "sync", "seek"}, Flush(n) PROVE Phases'
  BY <1>10 DEF Flush, LockFree
<1>11. ASSUME NEW n, SyncRead(n) PROVE Phases'
  BY <1>11 DEF SyncRead
<1>12. ASSUME NEW n, ReadNow(n) PROVE Phases'
  BY <1>12 DEF ReadNow, LockFree
<1>13. CASE Wake
  BY <1>13 DEF Wake, file
<1>14. CASE StartFill
  BY <1>14 DEF StartFill, Room, LockFree, file
<1>15. ASSUME NEW n, NEW ok, EndFill(n, ok) PROVE Phases'
  BY <1>15 DEF EndFill
<1>16. CASE Grow
  BY <1>16 DEF Grow
<1>17. CASE UNCHANGED vars
  BY <1>17 DEF vars
<1> QED
  BY <1>1, <1>2, <1>3, <1>4, <1>5, <1>6, <1>7, <1>8, <1>9, <1>10, <1>11, <1>12, <1>13, <1>14,
     <1>15, <1>16, <1>17, Zenon DEF Next, Sender, ReadThread

LEMMA DataNext == ASSUME RInv, [Next]_vars PROVE Types' /\ Chained' /\ Kept'
<1>1. CASE Start
  BY <1>1, StartData
<1>2. CASE Probe
  BY <1>2, ProbeData
<1>3. CASE StopThread \/ WakeToStop \/ Wake \/ StartFill \/ UNCHANGED vars
  <2>1. UNCHANGED data
    BY <1>3 DEF StopThread, WakeToStop, Wake, StartFill, vars, file, data
  <2> QED BY <2>1, DataFrame DEF RInv
<1>4. CASE Joined
  BY <1>4, JoinedData
<1>5. CASE FlushOne
  BY <1>5, FlushOneData
<1>6. CASE FlushEnd
  BY <1>6, FlushEndData
<1>7. CASE Seek
  BY <1>7, SeekData
<1>8. CASE ReadQueued
  BY <1>8, ReadQueuedData
<1>9. ASSUME NEW n \in {"none", "sync", "seek"}, Flush(n) PROVE Types' /\ Chained' /\ Kept'
  <2>1. UNCHANGED data
    BY <1>9 DEF Flush, Idle, RInv, Phases, file, data
  <2> QED BY <2>1, DataFrame DEF RInv
<1>10. ASSUME NEW n, SyncRead(n) PROVE Types' /\ Chained' /\ Kept'
  <2>1. tail = 0 /\ con # "flush"
    BY <1>10 DEF SyncRead, RInv, Phases
  <2> QED BY <1>10, <2>1, DirectRead DEF SyncRead
<1>11. ASSUME NEW n, ReadNow(n) PROVE Types' /\ Chained' /\ Kept'
  BY <1>11, DirectRead DEF ReadNow, Idle
<1>12. ASSUME NEW n, NEW ok, EndFill(n, ok) PROVE Types' /\ Chained' /\ Kept'
  BY <1>12, EndFillData
<1>13. CASE Grow
  BY <1>13, GrowData
<1> QED
  BY <1>1, <1>2, <1>3, <1>4, <1>5, <1>6, <1>7, <1>8, <1>9, <1>10, <1>11, <1>12, <1>13, Zenon
     DEF Next, Sender, ReadThread

LEMMA RInvAlways == Spec => []RInv
<1>1. RInv /\ [Next]_vars => RInv'
  BY StatesNext, PhasesNext, DataNext DEF RInv
<1> QED BY RInvInit, <1>1, PTL DEF Spec

-----------------------------------------------------------------------------
(* Every variable has its type. *)
THEOREM TypeCorrect == Spec => []TypeOK
<1>1. RInv => TypeOK
  BY DEF RInv, Types, States, TypeOK
<1> QED BY <1>1, RInvAlways, PTL

(* The sender, which uses the file without the lock, and the read thread    *)
(* never use it at the same time (SyncRead, SetPointer of the file).        *)
THEOREM FileIsOwned == Spec => []FileOwned
<1>1. RInv => FileOwned
  BY DEF RInv, Phases, FileOwned
<1> QED BY <1>1, RInvAlways, PTL

(* However many and however large the buffers are, and however short the    *)
(* reads, Flush can go back to the sender's position in a file that forgets *)
(* what lies farther back than SetRewindSize asked for.                     *)
THEOREM FlushAlwaysReaches == Spec => []FlushReaches
<1>1. RInv => FlushReaches
  <2> SUFFICES ASSUME RInv, con = "flush", tail = 0 PROVE fp - rewind >= low
    BY DEF FlushReaches
  <2>1. Position = fp - rewind
    BY DEF Position
  <2> QED BY <2>1 DEF RInv, Kept, Types
<1> QED BY <1>1, RInvAlways, PTL

(* The wakeup that the read thread needs is never lost: it is not asleep    *)
(* while it could read ahead (SetEvent after every Read, and after every    *)
(* buffer that it filled).                                                  *)
THEOREM NeverLostWake == Spec => []NoLostWake
<1>1. Init => NoLostWake
  BY DEF Init, NoLostWake
<1>2. ASSUME RInv, NoLostWake, [Next]_vars PROVE NoLostWake'
  <2> USE DEF NoLostWake, Idle
  <2>1. CASE Start
    BY <1>2, <2>1 DEF Start
  <2>2. CASE Probe
    BY <1>2, <2>2 DEF Probe
  <2>3. CASE StopThread \/ WakeToStop \/ FlushOne
    BY <1>2, <2>3 DEF StopThread, WakeToStop, FlushOne
  <2>4. CASE Joined
    BY <1>2, <2>4 DEF Joined
  <2>5. CASE FlushEnd
    BY <1>2, <2>5 DEF FlushEnd, ReadsNot
  <2>6. CASE Seek
    BY <1>2, <2>6 DEF Seek, RInv, Phases
  <2>7. CASE ReadQueued
    BY <1>2, <2>7 DEF ReadQueued
  <2>8. ASSUME NEW n \in {"none", "sync", "seek"}, Flush(n) PROVE NoLostWake'
    BY <1>2, <2>8 DEF Flush
  <2>9. ASSUME NEW n, SyncRead(n) PROVE NoLostWake'
    BY <1>2, <2>9 DEF SyncRead, RInv, Phases
  <2>10. ASSUME NEW n, ReadNow(n) PROVE NoLostWake'
    BY <1>2, <2>10 DEF ReadNow
  <2>11. CASE Wake
    BY <1>2, <2>11 DEF Wake, RInv, Phases
  <2>12. CASE StartFill
    BY <1>2, <2>12 DEF StartFill, Room
  <2>13. ASSUME NEW n \in 0 .. B, NEW ok, EndFill(n, ok) PROVE NoLostWake'
    <3>1. event' = (event \/ n > 0) /\ dry' = (n = 0)
      BY <1>2, <2>13 DEF EndFill, Resignal
    <3>2. n = 0 \/ n > 0
      BY Sizes
    <3>3. event' \/ dry'
      BY <3>1, <3>2, Zenon
    <3> QED BY <3>3
  <2>14. CASE Grow
    BY <1>2, <2>14 DEF Grow
  <2>15. CASE UNCHANGED vars
    BY <1>2, <2>15 DEF vars
  <2> QED
    BY <1>2, <2>1, <2>2, <2>3, <2>4, <2>5, <2>6, <2>7, <2>8, <2>9, <2>10, <2>11, <2>12, <2>13,
       <2>14, <2>15, Zenon DEF Next, Sender, ReadThread
<1> QED BY <1>1, <1>2, RInvAlways, PTL DEF Spec

(* Both: the file, which is used without the lock, is one thread's at a     *)
(* time, and that thread's turn comes (SyncRead, Read and ReadThread).      *)
THEOREM TurnsAreKept == Spec => []TurnsKept
<1>1. FileOwned /\ NoLostWake => TurnsKept
  BY DEF TurnsKept
<1> QED BY <1>1, FileIsOwned, NeverLostWake, PTL

-----------------------------------------------------------------------------
(* Reading ahead implements the sequential reader *)

PositionNat == Position \in Nat

LEMMA PositionIsNat == RInv => PositionNat
<1> SUFFICES ASSUME RInv PROVE Position \in Nat
  BY DEF PositionNat
<1>1. 1 \in Slots /\ queue[1] \in Buffers
  BY Sizes DEF Slots, RInv, Types
<1>2. Position \in Int
  BY <1>1 DEF RInv, Types, Position, Buffers
<1> QED BY <1>2 DEF RInv, Kept, Types

\* A step of neither thread that the sender can see.
LEMMA Unseen ==
  ASSUME Position' = Position, queue'[N + 1] = queue[N + 1], Call' = Call
  PROVE  UNCHANGED Sequential!rvars
  BY DEF Sequential!rvars

LEMMA SequentialInit == Init => Sequential!Init
<1> SUFFICES ASSUME Init PROVE Sequential!Init
  OBVIOUS
<1>1. Position \in Nat
  BY RInvInit, PositionIsNat DEF PositionNat
<1>2. queue[N + 1].len = 0
  BY Sizes DEF Init, Slots, Empty
<1>3. Call = "setup"
  BY DEF Init, Call
<1> QED BY <1>1, <1>2, <1>3 DEF Sequential!Init

LEMMA SequentialStep ==
  ASSUME RInv, PositionNat', [Next]_vars
  PROVE  [Sequential!Next]_(Sequential!rvars)
<1> USE DEF Sequential!Next
<1>1. CASE Start
  <2>1. Call = "setup" /\ Call' = "none"
    BY <1>1 DEF Start, Call
  <2>2. queue'[N + 1].len = 0
    BY <1>1, Sizes DEF Start, Slots, Empty
  <2> QED BY <2>1, <2>2 DEF Sequential!Move, PositionNat
<1>2. CASE Probe
  <2>1. Call = "setup" /\ Call' = "setup" /\ queue' = queue
    BY <1>2 DEF Probe, Call
  <2> QED BY <2>1 DEF Sequential!Move, PositionNat
<1>3. CASE StopThread
  <2>1. Call = "none" /\ Call' = "setup" /\ queue' = queue
    BY <1>3 DEF StopThread, Call, Idle
  <2>2. Position' = Position
    BY <1>3 DEF StopThread, Position, file
  <2> QED BY <2>1, <2>2 DEF Sequential!Ask
<1>4. CASE WakeToStop \/ Wake \/ StartFill \/ UNCHANGED vars
  <2>1. Call' = Call /\ queue' = queue
    BY <1>4 DEF WakeToStop, Wake, StartFill, vars, Call
  <2>2. Position' = Position
    BY <1>4 DEF WakeToStop, Wake, StartFill, vars, Position, file
  <2> QED BY <2>1, <2>2, Unseen
<1>5. CASE Joined
  <2>1. Call = "setup" /\ Call' = "setup"
    BY <1>5 DEF Joined, Call
  <2>2. queue'[N + 1].len = 0
    BY <1>5, Sizes DEF Joined, Slots, Empty
  <2> QED BY <2>1, <2>2 DEF Sequential!Move, PositionNat
<1>6. CASE FlushOne
  <2>1. Call' = Call
    BY <1>6 DEF FlushOne, Call
  <2>2. queue'[N + 1] = queue[N + 1]
    BY <1>6, Sizes DEF FlushOne, RInv, Types, Slots
  <2> QED BY <1>6, <2>1, <2>2, FlushOneData, Unseen
<1>7. CASE FlushEnd
  <2>1. started /\ started' = started
    BY <1>7 DEF FlushEnd, RInv, Phases
  <2>2. Call = next /\ queue' = queue
    BY <1>7, <2>1 DEF FlushEnd, Call
  <2>3. Call' = next
    BY <1>7, <2>1 DEF FlushEnd, Call, RInv, States
  <2> QED BY <1>7, <2>2, <2>3, FlushEndData, Unseen
<1>8. CASE Seek
  <2>1. Call = "seek" /\ Call' = "none" /\ queue' = queue
    BY <1>8 DEF Seek, Call, RInv, Phases
  <2> QED BY <2>1 DEF Sequential!Move, PositionNat
<1>9. CASE ReadQueued
  <2>1. Call = "none" /\ Call' = "none"
    BY <1>9 DEF ReadQueued, Call, Idle
  <2>2. /\ queue'[N + 1] = queue[1] /\ queue[1] \in Buffers
        /\ Position = queue[1].from /\ Position' = Position + queue[1].len
    BY <1>9, ReadQueuedData
  <2>3. queue[1] = [from |-> Position, len |-> queue[1].len] /\ queue[1].len \in 0 .. B
    BY <2>2 DEF Buffers
  <2> QED BY <2>1, <2>2, <2>3 DEF Sequential!Deliver
<1>10. ASSUME NEW n \in {"none", "sync", "seek"}, Flush(n)
       PROVE [Sequential!Next]_(Sequential!rvars)
  <2>1. Call = "none" /\ Call' = n /\ queue' = queue
    BY <1>10 DEF Flush, Call, Idle
  <2>2. Position' = Position
    BY <1>10 DEF Flush, Position, Idle, RInv, Phases, file
  <2>3. CASE n = "none"
    BY <2>1, <2>2, <2>3, Unseen
  <2>4. CASE n # "none"
    BY <2>1, <2>2, <2>4 DEF Sequential!Ask
  <2> QED BY <2>3, <2>4
<1>11. ASSUME NEW n, SyncRead(n) PROVE [Sequential!Next]_(Sequential!rvars)
  <2>1. Call = "sync" /\ Call' = "none"
    BY <1>11 DEF SyncRead, Call, RInv, Phases
  <2>2. tail = 0 /\ con # "flush"
    BY <1>11 DEF SyncRead, RInv, Phases
  <2>3. /\ Position' = fp + n /\ Position = fp /\ n \in 0 .. B
        /\ queue'[N + 1] = [from |-> fp, len |-> n]
    BY <1>11, <2>2, DirectRead DEF SyncRead
  <2> QED BY <2>1, <2>3 DEF Sequential!Deliver
<1>12. ASSUME NEW n, ReadNow(n) PROVE [Sequential!Next]_(Sequential!rvars)
  <2>1. Call = "none" /\ Call' = "none"
    BY <1>12 DEF ReadNow, Call, Idle
  <2>2. /\ Position' = fp + n /\ Position = fp /\ n \in 0 .. B
        /\ queue'[N + 1] = [from |-> fp, len |-> n]
    BY <1>12, DirectRead DEF ReadNow, Idle
  <2> QED BY <2>1, <2>2 DEF Sequential!Deliver
<1>13. ASSUME NEW n, NEW ok, EndFill(n, ok) PROVE [Sequential!Next]_(Sequential!rvars)
  <2>1. Call' = Call
    BY <1>13 DEF EndFill, Call
  <2>2. queue'[N + 1] = queue[N + 1]
    BY <1>13, Sizes DEF EndFill, RInv, Types, Phases, Slots
  <2> QED BY <1>13, <2>1, <2>2, EndFillData, Unseen
<1>14. CASE Grow
  <2>1. Call' = Call /\ queue' = queue
    BY <1>14 DEF Grow, Call
  <2> QED BY <1>14, <2>1, GrowData, Unseen
<1> QED
  BY <1>1, <1>2, <1>3, <1>4, <1>5, <1>6, <1>7, <1>8, <1>9, <1>10, <1>11, <1>12, <1>13, <1>14,
     Zenon DEF Next, Sender, ReadThread

(* Whatever the two threads do and whatever the file forgets, the sender    *)
(* reads the file as if nothing were read ahead (CBufferedFileReader).      *)
THEOREM ReadsSequentially == Spec => IsSequential
<1>1. RInv /\ PositionNat' /\ [Next]_vars => [Sequential!Next]_(Sequential!rvars)
  BY SequentialStep
<1>2. RInv => PositionNat
  BY PositionIsNat
<1> QED BY <1>1, <1>2, SequentialInit, RInvAlways, PTL DEF Spec, IsSequential, Sequential!Spec
-----------------------------------------------------------------------------
(* What GetFilePosition tells *)

\* A set of numbers has a least one.
LEMMA HasLeast == ASSUME NEW T \in SUBSET Nat, T # {} PROVE \E x \in T : \A y \in T : x <= y
<1>1. IsWellFoundedOn(OpToRel(<, Nat), Nat)
  BY NatLessThanWellFounded, Zenon
<1>2. PICK x \in T : \A y \in T : ~(<<y, x>> \in OpToRel(<, Nat))
  BY <1>1, WFMin, Zenon
<1>3. \A y \in T : ~(y < x)
  BY <1>2 DEF OpToRel
<1> QED
  BY <1>3

\* The end of the first i buffers, counted from where the first begins.
EndOf(i) == IF i = 0 THEN 0 ELSE (queue[i].from + queue[i].len) - queue[1].from

\* The buffers follow each other, so the ends grow by the lengths.
LEMMA EndsFollow ==
  ASSUME Types, Chained, NEW i \in 1 .. tail
  PROVE  EndOf(i) \in Int /\ EndOf(i) = EndOf(i - 1) + queue[i].len
<1>1. i \in Slots /\ 1 \in Slots /\ i - 1 \in 0 .. tail
  BY Sizes DEF Types, Slots
<1>2. /\ queue[i].from \in Int /\ queue[i].len \in Int /\ queue[1].from \in Int
  BY <1>1, Sizes DEF Types, Buffers
<1>3. CASE i = 1
  BY <1>2, <1>3 DEF EndOf
<1>4. CASE i # 1
  <2>1. i - 1 \in 1 .. tail /\ i - 1 < tail /\ (i - 1) + 1 = i /\ i - 1 \in Slots
    BY <1>1, <1>4, Sizes DEF Types, Slots
  <2>2. queue[(i - 1) + 1].from = queue[i - 1].from + queue[i - 1].len
    BY <2>1 DEF Chained
  <2>3. queue[i].from = queue[i - 1].from + queue[i - 1].len
    BY <2>1, <2>2
  <2>4. EndOf(i) = (queue[i].from + queue[i].len) - queue[1].from
    BY DEF EndOf
  <2>5. EndOf(i - 1) = (queue[i - 1].from + queue[i - 1].len) - queue[1].from
    BY <2>1 DEF EndOf
  <2> QED
    BY <1>2, <2>3, <2>4, <2>5
<1> QED BY <1>3, <1>4

\* The lengths can be added up: there is a function as Ahead defines it.
LEMMA AheadIs ==
  ASSUME Types, Chained
  PROVE  Ahead = [i \in 0 .. tail |-> IF i = 0 THEN 0 ELSE Ahead[i - 1] + queue[i].len]
<1> DEFINE g == [i \in 0 .. tail |-> EndOf(i)]
<1>1. g = [i \in 0 .. tail |-> IF i = 0 THEN 0 ELSE g[i - 1] + queue[i].len]
  <2>1. ASSUME NEW i \in 0 .. tail
        PROVE  g[i] = IF i = 0 THEN 0 ELSE g[i - 1] + queue[i].len
    <3>1. CASE i = 0
      BY <3>1 DEF EndOf
    <3>2. CASE i # 0
      <4>1. i \in 1 .. tail /\ i - 1 \in 0 .. tail
        BY <3>2 DEF Types
      <4>2. EndOf(i) = EndOf(i - 1) + queue[i].len
        BY <4>1, EndsFollow
      <4>3. g[i] = EndOf(i) /\ g[i - 1] = EndOf(i - 1)
        BY <4>1
      <4> QED
        BY <3>2, <4>2, <4>3
    <3> QED BY <3>1, <3>2
  <2>2. DOMAIN g = 0 .. tail
    OBVIOUS
  <2> HIDE DEF g
  <2>3. g = [i \in 0 .. tail |-> g[i]]
    <3>1. [i \in 0 .. tail |-> EndOf(i)] = [i \in 0 .. tail |-> [j \in 0 .. tail |-> EndOf(j)][i]]
      OBVIOUS
    <3> QED BY <3>1 DEF g
  <2>4. [i \in 0 .. tail |-> g[i]]
        = [i \in 0 .. tail |-> IF i = 0 THEN 0 ELSE g[i - 1] + queue[i].len]
    BY <2>1
  <2> QED
    BY <2>3, <2>4
<1> HIDE DEF g
<1>2. \E f : f = [i \in 0 .. tail |-> IF i = 0 THEN 0 ELSE f[i - 1] + queue[i].len]
  BY <1>1
<1> QED
  BY <1>2, Zenon DEF Ahead

\* What Ahead adds up is what lies between the buffers' ends.
LEMMA AheadValue ==
  ASSUME Types, Chained
  PROVE  \A i \in 0 .. tail : Ahead[i] = EndOf(i)
<1> DEFINE Bad == {i \in 0 .. tail : Ahead[i] # EndOf(i)}
<1>1. SUFFICES ASSUME Bad # {} PROVE FALSE
  OBVIOUS
<1>2. Bad \in SUBSET Nat
  BY DEF Types
<1>3. PICK i \in Bad : \A j \in Bad : i <= j
  BY <1>1, <1>2, HasLeast
<1>4. i \in 0 .. tail /\ Ahead[i] # EndOf(i)
  BY <1>3
<1>5. Ahead[i] = IF i = 0 THEN 0 ELSE Ahead[i - 1] + queue[i].len
  <2>1. \A f : f = [k \in 0 .. tail |-> IF k = 0 THEN 0 ELSE Ahead[k - 1] + queue[k].len]
           => f[i] = IF i = 0 THEN 0 ELSE Ahead[i - 1] + queue[i].len
    BY <1>4
  <2> QED
    BY <2>1, AheadIs
<1>6. CASE i = 0
  BY <1>4, <1>5, <1>6 DEF EndOf
<1>7. CASE i # 0
  <2>1. i \in 1 .. tail /\ i - 1 \in 0 .. tail /\ ~(i <= i - 1)
    BY <1>4, <1>7 DEF Types
  <2>2. i - 1 \notin Bad
    BY <1>3, <2>1
  <2>3. Ahead[i - 1] = EndOf(i - 1)
    BY <2>1, <2>2
  <2>4. EndOf(i) = EndOf(i - 1) + queue[i].len
    BY <2>1, EndsFollow
  <2> QED
    BY <1>4, <1>5, <1>7, <2>3, <2>4
<1> QED BY <1>6, <1>7

\* Between the calls nothing is given back half, so the way back over the
\* buffers ends where the first begins.
LEMMA PositionFound == RInv => PositionExact
<1> SUFFICES ASSUME RInv, Idle PROVE GetFilePosition = Position
  BY DEF PositionExact
<1>1. Types /\ Chained /\ rewind = 0 /\ tail \in Nat /\ fp \in Int
  BY DEF RInv, Phases, Idle, Types
<1>2. Ahead[tail] = EndOf(tail)
  BY <1>1, AheadValue
<1>3. CASE tail = 0
  BY <1>1, <1>2, <1>3 DEF GetFilePosition, EndOf, Position
<1>4. CASE tail # 0
  <2>1. tail \in Slots /\ 1 \in Slots /\ tail > 0
    BY <1>1, <1>4, Sizes DEF Types, Slots
  <2>2. queue[tail].from \in Int /\ queue[tail].len \in Int /\ queue[1].from \in Int
    BY <1>1, <2>1, Sizes DEF Types, Buffers
  <2>3. queue[tail].from + queue[tail].len = fp
    BY <1>1, <2>1 DEF Chained
  <2>4. EndOf(tail) = fp - queue[1].from
    BY <1>4, <2>3 DEF EndOf
  <2> QED
    BY <1>1, <1>2, <2>1, <2>2, <2>4 DEF GetFilePosition, Position
<1> QED BY <1>3, <1>4

\* Whenever the sender asks, GetFilePosition tells where its next read begins,
\* however much the read thread has read ahead and however short the reads were.
THEOREM PositionIsExact == Spec => []PositionExact
<1> QED BY PositionFound, RInvAlways, PTL

==============================================================================
