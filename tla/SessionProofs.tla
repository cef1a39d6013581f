----------------------------- MODULE SessionProofs -----------------------------
(***************************************************************************)
(* Proofs about Session for all paths, contents, bounds and ini files.     *)
(* They rest on what is known of the playlist between any two steps: the   *)
(* position is at an entry, no entry is there twice, and the list still    *)
(* begins with what a menu that is up shows.  Of the resume positions: the *)
(* first one there is of a content is where that was left, and all hashes  *)
(* before it came before it since, so it is dropped for them only.         *)
(***************************************************************************)
EXTENDS Session, SequenceTheorems, FiniteSetTheorems, WellFoundedInduction, TLAPS

PlaylistOf(S) == {p \in [list : Seq(S), pos : Nat] : IsPlaylist(p)}

\* The position is at the entry it was at.
Keeps(p, q) == p.list # <<>> => q.list # <<>> /\ Current(q) = Current(p)

Begins(s, t) == Len(s) <= Len(t) /\ \A i \in 1 .. Len(s) : t[i] = s[i]

Entry == [path : Paths, id : Nat]

Distinct(s) == \A i, j \in 1 .. Len(s) : s[i].id = s[j].id => i = j
Known(s, n) == \A i \in 1 .. Len(s) : s[i].id \in 1 .. n

ListInv ==
  /\ playlist \in PlaylistOf(Entry) /\ added \in Nat
  /\ Distinct(playlist.list) /\ Known(playlist.list, added)

ModeInv ==
  /\ limit \in Limits /\ all \in BOOLEAN /\ single \in BOOLEAN /\ alive \in BOOLEAN
  /\ ui \in {"idle", "open", "next", "close", "erase"}
  /\ posted \in {"none", "next", "begin"}

\* Nothing but a choice from the menu takes entries out of the list or moves them.
MenuInv ==
  /\ menu \in Seq(Entry) /\ Begins(menu, playlist.list)
  /\ ui = "erase" => menu = <<>>

\* There is an entry to open or to erase.
GoInv == ui \in {"open", "erase"} => playlist.list # <<>>

SInv == ListInv /\ ModeInv /\ MenuInv /\ GoInv /\ OpenIsCurrent

-----------------------------------------------------------------------------
(* What every operation of CPlaylist does with the entries and with the    *)
(* position, for lists of any length of entries of any kind.               *)

\* What a playlist is made of: a list, and a position at one of its entries, or 0.
LEMMA PlaylistParts ==
  ASSUME NEW S, NEW p \in PlaylistOf(S)
  PROVE  /\ p.list \in Seq(S) /\ p.pos \in Nat /\ Len(p.list) \in Nat
         /\ p.list = <<>> => p.pos = 0
         /\ p.list # <<>> => /\ p.pos \in 0 .. Len(p.list) - 1
                             /\ p.pos + 1 \in 1 .. Len(p.list)
                             /\ Current(p) \in S
<1>1. /\ p.list \in Seq(S) /\ p.pos \in Nat /\ Len(p.list) \in Nat
      /\ IsPlaylist(p)
  BY DEF PlaylistOf
<1>2. ASSUME p.list # <<>>
      PROVE  p.pos \in 0 .. Len(p.list) - 1 /\ p.pos + 1 \in 1 .. Len(p.list)
  BY <1>1, <1>2 DEF IsPlaylist
<1>3. ASSUME p.list # <<>> PROVE Current(p) \in S
  BY <1>1, <1>2, <1>3, ElementOfSeq DEF Current
<1> QED
  BY <1>1, <1>2, <1>3 DEF IsPlaylist

\* A list with a position in it is a playlist.
LEMMA PlaylistMade ==
  ASSUME NEW S, NEW s \in Seq(S), NEW n \in Nat, s = <<>> => n = 0, s # <<>> => n < Len(s)
  PROVE  [list |-> s, pos |-> n] \in PlaylistOf(S)
<1>1. Len(s) \in Nat
  OBVIOUS
<1> QED
  BY <1>1 DEF PlaylistOf, IsPlaylist

\* m_playlist as constructed is a playlist.
LEMMA EmptyIsPlaylist == \A S : Empty \in PlaylistOf(S)
  BY DEF Empty, PlaylistOf, IsPlaylist

\* New entries come last; the position goes to the first of them or stays.
LEMMA PushBackAdds ==
  ASSUME NEW S, NEW p \in PlaylistOf(S), NEW entries \in Seq(S), NEW move \in BOOLEAN
  PROVE  /\ PushBack(p, entries, move) \in PlaylistOf(S)
         /\ Begins(p.list, PushBack(p, entries, move).list)
         /\ Len(PushBack(p, entries, move).list) = Len(p.list) + Len(entries)
         /\ \A i \in 1 .. Len(entries) :
              PushBack(p, entries, move).list[Len(p.list) + i] = entries[i]
         /\ entries = <<>> \/ ~move => PushBack(p, entries, move).pos = p.pos
<1> DEFINE q == PushBack(p, entries, move)
<1>1. /\ p.list \in Seq(S) /\ p.pos \in Nat /\ Len(p.list) \in Nat /\ Len(entries) \in Nat
      /\ p.list = <<>> => p.pos = 0
      /\ p.list # <<>> => p.pos < Len(p.list)
  BY PlaylistParts
<1>2. /\ q.list = p.list \o entries
      /\ q.pos = IF move /\ entries # <<>> THEN Len(p.list) ELSE p.pos
      /\ q = [list |-> q.list, pos |-> q.pos]
  BY DEF PushBack
<1> HIDE DEF q
<1>3. /\ q.list \in Seq(S) /\ Len(q.list) = Len(p.list) + Len(entries)
      /\ \A i \in 1 .. Len(p.list) + Len(entries) :
           q.list[i] = IF i <= Len(p.list) THEN p.list[i] ELSE entries[i - Len(p.list)]
  BY <1>1, <1>2, ConcatProperties
<1>4. entries # <<>> => Len(entries) > 0
  BY <1>1, EmptySeq
<1>5. p.list # <<>> => Len(p.list) > 0
  BY <1>1, EmptySeq
<1>6. q \in PlaylistOf(S)
  <2>1. q.pos \in Nat
    BY <1>1, <1>2
  <2>2. q.list # <<>> => q.pos < Len(q.list)
    <3>1. CASE move /\ entries # <<>>
      BY <3>1, <1>1, <1>2, <1>3, <1>4
    <3>2. CASE ~(move /\ entries # <<>>) /\ p.list # <<>>
      BY <3>2, <1>1, <1>2, <1>3
    <3>3. CASE ~(move /\ entries # <<>>) /\ p.list = <<>>
      <4>1. q.pos = 0
        BY <3>3, <1>1, <1>2
      <4>2. q.list # <<>> => Len(q.list) > 0
        BY <1>3, EmptySeq
      <4> QED
        BY <4>1, <4>2
    <3> QED BY <3>1, <3>2, <3>3
  <2>3. q.list = <<>> => q.pos = 0
    <3>1. q.list = <<>> => Len(p.list) + Len(entries) = 0
      BY <1>3, EmptySeq
    <3>2. q.list = <<>> => p.list = <<>> /\ entries = <<>>
      BY <3>1, <1>1, <1>4, <1>5
    <3> QED
      BY <3>2, <1>1, <1>2
  <2> QED
    BY <1>2, <1>3, <2>1, <2>2, <2>3, PlaylistMade
<1>7. Begins(p.list, q.list)
  BY <1>1, <1>3, SMTT(30) DEF Begins
<1>8. \A i \in 1 .. Len(entries) : q.list[Len(p.list) + i] = entries[i]
  BY <1>1, <1>3, SMTT(30)
<1> QED
  BY <1>2, <1>3, <1>6, <1>7, <1>8 DEF q

\* Swapping two entries (std::swap in MoveCurrentToPrev and MoveCurrentToNext) loses none.
LEMMA SwapReorders ==
  ASSUME NEW S, NEW s \in Seq(S), NEW i \in 1 .. Len(s), NEW j \in 1 .. Len(s)
  PROVE  /\ Swap(s, i, j) \in Seq(S) /\ Reorders(s, Swap(s, i, j))
         /\ Swap(s, i, j)[i] = s[j] /\ Swap(s, i, j)[j] = s[i]
<1> DEFINE t == Swap(s, i, j)
           f == [k \in 1 .. Len(s) |-> IF k = j THEN i ELSE IF k = i THEN j ELSE k]
<1>1. Len(s) \in Nat /\ s \in [1 .. Len(s) -> S] /\ s[i] \in S /\ s[j] \in S
  BY LenProperties, ElementOfSeq
<1>2. t \in [1 .. Len(s) -> S]
  BY <1>1 DEF Swap
<1>3. \A k \in 1 .. Len(s) : t[k] = IF k = j THEN s[i] ELSE IF k = i THEN s[j] ELSE s[k]
  BY <1>1 DEF Swap
<1>4. t \in Seq(S) /\ Len(t) = Len(s)
  BY <1>1, <1>2
<1>5. f \in [1 .. Len(s) -> 1 .. Len(s)] /\ \A k \in 1 .. Len(s) : t[k] = s[f[k]]
  BY <1>3
<1>6. \A k, l \in 1 .. Len(s) : f[k] = f[l] => k = l
  OBVIOUS
<1>7. Reorders(s, t)
  <2> HIDE DEF f, t
  <2> QED
    BY <1>4, <1>5, <1>6, SMTT(30) DEF Reorders, Selects
<1> QED
  BY <1>3, <1>4, <1>7

\* A list is a reordering of itself.
LEMMA ReordersSelf == ASSUME NEW S, NEW s \in Seq(S) PROVE Reorders(s, s)
<1> DEFINE f == [k \in 1 .. Len(s) |-> k]
<1>1. f \in [1 .. Len(s) -> 1 .. Len(s)] /\ \A k \in 1 .. Len(s) : s[k] = s[f[k]]
  OBVIOUS
<1>2. \A k, l \in 1 .. Len(s) : f[k] = f[l] => k = l
  OBVIOUS
<1> HIDE DEF f
<1> QED
  BY <1>1, <1>2 DEF Reorders, Selects

\* Moving the current entry towards the beginning or the end.
LEMMA MovesKeep ==
  ASSUME NEW S, NEW p \in PlaylistOf(S), NEW q \in {MoveCurrentToPrev(p), MoveCurrentToNext(p)}
  PROVE  q \in PlaylistOf(S) /\ Keeps(p, q) /\ Reorders(p.list, q.list)
<1>1. /\ p.list \in Seq(S) /\ p.pos \in Nat /\ Len(p.list) \in Nat
      /\ p.list = <<>> => p.pos = 0
      /\ p.list # <<>> => p.pos < Len(p.list)
  BY PlaylistParts
<1>2. CASE q = p
  BY <1>1, <1>2, ReordersSelf DEF Keeps
<1>3. ASSUME NEW a \in 1 .. Len(p.list), NEW b \in 1 .. Len(p.list),
             a = p.pos + 1, q = [list |-> Swap(p.list, b, a), pos |-> b - 1]
      PROVE  q \in PlaylistOf(S) /\ Keeps(p, q) /\ Reorders(p.list, q.list)
  <2>1. /\ q.list \in Seq(S) /\ Reorders(p.list, q.list) /\ Len(q.list) = Len(p.list)
        /\ q.list[b] = p.list[a] /\ q.pos = b - 1
    <3>1. /\ Swap(p.list, b, a) \in Seq(S) /\ Reorders(p.list, Swap(p.list, b, a))
          /\ Swap(p.list, b, a)[b] = p.list[a]
      BY <1>1, SwapReorders
    <3>2. q.list = Swap(p.list, b, a) /\ q.pos = b - 1
      BY <1>3
    <3> QED
      BY <3>1, <3>2 DEF Reorders
  <2>2. q.pos \in Nat /\ q.pos < Len(q.list) /\ q.list # <<>> /\ q.pos + 1 = b
    BY <1>1, <2>1, EmptySeq
  <2>3. q \in PlaylistOf(S)
    <3>1. q = [list |-> q.list, pos |-> q.pos]
      BY <1>3
    <3> QED
      BY <2>1, <2>2, <3>1, PlaylistMade
  <2>4. Keeps(p, q)
    BY <1>3, <2>1, <2>2 DEF Keeps, Current
  <2> QED
    BY <2>1, <2>3, <2>4
<1>4. CASE q = MoveCurrentToPrev(p) /\ p.pos # 0
  <2>1. /\ p.pos \in 1 .. Len(p.list) /\ p.pos + 1 \in 1 .. Len(p.list)
    BY <1>1, <1>4
  <2>2. q = [list |-> Swap(p.list, p.pos, p.pos + 1), pos |-> p.pos - 1]
    BY <1>4 DEF MoveCurrentToPrev
  <2> QED
    BY <1>3, <2>1, <2>2
<1>5. CASE q = MoveCurrentToNext(p) /\ p.pos + 1 < Len(p.list)
  <2>1. /\ p.pos + 2 \in 1 .. Len(p.list) /\ p.pos + 1 \in 1 .. Len(p.list)
    BY <1>1, <1>5
  <2>2. q = [list |-> Swap(p.list, p.pos + 1, p.pos + 2), pos |-> p.pos + 1]
    BY <1>1, <1>5 DEF MoveCurrentToNext
  <2>3. Swap(p.list, p.pos + 1, p.pos + 2) = Swap(p.list, p.pos + 2, p.pos + 1)
    <3>1. p.list \in [1 .. Len(p.list) -> S] /\ p.pos + 1 # p.pos + 2
      BY <1>1, LenProperties
    <3> QED
      BY <3>1, <2>1 DEF Swap
  <2> QED
    BY <1>1, <1>3, <2>1, <2>2, <2>3
<1> QED
  BY <1>1, <1>2, <1>4, <1>5 DEF MoveCurrentToPrev, MoveCurrentToNext

\* Sorting and shuffling.
LEMMA SortKeeps ==
  ASSUME NEW S, NEW p \in PlaylistOf(S),
         NEW order \in Bijection(1 .. Len(p.list), 1 .. Len(p.list))
  PROVE  /\ Sort(p, order) \in PlaylistOf(S) /\ Keeps(p, Sort(p, order))
         /\ Reorders(p.list, Sort(p, order).list)
<1> DEFINE q == Sort(p, order)
           k == Place(order, p.pos + 1)
<1>1. p.list \in Seq(S) /\ Len(p.list) \in Nat
  BY PlaylistParts
<1>2. CASE p.list = <<>>
  <2>1. q = p
    BY <1>2 DEF Sort
  <2> QED
    BY <2>1, <1>1, <1>2, ReordersSelf DEF Keeps
<1>3. CASE p.list # <<>>
  <2>1. p.pos + 1 \in 1 .. Len(p.list) /\ Current(p) = p.list[p.pos + 1]
    BY <1>3, PlaylistParts DEF Current
  <2>2. /\ order \in [1 .. Len(p.list) -> 1 .. Len(p.list)]
        /\ \A i, j \in 1 .. Len(p.list) : order[i] = order[j] => i = j
        /\ \A t \in 1 .. Len(p.list) : \E i \in 1 .. Len(p.list) : order[i] = t
    BY DEF Bijection, Injection, Surjection, IsInjective
  <2>3. k \in 1 .. Len(p.list) /\ order[k] = p.pos + 1
    BY <2>1, <2>2 DEF Place
  <2>4. q = [list |-> [i \in 1 .. Len(p.list) |-> p.list[order[i]]], pos |-> k - 1]
    BY <1>3 DEF Sort
  <2> HIDE DEF q, k
  <2>5. \A i \in 1 .. Len(p.list) : p.list[order[i]] \in S
    BY <1>1, <2>2, ElementOfSeq
  <2>6. /\ q.list \in Seq(S) /\ Len(q.list) = Len(p.list) /\ q.pos = k - 1
        /\ \A i \in 1 .. Len(p.list) : q.list[i] = p.list[order[i]]
    BY <1>1, <2>4, <2>5
  <2>7. q.list # <<>> /\ q.pos \in Nat /\ q.pos < Len(q.list) /\ q.pos + 1 = k
    BY <1>1, <2>1, <2>3, <2>6, EmptySeq
  <2>8. q \in PlaylistOf(S)
    <3>1. q = [list |-> q.list, pos |-> q.pos]
      BY <2>4
    <3> QED
      BY <2>6, <2>7, <3>1, PlaylistMade
  <2>9. Keeps(p, q)
    BY <2>1, <2>3, <2>6, <2>7 DEF Keeps, Current
  <2>10. Reorders(p.list, q.list)
    <3>1. /\ order \in [1 .. Len(q.list) -> 1 .. Len(p.list)]
          /\ \A i, j \in 1 .. Len(q.list) : order[i] = order[j] => i = j
          /\ \A i \in 1 .. Len(q.list) : q.list[i] = p.list[order[i]]
      BY <2>2, <2>6
    <3>2. Selects(p.list, q.list)
      BY <3>1 DEF Selects
    <3> QED
      BY <2>6, <3>2 DEF Reorders
  <2> QED
    BY <2>8, <2>9, <2>10 DEF q
<1> QED
  BY <1>2, <1>3

\* ClearWithoutCurrent keeps the current entry, and the position is at it.
LEMMA ClearKeeps ==
  ASSUME NEW S, NEW p \in PlaylistOf(S)
  PROVE  /\ ClearWithoutCurrent(p) \in PlaylistOf(S) /\ Keeps(p, ClearWithoutCurrent(p))
         /\ Selects(p.list, ClearWithoutCurrent(p).list)
         /\ p.list # <<>> => ClearWithoutCurrent(p) = [list |-> <<Current(p)>>, pos |-> 0]
<1> DEFINE q == ClearWithoutCurrent(p)
<1>1. p.list \in Seq(S) /\ Len(p.list) \in Nat
  BY PlaylistParts
<1>2. CASE p.list = <<>>
  <2>1. q = p
    BY <1>2 DEF ClearWithoutCurrent
  <2> QED
    BY <2>1, <1>1, <1>2, ReordersSelf DEF Keeps, Reorders
<1>3. CASE p.list # <<>>
  <2>1. p.pos + 1 \in 1 .. Len(p.list) /\ Current(p) \in S /\ Current(p) = p.list[p.pos + 1]
    BY <1>3, PlaylistParts DEF Current
  <2>2. q = [list |-> <<Current(p)>>, pos |-> 0]
    BY <1>3 DEF ClearWithoutCurrent
  <2> HIDE DEF q
  <2>3. /\ <<Current(p)>> \in Seq(S) /\ Len(<<Current(p)>>) = 1
        /\ <<Current(p)>> # <<>> /\ <<Current(p)>>[1] = Current(p)
    BY <2>1
  <2>4. q.list = <<Current(p)>> /\ q.pos = 0
    BY <2>2
  <2>5. q \in PlaylistOf(S)
    <3>1. /\ q.list \in Seq(S) /\ q.list # <<>> /\ Len(q.list) = 1
          /\ q = [list |-> q.list, pos |-> 0]
      BY <2>2, <2>3, <2>4
    <3> QED
      BY <3>1, PlaylistMade
  <2>6. Keeps(p, q)
    <3>1. q.list # <<>> /\ q.list[q.pos + 1] = Current(p)
      BY <2>3, <2>4
    <3> QED
      BY <3>1 DEF Keeps, Current
  <2>7. Selects(p.list, q.list)
    <3> DEFINE f == [i \in 1 .. 1 |-> p.pos + 1]
    <3>1. /\ f \in [1 .. Len(q.list) -> 1 .. Len(p.list)]
          /\ \A i, j \in 1 .. Len(q.list) : f[i] = f[j] => i = j
      BY <2>1, <2>3, <2>4
    <3>2. \A i \in 1 .. Len(q.list) : q.list[i] = p.list[f[i]]
      BY <2>1, <2>3, <2>4
    <3> HIDE DEF f
    <3> QED
      BY <3>1, <3>2 DEF Selects
  <2> QED
    BY <2>2, <2>5, <2>6, <2>7 DEF q
<1> QED
  BY <1>2, <1>3

\* The entries but the one at place n, which must be there.
Without(s, n) == SubSeq(s, 1, n - 1) \o SubSeq(s, n + 1, Len(s))

\* What is left when the entry at place n is taken out, and at which places.
LEMMA WithoutOne ==
  ASSUME NEW S, NEW s \in Seq(S), NEW n \in 1 .. Len(s)
  PROVE  /\ Without(s, n) \in Seq(S) /\ Len(Without(s, n)) = Len(s) - 1
         /\ \A i \in 1 .. Len(s) - 1 :
              Without(s, n)[i] = s[IF i < n THEN i ELSE i + 1]
<1> DEFINE a == SubSeq(s, 1, n - 1)
           b == SubSeq(s, n + 1, Len(s))
<1>1. Len(s) \in Nat /\ n \in Nat /\ \A i \in 1 .. Len(s) : s[i] \in S
  BY LenProperties, ElementOfSeq
<1>2. /\ a \in Seq(S) /\ Len(a) = n - 1 /\ \A i \in 1 .. n - 1 : a[i] = s[i]
  <2>1. \A i \in 1 .. n - 1 : s[i] \in S
    BY <1>1
  <2>2. /\ a \in Seq(S) /\ Len(a) = IF 1 <= n - 1 THEN n - 1 - 1 + 1 ELSE 0
        /\ \A i \in 1 .. n - 1 - 1 + 1 : a[i] = s[1 + i - 1]
    BY <1>1, <2>1, SubSeqProperties
  <2> QED
    BY <2>2, <1>1
<1>3. /\ b \in Seq(S) /\ Len(b) = Len(s) - n
      /\ \A i \in 1 .. Len(s) - n : b[i] = s[n + i]
  <2>1. \A i \in n + 1 .. Len(s) : s[i] \in S
    BY <1>1
  <2>2. /\ b \in Seq(S) /\ Len(b) = IF n + 1 <= Len(s) THEN Len(s) - (n + 1) + 1 ELSE 0
        /\ \A i \in 1 .. Len(s) - (n + 1) + 1 : b[i] = s[n + 1 + i - 1]
    BY <1>1, <2>1, SubSeqProperties
  <2> QED
    BY <2>2, <1>1
<1> HIDE DEF a, b
<1>4. /\ a \o b \in Seq(S) /\ Len(a \o b) = Len(a) + Len(b)
      /\ \A i \in 1 .. Len(a) + Len(b) :
           (a \o b)[i] = IF i <= Len(a) THEN a[i] ELSE b[i - Len(a)]
  BY <1>2, <1>3, ConcatProperties
<1>5. Without(s, n) = a \o b
  BY DEF Without, a, b
<1>6. \A i \in 1 .. Len(s) - 1 : (a \o b)[i] = s[IF i < n THEN i ELSE i + 1]
  <2> SUFFICES ASSUME NEW i \in 1 .. Len(s) - 1
               PROVE  (a \o b)[i] = s[IF i < n THEN i ELSE i + 1]
    OBVIOUS
  <2>1. (a \o b)[i] = IF i <= Len(a) THEN a[i] ELSE b[i - Len(a)]
    BY <1>1, <1>2, <1>3, <1>4
  <2>2. CASE i < n
    BY <2>1, <2>2, <1>1, <1>2
  <2>3. CASE ~(i < n)
    <3>1. i - Len(a) \in 1 .. Len(s) - n /\ ~(i <= Len(a)) /\ n + (i - Len(a)) = i + 1
      BY <2>3, <1>1, <1>2
    <3> QED
      BY <2>1, <2>3, <3>1, <1>3
  <2> QED BY <2>2, <2>3
<1> QED
  BY <1>1, <1>2, <1>3, <1>4, <1>5, <1>6, SMTT(30)

\* Erasing takes the current entry alone, and the position stays in the list.
LEMMA EraseTakesOne ==
  ASSUME NEW S, NEW p \in PlaylistOf(S), p.list # <<>>
  PROVE  /\ EraseCurrent(p) \in PlaylistOf(S)
         /\ Lacks(p.list, EraseCurrent(p).list, p.pos + 1)
         /\ Selects(p.list, EraseCurrent(p).list)
         /\ EraseCurrent(p).list # <<>> =>
              Current(EraseCurrent(p)) = p.list[IF p.pos + 1 < Len(p.list)
                                                THEN p.pos + 2 ELSE p.pos]
<1> DEFINE q == EraseCurrent(p)
           rest == Without(p.list, p.pos + 1)
<1>1. /\ p.list \in Seq(S) /\ Len(p.list) \in Nat /\ p.pos \in Nat
      /\ p.pos + 1 \in 1 .. Len(p.list)
  BY PlaylistParts
<1>2. /\ rest \in Seq(S) /\ Len(rest) = Len(p.list) - 1
      /\ \A i \in 1 .. Len(p.list) - 1 : rest[i] = p.list[IF i < p.pos + 1 THEN i ELSE i + 1]
  BY <1>1, WithoutOne
<1>3. rest = SubSeq(p.list, 1, p.pos) \o SubSeq(p.list, p.pos + 2, Len(p.list))
  <2> DEFINE m == (p.pos + 1) - 1
             k == (p.pos + 1) + 1
  <2>1. m = p.pos /\ k = p.pos + 2
    BY <1>1
  <2>2. rest = SubSeq(p.list, 1, m) \o SubSeq(p.list, k, Len(p.list))
    BY DEF Without
  <2> HIDE DEF m, k, rest
  <2> QED
    BY <2>1, <2>2, Zenon
<1>4. q = [list |-> rest,
           pos |-> IF p.pos # 0 /\ p.pos >= Len(rest) THEN p.pos - 1 ELSE p.pos]
  BY <1>3 DEF EraseCurrent
<1> HIDE DEF q, rest
<1>5. rest = <<>> => Len(rest) = 0
  BY <1>2, EmptySeq
<1>6. q \in PlaylistOf(S)
  <2> DEFINE n == IF p.pos # 0 /\ p.pos >= Len(rest) THEN p.pos - 1 ELSE p.pos
  <2>1. n \in Nat /\ (rest # <<>> => n < Len(rest)) /\ (rest = <<>> => n = 0)
    BY <1>1, <1>2, <1>5, EmptySeq
  <2> HIDE DEF n
  <2>2. [list |-> rest, pos |-> n] \in PlaylistOf(S)
    BY <1>2, <2>1, PlaylistMade
  <2> QED
    BY <1>4, <2>2 DEF n
<1>7. Selects(p.list, rest)
  <2> DEFINE f == [i \in 1 .. Len(rest) |-> IF i < p.pos + 1 THEN i ELSE i + 1]
  <2>1. f \in [1 .. Len(rest) -> 1 .. Len(p.list)]
    BY <1>1, <1>2
  <2>2. \A i, j \in 1 .. Len(rest) : f[i] = f[j] => i = j
    BY <1>1, <1>2
  <2>3. \A i \in 1 .. Len(rest) : rest[i] = p.list[f[i]]
    BY <1>1, <1>2
  <2> HIDE DEF f
  <2> QED
    BY <2>1, <2>2, <2>3 DEF Selects
<1>8. Lacks(p.list, rest, p.pos + 1)
  <2>1. \A i \in 1 .. Len(rest) : rest[i] = p.list[IF i < p.pos + 1 THEN i ELSE i + 1]
    BY <1>1, <1>2
  <2> QED
    BY <1>2, <2>1, Zenon DEF Lacks
<1>9. ASSUME rest # <<>>
      PROVE  rest[q.pos + 1] = p.list[IF p.pos + 1 < Len(p.list) THEN p.pos + 2 ELSE p.pos]
  <2>1. Len(rest) > 0
    BY <1>2, <1>9, EmptySeq
  <2>2. CASE p.pos + 1 < Len(p.list)
    <3> DEFINE i == p.pos + 1
    <3>1. /\ q.pos = p.pos /\ i \in 1 .. Len(p.list) - 1
          /\ ~(i < i) /\ i + 1 = p.pos + 2
      BY <2>2, <1>1, <1>2, <1>4
    <3>2. rest[i] = p.list[IF i < i THEN i ELSE i + 1]
      BY <3>1, <1>2
    <3> QED
      BY <2>2, <3>1, <3>2
  <2>3. CASE ~(p.pos + 1 < Len(p.list))
    <3>1. /\ p.pos + 1 = Len(p.list) /\ p.pos # 0 /\ p.pos >= Len(rest)
          /\ p.pos \in 1 .. Len(p.list) - 1 /\ p.pos < p.pos + 1
      BY <2>1, <2>3, <1>1, <1>2
    <3>2. q.pos = p.pos - 1 /\ q.pos + 1 = p.pos
      BY <3>1, <1>1, <1>4
    <3>3. rest[p.pos] = p.list[p.pos]
      BY <3>1, <1>2
    <3> QED
      BY <2>3, <3>2, <3>3
  <2> QED BY <2>2, <2>3
<1>10. q.list = rest
  BY <1>4
<1>11. Current(q) = rest[q.pos + 1]
  BY <1>10 DEF Current
<1> QED
  BY <1>6, <1>7, <1>8, <1>9, <1>10, <1>11, Zenon DEF q

\* Going to the previous or the next entry changes the position alone.
LEMMA StepsStay ==
  ASSUME NEW S, NEW p \in PlaylistOf(S), NEW loop \in BOOLEAN,
         NEW q \in {PrevOf(p, loop), NextOf(p, loop)}
  PROVE  q \in PlaylistOf(S) /\ q.list = p.list
<1>1. /\ p.list \in Seq(S) /\ p.pos \in Nat /\ Len(p.list) \in Nat
      /\ p.list # <<>> => p.pos < Len(p.list) /\ Len(p.list) > 0
  BY PlaylistParts, EmptySeq
<1>2. ASSUME NEW n \in Nat, p.list # <<>>, n < Len(p.list)
      PROVE  [p EXCEPT !.pos = n] \in PlaylistOf(S) /\ [p EXCEPT !.pos = n].list = p.list
  <2>1. [p EXCEPT !.pos = n] = [list |-> p.list, pos |-> n]
    BY DEF PlaylistOf
  <2> QED
    BY <2>1, <1>1, <1>2, PlaylistMade
<1>3. CASE q = PrevOf(p, loop)
  <2>1. CASE ~CanPrev(p, loop)
    BY <1>3, <2>1 DEF PrevOf
  <2>2. CASE CanPrev(p, loop)
    <3> DEFINE n == IF p.pos = 0 THEN Len(p.list) - 1 ELSE p.pos - 1
    <3>1. p.list # <<>>
      BY <2>2, PlaylistParts DEF CanPrev
    <3>2. n \in Nat /\ n < Len(p.list)
      BY <3>1, <1>1
    <3>3. q = [p EXCEPT !.pos = n]
      BY <1>3, <2>2 DEF PrevOf
    <3> HIDE DEF n
    <3> QED
      BY <3>1, <3>2, <3>3, <1>2
  <2> QED BY <2>1, <2>2
<1>4. CASE q = NextOf(p, loop)
  <2>1. CASE ~CanNext(p, loop)
    BY <1>4, <2>1 DEF NextOf
  <2>2. CASE CanNext(p, loop)
    <3> DEFINE n == IF p.pos + 1 >= Len(p.list) THEN 0 ELSE p.pos + 1
    <3>1. p.list # <<>>
      <4>1. p.list = <<>> => Len(p.list) = 0
        OBVIOUS
      <4> QED
        BY <2>2, <4>1, <1>1 DEF CanNext
    <3>2. n \in Nat /\ n < Len(p.list)
      BY <3>1, <1>1
    <3>3. q = [p EXCEPT !.pos = n]
      BY <1>4, <2>2 DEF NextOf
    <3> HIDE DEF n
    <3> QED
      BY <3>1, <3>2, <3>3, <1>2
  <2> QED BY <2>1, <2>2
<1> QED
  BY <1>3, <1>4

\* Prev and Next can move only in a list that has entries.
LEMMA CanHave ==
  ASSUME NEW S, NEW p \in PlaylistOf(S), NEW loop \in BOOLEAN,
         CanPrev(p, loop) \/ CanNext(p, loop)
  PROVE  p.list # <<>>
<1>1. p.list = <<>> => p.pos = 0 /\ Len(p.list) = 0
  BY PlaylistParts
<1> QED
  BY <1>1 DEF CanPrev, CanNext

-----------------------------------------------------------------------------
(* Lists *)

\* Entries that are some of a list's are numbered as they were, each once.
LEMMA SelectsIds ==
  ASSUME NEW s, NEW t, NEW n \in Nat, Selects(s, t), Distinct(s), Known(s, n)
  PROVE  Distinct(t) /\ Known(t, n)
<1>1. PICK f \in [1 .. Len(t) -> 1 .. Len(s)] :
        /\ \A i, j \in 1 .. Len(t) : f[i] = f[j] => i = j
        /\ \A i \in 1 .. Len(t) : t[i] = s[f[i]]
  BY DEF Selects
<1>2. \A i \in 1 .. Len(t) : f[i] \in 1 .. Len(s)
  BY <1>1
<1>3. Known(t, n)
  BY <1>1, <1>2 DEF Known
<1>4. Distinct(t)
  BY <1>1, <1>2 DEF Distinct
<1> QED
  BY <1>3, <1>4

\* Every list begins with the empty one: a menu that is not up shows nothing.
LEMMA BeginsEmpty == \A s : Begins(<<>>, s)
<1>1. \A s : Len(<<>>) = 0
  OBVIOUS
<1> QED
  BY DEF Begins

\* A list that was added to twice still begins as it did at first.
LEMMA BeginsTrans ==
  ASSUME NEW s \in Seq(Entry), NEW t \in Seq(Entry), NEW u \in Seq(Entry),
         Begins(s, t), Begins(t, u)
  PROVE  Begins(s, u)
<1>1. Len(s) \in Nat /\ Len(t) \in Nat /\ Len(u) \in Nat
  OBVIOUS
<1> QED
  BY <1>1 DEF Begins

\* Entries that are added get numbers of their own.
LEMMA AddsFresh ==
  ASSUME NEW p \in PlaylistOf(Entry), NEW n \in Nat, Distinct(p.list), Known(p.list, n),
         NEW entries \in Seq(Entry), NEW move \in BOOLEAN,
         \A i \in 1 .. Len(entries) : entries[i].id = n + i
  PROVE  /\ PushBack(p, entries, move) \in PlaylistOf(Entry)
         /\ Distinct(PushBack(p, entries, move).list)
         /\ Known(PushBack(p, entries, move).list, n + Len(entries))
         /\ Begins(p.list, PushBack(p, entries, move).list)
         /\ entries # <<>> \/ p.list # <<>> => PushBack(p, entries, move).list # <<>>
<1> DEFINE q == PushBack(p, entries, move)
<1>1. /\ q \in PlaylistOf(Entry) /\ Begins(p.list, q.list)
      /\ Len(q.list) = Len(p.list) + Len(entries)
      /\ \A i \in 1 .. Len(entries) : q.list[Len(p.list) + i] = entries[i]
  BY PushBackAdds
<1>2. /\ Len(p.list) \in Nat /\ Len(entries) \in Nat /\ p.list \in Seq(Entry)
      /\ q.list \in Seq(Entry) /\ Len(q.list) \in Nat
  BY <1>1, PlaylistParts
<1> HIDE DEF q
<1>3. \A i \in 1 .. Len(p.list) : q.list[i] = p.list[i]
  BY <1>1 DEF Begins
<1>4. ASSUME NEW i \in 1 .. Len(q.list)
      PROVE  \/ i \in 1 .. Len(p.list) /\ q.list[i] = p.list[i] /\ q.list[i].id \in 1 .. n
             \/ i > Len(p.list) /\ q.list[i].id = n + (i - Len(p.list))
  <2>1. CASE i <= Len(p.list)
    <3>1. i \in 1 .. Len(p.list)
      BY <2>1, <1>2
    <3>2. p.list[i].id \in 1 .. n
      BY <3>1 DEF Known
    <3>3. q.list[i] = p.list[i]
      BY <3>1, <1>3
    <3>4. q.list[i].id \in 1 .. n
      BY <3>2, <3>3
    <3> QED
      BY <3>1, <3>3, <3>4, Zenon
  <2>2. CASE ~(i <= Len(p.list))
    <3>1. i - Len(p.list) \in 1 .. Len(entries) /\ Len(p.list) + (i - Len(p.list)) = i
      BY <2>2, <1>1, <1>2
    <3>2. q.list[i] = entries[i - Len(p.list)]
      BY <3>1, <1>1
    <3>3. i > Len(p.list)
      BY <2>2, <1>2
    <3>4. q.list[i].id = n + (i - Len(p.list))
      BY <3>1, <3>2, Zenon
    <3> QED
      BY <3>3, <3>4, Zenon
  <2> QED BY <2>1, <2>2
<1>5. Known(q.list, n + Len(entries))
  <2> SUFFICES ASSUME NEW i \in 1 .. Len(q.list)
               PROVE  q.list[i].id \in 1 .. n + Len(entries)
    BY DEF Known
  <2>1. CASE q.list[i].id \in 1 .. n
    BY <2>1, <1>2
  <2>2. CASE i > Len(p.list) /\ q.list[i].id = n + (i - Len(p.list))
    BY <2>2, <1>1, <1>2, SMTT(30)
  <2> QED
    BY <2>1, <2>2, <1>4
<1>6. Distinct(q.list)
  <2> SUFFICES ASSUME NEW i \in 1 .. Len(q.list), NEW j \in 1 .. Len(q.list),
                      q.list[i].id = q.list[j].id
               PROVE  i = j
    BY DEF Distinct
  <2>1. \/ i \in 1 .. Len(p.list) /\ q.list[i] = p.list[i] /\ q.list[i].id \in 1 .. n
        \/ i > Len(p.list) /\ q.list[i].id = n + (i - Len(p.list))
    BY <1>4
  <2>2. \/ j \in 1 .. Len(p.list) /\ q.list[j] = p.list[j] /\ q.list[j].id \in 1 .. n
        \/ j > Len(p.list) /\ q.list[j].id = n + (j - Len(p.list))
    BY <1>4
  <2>3. CASE i \in 1 .. Len(p.list) /\ q.list[i] = p.list[i]
             /\ j \in 1 .. Len(p.list) /\ q.list[j] = p.list[j]
    BY <2>3, Zenon DEF Distinct
  <2>4. CASE i > Len(p.list) /\ q.list[i].id = n + (i - Len(p.list)) /\ q.list[j].id \in 1 .. n
    <3>1. q.list[j].id <= n /\ q.list[j].id = n + (i - Len(p.list))
      BY <2>4, <1>2
    <3> QED
      BY <2>4, <3>1, <1>2
  <2>5. CASE j > Len(p.list) /\ q.list[j].id = n + (j - Len(p.list)) /\ q.list[i].id \in 1 .. n
    <3>1. q.list[i].id <= n /\ q.list[i].id = n + (j - Len(p.list))
      BY <2>5, <1>2
    <3> QED
      BY <2>5, <3>1, <1>2
  <2>6. CASE /\ i > Len(p.list) /\ q.list[i].id = n + (i - Len(p.list))
             /\ j > Len(p.list) /\ q.list[j].id = n + (j - Len(p.list))
    <3>1. n + (i - Len(p.list)) = n + (j - Len(p.list))
      BY <2>6, Zenon
    <3> QED
      BY <3>1, <1>2, SMTT(30)
  <2> QED
    BY <2>1, <2>2, <2>3, <2>4, <2>5, <2>6, Zenon
<1>7. entries # <<>> \/ p.list # <<>> => q.list # <<>>
  <2>1. /\ entries # <<>> => Len(entries) > 0
        /\ p.list # <<>> => Len(p.list) > 0
        /\ q.list = <<>> => Len(q.list) = 0
    BY <1>2, EmptySeq
  <2> QED
    BY <2>1, <1>1, <1>2
<1> QED
  BY <1>1, <1>5, <1>6, <1>7 DEF q

-----------------------------------------------------------------------------
(* The invariant *)

\* The invariant holds when the plugin has been constructed (CTvtPlay::CTvtPlay).
LEMMA SInvInit == Init => SInv
<1> SUFFICES ASSUME Init PROVE SInv
  OBVIOUS
<1>1. /\ playlist = Empty /\ added = 0 /\ menu = <<>> /\ ui = "idle" /\ posted = "none"
      /\ file = NotOpen /\ alive = FALSE /\ limit \in Limits
      /\ \E m \in limit.repeats : all = m[1] /\ single = m[2]
  BY DEF Init
<1>2. ListInv
  <2>1. playlist.list = <<>> /\ Len(playlist.list) = 0
    BY <1>1 DEF Empty
  <2> QED
    BY <1>1, <2>1, EmptyIsPlaylist DEF ListInv, Distinct, Known
<1>3. ModeInv
  <2>1. all \in BOOLEAN /\ single \in BOOLEAN
    BY <1>1, SessionAssumption
  <2> QED
    BY <1>1, <2>1 DEF ModeInv
<1>4. MenuInv /\ GoInv
  BY <1>1, BeginsEmpty DEF MenuInv, GoInv
<1>5. OpenIsCurrent
  BY <1>1 DEF OpenIsCurrent, IsOpen
<1> QED
  BY <1>2, <1>3, <1>4, <1>5 DEF SInv

\* What a step that leaves the list and the menu alone keeps.
LEMMA Quiet ==
  ASSUME SInv, UNCHANGED <<playlist, added, menu, limit>>, ui' # "erase"
  PROVE  /\ ListInv' /\ MenuInv'
         /\ UNCHANGED <<all, single, alive, ui, posted>> => ModeInv'
         /\ UNCHANGED ui => GoInv'
         /\ ui' # "idle" => OpenIsCurrent'
         /\ UNCHANGED <<ui, file>> => OpenIsCurrent'
<1>1. ListInv'
  BY DEF SInv, ListInv
<1>2. MenuInv'
  BY DEF SInv, MenuInv
<1>3. UNCHANGED <<all, single, alive, ui, posted>> => ModeInv'
  BY DEF SInv, ModeInv
<1>4. UNCHANGED ui => GoInv'
  BY DEF SInv, GoInv
<1>5. ui' # "idle" => OpenIsCurrent'
  BY DEF OpenIsCurrent, Idle
<1>6. UNCHANGED <<ui, file>> => OpenIsCurrent'
  BY DEF SInv, OpenIsCurrent, Idle, IsOpen
<1> QED
  BY <1>1, <1>2, <1>3, <1>4, <1>5, <1>6

\* Every step but those of the list has one of these shapes.
LEMMA QuietSteps ==
  ASSUME SInv, UNCHANGED limit,
         \/ Play \/ CloseFile \/ Seek \/ SetRepeat \/ AtEnd \/ Timer
         \/ SeekAsked \/ Plays \/ Ceases \/ Tells \/ Ends \/ Quit
  PROVE  SInv'
<1>1. CASE Play \/ CloseFile
  <2>1. /\ UNCHANGED <<playlist, added, menu, all, single, alive, posted>>
        /\ ui' \in {"open", "close"} /\ (ui' = "open" => playlist.list # <<>>)
    BY <1>1 DEF Play, CloseFile, Go, list, modes, sender
  <2>2. ModeInv'
    BY <2>1 DEF SInv, ModeInv
  <2>3. GoInv'
    BY <2>1 DEF GoInv
  <2> QED
    BY <2>1, <2>2, <2>3, Quiet DEF SInv
<1>2. CASE Seek \/ Timer \/ SeekAsked \/ Plays \/ Tells
  <2>1. UNCHANGED <<playlist, added, menu, all, single, alive, posted, ui, file>>
    BY <1>2 DEF Seek, Timer, SeekAsked, Plays, Tells, Elsewhere, Busy, list, modes, sender
  <2>2. ui' # "erase" \/ menu' = <<>>
    BY <2>1 DEF SInv, MenuInv
  <2> QED
    BY <2>1, <2>2, Zenon
       DEF SInv, ListInv, MenuInv, ModeInv, GoInv, OpenIsCurrent, Idle, IsOpen
<1>3. CASE SetRepeat
  <2>1. /\ UNCHANGED <<playlist, added, menu, alive, posted, ui, file>> /\ ui = "idle"
        /\ \E m \in limit.repeats : all' = m[1] /\ single' = m[2]
    BY <1>3 DEF SetRepeat, Idle, list, sender
  <2>2. all' \in BOOLEAN /\ single' \in BOOLEAN
    BY <2>1, SessionAssumption DEF SInv, ModeInv
  <2>3. ModeInv'
    BY <2>1, <2>2 DEF SInv, ModeInv
  <2> QED
    BY <2>1, <2>3, Quiet DEF SInv
<1>4. CASE AtEnd
  <2>1. /\ UNCHANGED <<playlist, added, menu, all, single, alive, file>>
        /\ posted' = "none" /\ ui' \in {"next", "idle"} /\ (ui' = "idle" => ui' = ui)
    BY <1>4 DEF AtEnd, Idle, Go, Busy, list, modes
  <2>2. ModeInv'
    BY <2>1 DEF SInv, ModeInv
  <2>3. GoInv'
    BY <2>1 DEF GoInv
  <2> QED
    BY <2>1, <2>2, <2>3, Quiet DEF SInv
<1>5. CASE Ceases
  <2>1. /\ UNCHANGED <<playlist, added, menu, all, single, alive, posted, ui>>
        /\ file.fixed = FALSE \/ ~file.fixed
        /\ file' = [file EXCEPT !.fixed = TRUE]
    BY <1>5 DEF Ceases, Elsewhere, list, modes
  <2>2. file # NotOpen
    BY <2>1 DEF NotOpen
  <2>3. OpenIsCurrent'
    <3>1. file'.entry = file.entry
      BY <2>1
    <3> QED
      BY <2>1, <2>2, <3>1 DEF SInv, OpenIsCurrent, Idle, IsOpen
  <2> QED
    BY <2>1, <2>3, Zenon DEF SInv, ListInv, MenuInv, ModeInv, GoInv
<1>6. CASE Ends
  <2>1. /\ UNCHANGED <<playlist, added, menu, all, single, alive, ui, file>>
        /\ posted' \in {"begin", "next"}
    BY <1>6 DEF Ends, Elsewhere, list, modes, sender
  <2>2. ModeInv'
    BY <2>1 DEF SInv, ModeInv
  <2> QED
    BY <2>1, <2>2, Zenon DEF SInv, ListInv, MenuInv, GoInv, OpenIsCurrent, Idle, IsOpen
<1>7. CASE Quit
  <2>1. /\ UNCHANGED <<playlist, added, menu, all, single, ui, file, posted>>
        /\ alive' = FALSE
    BY <1>7 DEF Quit, Elsewhere, list, modes
  <2>2. ModeInv'
    BY <2>1 DEF SInv, ModeInv
  <2> QED
    BY <2>1, <2>2, Zenon DEF SInv, ListInv, MenuInv, GoInv, OpenIsCurrent, Idle, IsOpen
<1> QED
  BY <1>1, <1>2, <1>3, <1>4, <1>5, <1>6, <1>7

\* What the invariant asks of the list after a step.
LEMMA ListNext ==
  ASSUME playlist' \in PlaylistOf(Entry), added' \in Nat,
         Distinct(playlist'.list), Known(playlist'.list, added')
  PROVE  ListInv'
<1>1. (playlist \in PlaylistOf(Entry))' /\ (added \in Nat)'
  OBVIOUS
<1>2. (Distinct(playlist.list))'
  OBVIOUS
<1>3. (Known(playlist.list, added))'
  OBVIOUS
<1> QED
  BY <1>1, <1>2, <1>3 DEF ListInv

\* Files are added while a menu may be up.
LEMMA AddKeeps == ASSUME SInv, UNCHANGED limit, Add PROVE SInv'
<1>0. PICK n \in 0 .. 2 : \E paths \in [1 .. n -> Paths] :
        /\ Idle /\ playlist' = PushBack(playlist, Entries(paths), TRUE)
        /\ added' = added + n /\ (n > 0 => ui' = "open") /\ (~(n > 0) => UNCHANGED ui)
        /\ UNCHANGED <<all, single, menu, file, alive, posted>>
  BY DEF Add, Go, modes, sender
<1>1. PICK paths \in [1 .. n -> Paths] :
        /\ Idle /\ playlist' = PushBack(playlist, Entries(paths), TRUE)
        /\ added' = added + n /\ (n > 0 => ui' = "open") /\ (~(n > 0) => UNCHANGED ui)
        /\ UNCHANGED <<all, single, menu, file, alive, posted>>
  BY <1>0
<1> DEFINE es == Entries(paths)
<1>2. /\ playlist \in PlaylistOf(Entry) /\ added \in Nat
      /\ Distinct(playlist.list) /\ Known(playlist.list, added) /\ ui = "idle"
  BY <1>1 DEF SInv, ListInv, Idle
<1>3. /\ es \in Seq(Entry) /\ Len(es) = n /\ \A i \in 1 .. Len(es) : es[i].id = added + i
  <2>1. Len(paths) = n
    BY <1>1
  <2>2. es = [i \in 1 .. n |-> [path |-> paths[i], id |-> added + i]]
    BY <2>1 DEF Entries
  <2>3. \A i \in 1 .. n : [path |-> paths[i], id |-> added + i] \in Entry
    BY <1>1, <1>2 DEF Entry
  <2> HIDE DEF es
  <2>4. es \in Seq(Entry) /\ Len(es) = n
    BY <2>2, <2>3
  <2> QED
    BY <2>2, <2>4
<1> HIDE DEF es
<1>4. /\ playlist' \in PlaylistOf(Entry) /\ Distinct(playlist'.list)
      /\ Known(playlist'.list, added') /\ Begins(playlist.list, playlist'.list)
      /\ es # <<>> \/ playlist.list # <<>> => playlist'.list # <<>>
      /\ es = <<>> => playlist'.pos = playlist.pos
  <2>1. playlist' = PushBack(playlist, es, TRUE) /\ added' = added + Len(es) /\ TRUE \in BOOLEAN
    BY <1>1, <1>3 DEF es
  <2>2. /\ PushBack(playlist, es, TRUE) \in PlaylistOf(Entry)
        /\ Distinct(PushBack(playlist, es, TRUE).list)
        /\ Known(PushBack(playlist, es, TRUE).list, added + Len(es))
        /\ Begins(playlist.list, PushBack(playlist, es, TRUE).list)
        /\ es # <<>> \/ playlist.list # <<>> => PushBack(playlist, es, TRUE).list # <<>>
    BY <2>1, <1>2, <1>3, AddsFresh
  <2>3. es = <<>> => PushBack(playlist, es, TRUE).pos = playlist.pos
    BY <2>1, <1>2, <1>3, PushBackAdds
  <2> QED
    <3>1. playlist' \in PlaylistOf(Entry)
      BY <2>1, <2>2
    <3>2. Distinct(playlist'.list)
      BY <2>1, <2>2
    <3>3. Known(playlist'.list, added')
      BY <2>1, <2>2
    <3>4. Begins(playlist.list, playlist'.list)
      BY <2>1, <2>2
    <3>5. es # <<>> \/ playlist.list # <<>> => playlist'.list # <<>>
      BY <2>1, <2>2
    <3>6. es = <<>> => playlist'.pos = playlist.pos
      BY <2>1, <2>3
    <3> QED
      BY <3>1, <3>2, <3>3, <3>4, <3>5, <3>6, Zenon
<1>5. ListInv'
  <2>1. added' \in Nat
    BY <1>1, <1>2
  <2> QED
    BY <2>1, <1>4, ListNext
<1>6. MenuInv'
  <2>1. /\ menu \in Seq(Entry) /\ Begins(menu, playlist.list)
        /\ playlist.list \in Seq(Entry) /\ playlist'.list \in Seq(Entry)
    BY <1>2, <1>4, PlaylistParts DEF SInv, MenuInv
  <2>2. Begins(menu, playlist'.list)
    BY <2>1, <1>4, BeginsTrans
  <2>3. ui' # "erase"
    BY <1>1, <1>2
  <2> QED
    BY <2>1, <2>2, <2>3, <1>1 DEF MenuInv
<1>7. ModeInv'
  <2>1. ui' \in {"idle", "open"}
    BY <1>1, <1>2
  <2> QED
    BY <2>1, <1>1 DEF SInv, ModeInv
<1>8. GoInv'
  <2>1. ui' # "erase" /\ (ui' = "open" => es # <<>>)
    BY <1>1, <1>2, <1>3
  <2> QED
    BY <2>1, <1>4 DEF GoInv
<1>9. OpenIsCurrent'
  <2> SUFFICES ASSUME ui' = "idle", file' # NotOpen
               PROVE  playlist'.list # <<>> /\ Current(playlist') = file'.entry
    BY DEF OpenIsCurrent, Idle, IsOpen
  <2>1. es = <<>>
    BY <1>1, <1>3, EmptySeq
  <2>2. playlist.list # <<>> /\ Current(playlist) = file.entry /\ file' = file
    BY <1>1 DEF SInv, OpenIsCurrent, IsOpen
  <2>3. playlist.pos + 1 \in 1 .. Len(playlist.list)
    BY <1>2, <2>2, PlaylistParts
  <2>4. playlist'.list[playlist.pos + 1] = playlist.list[playlist.pos + 1]
    BY <2>3, <1>4 DEF Begins
  <2> QED
    BY <2>1, <2>2, <2>4, <1>4 DEF Current
<1> QED
  BY <1>5, <1>6, <1>7, <1>8, <1>9 DEF SInv

\* So are several at once, of which the first is opened (WM_DROPFILES).
LEMMA AddMoreKeeps == ASSUME SInv, UNCHANGED limit, AddMore PROVE SInv'
<1>1. PICK p \in Paths, q \in Paths :
        /\ Idle
        /\ playlist' = PushBack(PushBack(playlist, Entries(<<p>>), TRUE),
                                <<[path |-> q, id |-> added + 2]>>, FALSE)
        /\ added' = added + 2 /\ ui' = "open"
        /\ UNCHANGED <<all, single, menu, file, alive, posted>>
  BY DEF AddMore, Go, modes, sender
<1> DEFINE es == Entries(<<p>>)
           fs == <<[path |-> q, id |-> added + 2]>>
           m == PushBack(playlist, es, TRUE)
<1>2. /\ playlist \in PlaylistOf(Entry) /\ added \in Nat
      /\ Distinct(playlist.list) /\ Known(playlist.list, added)
  BY DEF SInv, ListInv
<1>3. /\ es \in Seq(Entry) /\ Len(es) = 1 /\ \A i \in 1 .. Len(es) : es[i].id = added + i
  <2>1. es = [i \in 1 .. 1 |-> [path |-> <<p>>[i], id |-> added + i]]
    BY DEF Entries
  <2>2. [path |-> p, id |-> added + 1] \in Entry
    BY <1>2 DEF Entry
  <2> HIDE DEF es
  <2>3. es \in Seq(Entry) /\ Len(es) = 1
    BY <2>1, <2>2
  <2> QED
    BY <2>1, <2>3
<1>4. /\ fs \in Seq(Entry) /\ Len(fs) = 1 /\ fs # <<>>
      /\ \A i \in 1 .. Len(fs) : fs[i].id = (added + 1) + i
  <2>1. [path |-> q, id |-> added + 2] \in Entry
    BY <1>2 DEF Entry
  <2> QED
    BY <2>1, <1>2
<1> HIDE DEF es, fs
<1>5. /\ m \in PlaylistOf(Entry) /\ Distinct(m.list) /\ Known(m.list, added + 1)
      /\ Begins(playlist.list, m.list)
  BY <1>2, <1>3, AddsFresh
<1>6. playlist' = PushBack(m, fs, FALSE) /\ added' = (added + 1) + Len(fs)
  BY <1>1, <1>2, <1>4 DEF es, fs
<1> HIDE DEF m
<1>7. /\ playlist' \in PlaylistOf(Entry) /\ Distinct(playlist'.list)
      /\ Known(playlist'.list, added') /\ Begins(m.list, playlist'.list)
      /\ playlist'.list # <<>>
  <2>1. added + 1 \in Nat /\ FALSE \in BOOLEAN
    BY <1>2
  <2>2. /\ PushBack(m, fs, FALSE) \in PlaylistOf(Entry)
        /\ Distinct(PushBack(m, fs, FALSE).list)
        /\ Known(PushBack(m, fs, FALSE).list, (added + 1) + Len(fs))
        /\ Begins(m.list, PushBack(m, fs, FALSE).list)
        /\ fs # <<>> \/ m.list # <<>> => PushBack(m, fs, FALSE).list # <<>>
    BY <2>1, <1>4, <1>5, AddsFresh
  <2> QED
    <3>1. playlist' \in PlaylistOf(Entry)
      BY <1>6, <2>2
    <3>2. Distinct(playlist'.list)
      BY <1>6, <2>2
    <3>3. Known(playlist'.list, added')
      BY <1>6, <2>2
    <3>4. Begins(m.list, playlist'.list)
      BY <1>6, <2>2
    <3>5. playlist'.list # <<>>
      BY <1>4, <1>6, <2>2
    <3> QED
      BY <3>1, <3>2, <3>3, <3>4, <3>5, Zenon
<1>8. ListInv'
  <2>1. added' \in Nat
    BY <1>1, <1>2
  <2> QED
    BY <2>1, <1>7, ListNext
<1>9. MenuInv'
  <2>1. /\ menu \in Seq(Entry) /\ Begins(menu, playlist.list)
        /\ playlist.list \in Seq(Entry) /\ m.list \in Seq(Entry) /\ playlist'.list \in Seq(Entry)
    BY <1>2, <1>5, <1>7, PlaylistParts DEF SInv, MenuInv
  <2>2. Begins(menu, m.list)
    BY <2>1, <1>5, BeginsTrans
  <2>3. Begins(menu, playlist'.list)
    BY <2>1, <2>2, <1>7, BeginsTrans
  <2> QED
    BY <2>1, <2>3, <1>1 DEF MenuInv
<1>10. ModeInv' /\ GoInv' /\ OpenIsCurrent'
  BY <1>1, <1>7 DEF SInv, ModeInv, GoInv, OpenIsCurrent, Idle
<1> QED
  BY <1>8, <1>9, <1>10 DEF SInv

\* A step that changes the position alone.
LEMMA PosKeeps ==
  ASSUME SInv, UNCHANGED <<limit, added, all, single, menu, alive>>,
         playlist' \in PlaylistOf(Entry), playlist'.list = playlist.list,
         \/ UNCHANGED <<playlist, ui, file>>
         \/ ui' = "open" /\ playlist.list # <<>>,
         UNCHANGED posted, ui = "idle"
  PROVE  SInv'
<1>1. /\ added \in Nat /\ Distinct(playlist.list) /\ Known(playlist.list, added)
      /\ menu \in Seq(Entry) /\ Begins(menu, playlist.list)
  BY DEF SInv, ListInv, MenuInv
<1>2. ListInv'
  <2>1. Distinct(playlist'.list) /\ Known(playlist'.list, added') /\ added' \in Nat
    BY <1>1
  <2> QED
    BY <2>1, ListNext
<1>3. MenuInv'
  <2>1. Begins(menu, playlist'.list) /\ menu' = menu /\ ui' # "erase"
    BY <1>1
  <2> QED
    BY <2>1, <1>1 DEF MenuInv
<1>4. ModeInv'
  BY DEF SInv, ModeInv
<1>5. GoInv'
  BY DEF GoInv
<1>6. OpenIsCurrent'
  BY DEF SInv, OpenIsCurrent, Idle, IsOpen
<1> QED
  BY <1>2, <1>3, <1>4, <1>5, <1>6 DEF SInv

\* ID_COMMAND_PREV and ID_COMMAND_SEEK_END move the position and open what is there.
LEMMA MovesOnKeep == ASSUME SInv, UNCHANGED limit, PrevFile \/ SeekEnd PROVE SInv'
<1>1. /\ Idle /\ UNCHANGED <<added, all, single, menu, posted, file, alive>>
      /\ \/ UNCHANGED <<playlist, ui>>
         \/ CanPrev(playlist, all) /\ playlist' = PrevOf(playlist, all) /\ ui' = "open"
         \/ CanNext(playlist, all) /\ playlist' = NextOf(playlist, all) /\ ui' = "open"
  BY DEF PrevFile, SeekEnd, Go, Busy, modes
<1>2. /\ playlist \in PlaylistOf(Entry) /\ all \in BOOLEAN
  BY DEF SInv, ListInv, ModeInv
<1>3. /\ PrevOf(playlist, all) \in PlaylistOf(Entry) /\ PrevOf(playlist, all).list = playlist.list
      /\ NextOf(playlist, all) \in PlaylistOf(Entry) /\ NextOf(playlist, all).list = playlist.list
  BY <1>2, StepsStay
<1>4. playlist' \in PlaylistOf(Entry) /\ playlist'.list = playlist.list
  BY <1>1, <1>2, <1>3
<1>5. CanPrev(playlist, all) \/ CanNext(playlist, all) => playlist.list # <<>>
  BY <1>2, CanHave
<1> QED
  BY <1>1, <1>4, <1>5, PosKeeps DEF Idle

\* The list has entries while a menu made of it is up.
LEMMA MenuHas == ASSUME SInv, menu # <<>> PROVE playlist.list # <<>>
<1>1. /\ menu \in Seq(Entry) /\ Len(menu) \in Nat /\ Len(menu) <= Len(playlist.list)
  BY DEF SInv, MenuInv, Begins
<1>2. Len(menu) > 0 /\ (playlist.list = <<>> => Len(playlist.list) = 0)
  BY <1>1, EmptySeq
<1> QED
  BY <1>1, <1>2

\* The menu shows the list as it is; the choice is an entry that was shown, and
\* is still at its place.
LEMMA MenuKeeps == ASSUME SInv, UNCHANGED limit, ShowMenu \/ Choose PROVE SInv'
<1>1. /\ playlist \in PlaylistOf(Entry) /\ playlist.list \in Seq(Entry)
      /\ added \in Nat /\ menu \in Seq(Entry)
      /\ Distinct(playlist.list) /\ Known(playlist.list, added)
  BY PlaylistParts DEF SInv, ListInv, MenuInv
<1>2. CASE ShowMenu
  <2>1. /\ UNCHANGED <<playlist, added, all, single, ui, file, alive, posted>>
        /\ ui = "idle" /\ menu' = playlist.list
    BY <1>2 DEF ShowMenu, Idle, list, modes, sender
  <2>2. MenuInv'
    <3>1. Begins(playlist.list, playlist.list)
      BY DEF Begins
    <3>2. (Begins(menu, playlist.list))'
      BY <2>1, <3>1
    <3>3. menu' \in Seq(Entry) /\ ui' # "erase"
      BY <1>1, <2>1
    <3> QED
      BY <3>2, <3>3 DEF MenuInv
  <2> QED
    BY <2>1, <2>2 DEF SInv, ListInv, ModeInv, GoInv, OpenIsCurrent, Idle, IsOpen
<1>3. CASE Choose
  <2>1. /\ UNCHANGED <<added, all, single, file, alive, posted>> /\ ui = "idle" /\ menu' = <<>>
        /\ \/ UNCHANGED <<playlist, ui>>
           \/ UNCHANGED playlist /\ ui' = "erase"
           \/ \E i \in 1 .. Len(menu) :
                /\ i <= Len(playlist.list) /\ playlist' = [playlist EXCEPT !.pos = i - 1]
                /\ ui' = "open"
    BY <1>3 DEF Choose, Idle, Go, modes, sender
  <2>2. /\ playlist' \in PlaylistOf(Entry) /\ playlist'.list = playlist.list
        /\ ui' \in {"open", "erase"} => playlist'.list # <<>>
    <3>0. playlist.list # <<>>
      BY <1>3, MenuHas DEF Choose
    <3>1. ASSUME NEW i \in 1 .. Len(menu), i <= Len(playlist.list)
          PROVE  /\ [playlist EXCEPT !.pos = i - 1] \in PlaylistOf(Entry)
                 /\ [playlist EXCEPT !.pos = i - 1].list = playlist.list
      <4>1. [playlist EXCEPT !.pos = i - 1] = [list |-> playlist.list, pos |-> i - 1]
        BY <1>1 DEF PlaylistOf
      <4>2. i - 1 \in Nat /\ i - 1 < Len(playlist.list) /\ playlist.list # <<>>
        BY <1>1, <3>1
      <4> QED
        BY <1>1, <4>1, <4>2, PlaylistMade
    <3>2. playlist' \in PlaylistOf(Entry) /\ playlist'.list = playlist.list
      <4>1. CASE UNCHANGED playlist
        BY <1>1, <4>1
      <4>2. CASE \E i \in 1 .. Len(menu) :
                   i <= Len(playlist.list) /\ playlist' = [playlist EXCEPT !.pos = i - 1]
        <5>1. PICK i \in 1 .. Len(menu) :
                i <= Len(playlist.list) /\ playlist' = [playlist EXCEPT !.pos = i - 1]
          BY <4>2
        <5>2. /\ [playlist EXCEPT !.pos = i - 1] \in PlaylistOf(Entry)
              /\ [playlist EXCEPT !.pos = i - 1].list = playlist.list
          BY <3>1, <5>1
        <5> QED
          BY <5>1, <5>2
      <4> QED
        BY <2>1, <4>1, <4>2, Zenon
    <3> QED
      BY <3>0, <3>2
  <2>3. ListInv'
    <3>1. Distinct(playlist'.list) /\ Known(playlist'.list, added') /\ added' \in Nat
      BY <1>1, <2>1, <2>2
    <3> QED
      BY <2>2, <3>1, ListNext
  <2>4. MenuInv'
    <3>1. Begins(menu', playlist'.list) /\ menu' \in Seq(Entry)
      BY <2>1, BeginsEmpty
    <3> QED
      BY <2>1, <3>1 DEF MenuInv
  <2>5. ModeInv' /\ GoInv'
    BY <2>1, <2>2 DEF SInv, ModeInv, GoInv
  <2>6. OpenIsCurrent'
    BY <2>1 DEF SInv, OpenIsCurrent, Idle, IsOpen
  <2> QED
    BY <2>3, <2>4, <2>5, <2>6 DEF SInv
<1> QED
  BY <1>2, <1>3

\* Moving and sorting keep every entry, once, and the current one current.
LEMMA Rearranged ==
  ASSUME SInv, Rearrange
  PROVE  /\ playlist' \in PlaylistOf(Entry) /\ Keeps(playlist, playlist')
         /\ Reorders(playlist.list, playlist'.list)
<1>1. playlist \in PlaylistOf(Entry)
  BY DEF SInv, ListInv
<1>2. CASE playlist' \in {MoveCurrentToPrev(playlist), MoveCurrentToNext(playlist)}
  BY <1>1, <1>2, MovesKeep
<1>3. ASSUME NEW mode, NEW order \in SortOrders([i \in 1 .. Len(playlist.list) |->
                                                   playlist.list[i].path], mode),
             playlist' = Sort(playlist, order)
      PROVE  /\ playlist' \in PlaylistOf(Entry) /\ Keeps(playlist, playlist')
             /\ Reorders(playlist.list, playlist'.list)
  <2>1. order \in Bijection(1 .. Len(playlist.list), 1 .. Len(playlist.list))
    <3> DEFINE names == [i \in 1 .. Len(playlist.list) |-> playlist.list[i].path]
    <3>1. Len(names) = Len(playlist.list)
      BY <1>1, PlaylistParts
    <3>2. order \in Bijection(1 .. Len(names), 1 .. Len(names))
      BY <1>3 DEF SortOrders
    <3> HIDE DEF names
    <3> QED
      BY <3>1, <3>2
  <2>2. /\ Sort(playlist, order) \in PlaylistOf(Entry) /\ Keeps(playlist, Sort(playlist, order))
        /\ Reorders(playlist.list, Sort(playlist, order).list)
    BY <1>1, <2>1, SortKeeps
  <2> QED
    BY <1>3, <2>2
<1> QED
  BY <1>2, <1>3 DEF Rearrange

\* Clearing leaves the current entry alone.
LEMMA Cleared ==
  ASSUME SInv, Clear
  PROVE  /\ playlist' \in PlaylistOf(Entry) /\ Keeps(playlist, playlist')
         /\ Selects(playlist.list, playlist'.list)
         /\ playlist'.list = <<Current(playlist)>> /\ playlist'.pos = 0
<1>1. playlist \in PlaylistOf(Entry) /\ playlist' = ClearWithoutCurrent(playlist)
  BY DEF SInv, ListInv, Clear
<1>2. playlist.list # <<>>
  BY MenuHas DEF Clear
<1>3. /\ ClearWithoutCurrent(playlist) \in PlaylistOf(Entry)
      /\ Keeps(playlist, ClearWithoutCurrent(playlist))
      /\ Selects(playlist.list, ClearWithoutCurrent(playlist).list)
      /\ ClearWithoutCurrent(playlist) = [list |-> <<Current(playlist)>>, pos |-> 0]
  BY <1>1, <1>2, ClearKeeps
<1> QED
  BY <1>1, <1>3

\* The list stays one without doubles, and the file that is open current.
LEMMA RearrangeKeeps == ASSUME SInv, UNCHANGED limit, Rearrange \/ Clear PROVE SInv'
<1>1. /\ UNCHANGED <<added, all, single, ui, file, alive, posted>> /\ ui = "idle" /\ menu' = <<>>
  BY DEF Rearrange, Clear, Idle, modes, sender
<1>2. /\ playlist' \in PlaylistOf(Entry) /\ Keeps(playlist, playlist')
      /\ Selects(playlist.list, playlist'.list)
  BY Rearranged, Cleared, Zenon DEF Reorders
<1>3. ListInv'
  <2>1. added \in Nat /\ Distinct(playlist.list) /\ Known(playlist.list, added)
    BY DEF SInv, ListInv
  <2>2. Distinct(playlist'.list) /\ Known(playlist'.list, added)
    BY <1>2, <2>1, SelectsIds
  <2>3. Known(playlist'.list, added') /\ added' \in Nat
    BY <1>1, <2>1, <2>2
  <2> QED
    BY <1>2, <2>2, <2>3, ListNext
<1>4. MenuInv'
  <2>1. Begins(menu', playlist'.list) /\ menu' \in Seq(Entry)
    BY <1>1, BeginsEmpty
  <2> QED
    BY <1>1, <2>1 DEF MenuInv
<1>5. ModeInv' /\ GoInv'
  BY <1>1 DEF SInv, ModeInv, GoInv
<1>6. OpenIsCurrent'
  BY <1>1, <1>2 DEF SInv, OpenIsCurrent, Idle, IsOpen, Keeps
<1> QED
  BY <1>3, <1>4, <1>5, <1>6 DEF SInv

\* The file that is opened is the one at the position the list then has.
LEMMA FinishKeeps == ASSUME SInv, UNCHANGED limit, Finish PROVE SInv'
<1>1. /\ UNCHANGED <<added, all, single, menu, posted>> /\ ui' = "idle" /\ ui # "idle"
      /\ \/ ui = "next" /\ playlist' = NextOf(playlist, all)
         \/ ui = "erase" /\ playlist' = EraseCurrent(playlist)
         \/ ui \notin {"next", "erase"} /\ playlist' = playlist
      /\ \/ Opens /\ alive' = TRUE /\ file'.entry = Current(playlist')
         \/ alive' = FALSE /\ file' = NotOpen
  BY DEF Finish, modes
<1>2. /\ playlist \in PlaylistOf(Entry) /\ playlist.list \in Seq(Entry) /\ all \in BOOLEAN
      /\ added \in Nat /\ Distinct(playlist.list) /\ Known(playlist.list, added)
      /\ menu \in Seq(Entry) /\ Begins(menu, playlist.list)
      /\ ui = "erase" => menu = <<>>
  BY PlaylistParts DEF SInv, ListInv, MenuInv, ModeInv
<1>3. CASE ui # "erase" \/ playlist.list = <<>>
  <2>1. playlist' \in PlaylistOf(Entry) /\ playlist'.list = playlist.list
    <3>1. /\ NextOf(playlist, all) \in PlaylistOf(Entry)
          /\ NextOf(playlist, all).list = playlist.list
      BY <1>2, StepsStay
    <3>2. playlist.list = <<>> => EraseCurrent(playlist) = playlist
      BY DEF EraseCurrent
    <3> QED
      BY <1>1, <1>2, <1>3, <3>1, <3>2
  <2>2. ListInv'
    <3>1. Distinct(playlist'.list) /\ Known(playlist'.list, added') /\ added' \in Nat
      BY <1>1, <1>2, <2>1
    <3> QED
      BY <2>1, <3>1, ListNext
  <2>3. MenuInv'
    <3>1. Begins(menu', playlist'.list) /\ menu' \in Seq(Entry)
      BY <1>1, <1>2, <2>1
    <3> QED
      BY <1>1, <3>1 DEF MenuInv
  <2>4. Opens => playlist'.list # <<>>
    <3>1. CanNext(playlist, all) => playlist.list # <<>>
      BY <1>2, CanHave
    <3> QED
      BY <2>1, <3>1 DEF Opens, SInv, GoInv
  <2>5. OpenIsCurrent'
    BY <1>1, <2>4 DEF OpenIsCurrent, IsOpen
  <2>6. ModeInv' /\ GoInv'
    BY <1>1 DEF SInv, ModeInv, GoInv
  <2> QED
    BY <2>2, <2>3, <2>5, <2>6 DEF SInv
<1>4. CASE ui = "erase" /\ playlist.list # <<>>
  <2>1. /\ playlist' \in PlaylistOf(Entry) /\ Selects(playlist.list, playlist'.list)
    <3>1. /\ EraseCurrent(playlist) \in PlaylistOf(Entry)
          /\ Selects(playlist.list, EraseCurrent(playlist).list)
      BY <1>2, <1>4, EraseTakesOne
    <3> QED
      BY <1>1, <1>4, <3>1
  <2>2. ListInv'
    <3>1. Distinct(playlist'.list) /\ Known(playlist'.list, added)
      BY <1>2, <2>1, SelectsIds
    <3>2. Known(playlist'.list, added') /\ added' \in Nat
      BY <1>1, <1>2, <3>1
    <3> QED
      BY <2>1, <3>1, <3>2, ListNext
  <2>3. MenuInv'
    <3>1. Begins(menu', playlist'.list) /\ menu' \in Seq(Entry)
      BY <1>1, <1>2, <1>4, BeginsEmpty
    <3> QED
      BY <1>1, <3>1 DEF MenuInv
  <2>4. OpenIsCurrent'
    BY <1>1, <1>4 DEF OpenIsCurrent, IsOpen, Opens
  <2>5. ModeInv' /\ GoInv'
    BY <1>1 DEF SInv, ModeInv, GoInv
  <2> QED
    BY <2>2, <2>3, <2>4, <2>5 DEF SInv
<1> QED
  BY <1>3, <1>4

\* When TVTest is started again the list is empty and nothing is open.
LEMMA CrashKeeps == ASSUME SInv, UNCHANGED limit, Crash PROVE SInv'
<1>1. /\ playlist' = Empty /\ ui' = "idle" /\ menu' = <<>> /\ file' = NotOpen /\ alive' = FALSE
      /\ posted' = "none" /\ added' = 0 /\ UNCHANGED <<all, single>>
  BY DEF Crash, modes
<1>2. ListInv'
  <2>1. playlist'.list = <<>> /\ Len(playlist'.list) = 0
    BY <1>1 DEF Empty
  <2>2. playlist' \in PlaylistOf(Entry)
    BY <1>1, EmptyIsPlaylist
  <2>3. Distinct(playlist'.list) /\ Known(playlist'.list, added')
    BY <2>1 DEF Distinct, Known
  <2> QED
    BY <1>1, <2>2, <2>3, ListNext
<1>3. MenuInv'
  <2>1. Begins(menu', playlist'.list) /\ menu' \in Seq(Entry)
    BY <1>1, BeginsEmpty
  <2> QED
    BY <1>1, <2>1 DEF MenuInv
<1>4. ModeInv' /\ GoInv' /\ OpenIsCurrent'
  BY <1>1 DEF SInv, ModeInv, GoInv, OpenIsCurrent, IsOpen
<1> QED
  BY <1>2, <1>3, <1>4 DEF SInv

\* Every step keeps the invariant.
LEMMA SInvStep == SInv /\ [Next]_vars => SInv'
<1> SUFFICES ASSUME SInv, [Next]_vars PROVE SInv'
  OBVIOUS
<1>1. CASE Next
  <2>1. UNCHANGED limit
    BY <1>1 DEF Next
  <2>2. CASE Add
    BY <2>1, <2>2, AddKeeps
  <2>3. CASE AddMore
    BY <2>1, <2>3, AddMoreKeeps
  <2>4. CASE PrevFile \/ SeekEnd
    BY <2>1, <2>4, MovesOnKeep
  <2>5. CASE ShowMenu \/ Choose
    BY <2>1, <2>5, MenuKeeps
  <2>6. CASE Rearrange \/ Clear
    BY <2>1, <2>6, RearrangeKeeps
  <2>7. CASE Finish
    BY <2>1, <2>7, FinishKeeps
  <2>8. CASE Crash
    BY <2>1, <2>8, CrashKeeps
  <2>9. CASE \/ Play \/ CloseFile \/ Seek \/ SetRepeat \/ AtEnd \/ Timer
             \/ SeekAsked \/ Plays \/ Ceases \/ Tells \/ Ends \/ Quit
    BY <2>1, <2>9, QuietSteps
  <2> QED
    BY <1>1, <2>2, <2>3, <2>4, <2>5, <2>6, <2>7, <2>8, <2>9 DEF Next, Command
<1>2. CASE UNCHANGED vars
  <2>1. UNCHANGED <<limit, playlist, added, all, single, ui, menu, file, alive, posted>>
    BY <1>2 DEF vars
  <2> QED
    BY <2>1, Zenon
       DEF SInv, ListInv, ModeInv, MenuInv, GoInv, OpenIsCurrent, Idle, IsOpen
<1> QED
  BY <1>1, <1>2

\* Only these actions put a menu away.
LEMMA MenuStays ==
  ASSUME [Next]_vars PROVE menu' = menu \/ menu = <<>> \/ Rearrange \/ Clear \/ Choose \/ Crash
<1>1. CASE UNCHANGED vars
  BY <1>1 DEF vars
<1>2. CASE Add \/ AddMore \/ PrevFile \/ SeekEnd \/ Play \/ CloseFile \/ Seek \/ SetRepeat
  BY <1>2 DEF Add, AddMore, PrevFile, SeekEnd, Play, CloseFile, Seek, SetRepeat
<1>3. CASE ShowMenu
  BY <1>3 DEF ShowMenu
<1>4. CASE AtEnd \/ Timer \/ Finish
  BY <1>4 DEF AtEnd, Timer, Finish
<1>5. CASE SeekAsked \/ Plays \/ Ceases \/ Tells \/ Ends \/ Quit
  BY <1>5 DEF SeekAsked, Plays, Ceases, Tells, Ends, Quit, Elsewhere
<1> QED
  BY <1>1, <1>2, <1>3, <1>4, <1>5 DEF Next, Command

\* What is known of the playlist, the menu and the open file holds at all times.
THEOREM SInvHolds == Spec => []SInv
<1>1. Init => SInv
  BY SInvInit
<1>2. SInv /\ [Next]_vars => SInv'
  BY SInvStep
<1> QED
  BY <1>1, <1>2, PTL DEF Spec

-----------------------------------------------------------------------------
(* The properties *)

\* The file that is open stands at the current position of the playlist whenever
\* the UI thread handles something (OpenCurrent, EraseCurrent, WM_TVTP_GET_PATH).
THEOREM OpenFileIsCurrent == Spec => []OpenIsCurrent
<1>1. SInv => OpenIsCurrent
  BY DEF SInv
<1> QED
  BY <1>1, SInvHolds, PTL

\* CPlaylist's Sort, MoveCurrentToPrev and MoveCurrentToNext keep every entry, once, and
\* the current one current, in lists of any length; ClearWithoutCurrent leaves that one
\* alone; EraseCurrent takes it alone, and goes to the next one or the one before.
THEOREM CursorIsKept == Spec => CursorKept
<1> DEFINE A ==
  /\ Rearrange =>
       Reorders(playlist.list, playlist'.list) /\ Current(playlist') = Current(playlist)
  /\ Clear => playlist'.list = <<Current(playlist)>> /\ playlist'.pos = 0
  /\ ui = "erase" /\ Finish =>
       /\ Lacks(playlist.list, playlist'.list, playlist.pos + 1)
       /\ playlist'.list # <<>> =>
            Current(playlist') = playlist.list[IF playlist.pos + 1 < Len(playlist.list)
                                               THEN playlist.pos + 2 ELSE playlist.pos]
<1>1. ASSUME SInv, Rearrange
      PROVE  Reorders(playlist.list, playlist'.list) /\ Current(playlist') = Current(playlist)
  <2>1. Reorders(playlist.list, playlist'.list) /\ Keeps(playlist, playlist')
    BY <1>1, Rearranged
  <2>2. playlist.list # <<>>
    BY <1>1, MenuHas DEF Rearrange
  <2> QED
    BY <2>1, <2>2 DEF Keeps
<1>2. ASSUME SInv, Clear
      PROVE  playlist'.list = <<Current(playlist)>> /\ playlist'.pos = 0
  BY <1>2, Cleared
<1>3. ASSUME SInv, ui = "erase", Finish
      PROVE  /\ Lacks(playlist.list, playlist'.list, playlist.pos + 1)
             /\ playlist'.list # <<>> =>
                  Current(playlist') = playlist.list[IF playlist.pos + 1 < Len(playlist.list)
                                                     THEN playlist.pos + 2 ELSE playlist.pos]
  <2>1. playlist \in PlaylistOf(Entry) /\ playlist.list # <<>>
    BY <1>3 DEF SInv, ListInv, GoInv
  <2>2. playlist' = EraseCurrent(playlist)
    BY <1>3 DEF Finish
  <2>3. /\ Lacks(playlist.list, EraseCurrent(playlist).list, playlist.pos + 1)
        /\ EraseCurrent(playlist).list # <<>> =>
             Current(EraseCurrent(playlist))
               = playlist.list[IF playlist.pos + 1 < Len(playlist.list)
                               THEN playlist.pos + 2 ELSE playlist.pos]
    BY <2>1, EraseTakesOne
  <2>4. Current(playlist') = Current(EraseCurrent(playlist))
    BY <2>2 DEF Current
  <2> QED
    BY <2>2, <2>3, <2>4, Zenon
<1>4. SInv => A
  BY <1>1, <1>2, <1>3, Zenon
<1>5. Spec => [][A]_vars
  <2> HIDE DEF A
  <2> QED
    BY <1>4, SInvHolds, PTL DEF Spec
<1> QED
  BY <1>5 DEF CursorKept

\* OpenWithPlayListPopup opens the entry its menu showed, though files may have
\* been added and others opened since it came up.
THEOREM ChoiceIsAsShown == Spec => ChosenAsShown
<1> DEFINE A == \A i \in 1 .. Len(menu) :
                  menu' = <<>> /\ ui' = "open" /\ playlist'.pos = i - 1
                    => Current(playlist') = menu[i]
<1>1. SInv /\ [Next]_vars => A
  <2> SUFFICES ASSUME SInv, [Next]_vars, NEW i \in 1 .. Len(menu), menu' = <<>>, ui' = "open",
                      playlist'.pos = i - 1
               PROVE  Current(playlist') = menu[i]
    OBVIOUS
  <2>1. /\ menu \in Seq(Entry) /\ Begins(menu, playlist.list) /\ menu # <<>> /\ i \in Nat
        /\ playlist \in PlaylistOf(Entry)
    BY DEF SInv, MenuInv, ListInv
  <2>2. Choose
    BY <2>1, MenuStays DEF Rearrange, Clear, Crash, Idle
  <2>3. playlist'.list = playlist.list
    BY <2>1, <2>2 DEF Choose, Go, Idle, PlaylistOf
  <2>4. playlist'.pos + 1 = i
    BY <2>1
  <2>5. playlist.list[i] = menu[i]
    BY <2>1 DEF Begins
  <2> QED
    BY <2>3, <2>4, <2>5 DEF Current
<1>2. Spec => [][A]_vars
  BY <1>1, SInvHolds, PTL DEF Spec
<1> QED
  BY <1>2 DEF ChosenAsShown

-----------------------------------------------------------------------------
(* The resume positions *)

\* A set of numbers has a least one.
LEMMA HasLeast == ASSUME NEW T \in SUBSET Nat, T # {} PROVE \E x \in T : \A y \in T : x <= y
<1>1. IsWellFoundedOn(OpToRel(<, Nat), Nat)
  BY NatLessThanWellFounded, Zenon
<1>2. PICK x \in T : \A y \in T : ~(<<y, x>> \in OpToRel(<, Nat))
  BY <1>1, WFMin, Zenon
<1>3. \A y \in T : ~(y < x)
  BY <1>2 DEF OpToRel
<1> QED
  BY <1>3

\* What UpdateFileInfoSetting keeps of a list, what it puts before that, and the
\* number under which it writes a hash again.
Kept(s, c) == Loaded(s) \ OfContent(c)
Front(c, p) == IF p >= 0 THEN {New(c)} ELSE {}
Before(s, c, p, h) == Front(c, p) \cup {g \in Kept(s, c) : s[g].key < s[h].key}
Rank(s, c, p, h) == Cardinality(Before(s, c, p, h))

\* What is written: the new entry under number 0, the others by their ranks.
Written(s, c, p, t) ==
  /\ DOMAIN t = Front(c, p) \cup {h \in Kept(s, c) : Rank(s, c, p, h) < HashMax}
  /\ \A h \in Front(c, p) : h \in DOMAIN t /\ t[h].key = 0 /\ t[h].pos = p
  /\ \A h \in Kept(s, c) :
       h \in DOMAIN t => t[h].key = Rank(s, c, p, h) /\ t[h].pos = s[h].pos

LEMMA UpdatedIs == ASSUME NEW s, NEW c, NEW p PROVE Written(s, c, p, Updated(s, c, p))
<1> DEFINE D == Front(c, p) \cup {h \in Kept(s, c) : Rank(s, c, p, h) < HashMax}
<1>1. Updated(s, c, p)
        = [h \in D |-> IF h \in Front(c, p) THEN [key |-> 0, pos |-> p]
                       ELSE [key |-> Rank(s, c, p, h), pos |-> s[h].pos]]
  BY DEF Updated, Put, Rank, Before, Front, Kept
<1>2. \A h \in Kept(s, c) : h \notin Front(c, p)
  BY DEF Kept, Front, OfContent, New
<1> HIDE DEF D
<1>3. DOMAIN Updated(s, c, p) = D
  BY <1>1
<1>4. ASSUME NEW h \in Front(c, p)
      PROVE  /\ h \in DOMAIN Updated(s, c, p)
             /\ Updated(s, c, p)[h].key = 0 /\ Updated(s, c, p)[h].pos = p
  <2>1. h \in D
    BY DEF D
  <2>2. Updated(s, c, p)[h] = [key |-> 0, pos |-> p]
    BY <1>1, <2>1
  <2> QED
    BY <1>3, <2>1, <2>2
<1>5. ASSUME NEW h \in Kept(s, c), h \in DOMAIN Updated(s, c, p)
      PROVE  /\ Updated(s, c, p)[h].key = Rank(s, c, p, h)
             /\ Updated(s, c, p)[h].pos = s[h].pos
  <2>1. h \in D /\ h \notin Front(c, p)
    BY <1>2, <1>3, <1>5
  <2>2. Updated(s, c, p)[h] = [key |-> Rank(s, c, p, h), pos |-> s[h].pos]
    BY <1>1, <2>1
  <2> QED
    BY <2>2
<1> QED
  BY <1>3, <1>4, <1>5 DEF D, Written

\* Ranks are numbers and go up with the numbers that the hashes had.
LEMMA RanksFollow ==
  ASSUME NEW s, IsStore(s), NEW c, NEW p, NEW h \in Kept(s, c)
  PROVE  /\ IsFiniteSet(Before(s, c, p, h)) /\ Rank(s, c, p, h) \in Nat
         /\ Front(c, p) # {} => Rank(s, c, p, h) > 0
         /\ \A g \in Kept(s, c) : s[g].key < s[h].key => Rank(s, c, p, g) < Rank(s, c, p, h)
<1>1. /\ IsFiniteSet(Kept(s, c)) /\ \A g \in Kept(s, c) : g \in DOMAIN s /\ s[g].key \in Nat
  <2>1. Kept(s, c) \in SUBSET (DOMAIN s)
    BY DEF Kept, Loaded
  <2>2. IsFiniteSet(Kept(s, c))
    BY <2>1, FS_Subset DEF IsStore
  <2> QED
    BY <2>1, <2>2 DEF IsStore
<1>2. IsFiniteSet(Front(c, p))
  BY FS_EmptySet, FS_Singleton DEF Front
<1>3. \A g \in Kept(s, c) : IsFiniteSet(Before(s, c, p, g)) /\ Rank(s, c, p, g) \in Nat
  <2> SUFFICES ASSUME NEW g \in Kept(s, c)
               PROVE  IsFiniteSet(Before(s, c, p, g)) /\ Rank(s, c, p, g) \in Nat
    OBVIOUS
  <2>1. IsFiniteSet({x \in Kept(s, c) : s[x].key < s[g].key})
    BY <1>1, FS_Subset
  <2>2. IsFiniteSet(Before(s, c, p, g))
    BY <1>2, <2>1, FS_Union DEF Before
  <2> QED
    BY <2>2, FS_CardinalityType DEF Rank
<1>4. Front(c, p) # {} => Rank(s, c, p, h) > 0
  <2>1. Front(c, p) # {} => Before(s, c, p, h) # {}
    BY DEF Before
  <2>2. Rank(s, c, p, h) = 0 => Before(s, c, p, h) = {}
    BY <1>3, FS_EmptySet DEF Rank
  <2> QED
    BY <1>3, <2>1, <2>2
<1>5. ASSUME NEW g \in Kept(s, c), s[g].key < s[h].key
      PROVE  Rank(s, c, p, g) < Rank(s, c, p, h)
  <2>1. Before(s, c, p, g) \in SUBSET Before(s, c, p, h)
    BY <1>1, <1>5 DEF Before
  <2>2. g \in Before(s, c, p, h) /\ g \notin Before(s, c, p, g)
    <3>1. g \notin Front(c, p)
      BY DEF Front, Kept, OfContent, New
    <3>2. ~(s[g].key < s[g].key)
      BY <1>1
    <3> QED
      BY <1>5, <3>1, <3>2 DEF Before
  <2>3. /\ Rank(s, c, p, g) <= Rank(s, c, p, h)
        /\ Rank(s, c, p, h) = Rank(s, c, p, g) => Before(s, c, p, h) = Before(s, c, p, g)
    BY <1>3, <2>1, FS_Subset DEF Rank
  <2> QED
    BY <1>3, <2>2, <2>3
<1> QED
  BY <1>3, <1>4, <1>5

\* No rank is left out below one that is given.
LEMMA NoRankLeftOut ==
  ASSUME NEW s, IsStore(s), NEW c, NEW p, NEW h \in Kept(s, c), NEW k \in Nat,
         k <= Rank(s, c, p, h), Front(c, p) # {} => k # 0
  PROVE  \E g \in Kept(s, c) : Rank(s, c, p, g) = k
<1> DEFINE K == Kept(s, c)
           R(g) == Rank(s, c, p, g)
           T == {n \in Nat : k <= n /\ \E g \in K : n = R(g)}
<1>1. \A g \in K : R(g) \in Nat /\ g \in DOMAIN s /\ s[g].key \in Nat
  BY RanksFollow DEF IsStore, Kept, Loaded
<1>2. PICK n \in T : \A m \in T : n <= m
  <2>1. T \in SUBSET Nat /\ R(h) \in T
    BY <1>1
  <2> QED
    BY <2>1, HasLeast, Zenon
<1>3. PICK x \in K : n = R(x)
  BY <1>2
<1>4. n \in Nat /\ k <= n
  BY <1>2
<1>5. ASSUME n # k PROVE FALSE
  <2> DEFINE B == {g \in K : s[g].key < s[x].key}
             U == {d \in Nat : \E g \in B : d = s[x].key - s[g].key}
  <2>1. B # {}
    <3> SUFFICES ASSUME B = {} PROVE FALSE
      OBVIOUS
    <3>1. R(x) = Cardinality(Front(c, p))
      BY DEF Rank, Before
    <3>2. CASE Front(c, p) = {}
      BY <3>1, <3>2, <1>3, <1>4, <1>5, FS_EmptySet
    <3>3. CASE Front(c, p) # {}
      <4>1. R(x) = 1
        BY <3>1, <3>3, FS_Singleton DEF Front
      <4> QED
        BY <3>3, <4>1, <1>3, <1>4, <1>5
    <3> QED BY <3>2, <3>3
  <2>2. PICK d \in U : \A e \in U : d <= e
    <3>1. U \in SUBSET Nat
      OBVIOUS
    <3>2. PICK g \in B : TRUE
      BY <2>1
    <3>3. s[x].key - s[g].key \in U
      BY <3>2, <1>1
    <3> HIDE DEF U
    <3> QED
      BY <3>1, <3>3, HasLeast
  <2>3. PICK g \in B : d = s[x].key - s[g].key
    BY <2>2
  <2>4. g \in K /\ s[g].key < s[x].key
    BY <2>3
  <2>5. \A y \in B : s[y].key <= s[g].key
    <3> SUFFICES ASSUME NEW y \in B PROVE s[y].key <= s[g].key
      OBVIOUS
    <3>1. s[x].key - s[y].key \in U
      BY <1>1
    <3> QED
      BY <1>1, <2>2, <2>3, <3>1
  <2>6. Before(s, c, p, x) = Before(s, c, p, g) \cup {g}
    <3>1. \A y \in K : s[y].key < s[x].key <=> s[y].key < s[g].key \/ y = g
      <4> SUFFICES ASSUME NEW y \in K
                   PROVE  s[y].key < s[x].key <=> s[y].key < s[g].key \/ y = g
        OBVIOUS
      <4>1. s[y].key = s[g].key => y = g
        BY <1>1, <2>4 DEF IsStore
      <4>2. s[y].key < s[x].key => s[y].key <= s[g].key
        BY <2>5
      <4> QED
        BY <1>1, <2>4, <4>1, <4>2
    <3> QED
      BY <2>4, <3>1 DEF Before
  <2>7. g \notin Before(s, c, p, g)
    <3>1. g \notin Front(c, p)
      BY <2>4 DEF Front, Kept, OfContent, New
    <3>2. ~(s[g].key < s[g].key)
      BY <1>1, <2>4
    <3> QED
      BY <3>1, <3>2 DEF Before
  <2>8. R(x) = R(g) + 1
    <3>1. IsFiniteSet(Before(s, c, p, g))
      BY <2>4, RanksFollow
    <3> QED
      BY <2>6, <2>7, <3>1, FS_AddElement DEF Rank
  <2>9. R(g) \in T
    BY <1>1, <1>3, <1>4, <1>5, <2>4, <2>8
  <2> QED
    BY <1>1, <1>2, <1>3, <2>4, <2>8, <2>9
<1> QED
  BY <1>3, <1>5

\* What is written is a list again, of which LoadFileInfoSetting loses nothing.
LEMMA UpdatedIsStore ==
  ASSUME NEW s, IsStore(s), NEW c \in Contents, NEW p \in Int
  PROVE  IsStore(Updated(s, c, p))
<1> DEFINE t == Updated(s, c, p)
           K == Kept(s, c)
           F == Front(c, p)
           R(h) == Rank(s, c, p, h)
<1>1. /\ DOMAIN t = F \cup {h \in K : R(h) < HashMax}
      /\ \A h \in F : h \in DOMAIN t /\ t[h].key = 0 /\ t[h].pos = p
      /\ \A h \in K : h \in DOMAIN t => t[h].key = R(h) /\ t[h].pos = s[h].pos
  <2>1. Written(s, c, p, Updated(s, c, p))
    BY UpdatedIs
  <2> QED
    BY <2>1 DEF Written
<1>2. /\ K \in SUBSET (DOMAIN s) /\ F \subseteq {New(c)}
  BY DEF Kept, Loaded, Front
<1>3. \A h \in K : R(h) \in Nat /\ (F # {} => R(h) > 0)
  BY RanksFollow
<1>4. \A g, h \in K : R(g) = R(h) => g = h
  <2> SUFFICES ASSUME NEW g \in K, NEW h \in K, R(g) = R(h) PROVE g = h
    OBVIOUS
  <2>1. s[g].key \in Nat /\ s[h].key \in Nat /\ (s[g].key = s[h].key => g = h)
    BY <1>2 DEF IsStore
  <2>2. /\ s[g].key < s[h].key => R(g) < R(h)
        /\ s[h].key < s[g].key => R(h) < R(g)
    BY RanksFollow
  <2> HIDE DEF K, R
  <2> QED
    BY <2>1, <2>2, <1>3
<1> HIDE DEF t, K, F, R
<1>5. IsFiniteSet(DOMAIN t)
  <2>1. IsFiniteSet({New(c)}) /\ IsFiniteSet(DOMAIN s)
    BY FS_Singleton DEF IsStore
  <2>2. IsFiniteSet({New(c)} \cup DOMAIN s)
    BY <2>1, FS_Union
  <2>3. DOMAIN t \in SUBSET ({New(c)} \cup DOMAIN s)
    BY <1>1, <1>2
  <2> QED
    BY <2>2, <2>3, FS_Subset
<1>6. DOMAIN t \subseteq Hash
  <2>1. New(c) \in Hash
    BY DEF New, Hash
  <2> QED
    BY <1>1, <1>2, <2>1 DEF IsStore
<1>7. \A h \in DOMAIN t : t[h].key \in Nat /\ t[h].pos \in Int
  BY <1>1, <1>2, <1>3 DEF IsStore
<1>8. ASSUME NEW g \in DOMAIN t, NEW h \in DOMAIN t, t[g].key = t[h].key PROVE g = h
  <2>1. CASE g \in F /\ h \in F
    BY <2>1, <1>2
  <2>2. CASE g \in K /\ h \in K
    BY <2>2, <1>1, <1>4, <1>8
  <2>3. CASE g \in F /\ h \in K
    BY <2>3, <1>1, <1>3, <1>8
  <2>4. CASE g \in K /\ h \in F
    BY <2>4, <1>1, <1>3, <1>8
  <2> QED
    BY <1>1, <2>1, <2>2, <2>3, <2>4
<1>9. ASSUME NEW h \in DOMAIN t, NEW k \in 0 .. t[h].key
      PROVE  \E g \in DOMAIN t : t[g].key = k
  <2>1. CASE F # {} /\ k = 0
    BY <2>1, <1>1
  <2>2. CASE ~(F # {} /\ k = 0)
    <3>1. h \in K /\ t[h].key = R(h) /\ R(h) < HashMax /\ k \in Nat /\ k <= R(h)
      BY <2>2, <1>1, <1>3, <1>7
    <3>2. PICK g \in K : R(g) = k
      BY <2>2, <3>1, NoRankLeftOut DEF K, R, F
    <3>3. R(g) < HashMax
      BY <3>1, <3>2, <1>3, SessionAssumption
    <3> QED
      BY <1>1, <3>2, <3>3
  <2> QED BY <2>1, <2>2
<1> QED
  BY <1>5, <1>6, <1>7, <1>8, <1>9 DEF IsStore, t

\* What a list has of a content that was left at l, when the hashes in n came before
\* it: the position, with no others before it, or nothing if so many did.
RemembersIn(s, l, n, c) ==
  /\ IsFiniteSet(n)
  /\ Found(s, c) = {} => l = None \/ Cardinality(n) >= HashMax
  /\ \A h \in Found(s, c) :
       (\A g \in Found(s, c) : s[h].key <= s[g].key) =>
         s[h].pos = l /\ {g \in DOMAIN s : s[g].key < s[h].key} \subseteq n

\* Of what is found of a content one is first.
LEMMA FoundFirst ==
  ASSUME NEW s, IsStore(s), NEW c, Found(s, c) # {}
  PROVE  \E h \in Found(s, c) : \A g \in Found(s, c) : s[h].key <= s[g].key
<1> DEFINE T == {k \in Nat : \E h \in Found(s, c) : k = s[h].key}
<1>1. \A h \in Found(s, c) : s[h].key \in Nat
  BY DEF Found, Loaded, IsStore
<1>2. PICK k \in T : \A j \in T : k <= j
  <2>1. T \in SUBSET Nat /\ T # {}
    BY <1>1
  <2> QED
    BY <2>1, HasLeast, Zenon
<1>3. PICK h \in Found(s, c) : k = s[h].key
  BY <1>2
<1>4. \A g \in Found(s, c) : s[g].key \in T
  BY <1>1
<1> QED
  BY <1>2, <1>3, <1>4, Zenon

\* The content whose position is written is there with that, first; or not at all.
LEMMA RemembersOwn ==
  ASSUME NEW s, IsStore(s), NEW c \in Contents, NEW p \in Int, p >= 0 \/ p = None
  PROVE  RemembersIn(Updated(s, c, p), p, {}, c)
<1> DEFINE t == Updated(s, c, p)
<1>1. Written(s, c, p, t) /\ IsStore(t)
  BY UpdatedIs, UpdatedIsStore
<1> HIDE DEF t
<1>2. Found(t, c) \subseteq Front(c, p)
  BY <1>1 DEF Found, Loaded, Written, Kept
<1>3. Found(t, c) = {} => p = None
  <2> SUFFICES ASSUME p >= 0 PROVE Found(t, c) # {}
    OBVIOUS
  <2>1. New(c) \in DOMAIN t /\ t[New(c)].key = 0
    BY <1>1 DEF Written, Front
  <2>2. New(c) \in OfContent(c)
    BY DEF New, OfContent
  <2> QED
    BY <2>1, <2>2, SessionAssumption DEF Found, Loaded
<1>4. ASSUME NEW h \in Found(t, c)
      PROVE  t[h].pos = p /\ {g \in DOMAIN t : t[g].key < t[h].key} = {}
  <2>1. t[h].pos = p /\ t[h].key = 0
    BY <1>1, <1>2, <1>4 DEF Written
  <2>2. \A g \in DOMAIN t : t[g].key \in Nat
    BY <1>1 DEF IsStore
  <2> QED
    BY <2>1, <2>2
<1>5. IsFiniteSet({})
  BY FS_EmptySet
<1> QED
  BY <1>3, <1>4, <1>5 DEF RemembersIn, t

\* Of the other contents those that have as many before them as are kept go.
LEMMA RemembersOthers ==
  ASSUME NEW s, IsStore(s), NEW d \in Contents, NEW p \in Int, NEW c \in Contents, c # d,
         NEW l, NEW n, RemembersIn(s, l, n, c)
  PROVE  RemembersIn(Updated(s, d, p), l, IF p >= 0 THEN n \cup {New(d)} ELSE n, c)
<1> DEFINE t == Updated(s, d, p)
           m == n \cup Front(d, p)
           R(h) == Rank(s, d, p, h)
           K == Kept(s, d)
<1>1. Written(s, d, p, t) /\ IsStore(t)
  BY UpdatedIs, UpdatedIsStore
<1>2. /\ IsFiniteSet(n) /\ IsFiniteSet(m) /\ Cardinality(n) \in Nat /\ Cardinality(m) \in Nat
      /\ Cardinality(n) <= Cardinality(m)
  <2>1. IsFiniteSet(n) /\ IsFiniteSet(Front(d, p))
    BY FS_EmptySet, FS_Singleton DEF RemembersIn, Front
  <2>2. IsFiniteSet(m) /\ n \in SUBSET m
    BY <2>1, FS_Union
  <2> QED
    BY <2>1, <2>2, FS_Subset, FS_CardinalityType
<1>3. \A h \in K : R(h) \in Nat /\ h \in DOMAIN s /\ s[h].key \in Nat
  BY RanksFollow DEF Kept, Loaded, IsStore
<1>4. \A g, h \in K : s[g].key < s[h].key => R(g) < R(h)
  BY RanksFollow
<1>5. \A h \in K : {g \in DOMAIN s : s[g].key < s[h].key} \subseteq n =>
                     Before(s, d, p, h) \in SUBSET m
  BY DEF Before, Kept, Loaded
<1>6. Found(s, c) \subseteq K
  BY DEF Found, Kept, OfContent
<1>7. \A h \in Found(s, c) : R(h) < HashMax => h \in Found(t, c)
  <2> SUFFICES ASSUME NEW h \in Found(s, c), R(h) < HashMax PROVE h \in Found(t, c)
    OBVIOUS
  <2>1. h \in K /\ h \in DOMAIN t
    BY <1>1, <1>6 DEF Written
  <2>2. t[h].key = R(h)
    BY <1>1, <2>1 DEF Written
  <2> HIDE DEF t, K, R
  <2> QED
    BY <2>1, <2>2 DEF Found, Loaded
<1>8. ASSUME NEW h \in Found(t, c)
      PROVE  h \in Found(s, c) /\ R(h) < HashMax /\ t[h].key = R(h) /\ t[h].pos = s[h].pos
  <2>1. h \in DOMAIN t /\ h \in OfContent(c)
    BY DEF Found, Loaded
  <2>2. h \notin Front(d, p)
    BY <2>1 DEF Front, New, OfContent
  <2>3. h \in K /\ R(h) < HashMax
    BY <1>1, <2>1, <2>2 DEF Written
  <2>4. t[h].key = R(h) /\ t[h].pos = s[h].pos
    BY <1>1, <2>1, <2>3 DEF Written
  <2> QED
    BY <2>1, <2>3, <2>4 DEF Kept, Found
<1> HIDE DEF t, m, R, K
<1>9. Found(t, c) = {} => l = None \/ Cardinality(m) >= HashMax
  <2> SUFFICES ASSUME Found(t, c) = {}, l # None PROVE Cardinality(m) >= HashMax
    OBVIOUS
  <2>1. CASE Found(s, c) = {}
    BY <2>1, <1>2, SessionAssumption DEF RemembersIn
  <2>2. CASE Found(s, c) # {}
    <3>1. PICK h \in Found(s, c) : \A g \in Found(s, c) : s[h].key <= s[g].key
      BY <2>2, FoundFirst
    <3>2. {g \in DOMAIN s : s[g].key < s[h].key} \subseteq n
      BY <3>1 DEF RemembersIn
    <3>3. R(h) >= HashMax
      BY <1>3, <1>6, <1>7, SessionAssumption
    <3>4. R(h) <= Cardinality(m)
      BY <3>2, <1>2, <1>5, <1>6, FS_Subset DEF R, Rank
    <3> QED
      BY <3>3, <3>4, <1>2, <1>3, <1>6, SessionAssumption
  <2> QED BY <2>1, <2>2
<1>10. ASSUME NEW h \in Found(t, c), \A g \in Found(t, c) : t[h].key <= t[g].key
       PROVE  t[h].pos = l /\ {g \in DOMAIN t : t[g].key < t[h].key} \subseteq m
  <2>1. /\ h \in Found(s, c) /\ h \in K /\ R(h) < HashMax
        /\ t[h].key = R(h) /\ t[h].pos = s[h].pos
    BY <1>6, <1>8
  <2>2. \A g \in Found(s, c) : s[h].key <= s[g].key
    <3> SUFFICES ASSUME NEW g \in Found(s, c), s[g].key < s[h].key PROVE FALSE
      BY <1>3, <1>6, <2>1
    <3>1. g \in K /\ R(g) < R(h)
      BY <1>4, <1>6, <2>1
    <3>2. g \in Found(t, c)
      BY <3>1, <1>3, <1>7, <2>1, SessionAssumption
    <3>3. t[g].key = R(g) /\ t[h].key <= t[g].key
      BY <3>2, <1>8, <1>10
    <3> QED
      BY <3>1, <3>3, <2>1, <1>3
  <2>3. s[h].pos = l /\ {g \in DOMAIN s : s[g].key < s[h].key} \subseteq n
    BY <2>1, <2>2 DEF RemembersIn
  <2>4. ASSUME NEW g \in DOMAIN t, t[g].key < t[h].key PROVE g \in m
    <3>1. CASE g \in Front(d, p)
      BY <3>1 DEF m
    <3>2. CASE g \in K
      <4>1. t[g].key = R(g) /\ R(g) < R(h)
        BY <3>2, <2>1, <2>4, <1>1 DEF Written, R, K
      <4>2. s[g].key < s[h].key
        <5> SUFFICES ASSUME ~(s[g].key < s[h].key) PROVE FALSE
          OBVIOUS
        <5>1. CASE s[g].key = s[h].key
          <6>1. g = h
            BY <5>1, <3>2, <2>1, <1>3 DEF IsStore
          <6> QED
            BY <6>1, <4>1, <1>3, <2>1
        <5>2. CASE s[h].key < s[g].key
          BY <5>2, <4>1, <3>2, <2>1, <1>3, <1>4
        <5> QED
          BY <5>1, <5>2, <3>2, <2>1, <1>3
      <4> QED
        BY <4>2, <2>3, <3>2, <1>3 DEF m
    <3> QED
      BY <3>1, <3>2, <1>1 DEF Written, K
  <2> QED
    BY <2>1, <2>3, <2>4
<1>11. RemembersIn(t, l, m, c)
  BY <1>2, <1>9, <1>10 DEF RemembersIn
<1>12. m = IF p >= 0 THEN n \cup {New(d)} ELSE n
  BY DEF m, Front
<1> QED
  BY <1>11, <1>12 DEF t

\* The position read for a content is the one it was left at, or none when as many as
\* are kept came before it.
LEMMA ResumeIs ==
  ASSUME NEW s, IsStore(s), NEW c, NEW l \in Int, NEW n, RemembersIn(s, l, n, c)
  PROVE  /\ ResumeOf(s, c) \in Int
         /\ ResumeOf(s, c) = l \/ (ResumeOf(s, c) = None /\ Cardinality(n) >= HashMax)
<1>1. CASE Found(s, c) = {}
  <2>1. ResumeOf(s, c) = None /\ None \in Int
    BY <1>1 DEF ResumeOf, None
  <2> QED
    BY <1>1, <2>1 DEF RemembersIn
<1>2. CASE Found(s, c) # {}
  <2> DEFINE h == CHOOSE h \in Found(s, c) : \A g \in Found(s, c) : s[h].key <= s[g].key
  <2>1. h \in Found(s, c) /\ \A g \in Found(s, c) : s[h].key <= s[g].key
    BY <1>2, FoundFirst
  <2>2. ResumeOf(s, c) = s[h].pos
    BY <1>2 DEF ResumeOf
  <2> HIDE DEF h
  <2>3. s[h].pos = l
    BY <2>1 DEF RemembersIn
  <2> QED
    BY <2>2, <2>3
<1> QED BY <1>1, <1>2

\* It is so of the ini file that TVTest starts with, whatever that has.
LEMMA RemembersAtFirst ==
  ASSUME NEW s, IsStore(s), NEW c
  PROVE  /\ ResumeOf(s, c) \in Int
         /\ RemembersIn(s, ResumeOf(s, c),
              {g \in DOMAIN s : \A h \in Found(s, c) : s[g].key < s[h].key}, c)
<1> DEFINE n == {g \in DOMAIN s : \A h \in Found(s, c) : s[g].key < s[h].key}
<1>1. IsFiniteSet(n)
  <2>1. n \in SUBSET (DOMAIN s) /\ IsFiniteSet(DOMAIN s)
    BY DEF IsStore
  <2> QED
    BY <2>1, FS_Subset
<1>2. Found(s, c) = {} => ResumeOf(s, c) = None /\ None \in Int
  BY DEF ResumeOf, None
<1>3. ASSUME NEW h \in Found(s, c), \A g \in Found(s, c) : s[h].key <= s[g].key
      PROVE  /\ s[h].pos = ResumeOf(s, c) /\ s[h].pos \in Int
             /\ {g \in DOMAIN s : s[g].key < s[h].key} \subseteq n
  <2> DEFINE f == CHOOSE h1 \in Found(s, c) : \A g \in Found(s, c) : s[h1].key <= s[g].key
  <2>1. f \in Found(s, c) /\ \A g \in Found(s, c) : s[f].key <= s[g].key
    BY <1>3, FoundFirst
  <2>2. ResumeOf(s, c) = s[f].pos
    BY <1>3 DEF ResumeOf
  <2> HIDE DEF f
  <2>3. \A g \in Found(s, c) : g \in DOMAIN s /\ s[g].key \in Nat /\ s[g].pos \in Int
    BY DEF Found, Loaded, IsStore
  <2>4. s[f].key = s[h].key
    <3>1. s[f].key <= s[h].key /\ s[h].key <= s[f].key
      BY <1>3, <2>1
    <3> QED
      BY <2>1, <2>3, <3>1
  <2>5. f = h
    BY <2>1, <2>3, <2>4 DEF IsStore
  <2>6. ASSUME NEW g \in DOMAIN s, s[g].key < s[h].key, NEW k \in Found(s, c)
        PROVE  s[g].key < s[k].key
    <3>1. s[h].key <= s[k].key /\ s[g].key \in Nat /\ s[k].key \in Nat /\ s[h].key \in Nat
      BY <1>3, <2>3 DEF IsStore
    <3> QED
      BY <2>6, <3>1
  <2> QED
    BY <2>2, <2>3, <2>5, <2>6
<1>4. ResumeOf(s, c) \in Int
  BY <1>2, <1>3, FoundFirst
<1> HIDE DEF n
<1>5. RemembersIn(s, ResumeOf(s, c), n, c)
  BY <1>1, <1>2, <1>3 DEF RemembersIn
<1> QED
  BY <1>4, <1>5 DEF n

\* The ini file has what each content was left at; the file that is open is of a
\* path; and of the seeks asked for the last one is posted until the sender thread
\* has carried it out, which it does before it ends.
ResumeInv ==
  /\ IsStore(store) /\ left \in [Contents -> Int]
  /\ \A c \in Contents : RemembersIn(store, left[c], newer[c], c)

PlaceInv ==
  /\ at \in Int /\ wish \in Int /\ shown.pos \in Int /\ file.dur \in Int /\ offset \in Int
  /\ IsOpen => file.entry.path \in Paths
  /\ asked = <<>> => wish = at
  /\ asked # <<>> => alive /\ asked[1] = wish

\* They hold when the plugin has been constructed.
LEMMA PlacesInit == Init => ResumeInv /\ PlaceInv
<1> SUFFICES ASSUME Init PROVE ResumeInv /\ PlaceInv
  OBVIOUS
<1>1. IsStore(store)
  BY SessionAssumption DEF Init
<1>2. /\ left = [c \in Contents |-> ResumeOf(store, c)]
      /\ newer = [c \in Contents |->
           {g \in DOMAIN store : \A h \in Found(store, c) : store[g].key < store[h].key}]
  BY DEF Init
<1>3. left \in [Contents -> Int]
  BY <1>1, <1>2, RemembersAtFirst
<1>4. ASSUME NEW c \in Contents PROVE RemembersIn(store, left[c], newer[c], c)
  <2>1. /\ left[c] = ResumeOf(store, c)
        /\ newer[c] = {g \in DOMAIN store :
                         \A h \in Found(store, c) : store[g].key < store[h].key}
    BY <1>2
  <2> QED
    BY <1>1, <2>1, RemembersAtFirst
<1>5. ResumeInv
  BY <1>1, <1>3, <1>4 DEF ResumeInv
<1>6. PlaceInv
  BY DEF Init, PlaceInv, Stopped, NotOpen, None, IsOpen
<1> QED
  BY <1>5, <1>6

\* A position that is recorded is one.
LEMMA RecordedIs ==
  ASSUME NEW p \in Int, NEW dur, NEW fixed
  PROVE  /\ Recorded(p, dur, fixed) \in Int
         /\ Recorded(p, dur, fixed) >= 0 \/ Recorded(p, dur, fixed) = None
<1>1. Recorded(p, dur, fixed) = None \/ (Recorded(p, dur, fixed) = p /\ ~(p <= Margin))
  BY DEF Recorded
<1> QED
  BY <1>1 DEF None, Margin

\* Writing the position of the open file keeps what is known of the others.
LEMMA SaveKeeps ==
  ASSUME ResumeInv, file.entry.path \in Paths, NEW p \in Int, NEW dur, NEW fixed,
         Save(p, dur, fixed, p)
  PROVE  ResumeInv'
<1> DEFINE d == Content[file.entry.path]
           l == Recorded(p, dur, fixed)
<1>1. d \in Contents
  BY SessionAssumption
<1>2. l \in Int /\ (l >= 0 \/ l = None)
  BY RecordedIs
<1>3. /\ store' = Updated(store, d, l)
      /\ left' = [left EXCEPT ![d] = l]
      /\ newer' = [c \in Contents |->
           IF c = d THEN {} ELSE IF l >= 0 THEN newer[c] \cup {New(d)} ELSE newer[c]]
  BY Zenon DEF Save
<1> HIDE DEF d, l
<1>4. IsStore(store')
  BY <1>1, <1>2, <1>3, UpdatedIsStore DEF ResumeInv
<1>5. left' \in [Contents -> Int]
  BY <1>1, <1>2, <1>3 DEF ResumeInv
<1>6. ASSUME NEW c \in Contents PROVE RemembersIn(store', left'[c], newer'[c], c)
  <2>1. CASE c = d
    <3>1. left'[c] = l /\ newer'[c] = {}
      BY <2>1, <1>1, <1>3 DEF ResumeInv
    <3>2. RemembersIn(Updated(store, d, l), l, {}, d)
      BY <1>1, <1>2, RemembersOwn DEF ResumeInv
    <3> QED
      BY <2>1, <3>1, <3>2, <1>3
  <2>2. CASE c # d
    <3>1. /\ left'[c] = left[c]
          /\ newer'[c] = IF l >= 0 THEN newer[c] \cup {New(d)} ELSE newer[c]
      BY <2>2, <1>1, <1>3 DEF ResumeInv
    <3>2. RemembersIn(Updated(store, d, l), left[c],
                      IF l >= 0 THEN newer[c] \cup {New(d)} ELSE newer[c], c)
      BY <2>2, <1>1, <1>2, RemembersOthers DEF ResumeInv
    <3> QED
      BY <3>1, <3>2, <1>3
  <2> QED BY <2>1, <2>2
<1> QED
  BY <1>4, <1>5, <1>6 DEF ResumeInv

\* What leaves the positions alone.
LEMMA ResumeStays == ASSUME ResumeInv, UNCHANGED <<store, left, newer>> PROVE ResumeInv'
  BY Zenon DEF ResumeInv

LEMMA PlaceStays ==
  ASSUME PlaceInv, UNCHANGED <<file, alive, at, asked, shown, wish>>, offset' \in Int
  PROVE  PlaceInv'
<1>1. IsOpen' <=> IsOpen
  BY DEF IsOpen
<1> QED
  BY <1>1, Zenon DEF PlaceInv

\* The viewer is where was last asked for.
LEMMA PostKeeps ==
  ASSUME PlaceInv, NEW t \in Int, PostSeek(t), UNCHANGED <<file, alive, at, shown, offset>>
  PROVE  PlaceInv'
<1>1. IsOpen' <=> IsOpen
  BY DEF IsOpen
<1>2. CASE alive
  <2>1. asked' = <<t>> /\ wish' = t
    BY <1>2 DEF PostSeek
  <2>2. <<t>>[1] = t /\ <<t>> # <<>>
    OBVIOUS
  <2> QED
    BY <1>1, <1>2, <2>1, <2>2 DEF PlaceInv
<1>3. CASE ~alive
  <2>1. UNCHANGED <<asked, wish>>
    BY <1>3 DEF PostSeek
  <2> QED
    BY <2>1, PlaceStays DEF PlaceInv
<1> QED BY <1>2, <1>3

\* The commands post seeks, and remember where the command line says to begin.
LEMMA CommandPlaces ==
  ASSUME SInv, PlaceInv, Command PROVE PlaceInv' /\ UNCHANGED <<store, left, newer>>
<1>1. limit \in Limits /\ limit.times \subseteq Int
  BY SessionAssumption DEF SInv, ModeInv
<1>2. /\ file.dur \in Int /\ offset \in Int /\ 0 \in Int
  BY DEF PlaceInv
<1>3. CASE Add
  <2>1. UNCHANGED <<sender, resume>> /\ (offset' = offset \/ offset' \in {None} \cup limit.times)
    BY <1>3 DEF Add, Go
  <2> QED
    BY <1>1, <1>2, <2>1, PlaceStays DEF sender, resume, None
<1>4. CASE AddMore \/ Play \/ CloseFile \/ SetRepeat \/ ShowMenu \/ Rearrange \/ Clear \/ Choose
  <2>1. UNCHANGED <<sender, resume, offset>>
    BY <1>4, Zenon DEF AddMore, Play, CloseFile, SetRepeat, ShowMenu, Rearrange, Clear, Choose
  <2> QED
    BY <1>2, <2>1, PlaceStays DEF sender, resume
<1>5. CASE PrevFile
  <2>1. /\ UNCHANGED <<file, alive, at, shown, offset, store, left, newer>>
        /\ PostSeek(0) \/ UNCHANGED <<asked, wish>>
    BY <1>5 DEF PrevFile, Busy, resume
  <2> QED
    BY <1>2, <2>1, PlaceStays, PostKeeps
<1>6. CASE SeekEnd
  <2>1. /\ UNCHANGED <<file, alive, at, shown, offset, store, left, newer>>
        /\ PostSeek(file.dur) \/ UNCHANGED <<asked, wish>>
    BY <1>6 DEF SeekEnd, Busy, resume
  <2> QED
    BY <1>2, <2>1, PlaceStays, PostKeeps
<1>7. CASE Seek
  <2>1. /\ UNCHANGED <<file, alive, at, shown, offset, store, left, newer>>
        /\ \E t \in limit.times : PostSeek(t)
    BY <1>7 DEF Seek, Busy, resume
  <2> QED
    BY <1>1, <2>1, PostKeeps
<1> QED
  BY <1>3, <1>4, <1>5, <1>6, <1>7 DEF Command

\* A seek ends at a position, whether it fails or not.
LEMMA LandsSomewhere ==
  ASSUME limit \in Limits, NEW t \in Int, NEW dur \in Int PROVE Lands(t, dur) \subseteq Int
<1>1. limit.times \subseteq Int
  BY SessionAssumption
<1> QED
  BY <1>1 DEF Lands

\* The sender thread carries out the last seek asked for before it plays on or ends.
LEMMA SenderPlaces ==
  ASSUME SInv, PlaceInv, SeekAsked \/ Plays \/ Ceases \/ Tells \/ Ends \/ Quit
  PROVE  PlaceInv' /\ UNCHANGED <<store, left, newer>>
<1>1. UNCHANGED <<store, left, newer, offset>>
  BY DEF SeekAsked, Plays, Ceases, Tells, Ends, Quit, Elsewhere, resume
<1>2. limit \in Limits /\ limit.times \subseteq Int
  BY SessionAssumption DEF SInv, ModeInv
<1>3. CASE SeekAsked
  <2>1. /\ asked # <<>> /\ at' \in Lands(asked[1], file.dur) /\ asked' = <<>>
        /\ wish' = at' /\ UNCHANGED <<file, alive, shown>>
    BY <1>3 DEF SeekAsked
  <2>2. IsOpen' <=> IsOpen
    BY <2>1 DEF IsOpen
  <2>3. asked[1] \in Int /\ file.dur \in Int
    BY <2>1 DEF PlaceInv
  <2>4. at' \in Int
    BY <1>2, <2>1, <2>3, LandsSomewhere
  <2> QED
    BY <1>1, <2>1, <2>2, <2>4 DEF PlaceInv
<1>4. CASE Plays
  <2>1. /\ at' \in limit.times \cup {file.dur}
        /\ wish' = IF asked = <<>> THEN at' ELSE wish
        /\ UNCHANGED <<file, alive, asked, shown>>
    BY <1>4 DEF Plays
  <2>2. IsOpen' <=> IsOpen
    BY <2>1 DEF IsOpen
  <2>3. at' \in Int
    BY <1>2, <2>1 DEF PlaceInv
  <2> QED
    BY <1>1, <2>1, <2>2, <2>3 DEF PlaceInv
<1>5. CASE Ceases
  <2>1. /\ file' = [file EXCEPT !.fixed = TRUE] /\ ~file.fixed
        /\ UNCHANGED <<alive, at, asked, shown, wish>>
    BY <1>5 DEF Ceases
  <2>2. file # NotOpen
    BY <2>1 DEF NotOpen
  <2>3. file'.entry = file.entry /\ file'.dur = file.dur
    BY <2>1
  <2> QED
    BY <1>1, <2>1, <2>2, <2>3 DEF PlaceInv, IsOpen
<1>6. CASE Tells
  <2>1. shown'.pos = at /\ UNCHANGED <<file, alive, at, asked, wish>>
    BY <1>6 DEF Tells
  <2>2. IsOpen' <=> IsOpen
    BY <2>1 DEF IsOpen
  <2> QED
    BY <1>1, <2>1, <2>2 DEF PlaceInv
<1>7. CASE Ends
  <2>1. UNCHANGED <<file, alive, at, asked, shown, wish>>
    BY <1>7 DEF Ends, sender
  <2> QED
    BY <1>1, <2>1, PlaceStays DEF PlaceInv
<1>8. CASE Quit
  <2>1. /\ asked = <<>> /\ alive' = FALSE /\ UNCHANGED <<file, at, asked, shown, wish>>
    BY <1>8 DEF Quit, Quits
  <2>2. IsOpen' <=> IsOpen
    BY <2>1 DEF IsOpen
  <2> QED
    BY <1>1, <2>1, <2>2 DEF PlaceInv
<1> QED
  BY <1>1, <1>3, <1>4, <1>5, <1>6, <1>7, <1>8

\* What a file that is opened is: an entry of the list that is of a path.
LEMMA OpensAnEntry ==
  ASSUME SInv, SInv', Finish, Opens PROVE Current(playlist').path \in Paths
<1>1. /\ playlist \in PlaylistOf(Entry) /\ all \in BOOLEAN
  BY DEF SInv, ListInv, ModeInv
<1>2. playlist'.list # <<>>
  <2>1. CASE ui = "open"
    <3>1. playlist' = playlist
      BY <2>1 DEF Finish
    <3> QED
      BY <2>1, <3>1 DEF SInv, GoInv
  <2>2. CASE ui = "next" /\ CanNext(playlist, all)
    <3>1. playlist' = NextOf(playlist, all)
      BY <2>2 DEF Finish
    <3>2. playlist.list # <<>>
      BY <1>1, <2>2, CanHave
    <3>3. NextOf(playlist, all).list = playlist.list
      BY <1>1, <2>2, StepsStay
    <3> QED
      BY <3>1, <3>2, <3>3
  <2> QED
    BY <2>1, <2>2 DEF Opens
<1>3. playlist' \in PlaylistOf(Entry)
  BY Zenon DEF SInv, ListInv
<1>4. /\ playlist'.list \in Seq(Entry) /\ playlist'.pos + 1 \in 1 .. Len(playlist'.list)
  BY <1>2, <1>3, PlaylistParts
<1>5. Current(playlist') \in Entry
  BY <1>4, ElementOfSeq DEF Current
<1> QED
  BY <1>5 DEF Entry

\* When a file is closed the sender thread is where the viewer is, so what is written
\* is where the file was left.
LEMMA FinishWrites == ASSUME ResumeInv, PlaceInv, Finish PROVE ResumeInv'
<1>1. wish = at /\ at \in Int
  BY DEF Finish, PlaceInv
<1>2. CASE IsOpen
  <2>1. Save(at, file.dur, file.fixed, at)
    <3>1. Save(at, file.dur, file.fixed, wish)
      BY <1>2 DEF Finish
    <3> QED
      BY <1>1, <3>1
  <2>2. file.entry.path \in Paths
    BY <1>2 DEF PlaceInv
  <2> QED
    BY <1>1, <2>1, <2>2, SaveKeeps
<1>3. CASE ~IsOpen
  BY <1>3, ResumeStays DEF Finish, resume
<1> QED BY <1>2, <1>3

\* Where an opened file is sought to is a position.
LEMMA GoalIs ==
  ASSUME ResumeInv', PlaceInv, NEW path \in Paths, NEW dur \in Int
  PROVE  Goal(path, dur) \in Int
<1>1. Content[path] \in Contents /\ Skip[path] \in Int
  BY SessionAssumption
<1>2. /\ IsStore(store') /\ left'[Content[path]] \in Int
      /\ RemembersIn(store', left'[Content[path]], newer'[Content[path]], Content[path])
  BY <1>1 DEF ResumeInv
<1>3. ResumeOf(store', Content[path]) \in Int
  BY <1>2, ResumeIs
<1> QED
  BY <1>1, <1>3 DEF Goal, GoBack, PlaceInv

\* What is known of the open file once one is opened, or none.
LEMMA FinishPlaces ==
  ASSUME SInv, SInv', ResumeInv', PlaceInv, Finish PROVE PlaceInv'
<1>1. offset' = None /\ asked' = <<>> /\ None \in Int
  BY DEF Finish, None
<1>2. CASE Opens /\ alive' = TRUE
  <2>1. Current(playlist').path \in Paths
    BY <1>2, OpensAnEntry
  <2>2. PICK dur \in Durations[Current(playlist').path] :
          /\ file' = [entry |-> Current(playlist'), dur |-> dur,
                      fixed |-> Current(playlist').path \notin Growing]
          /\ aim' = Goal(Current(playlist').path, dur)
          /\ at' \in (IF aim' = 0 THEN {0} ELSE Lands(aim', dur)) /\ wish' = at'
          /\ shown' = [pos |-> at', fixed |-> Current(playlist').path \notin Growing,
                       dur |-> dur]
    BY <1>2 DEF Finish
  <2>3. dur \in Int
    <3>1. Durations[Current(playlist').path] \in SUBSET Nat
      BY <2>1, SessionAssumption
    <3> QED
      BY <2>2, <3>1
  <2>4. at' \in Int
    <3>1. aim' \in Int
      BY <2>1, <2>2, <2>3, GoalIs
    <3>2. Lands(aim', dur) \subseteq Int
      BY <2>3, <3>1, LandsSomewhere DEF SInv, ModeInv
    <3> QED
      BY <2>2, <3>2
  <2>5. file'.entry.path \in Paths /\ file'.dur \in Int /\ shown'.pos \in Int
    BY <2>1, <2>2, <2>3, <2>4
  <2>6. wish' = at' /\ wish' \in Int
    BY <2>2, <2>4
  <2>7. offset' \in Int
    BY <1>1
  <2>8. /\ asked' = <<>> => wish' = at'
        /\ asked' # <<>> => alive' /\ asked'[1] = wish'
    BY <1>1, <2>6
  <2>9. IsOpen' => file'.entry.path \in Paths
    BY <2>5
  <2> QED
    BY <2>4, <2>5, <2>6, <2>7, <2>8, <2>9 DEF PlaceInv
<1>3. CASE file' = NotOpen /\ at' = 0 /\ wish' = 0 /\ shown' = Stopped
  BY <1>1, <1>3 DEF PlaceInv, IsOpen, NotOpen, Stopped
<1>4. \/ Opens /\ alive' = TRUE
      \/ file' = NotOpen /\ at' = 0 /\ wish' = 0 /\ shown' = Stopped
  BY DEF Finish
<1> QED
  BY <1>2, <1>3, <1>4, Zenon

\* Every step keeps both.
LEMMA PlacesStep ==
  SInv /\ SInv' /\ ResumeInv /\ PlaceInv /\ [Next]_vars => ResumeInv' /\ PlaceInv'
<1> SUFFICES ASSUME SInv, SInv', ResumeInv, PlaceInv, [Next]_vars
             PROVE  ResumeInv' /\ PlaceInv'
  OBVIOUS
<1>1. CASE Command
  BY <1>1, CommandPlaces, ResumeStays
<1>2. CASE SeekAsked \/ Plays \/ Ceases \/ Tells \/ Ends \/ Quit
  BY <1>2, SenderPlaces, ResumeStays
<1>3. CASE AtEnd
  <2>1. /\ UNCHANGED <<file, alive, at, shown, offset, store, left, newer>>
        /\ PostSeek(0) \/ UNCHANGED <<asked, wish>>
    BY <1>3 DEF AtEnd, Busy, resume
  <2>2. offset \in Int /\ 0 \in Int
    BY DEF PlaceInv
  <2> QED
    BY <2>1, <2>2, PlaceStays, PostKeeps, ResumeStays
<1>4. CASE Timer
  <2>1. /\ IsOpen /\ Save(shown.pos, shown.dur, shown.fixed, shown.pos)
        /\ UNCHANGED <<offset, file, alive, at, asked, shown, wish>>
    BY <1>4 DEF Timer, sender
  <2>2. file.entry.path \in Paths /\ shown.pos \in Int /\ offset \in Int
    BY <2>1 DEF PlaceInv
  <2> QED
    BY <2>1, <2>2, SaveKeeps, PlaceStays
<1>5. CASE Finish
  BY <1>5, FinishWrites, FinishPlaces
<1>6. CASE Crash
  <2>1. /\ UNCHANGED <<store, left, newer>> /\ offset' = None /\ file' = NotOpen
        /\ at' = 0 /\ asked' = <<>> /\ wish' = 0 /\ shown' = Stopped
    BY <1>6 DEF Crash, resume
  <2>2. PlaceInv'
    BY <2>1 DEF PlaceInv, IsOpen, NotOpen, Stopped, None
  <2> QED
    BY <2>1, <2>2, ResumeStays
<1>7. CASE UNCHANGED vars
  BY <1>7, ResumeStays, PlaceStays DEF vars, PlaceInv
<1> QED
  BY <1>1, <1>2, <1>3, <1>4, <1>5, <1>6, <1>7 DEF Next

\* What is known of the positions holds at all times.
THEOREM PlacesHold == Spec => [](ResumeInv /\ PlaceInv)
<1>1. Init => ResumeInv /\ PlaceInv
  BY PlacesInit
<1>2. SInv /\ SInv' /\ ResumeInv /\ PlaceInv /\ [Next]_vars => ResumeInv' /\ PlaceInv'
  BY PlacesStep
<1> QED
  BY <1>1, <1>2, SInvHolds, PTL DEF Spec

\* The list that LoadFileInfoSetting reads has the position each content was left at
\* (UpdateFileInfoSetting), however many are kept and whatever the list had at first,
\* unless as many hashes as are kept came before that.
THEOREM LeftIsRemembered == Spec => []Remembered
<1>1. ResumeInv => Remembered
  <2> SUFFICES ASSUME ResumeInv, NEW c \in Contents
               PROVE  \/ ResumeOf(store, c) = left[c]
                      \/ ResumeOf(store, c) = None /\ Cardinality(newer[c]) >= HashMax
    BY DEF Remembered
  <2>1. IsStore(store) /\ left[c] \in Int /\ RemembersIn(store, left[c], newer[c], c)
    BY DEF ResumeInv
  <2> QED
    BY <2>1, ResumeIs
<1> QED
  BY <1>1, PlacesHold, PTL

\* A file is opened when the sender thread has ended, and not otherwise.
LEMMA OpenedByFinish ==
  ASSUME [Next]_vars, ui # "idle", ui' = "idle", alive' PROVE Finish
<1>1. CASE UNCHANGED vars
  BY <1>1 DEF vars
<1>2. CASE Command
  BY <1>2 DEF Command, Add, AddMore, PrevFile, SeekEnd, Play, CloseFile, Seek, SetRepeat,
              ShowMenu, Rearrange, Clear, Choose, Idle
<1>3. CASE AtEnd \/ Timer \/ Crash
  BY <1>3 DEF AtEnd, Timer, Idle, Crash
<1>4. CASE SeekAsked \/ Plays \/ Ceases \/ Tells \/ Ends \/ Quit
  BY <1>4 DEF SeekAsked, Plays, Ceases, Tells, Ends, Quit, Elsewhere, modes
<1> QED
  BY <1>1, <1>2, <1>3, <1>4 DEF Next

\* A file opened without a place on the command line is sought to where CTvtPlay::Open
\* was to resume it: 3 seconds before where it was left last, though it was left by a
\* seek that had not been carried out. It begins there, or where a seek that failed has
\* left it; and at its beginning when it is not sought at all.
THEOREM OpensWhereLeft == Spec => ResumesThere
<1> DEFINE A == ui # "idle" /\ ui' = "idle" /\ alive' /\ offset = None =>
                  LET c == Content[file'.entry.path]
                  IN  Cardinality(newer'[c]) < HashMax =>
                        /\ aim' = IF Margin < left'[c] /\ left'[c] < file'.dur - Margin
                                  THEN left'[c] - GoBack ELSE Skip[file'.entry.path]
                        /\ aim' = 0 => at' = 0
<1>1. ASSUME SInv, SInv', ResumeInv', PlaceInv', [Next]_vars,
             ui # "idle", ui' = "idle", alive', offset = None,
             Cardinality(newer'[Content[file'.entry.path]]) < HashMax
      PROVE  LET c == Content[file'.entry.path]
             IN  /\ aim' = IF Margin < left'[c] /\ left'[c] < file'.dur - Margin
                           THEN left'[c] - GoBack ELSE Skip[file'.entry.path]
                 /\ aim' = 0 => at' = 0
  <2> DEFINE path == Current(playlist').path
             c == Content[path]
  <2>1. Finish
    BY <1>1, OpenedByFinish
  <2>2. Opens
    BY <1>1, <2>1 DEF Finish
  <2>3. PICK dur \in Durations[path] :
          /\ file' = [entry |-> Current(playlist'), dur |-> dur, fixed |-> path \notin Growing]
          /\ aim' = Goal(path, dur)
          /\ at' \in IF aim' = 0 THEN {0} ELSE Lands(aim', dur)
    BY <1>1, <2>1 DEF Finish
  <2>4. path \in Paths /\ c \in Contents
    BY <1>1, <2>1, <2>2, OpensAnEntry, SessionAssumption
  <2>5. file'.entry.path = path /\ file'.dur = dur
    BY <2>3
  <2> HIDE DEF path
  <2>6. ResumeOf(store', c) = left'[c]
    <3>1. IsStore(store') /\ left'[c] \in Int /\ RemembersIn(store', left'[c], newer'[c], c)
      BY <1>1, <2>4 DEF ResumeInv
    <3>2. IsFiniteSet(newer'[c]) /\ Cardinality(newer'[c]) \in Nat
      BY <3>1, FS_CardinalityType DEF RemembersIn
    <3>3. ~(Cardinality(newer'[c]) >= HashMax)
      BY <1>1, <2>5, <3>2, SessionAssumption
    <3> QED
      BY <3>1, <3>3, ResumeIs
  <2>7. ~(offset >= 0)
    BY <1>1 DEF None
  <2> QED
    <3>1. aim' = Goal(path, dur) /\ (aim' = 0 => at' = 0)
      BY <2>3
    <3> QED
      BY <2>5, <2>6, <2>7, <3>1 DEF Goal
<1>2. SInv /\ SInv' /\ (ResumeInv /\ PlaceInv)' /\ [Next]_vars => A
  BY <1>1, Zenon
<1>3. Spec => [][A]_vars
  BY <1>2, SInvHolds, PlacesHold, PTL DEF Spec
<1> QED
  BY <1>3 DEF ResumesThere

\* The variables have their types: m_playlist's position is 0 when the list is
\* empty and at an entry otherwise; and the numbers of the list in the ini file begin
\* at 0 and leave none out, so that LoadFileInfoSetting, which stops at the first that
\* is not there, reads what UpdateFileInfoSetting wrote.
THEOREM TypeCorrect == Spec => []TypeOK
<1>1. SInv /\ ResumeInv => TypeOK
  <2> SUFFICES ASSUME SInv, ResumeInv PROVE TypeOK
    OBVIOUS
  <2>1. /\ playlist \in PlaylistOf(Entry) /\ playlist.list \in Seq(Entry)
        /\ Known(playlist.list, added) /\ IsPlaylist(playlist) /\ added \in Nat
    BY PlaylistParts DEF SInv, ListInv, PlaylistOf
  <2>2. \A i \in 1 .. Len(playlist.list) :
          playlist.list[i] \in [path : Paths, id : 1 .. added]
    <3> SUFFICES ASSUME NEW i \in 1 .. Len(playlist.list)
                 PROVE  playlist.list[i] \in [path : Paths, id : 1 .. added]
      OBVIOUS
    <3>1. playlist.list[i] \in Entry /\ playlist.list[i].id \in 1 .. added
      BY <2>1, ElementOfSeq DEF Known
    <3> QED
      BY <3>1 DEF Entry
  <2> QED
    BY <2>1, <2>2 DEF SInv, ModeInv, ResumeInv, TypeOK
<1> QED
  BY <1>1, SInvHolds, PlacesHold, PTL
=============================================================================
