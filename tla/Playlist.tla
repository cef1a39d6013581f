------------------------------- MODULE Playlist --------------------------------
(***************************************************************************)
(* CPlaylist: a list of files and the current position in it, which is 0   *)
(* when the list is empty and less than its length otherwise.  Every       *)
(* operation moves entries or the position; the ones that rearrange the    *)
(* list are to leave the position at the entry it was at.                  *)
(***************************************************************************)
EXTENDS Integers, Sequences, Functions

Empty == [list |-> <<>>, pos |-> 0]
IsPlaylist(p) ==
  IF p.list = <<>> THEN p.pos = 0 ELSE p.pos \in 0 .. Len(p.list) - 1

Current(p) == p.list[p.pos + 1]

\* Slip: new entries come after the current one.
PushAfter(p, entries, move) ==
  IF p.list = <<>> \/ entries = <<>> THEN [list |-> p.list \o entries, pos |-> p.pos]
  ELSE [list |-> SubSeq(p.list, 1, p.pos + 1) \o entries
                 \o SubSeq(p.list, p.pos + 2, Len(p.list)),
        pos |-> IF move THEN p.pos + 1 ELSE p.pos]

\* PushBackListOrFile with the entries a file stands for: itself, or the files
\* of a list of files that are there, which may be none.
PushBack(p, entries, move) ==
  [list |-> p.list \o entries,
   pos |-> IF move /\ entries # <<>> THEN Len(p.list) ELSE p.pos]

\* Slip: the second entry becomes a copy of what the first one has become.
SwapOnce(s, i, j) == [s EXCEPT ![i] = s[j]]

\* Changes the places of entries i and j.
Swap(s, i, j) == [s EXCEPT ![i] = s[j], ![j] = s[i]]

\* Slip: the position does not go with the entry.
MoveEntryAlone(p) ==
  IF p.pos = 0 THEN p ELSE [p EXCEPT !.list = Swap(p.list, p.pos, p.pos + 1)]

MoveCurrentToPrev(p) ==
  IF p.pos = 0 THEN p
  ELSE [list |-> Swap(p.list, p.pos, p.pos + 1), pos |-> p.pos - 1]
MoveCurrentToNext(p) ==
  IF p.pos + 1 >= Len(p.list) THEN p
  ELSE [list |-> Swap(p.list, p.pos + 1, p.pos + 2), pos |-> p.pos + 1]

\* What Sort may arrange a list as: by name in either direction, equal ones in
\* any order, or shuffled.
SortOrders(names, mode) ==
  {f \in Bijection(1 .. Len(names), 1 .. Len(names)) :
     \A i, j \in 1 .. Len(names) :
       /\ mode = "asc" /\ i < j => names[f[i]] <= names[f[j]]
       /\ mode = "desc" /\ i < j => names[f[i]] >= names[f[j]]}

\* Slip: the position that is compared with is the one being changed.
PlaceChanging(order, at) ==
  LET place[i \in 0 .. Len(order)] ==
        IF i = 0 THEN at ELSE IF order[i] = place[i - 1] THEN i ELSE place[i - 1]
  IN  place[Len(order)]

\* Where the order puts what was at a place.
Place(order, at) == CHOOSE i \in DOMAIN order : order[i] = at

Sort(p, order) ==
  IF p.list = <<>> THEN p
  ELSE [list |-> [i \in 1 .. Len(p.list) |-> p.list[order[i]]],
        pos |-> Place(order, p.pos + 1) - 1]

\* The position goes to the next entry, or to the one before when there is none.
EraseCurrent(p) ==
  IF p.list = <<>> THEN p
  ELSE LET rest == SubSeq(p.list, 1, p.pos) \o SubSeq(p.list, p.pos + 2, Len(p.list))
       IN  [list |-> rest,
            pos |-> IF p.pos # 0 /\ p.pos >= Len(rest) THEN p.pos - 1 ELSE p.pos]

ClearWithoutCurrent(p) ==
  IF p.list = <<>> THEN p ELSE [list |-> <<Current(p)>>, pos |-> 0]

\* Prev and Next: where they move to, when they can.
CanPrev(p, loop) == p.pos # 0 \/ (loop /\ p.list # <<>>)
PrevOf(p, loop) ==
  IF ~CanPrev(p, loop) THEN p
  ELSE [p EXCEPT !.pos = IF p.pos = 0 THEN Len(p.list) - 1 ELSE p.pos - 1]
CanNext(p, loop) == p.pos + 1 < Len(p.list) \/ (loop /\ p.list # <<>>)
NextOf(p, loop) ==
  IF ~CanNext(p, loop) THEN p
  ELSE [p EXCEPT !.pos = IF p.pos + 1 >= Len(p.list) THEN 0 ELSE p.pos + 1]
=============================================================================
