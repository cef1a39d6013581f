----------------------------- MODULE ChapterProofs -----------------------------
(***************************************************************************)
(* Proofs about ChapterSync for any number of players, any length of       *)
(* video, any file to begin with and any number of edits.  That a player   *)
(* has the chapters of the file rests on two things: whoever changes the   *)
(* file, or is done with it, has it reported to everyone who watches; and  *)
(* what is read of the file is what would be written in its place.         *)
(***************************************************************************)
EXTENDS ChapterSync, WellFoundedInduction, TLAPS

\* What the file may be.
Files == {NoFile, Other} \union {Holds(m) : m \in Maps}

CoreType ==
  /\ st \in [Proc -> {"closed", "opening", "open", "saving"}] /\ map \in [Proc -> Maps]
  /\ watch \in [Proc -> BOOLEAN] /\ note \in [Proc -> BOOLEAN]
  /\ retry \in [Proc -> 0 .. RetryLimit] /\ copy \in [Proc -> {"fresh", "loaded", "dirty"}]
  /\ file \in Files /\ writer \in Proc \union {"none", "ext"}

RestType ==
  /\ writable \in [Proc -> BOOLEAN]
  /\ menu \in [Proc -> SUBSET [pos : Positions, name : Names]]
  /\ edits \in Nat /\ ext \in Nat

CoherentAt(p) == UpToDate(p) /\ copy[p] = "loaded" => Agrees(p)

Core == CoreType /\ \A p \in Proc : CoherentAt(p)
CInv == Core /\ RestType

core == <<st, map, watch, note, retry, copy, file, writer>>

-----------------------------------------------------------------------------
(* Maps *)

\* A set of numbers has a least one.
LEMMA HasLeast == ASSUME NEW T \in SUBSET Nat, T # {} PROVE \E x \in T : \A y \in T : x <= y
<1>1. IsWellFoundedOn(OpToRel(<, Nat), Nat)
  BY NatLessThanWellFounded, Zenon
<1>2. PICK x \in T : \A y \in T : ~(<<y, x>> \in OpToRel(<, Nat))
  BY <1>1, WFMin, Zenon
<1>3. \A y \in T : ~(y < x)
  BY <1>2 DEF OpToRel
<1> QED
  BY <1>3

\* Min and Max of positions are among them.
LEMMA MinMaxIn ==
  ASSUME NEW T \in SUBSET Positions, T # {}
  PROVE  Min(T) \in T /\ Max(T) \in T
<1>1. PosMax \in Nat /\ \A x \in T : x \in 0 .. PosMax
  BY ChapterAssumption DEF Positions
<1>2. \E x \in T : \A y \in T : x =< y
  <2>1. T \in SUBSET Nat
    BY <1>1
  <2> QED
    BY <2>1, HasLeast
<1>3. \E x \in T : \A y \in T : x >= y
  <2> DEFINE D == {PosMax - x : x \in T}
  <2>1. D \in SUBSET Nat /\ D # {}
    BY <1>1
  <2>2. PICK d \in D : \A e \in D : d <= e
    BY <2>1, HasLeast
  <2>3. PICK x \in T : d = PosMax - x
    BY <2>2
  <2>4. \A y \in T : x >= y
    <3> SUFFICES ASSUME NEW y \in T PROVE x >= y
      OBVIOUS
    <3>1. PosMax - y \in D
      OBVIOUS
    <3>2. PosMax - x <= PosMax - y
      BY <2>2, <2>3, <3>1
    <3> QED
      BY <1>1, <3>2
  <2> QED
    BY <2>4
<1> QED
  BY <1>2, <1>3 DEF Min, Max

\* A map has names at some of the positions.
LEMMA MapIs ==
  ASSUME NEW S \in SUBSET Positions, NEW m \in [S -> Names]
  PROVE  m \in Maps
BY DEF Maps

LEMMA MapHas ==
  ASSUME NEW m \in Maps
  PROVE  /\ DOMAIN m \in SUBSET Positions /\ m \in [DOMAIN m -> Names]
         /\ \A k \in DOMAIN m : m[k] \in Names
BY DEF Maps

\* The empty map is one.
LEMMA NoChaptersMap == NoChapters \in Maps /\ Holds(NoChapters).map = NoChapters
<1>1. NoChapters \in [{} -> Names] /\ DOMAIN NoChapters = {}
  BY DEF NoChapters
<1>2. NoChapters \in Maps
  BY <1>1, MapIs
<1>3. Holds(NoChapters).map = NoChapters
  BY <1>1 DEF Holds, NoChapters
<1> QED
  BY <1>2, <1>3

\* What is written of a map is a map.
LEMMA HoldsMap ==
  ASSUME NEW m \in Maps
  PROVE  /\ Holds(m).map \in Maps /\ Holds(m).kind = "chapters" /\ Holds(m) \in Files
<1>1. \A k \in DOMAIN m : Stored(m[k]) \in Names
  BY MapHas DEF Stored, Names
<1>2. Holds(m).map \in [DOMAIN m -> Names] /\ DOMAIN m \in SUBSET Positions
  BY <1>1, MapHas DEF Holds
<1> QED
  BY <1>2, MapIs DEF Holds, Files

\* What is read of a file is a map, and is written as it is.
LEMMA FileMap ==
  ASSUME NEW f \in Files
  PROVE  /\ f.map \in Maps /\ f.kind \in {"none", "other", "chapters"}
         /\ Holds(f.map).map = f.map
         /\ f.kind = "none" => f.map = NoChapters
<1>1. CASE f \in {NoFile, Other}
  BY <1>1, NoChaptersMap DEF NoFile, Other
<1>2. ASSUME NEW m \in Maps, f = Holds(m)
      PROVE  Holds(f.map).map = f.map /\ f.map \in Maps /\ f.kind = "chapters"
  <2>1. f.map = [k \in DOMAIN m |-> Stored(m[k])]
    BY <1>2 DEF Holds
  <2>2. Holds(f.map).map = [k \in DOMAIN m |-> Stored(Stored(m[k]))]
    BY <2>1 DEF Holds
  <2>3. \A n : Stored(Stored(n)) = Stored(n)
    BY DEF Stored
  <2> QED
    BY <1>2, <2>1, <2>2, <2>3, HoldsMap
<1> QED
  BY <1>1, <1>2 DEF Files

\* Adding, moving, renaming and erasing a chapter give a map.
LEMMA EditedMap ==
  ASSUME NEW m \in Maps, NEW k \in Positions
  PROVE  /\ Without(m, k) \in Maps
         /\ \A n \in Names : With(m, k, n) \in Maps
<1>1. Without(m, k) \in [DOMAIN m \ {k} -> Names] /\ DOMAIN m \ {k} \in SUBSET Positions
  BY MapHas DEF Without
<1>2. ASSUME NEW n \in Names PROVE With(m, k, n) \in Maps
  <2>1. /\ With(m, k, n) \in [DOMAIN m \union {k} -> Names]
        /\ DOMAIN m \union {k} \in SUBSET Positions
    BY MapHas DEF With
  <2> QED
    BY <2>1, MapIs
<1> QED
  BY <1>1, <1>2, MapIs

\* So does moving all of them (ShiftAll).
LEMMA ShiftedMap ==
  ASSUME NEW m \in Maps, NEW back \in BOOLEAN
  PROVE  Shifted(m, back) \in Maps
<1> DEFINE D == {Moved(k, back) : k \in DOMAIN m}
           From(q) == {k \in DOMAIN m : Moved(k, back) = q}
           One(q) == IF back THEN Min(From(q)) ELSE Max(From(q))
<1>1. DOMAIN m \in SUBSET Positions /\ PosMax \in Nat /\ Shift \in Nat
  BY MapHas, ChapterAssumption
<1>2. D \in SUBSET Positions
  BY <1>1 DEF Moved, Positions
<1>3. ASSUME NEW q \in D PROVE m[One(q)] \in Names
  <2>1. From(q) \in SUBSET Positions /\ From(q) # {} /\ From(q) \in SUBSET DOMAIN m
    BY <1>1
  <2>2. Min(From(q)) \in DOMAIN m /\ Max(From(q)) \in DOMAIN m
    BY <2>1, MinMaxIn
  <2> HIDE DEF From
  <2>3. One(q) \in DOMAIN m
    BY <2>2
  <2> QED
    BY <2>3, MapHas
<1>4. Shifted(m, back) = [q \in D |-> m[One(q)]]
  BY DEF Shifted
<1> HIDE DEF D, One
<1>5. Shifted(m, back) \in [D -> Names]
  BY <1>3, <1>4
<1> QED
  BY <1>2, <1>5, MapIs

-----------------------------------------------------------------------------
(* Steps *)

\* A player for whom nothing changed, or who is told, remains coherent.
LEMMA Others ==
  ASSUME Core, CoreType', NEW q \in Proc,
         \/ /\ UNCHANGED <<st[q], map[q], watch[q], note[q], retry[q], copy[q]>>
            /\ UNCHANGED file /\ (writer' = "none" => writer = "none")
         \/ UNCHANGED watch[q] /\ note'[q] = (note[q] \/ watch[q])
         \/ st'[q] # "open" \/ copy'[q] # "loaded" \/ ~watch'[q] \/ writer' # "none"
  PROVE  CoherentAt(q)'
<1>1. CoherentAt(q) /\ watch'[q] \in BOOLEAN /\ note[q] \in BOOLEAN /\ watch[q] \in BOOLEAN
  BY DEF Core, CoreType
<1>2. CASE /\ UNCHANGED <<st[q], map[q], watch[q], note[q], retry[q], copy[q]>>
           /\ UNCHANGED file /\ (writer' = "none" => writer = "none")
  BY <1>1, <1>2 DEF CoherentAt, UpToDate, Agrees, Free, Contents, Holds
<1>3. CASE UNCHANGED watch[q] /\ note'[q] = (note[q] \/ watch[q])
  <2>1. ~watch'[q] \/ note'[q]
    BY <1>1, <1>3, Zenon
  <2> QED
    BY <2>1, Zenon DEF CoherentAt, UpToDate
<1>4. CASE st'[q] # "open" \/ copy'[q] # "loaded" \/ ~watch'[q] \/ writer' # "none"
  BY <1>4, Zenon DEF CoherentAt, UpToDate, Free
<1> QED
  BY <1>2, <1>3, <1>4

\* Everyone who watches is told.
LEMMA NotifiedAll ==
  ASSUME CoreType
  PROVE  /\ Notified \in [Proc -> BOOLEAN]
         /\ \A q \in Proc : Notified[q] = (note[q] \/ watch[q])
BY Zenon DEF Notified, CoreType

\* Saving an edited map, whether it reaches the file or not.
LEMMA SavedKeeps ==
  ASSUME Core, NEW p \in Proc, NEW m \in Maps, st[p] = "open", Saved(p, m),
         UNCHANGED <<watch, retry>>
  PROVE  Core'
<1>1. CoreType
  BY DEF Core
<1>2. map' = [map EXCEPT ![p] = m] /\ map' \in [Proc -> Maps] /\ map'[p] = m
  BY <1>1 DEF Saved, CoreType
<1>3. CASE /\ Empties(m) /\ file' = NoFile /\ note' = Notified
           /\ copy' = [copy EXCEPT ![p] = "loaded"] /\ UNCHANGED <<st, writer>>
  <2>1. CoreType'
    BY <1>1, <1>2, <1>3, NotifiedAll DEF CoreType, Files
  <2>2. ASSUME NEW q \in Proc PROVE CoherentAt(q)'
    <3>1. UNCHANGED watch[q] /\ note'[q] = (note[q] \/ watch[q])
      BY <1>1, <1>3, NotifiedAll
    <3> QED
      BY <2>1, <3>1, Others
  <2> QED
    BY <2>1, <2>2 DEF Core
<1>4. CASE /\ file' = Other /\ writer' = p /\ st' = [st EXCEPT ![p] = "saving"]
           /\ note' = Notified /\ UNCHANGED copy
  <2>1. CoreType'
    BY <1>1, <1>2, <1>4, NotifiedAll DEF CoreType, Files
  <2>2. ASSUME NEW q \in Proc PROVE CoherentAt(q)'
    <3>1. UNCHANGED watch[q] /\ note'[q] = (note[q] \/ watch[q])
      BY <1>1, <1>4, NotifiedAll
    <3> QED
      BY <2>1, <3>1, Others
  <2> QED
    BY <2>1, <2>2 DEF Core
<1>5. CASE copy' = [copy EXCEPT ![p] = "dirty"] /\ UNCHANGED <<st, note, file, writer>>
  <2>1. CoreType'
    BY <1>1, <1>2, <1>5 DEF CoreType
  <2>2. ASSUME NEW q \in Proc PROVE CoherentAt(q)'
    <3>1. CASE q = p
      <4>1. copy'[q] # "loaded"
        BY <1>1, <1>5, <3>1 DEF CoreType
      <4> QED
        BY <2>1, <4>1, Others
    <3>2. CASE q # p
      <4>1. UNCHANGED <<st[q], map[q], watch[q], note[q], retry[q], copy[q], file, writer>>
        BY <1>1, <1>2, <1>5, <3>2 DEF CoreType
      <4> QED
        BY <2>1, <4>1, Others
    <3> QED
      BY <3>1, <3>2
  <2> QED
    BY <2>1, <2>2 DEF Core
<1> QED
  BY <1>3, <1>4, <1>5 DEF Saved

\* The edits of the user.
LEMMA EditsKeep ==
  ASSUME CInv, NEW p \in Proc,
         \/ MenuErase(p)
         \/ \E k \in Positions : AddChapter(p, k)
         \/ \E k \in Positions, n \in Names : MenuEdit(p, k, n)
         \/ \E back \in BOOLEAN : ShiftAll(p, back)
  PROVE  CInv'
<1>1. /\ map[p] \in Maps /\ "minus" \in Names
      /\ \A c \in menu[p] : c.pos \in Positions
      /\ menu' \in {menu, [menu EXCEPT ![p] = {}]} =>
           menu' \in [Proc -> SUBSET [pos : Positions, name : Names]]
  BY DEF CInv, Core, CoreType, RestType, Names
<1>2. CASE MenuErase(p)
  <2>1. PICK c \in menu[p] : Saved(p, Without(map[p], c.pos))
    BY <1>2 DEF MenuErase
  <2>2. Without(map[p], c.pos) \in Maps
    BY <1>1, EditedMap
  <2>3. st[p] = "open" /\ edits' = edits + 1 /\ UNCHANGED <<writable, watch, retry, ext>>
        /\ menu' = [menu EXCEPT ![p] = {}]
    BY <1>2 DEF MenuErase, Edit
  <2>4. Core'
    BY <2>1, <2>2, <2>3, SavedKeeps DEF CInv
  <2> QED
    BY <1>1, <2>3, <2>4 DEF CInv, RestType
<1>3. ASSUME NEW k \in Positions, AddChapter(p, k) PROVE CInv'
  <2>1. With(map[p], k, "minus") \in Maps
    BY <1>1, EditedMap
  <2>2. st[p] = "open" /\ edits' = edits + 1 /\ UNCHANGED <<writable, watch, retry, ext, menu>>
        /\ Saved(p, With(map[p], k, "minus"))
    BY <1>3 DEF AddChapter, Edit
  <2>3. Core'
    BY <2>1, <2>2, SavedKeeps DEF CInv
  <2> QED
    BY <1>1, <2>2, <2>3 DEF CInv, RestType
<1>4. ASSUME NEW k \in Positions, NEW n \in Names, MenuEdit(p, k, n) PROVE CInv'
  <2>1. PICK c \in menu[p] : Saved(p, With(Without(map[p], c.pos), k, n))
    BY <1>4 DEF MenuEdit
  <2>2. With(Without(map[p], c.pos), k, n) \in Maps
    <3>1. Without(map[p], c.pos) \in Maps
      BY <1>1, EditedMap
    <3> QED
      BY <3>1, EditedMap
  <2>3. st[p] = "open" /\ edits' = edits + 1 /\ UNCHANGED <<writable, watch, retry, ext>>
        /\ menu' = [menu EXCEPT ![p] = {}]
    BY <1>4 DEF MenuEdit, Edit
  <2>4. Core'
    BY <2>1, <2>2, <2>3, SavedKeeps DEF CInv
  <2> QED
    BY <1>1, <2>3, <2>4 DEF CInv, RestType
<1>5. ASSUME NEW back \in BOOLEAN, ShiftAll(p, back) PROVE CInv'
  <2>1. Shifted(map[p], back) \in Maps
    BY <1>1, ShiftedMap
  <2>2. st[p] = "open" /\ edits' = edits + 1 /\ UNCHANGED <<writable, watch, retry, ext, menu>>
        /\ Saved(p, Shifted(map[p], back))
    BY <1>5 DEF ShiftAll, Edit
  <2>3. Core'
    BY <2>1, <2>2, SavedKeeps DEF CInv
  <2> QED
    BY <1>1, <2>2, <2>3 DEF CInv, RestType
<1> QED
  BY <1>2, <1>3, <1>4, <1>5

\* Opening, closing, and the menu of a chapter.
LEMMA OpensKeep ==
  ASSUME CInv, NEW p \in Proc,
         OpenExisting(p) \/ OpenNew(p) \/ Close(p) \/ StartWatch(p)
  PROVE  CInv'
<1>1. CoreType /\ RestType /\ NoChapters \in Maps /\ Contents(file) \in Maps
  BY NoChaptersMap, FileMap DEF CInv, Core, CoreType, Contents
<1>2. /\ UNCHANGED <<menu, file, writer, edits, ext>>
      /\ writable' \in [Proc -> BOOLEAN] /\ watch' \in [Proc -> BOOLEAN]
      /\ note' \in [Proc -> BOOLEAN] /\ map' \in [Proc -> Maps]
      /\ st' \in [Proc -> {"closed", "opening", "open", "saving"}]
      /\ retry' \in [Proc -> 0 .. RetryLimit] /\ copy' \in [Proc -> {"fresh", "loaded", "dirty"}]
      /\ st'[p] # "open" \/ copy'[p] # "loaded"
      /\ \A q \in Proc : q # p =>
           UNCHANGED <<st[q], map[q], watch[q], note[q], retry[q], copy[q]>>
  <2>1. CASE OpenExisting(p)
    <3> DEFINE m == IF Free THEN Contents(file) ELSE NoChapters
               w == Free /\ file.kind = "chapters"
    <3>1. m \in Maps /\ w \in BOOLEAN
      BY <1>1
    <3>2. /\ st' = [st EXCEPT ![p] = "opening"] /\ map' = [map EXCEPT ![p] = m]
          /\ writable' = [writable EXCEPT ![p] = w]
          /\ UNCHANGED <<watch, note, retry, menu, file, writer, copy, edits, ext>>
      BY <2>1 DEF OpenExisting
    <3> HIDE DEF m, w
    <3> QED
      BY <1>1, <3>1, <3>2 DEF CoreType, RestType
  <2>2. CASE OpenNew(p)
    BY <1>1, <2>2 DEF OpenNew, CoreType, RestType
  <2>3. CASE Close(p)
    <3>1. 0 \in 0 .. RetryLimit
      BY ChapterAssumption
    <3> QED
      BY <1>1, <2>3, <3>1 DEF Close, CoreType, RestType
  <2>4. CASE StartWatch(p)
    BY <1>1, <2>4 DEF StartWatch, CoreType, RestType
  <2> QED
    BY <2>1, <2>2, <2>3, <2>4
<1>3. CoreType' /\ RestType'
  BY <1>1, <1>2 DEF CoreType, RestType
<1>4. ASSUME NEW q \in Proc PROVE CoherentAt(q)'
  <2>1. CASE q = p
    BY <1>2, <1>3, <2>1, Others DEF CInv
  <2>2. CASE q # p
    BY <1>2, <1>3, <2>2, Others DEF CInv
  <2> QED
    BY <2>1, <2>2
<1> QED
  BY <1>3, <1>4 DEF CInv, Core

\* The menu works on its copy alone.
LEMMA MenusKeep ==
  ASSUME CInv, NEW p \in Proc, MenuCancel(p) \/ \E k \in Positions : MenuOpen(p, k)
  PROVE  CInv'
<1>1. CoreType /\ RestType
  BY DEF CInv, Core
<1>2. UNCHANGED core /\ UNCHANGED <<writable, edits, ext>>
  BY DEF MenuCancel, MenuOpen, core
<1>3. menu' \in [Proc -> SUBSET [pos : Positions, name : Names]]
  <2>1. CASE MenuCancel(p)
    BY <1>1, <2>1 DEF MenuCancel, RestType
  <2>2. ASSUME NEW k \in Positions, MenuOpen(p, k)
        PROVE  menu' \in [Proc -> SUBSET [pos : Positions, name : Names]]
    <3>1. map[p] \in Maps /\ k \in DOMAIN map[p]
      BY <1>1, <2>2 DEF MenuOpen, CoreType
    <3>2. map[p][k] \in Names
      BY <3>1, MapHas
    <3> QED
      BY <1>1, <2>2, <3>2 DEF MenuOpen, RestType
  <2> QED
    BY <2>1, <2>2
<1>4. CoreType' /\ RestType'
  BY <1>1, <1>2, <1>3 DEF CoreType, RestType, core
<1>5. ASSUME NEW q \in Proc PROVE CoherentAt(q)'
  BY <1>2, <1>4, Others DEF CInv, core
<1> QED
  BY <1>4, <1>5 DEF CInv, Core

\* A player that reads the file has its chapters; one that does not has been told of
\* nothing or has attempts left.
LEMMA SyncKeeps == ASSUME CInv, NEW p \in Proc, Sync(p) PROVE CInv'
<1>1. CoreType /\ RestType /\ RetryLimit \in Nat \ {0}
  BY ChapterAssumption DEF CInv, Core
<1>2. /\ st[p] = "open" /\ watch[p] /\ note' = [note EXCEPT ![p] = FALSE]
      /\ UNCHANGED <<st, writable, watch, menu, file, writer, edits, ext>>
  BY DEF Sync
<1>3. Attempts(p) \in 0 .. RetryLimit /\ (Attempts(p) = 0 => ~note[p] /\ retry[p] = 0)
  BY <1>1 DEF Attempts, CoreType
<1>4. RestType'
  BY <1>1, <1>2 DEF RestType
<1>5. ASSUME NEW m \in Maps, map' = [map EXCEPT ![p] = m], Holds(m).map = Contents(file),
             retry' = [retry EXCEPT ![p] = 0], copy' = [copy EXCEPT ![p] = "loaded"]
      PROVE  Core'
  <2>1. CoreType'
    BY <1>1, <1>2, <1>5 DEF CoreType
  <2>2. ASSUME NEW q \in Proc PROVE CoherentAt(q)'
    <3>1. CASE q = p
      <4>1. map'[q] = m /\ Contents(file)' = Contents(file)
        BY <1>1, <1>2, <1>5, <3>1 DEF CoreType, Contents
      <4>2. Holds(map'[q]).map = Contents(file)'
        BY <1>5, <4>1
      <4> QED
        BY <4>2 DEF CoherentAt, Agrees, Holds
    <3>2. CASE q # p
      <4>1. UNCHANGED <<st[q], map[q], watch[q], note[q], retry[q], copy[q], file, writer>>
        BY <1>1, <1>2, <1>5, <3>2 DEF CoreType
      <4> QED
        BY <2>1, <4>1, Others DEF CInv
    <3> QED
      BY <3>1, <3>2
  <2> QED
    BY <2>1, <2>2 DEF Core
<1>6. CASE /\ file.kind = "none" /\ map' = [map EXCEPT ![p] = Gone(map[p])]
           /\ retry' = [retry EXCEPT ![p] = 0] /\ copy' = [copy EXCEPT ![p] = "loaded"]
  <2>1. Contents(file) = NoChapters /\ Gone(map[p]) = NoChapters
    BY <1>1, <1>6, FileMap DEF CoreType, Contents, Gone
  <2>2. Core'
    BY <1>5, <1>6, <2>1, NoChaptersMap
  <2> QED
    BY <1>4, <2>2 DEF CInv
<1>7. CASE /\ map' = [map EXCEPT ![p] = Contents(file)]
           /\ retry' = [retry EXCEPT ![p] = 0] /\ copy' = [copy EXCEPT ![p] = "loaded"]
  <2>1. Contents(file) \in Maps /\ Holds(Contents(file)).map = Contents(file)
    BY <1>1, FileMap DEF CoreType, Contents
  <2>2. Core'
    BY <1>5, <1>7, <2>1
  <2> QED
    BY <1>4, <2>2 DEF CInv
<1>8. CASE /\ Attempts(p) = 0 \/ ~Free
           /\ retry' = [retry EXCEPT ![p] = Less(Attempts(p))] /\ UNCHANGED <<map, copy>>
  <2>1. Less(Attempts(p)) \in 0 .. RetryLimit /\ (Attempts(p) = 0 => Less(Attempts(p)) = 0)
    BY <1>1, <1>3 DEF Less
  <2>2. CoreType'
    BY <1>1, <1>2, <1>8, <2>1 DEF CoreType
  <2>3. ASSUME NEW q \in Proc PROVE CoherentAt(q)'
    <3>1. CASE q # p
      <4>1. UNCHANGED <<st[q], map[q], watch[q], note[q], retry[q], copy[q], file, writer>>
        BY <1>1, <1>2, <1>8, <3>1 DEF CoreType
      <4> QED
        BY <2>2, <4>1, Others DEF CInv
    <3>2. CASE q = p /\ Attempts(p) = 0
      <4>1. note'[q] = FALSE /\ retry'[q] = 0 /\ note[q] = FALSE /\ retry[q] = 0
        BY <1>1, <1>2, <1>3, <1>8, <2>1, <3>2 DEF CoreType
      <4>2. UNCHANGED <<st[q], map[q], watch[q], note[q], retry[q], copy[q], file, writer>>
        BY <1>2, <1>8, <4>1
      <4> QED
        BY <2>2, <4>2, Others DEF CInv
    <3>3. CASE ~Free
      <4>1. writer' # "none"
        BY <1>2, <3>3 DEF Free
      <4> QED
        BY <2>2, <4>1, Others DEF CInv
    <3> QED
      BY <1>8, <3>1, <3>2, <3>3
  <2> QED
    BY <1>4, <2>2, <2>3 DEF CInv, Core
<1>9. \/ /\ file.kind = "none" /\ map' = [map EXCEPT ![p] = Gone(map[p])]
         /\ retry' = [retry EXCEPT ![p] = 0] /\ copy' = [copy EXCEPT ![p] = "loaded"]
      \/ /\ map' = [map EXCEPT ![p] = Contents(file)]
         /\ retry' = [retry EXCEPT ![p] = 0] /\ copy' = [copy EXCEPT ![p] = "loaded"]
      \/ /\ Attempts(p) = 0 \/ ~Free
         /\ retry' = [retry EXCEPT ![p] = Less(Attempts(p))] /\ UNCHANGED <<map, copy>>
  BY DEF Sync
<1> QED
  BY <1>6, <1>7, <1>8, <1>9

\* The end of a write, by whomever and however it ends.
LEMMA WritesKeep ==
  ASSUME CInv, \/ \E p \in Proc : SaveEnd(p) \/ Crash(p)
               \/ ExtWrite \/ ExtEnd \/ ExtDelete
  PROVE  CInv'
<1>1. CoreType /\ RestType
  BY DEF CInv, Core
<1>2. ASSUME NEW p \in Proc, SaveEnd(p) PROVE CInv'
  <2>1. map[p] \in Maps /\ Holds(map[p]) \in Files /\ Other \in Files
    BY <1>1, HoldsMap DEF CoreType, Files
  <2>2. /\ st' = [st EXCEPT ![p] = "open"] /\ writer' = "none" /\ note' = Notified
        /\ file' \in {Holds(map[p]), Other}
        /\ copy' \in {[copy EXCEPT ![p] = "loaded"], [copy EXCEPT ![p] = "dirty"]}
        /\ UNCHANGED <<map, writable, watch, retry, menu, edits, ext>>
    BY <1>2 DEF SaveEnd
  <2>3. CoreType' /\ RestType'
    BY <1>1, <2>1, <2>2, NotifiedAll DEF CoreType, RestType
  <2>4. ASSUME NEW q \in Proc PROVE CoherentAt(q)'
    <3>1. UNCHANGED watch[q] /\ note'[q] = (note[q] \/ watch[q])
      BY <1>1, <2>2, NotifiedAll
    <3> QED
      BY <2>3, <3>1, Others DEF CInv
  <2> QED
    BY <2>3, <2>4 DEF CInv, Core
<1>3. ASSUME NEW p \in Proc, Crash(p) PROVE CInv'
  <2>1. /\ st' = [st EXCEPT ![p] = "closed"] /\ map' = [map EXCEPT ![p] = NoChapters]
        /\ writable' = [writable EXCEPT ![p] = FALSE] /\ watch' = [watch EXCEPT ![p] = FALSE]
        /\ note' = [Notified EXCEPT ![p] = FALSE] /\ retry' = [retry EXCEPT ![p] = 0]
        /\ menu' = [menu EXCEPT ![p] = {}] /\ copy' = [copy EXCEPT ![p] = "fresh"]
        /\ writer' = "none" /\ UNCHANGED <<file, edits, ext>>
    BY <1>3 DEF Crash
  <2>2. 0 \in 0 .. RetryLimit
    BY ChapterAssumption
  <2>3. CoreType' /\ RestType'
    BY <1>1, <2>1, <2>2, NotifiedAll, NoChaptersMap DEF CoreType, RestType
  <2>4. ASSUME NEW q \in Proc PROVE CoherentAt(q)'
    <3>1. CASE q = p
      <4>1. copy'[q] = "fresh"
        BY <1>1, <2>1, <3>1 DEF CoreType
      <4> QED
        BY <2>3, <4>1, Others DEF CInv
    <3>2. CASE q # p
      <4>1. UNCHANGED watch[q] /\ note'[q] = (note[q] \/ watch[q])
        BY <1>1, <2>1, <3>2, NotifiedAll DEF CoreType
      <4> QED
        BY <2>3, <4>1, Others DEF CInv
    <3> QED
      BY <3>1, <3>2
  <2> QED
    BY <2>3, <2>4 DEF CInv, Core
<1>4. CASE ExtWrite \/ ExtEnd \/ ExtDelete
  <2>1. /\ file' \in Files /\ writer' \in {"none", "ext"} /\ note' = Notified /\ ext' \in Nat
        /\ UNCHANGED <<st, map, writable, watch, retry, menu, copy, edits>>
    <3>1. NoFile \in Files /\ Other \in Files /\ \A m \in Maps : Holds(m) \in Files
      BY DEF Files
    <3> QED
      BY <1>1, <1>4, <3>1 DEF ExtWrite, ExtEnd, ExtDelete, RestType, Free
  <2>2. CoreType' /\ RestType'
    BY <1>1, <2>1, NotifiedAll DEF CoreType, RestType
  <2>3. ASSUME NEW q \in Proc PROVE CoherentAt(q)'
    <3>1. UNCHANGED watch[q] /\ note'[q] = (note[q] \/ watch[q])
      BY <1>1, <2>1, NotifiedAll
    <3> QED
      BY <2>2, <3>1, Others DEF CInv
  <2> QED
    BY <2>2, <2>3 DEF CInv, Core
<1> QED
  BY <1>2, <1>3, <1>4

-----------------------------------------------------------------------------
(* The invariant and the properties *)

\* It holds at first, whatever file there is.
LEMMA CInvInit == Init => CInv
<1> SUFFICES ASSUME Init PROVE CInv
  OBVIOUS
<1>1. CoreType /\ RestType
  BY ChapterAssumption, NoChaptersMap DEF Init, CoreType, RestType, Files
<1>2. \A q \in Proc : CoherentAt(q)
  BY DEF Init, CoherentAt, UpToDate
<1> QED
  BY <1>1, <1>2 DEF CInv, Core

\* Every step keeps it.
LEMMA CInvStep == CInv /\ [Next]_vars => CInv'
<1> SUFFICES ASSUME CInv, [Next]_vars PROVE CInv'
  OBVIOUS
<1>1. CASE UNCHANGED vars
  <2>1. UNCHANGED core /\ UNCHANGED <<writable, menu, edits, ext>>
    BY <1>1 DEF vars, core
  <2>2. CoreType' /\ RestType'
    BY <2>1 DEF CInv, Core, CoreType, RestType, core
  <2>3. ASSUME NEW q \in Proc PROVE CoherentAt(q)'
    BY <2>1, <2>2, Others DEF CInv, core
  <2> QED
    BY <2>2, <2>3 DEF CInv, Core
<1>2. ASSUME NEW p \in Proc, User(p) PROVE CInv'
  <2>1. CASE OpenExisting(p) \/ OpenNew(p) \/ Close(p)
    BY <2>1, OpensKeep
  <2>2. CASE MenuCancel(p) \/ \E k \in Positions : MenuOpen(p, k)
    BY <2>2, MenusKeep
  <2>3. CASE \/ MenuErase(p)
             \/ \E k \in Positions : AddChapter(p, k)
             \/ \E k \in Positions, n \in Names : MenuEdit(p, k, n)
             \/ \E back \in BOOLEAN : ShiftAll(p, back)
    BY <2>3, EditsKeep
  <2> QED
    BY <1>2, <2>1, <2>2, <2>3 DEF User
<1>3. ASSUME NEW p \in Proc, StartWatch(p) \/ Sync(p) \/ SaveEnd(p) \/ Crash(p) PROVE CInv'
  BY <1>3, OpensKeep, SyncKeeps, WritesKeep
<1>4. CASE ExtWrite \/ ExtEnd \/ ExtDelete
  BY <1>4, WritesKeep
<1> QED
  BY <1>1, <1>2, <1>3, <1>4 DEF Next

\* And it always holds.
LEMMA CInvHolds == Spec => []CInv
<1>1. Init => CInv
  BY CInvInit
<1>2. CInv /\ [Next]_vars => CInv'
  BY CInvStep
<1> QED
  BY <1>1, <1>2, PTL DEF Spec

\* Every variable has its type: m_map stays a map of positions of the video to names
\* through every edit, and m_retryCount does not go beyond RETRY_LIMIT.
THEOREM TypeCorrect == Spec => []TypeOK
<1>1. CInv => TypeOK
  BY FileMap DEF CInv, Core, CoreType, RestType, TypeOK
<1> QED
  BY <1>1, CInvHolds, PTL

\* A player that watches (CChapterMap::Sync), whose last edit reached the file and which
\* has nothing more to read has the chapters of the file, whoever wrote or deleted it.
THEOREM PlayersCoherent == Spec => []Coherent
<1>1. CInv => Coherent
  BY DEF CInv, Core, CoherentAt, Coherent
<1> QED
  BY <1>1, CInvHolds, PTL
=============================================================================
