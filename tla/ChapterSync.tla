------------------------------- MODULE ChapterSync -------------------------------
(***************************************************************************)
(* The chapters of a video (CChapterMap) and the .chapter file they are    *)
(* kept in.  Several players may have the same video open, and other       *)
(* programs may edit the file.  A player that found the file when it       *)
(* opened the video watches its directory and reloads the file after a     *)
(* change; an edit of the user rewrites the whole file.                    *)
(*                                                                         *)
(* A write truncates the file and keeps every other program from opening   *)
(* it until it is done.                                                    *)
(***************************************************************************)
EXTENDS Integers, FiniteSets, FiniteSetsExt

CONSTANTS
  Proc,        \* players that have the video open
  PosMax,      \* CHAPTER_POS_MAX, the end of the video
  Shift,       \* how far "forward" and "backward" move the chapters
  RetryLimit,  \* RETRY_LIMIT
  MaxEdits,    \* bound: edits of the users
  MaxExt       \* bound: writes of other programs

ASSUME ChapterAssumption ==
  /\ Proc # {} /\ PosMax \in Nat \ {0} /\ Shift \in Nat \ {0} /\ RetryLimit \in Nat \ {0}
  /\ MaxEdits \in Nat /\ MaxExt \in Nat

\* A hyphen ends a chapter in the file: Save writes a full-width minus in its place.
Names == {"hyphen", "minus"}
Stored(n) == IF n = "hyphen" THEN "minus" ELSE n

Positions == 0 .. PosMax
Maps == UNION {[S -> Names] : S \in SUBSET Positions}
NoChapters == [k \in {} |-> "minus"]

VARIABLES
  st,        \* closed, opening (read, not yet watching), open, or saving
  map,       \* m_map
  writable,  \* m_fWritable
  watch,     \* NeedToSync(): m_hDir is open
  note,      \* the directory has reported a change of the file
  retry,     \* m_retryCount
  menu,      \* copies of the chapter whose menu or dialog is open
  file,      \* none, other (not a chapter command), or chapters
  writer,    \* who is writing the file
  copy,      \* history: fresh, loaded or saved since the watch began, or dirty
  edits, ext \* bounds

vars == <<st, map, writable, watch, note, retry, menu, file, writer, copy, edits, ext>>

NoFile   == [kind |-> "none", map |-> NoChapters]
Other    == [kind |-> "other", map |-> NoChapters]
Holds(m) == [kind |-> "chapters", map |-> [k \in DOMAIN m |-> Stored(m[k])]]

\* What is read of a file: nothing of one that is no chapter command.
Contents(f) == f.map

Init ==
  /\ st = [p \in Proc |-> "closed"] /\ map = [p \in Proc |-> NoChapters]
  /\ writable = [p \in Proc |-> FALSE] /\ watch = [p \in Proc |-> FALSE]
  /\ note = [p \in Proc |-> FALSE] /\ retry = [p \in Proc |-> 0]
  /\ menu = [p \in Proc |-> {}]
  /\ file \in {NoFile, Other} \union {Holds(m) : m \in Maps} /\ writer = "none"
  /\ copy = [p \in Proc |-> "fresh"]
  /\ edits = 0 /\ ext = 0

\* Every player whose directory handle watches is told of a change.
Notified == [p \in Proc |-> note[p] \/ watch[p]]

Free == writer = "none"

-----------------------------------------------------------------------------
(* Opening and closing *)

\* Open reads the file; it gives up after some attempts while another program
\* writes.  Only what is a chapter command may be written.
OpenExisting(p) ==
  /\ st[p] = "closed" /\ file.kind # "none"
  /\ st' = [st EXCEPT ![p] = "opening"]
  /\ map' = [map EXCEPT ![p] = IF Free THEN Contents(file) ELSE NoChapters]
  /\ writable' = [writable EXCEPT ![p] = Free /\ file.kind = "chapters"]
  /\ UNCHANGED <<watch, note, retry, menu, file, writer, copy, edits, ext>>

\* The first Sync begins the watch, if the directory can be opened.
StartWatch(p) ==
  /\ st[p] = "opening" /\ st' = [st EXCEPT ![p] = "open"]
  /\ \E w \in BOOLEAN : watch' = [watch EXCEPT ![p] = w]
  /\ copy' = [copy EXCEPT ![p] = "fresh"]
  /\ UNCHANGED <<map, writable, note, retry, menu, file, writer, edits, ext>>

\* Without a file the chapters come from elsewhere (another format, the video,
\* its name), and nothing is watched.
OpenNew(p) ==
  /\ st[p] = "closed" /\ file.kind = "none"
  /\ st' = [st EXCEPT ![p] = "open"]
  /\ \E m \in Maps : map' = [map EXCEPT ![p] = m]
  /\ writable' = [writable EXCEPT ![p] = TRUE] /\ copy' = [copy EXCEPT ![p] = "fresh"]
  /\ UNCHANGED <<watch, note, retry, menu, file, writer, edits, ext>>

\* A menu that is open stays open.
Close(p) ==
  /\ st[p] = "open" /\ st' = [st EXCEPT ![p] = "closed"]
  /\ map' = [map EXCEPT ![p] = NoChapters] /\ writable' = [writable EXCEPT ![p] = FALSE]
  /\ watch' = [watch EXCEPT ![p] = FALSE] /\ note' = [note EXCEPT ![p] = FALSE]
  /\ retry' = [retry EXCEPT ![p] = 0]
  /\ copy' = [copy EXCEPT ![p] = "fresh"]
  /\ UNCHANGED <<menu, file, writer, edits, ext>>

-----------------------------------------------------------------------------
(* Reloading *)

\* Slip: the chapters of a file that is gone are kept.
GoneKept(m) == m

\* What becomes of the chapters when the file is gone.
Gone(m) == NoChapters

\* Attempts left after one that failed.
Less(r) == IF r > 0 THEN r - 1 ELSE 0

\* Slip: the report names the file by its short name and is taken for another's.
AttemptsUnnamed(p) == retry[p]

\* A report that names the file allows RetryLimit attempts.
Attempts(p) == IF note[p] THEN RetryLimit ELSE retry[p]

\* The timer: each call makes one attempt.
Sync(p) ==
  /\ st[p] = "open" /\ watch[p]
  /\ note' = [note EXCEPT ![p] = FALSE]
  /\ LET r == Attempts(p) IN
     \/ /\ r > 0 /\ file.kind = "none"
        /\ map' = [map EXCEPT ![p] = Gone(map[p])] /\ retry' = [retry EXCEPT ![p] = 0]
        /\ copy' = [copy EXCEPT ![p] = "loaded"]
     \/ /\ r > 0 /\ file.kind # "none" /\ Free
        /\ map' = [map EXCEPT ![p] = Contents(file)] /\ retry' = [retry EXCEPT ![p] = 0]
        /\ copy' = [copy EXCEPT ![p] = "loaded"]
     \/ /\ r = 0 \/ (file.kind # "none" /\ ~Free)
        /\ retry' = [retry EXCEPT ![p] = Less(r)] /\ UNCHANGED <<map, copy>>
  /\ UNCHANGED <<st, writable, watch, menu, file, writer, edits, ext>>

-----------------------------------------------------------------------------
(* Editing *)

\* The file of a map without chapters is deleted.
Empties(m) == m = NoChapters /\ file.kind # "none"

\* Save the edited map.  It fails when the file cannot be opened for writing, which
\* a program that merely reads it is enough for.
Saved(p, m) ==
  /\ map' = [map EXCEPT ![p] = m]
  /\ \/ /\ writable[p] /\ Free /\ Empties(m)
        /\ file' = NoFile /\ note' = Notified
        /\ copy' = [copy EXCEPT ![p] = "loaded"] /\ UNCHANGED <<st, writer>>
     \/ /\ writable[p] /\ Free /\ ~Empties(m)
        /\ file' = Other /\ writer' = p /\ st' = [st EXCEPT ![p] = "saving"]
        /\ note' = Notified /\ UNCHANGED copy
     \/ /\ copy' = [copy EXCEPT ![p] = "dirty"] /\ UNCHANGED <<st, note, file, writer>>

\* What was truncated is written, unless the disk is full.
SaveEnd(p) ==
  /\ st[p] = "saving" /\ st' = [st EXCEPT ![p] = "open"]
  /\ \/ file' = Holds(map[p]) /\ copy' = [copy EXCEPT ![p] = "loaded"]
     \/ file' = Other /\ copy' = [copy EXCEPT ![p] = "dirty"]
  /\ writer' = "none" /\ note' = Notified
  /\ UNCHANGED <<map, writable, watch, retry, menu, edits, ext>>

\* The player dies while it writes.
Crash(p) ==
  /\ st[p] = "saving" /\ st' = [st EXCEPT ![p] = "closed"]
  /\ map' = [map EXCEPT ![p] = NoChapters] /\ writable' = [writable EXCEPT ![p] = FALSE]
  /\ watch' = [watch EXCEPT ![p] = FALSE]
  /\ note' = [Notified EXCEPT ![p] = FALSE] /\ retry' = [retry EXCEPT ![p] = 0]
  /\ menu' = [menu EXCEPT ![p] = {}] /\ copy' = [copy EXCEPT ![p] = "fresh"]
  /\ writer' = "none"
  /\ UNCHANGED <<file, edits, ext>>

Without(m, k) == [i \in DOMAIN m \ {k} |-> m[i]]
With(m, k, n) == [i \in DOMAIN m \union {k} |-> IF i = k THEN n ELSE m[i]]

Edit(p) == st[p] = "open" /\ edits < MaxEdits /\ edits' = edits + 1

\* The command that adds a chapter at the position being played.
AddChapter(p, k) ==
  /\ Edit(p) /\ k \notin DOMAIN map[p]
  /\ Saved(p, With(map[p], k, "minus"))
  /\ UNCHANGED <<writable, watch, retry, menu, ext>>

\* The menu of a chapter works on a copy; the timer and the end of the video go on
\* while it is open.
MenuOpen(p, k) ==
  /\ st[p] = "open" /\ menu[p] = {} /\ k \in DOMAIN map[p] /\ edits < MaxEdits
  /\ menu' = [menu EXCEPT ![p] = {[pos |-> k, name |-> map[p][k]]}]
  /\ UNCHANGED <<st, map, writable, watch, note, retry, file, writer, copy, edits, ext>>

MenuCancel(p) ==
  /\ st[p] # "saving" /\ menu[p] # {} /\ menu' = [menu EXCEPT ![p] = {}]
  /\ UNCHANGED <<st, map, writable, watch, note, retry, file, writer, copy, edits, ext>>

\* The copy, moved or renamed, takes the chapter's place, unless that is gone or the
\* new place is taken (Insert).
MenuEdit(p, k, n) ==
  /\ Edit(p)
  /\ \E c \in menu[p] :
       /\ c.pos \in DOMAIN map[p] /\ (k = c.pos \/ k \notin DOMAIN map[p])
       /\ Saved(p, With(Without(map[p], c.pos), k, n))
  /\ menu' = [menu EXCEPT ![p] = {}]
  /\ UNCHANGED <<writable, watch, retry, ext>>

MenuErase(p) ==
  /\ Edit(p)
  /\ \E c \in menu[p] : c.pos \in DOMAIN map[p] /\ Saved(p, Without(map[p], c.pos))
  /\ menu' = [menu EXCEPT ![p] = {}]
  /\ UNCHANGED <<writable, watch, retry, ext>>

\* ShiftAll: where a chapter goes, and which of those that meet there stays.
Moved(k, back) ==
  IF back THEN IF k = PosMax THEN k ELSE IF k < Shift THEN 0 ELSE k - Shift
  ELSE IF k = 0 THEN k ELSE IF k + Shift > PosMax THEN PosMax ELSE k + Shift

Shifted(m, back) ==
  [q \in {Moved(k, back) : k \in DOMAIN m} |->
     LET from == {k \in DOMAIN m : Moved(k, back) = q} IN m[IF back THEN Min(from) ELSE Max(from)]]

ShiftAll(p, back) ==
  /\ Edit(p) /\ menu[p] = {}
  /\ Saved(p, Shifted(map[p], back))
  /\ UNCHANGED <<writable, watch, retry, menu, ext>>

-----------------------------------------------------------------------------
(* Other programs *)

ExtWrite ==
  /\ Free /\ ext < MaxExt /\ ext' = ext + 1
  /\ file' = Other /\ writer' = "ext" /\ note' = Notified
  /\ UNCHANGED <<st, map, writable, watch, retry, menu, copy, edits>>

ExtEnd ==
  /\ writer = "ext" /\ writer' = "none" /\ note' = Notified
  /\ file' \in {Other} \union {Holds(m) : m \in Maps}
  /\ UNCHANGED <<st, map, writable, watch, retry, menu, copy, edits, ext>>

ExtDelete ==
  /\ Free /\ file.kind # "none" /\ ext < MaxExt /\ ext' = ext + 1
  /\ file' = NoFile /\ note' = Notified
  /\ UNCHANGED <<st, map, writable, watch, retry, menu, writer, copy, edits>>

-----------------------------------------------------------------------------
User(p) ==
  \/ OpenExisting(p) \/ OpenNew(p) \/ Close(p) \/ MenuCancel(p) \/ MenuErase(p)
  \/ \E k \in Positions : AddChapter(p, k) \/ MenuOpen(p, k)
  \/ \E k \in Positions, n \in Names : MenuEdit(p, k, n)
  \/ \E back \in BOOLEAN : ShiftAll(p, back)

Next ==
  \/ \E p \in Proc : User(p) \/ StartWatch(p) \/ Sync(p) \/ SaveEnd(p) \/ Crash(p)
  \/ ExtWrite \/ ExtEnd \/ ExtDelete

Spec == Init /\ [][Next]_vars

\* The timer goes on while a video is open, and a program that writes gets done.
FairSpec ==
  /\ Spec
  /\ \A p \in Proc : WF_vars(Sync(p)) /\ WF_vars(SaveEnd(p) \/ Crash(p)) /\ WF_vars(StartWatch(p))
  /\ WF_vars(ExtEnd)

-----------------------------------------------------------------------------
(* Properties *)

\* Every variable has its type.
TypeOK ==
  /\ st \in [Proc -> {"closed", "opening", "open", "saving"}] /\ map \in [Proc -> Maps]
  /\ writable \in [Proc -> BOOLEAN] /\ watch \in [Proc -> BOOLEAN] /\ note \in [Proc -> BOOLEAN]
  /\ retry \in [Proc -> 0 .. RetryLimit]
  /\ menu \in [Proc -> SUBSET [pos : Positions, name : Names]]
  /\ file.kind \in {"none", "other", "chapters"} /\ file.map \in Maps
  /\ writer \in Proc \union {"none", "ext"}
  /\ copy \in [Proc -> {"fresh", "loaded", "dirty"}] /\ edits \in Nat /\ ext \in Nat

\* Nothing has been reported to a player that it has not read.
UpToDate(p) == st[p] = "open" /\ watch[p] /\ ~note[p] /\ retry[p] = 0 /\ Free

Agrees(p) == Holds(map[p]).map = Contents(file)

\* A player that watches and whose last edit reached the file, and which has nothing
\* more to read, has the chapters of the file, whoever wrote them.
Coherent == \A p \in Proc : UpToDate(p) /\ copy[p] = "loaded" => Agrees(p)

\* Once nobody edits any more, every player that watches ends with the file's chapters,
\* but for edits that could not be saved and changes that it was never told of.
Converges ==
  <>[](\A p \in Proc : st[p] = "open" /\ watch[p] /\ copy[p] = "loaded" => Agrees(p))

\* "Watch for changes of the .chapter file, and read it when there are" (Sync): a
\* player that watches does not go on with chapters the file no longer has.
SeesChanges == \A p \in Proc : UpToDate(p) /\ copy[p] # "dirty" => Agrees(p)
=============================================================================
