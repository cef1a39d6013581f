-------------------------------- MODULE Session --------------------------------
(***************************************************************************)
(* What goes from file to file (CTvtPlay): the playlist, which is changed  *)
(* by the user, by a menu that stays up while other things go on, and by   *)
(* the end of a file; and the list of resume positions in the ini file,    *)
(* which is written whenever a file is closed, and every 5 seconds when    *)
(* that is wanted, and read when one is opened.                            *)
(*                                                                         *)
(* The sender thread is here as far as the position of the open file goes: *)
(* it carries out the seeks posted to it, plays on, tells the position     *)
(* (m_infoPos) and posts the end.  Times are in seconds.                   *)
(***************************************************************************)
EXTENDS Playlist, FiniteSets

CONSTANTS
  Paths,       \* paths, as numbers in the order of names
  Contents,    \* what the first bytes of files may be
  Content,     \* what those of each path are
  Durations,   \* the durations each path may be found to have
  Growing,     \* the paths that are still written
  Skip,        \* where each path's opening chapter skips to, or 0
  HashMax,     \* m_hashListMax
  Limits       \* bounds, one for a behaviour, see SessionAssumption

None == -1

Margin == 5   \* near the beginning or the end nothing is recorded or resumed
GoBack == 3   \* a file is resumed that much before

\* A hash is of the content, and of one of two methods.
Hash == Contents \X {"new", "old"}
New(c) == <<c, "new">>
OfContent(c) == {c} \X {"new", "old"}

\* The section FileInfo of the ini file: under which key's number each hash is, and
\* the position that belongs to it.  No hash is there twice, and no number is
\* there twice or left out.
IsStore(s) ==
  /\ IsFiniteSet(DOMAIN s) /\ DOMAIN s \subseteq Hash
  /\ \A h \in DOMAIN s : s[h].key \in Nat /\ s[h].pos \in Int
  /\ \A g, h \in DOMAIN s : s[g].key = s[h].key => g = h
  /\ \A h \in DOMAIN s : \A k \in 0 .. s[h].key : \E g \in DOMAIN s : s[g].key = k

\* A behaviour has at most so many entries added to the playlist since TVTest
\* was started, these positions besides ends, these modes of repeating and one
\* of these ini files at first; positions are saved while a file is open
\* (m_fUpdateHashList), and m_infoPos told for that, or not.
ASSUME SessionAssumption ==
  /\ Paths \subseteq Nat /\ Content \in [Paths -> Contents]
  /\ Durations \in [Paths -> SUBSET Nat] /\ Growing \subseteq Paths
  /\ Skip \in [Paths -> Nat] /\ HashMax \in Nat \ {0}
  /\ \A l \in Limits :
       /\ l.entries \in Nat /\ l.times \subseteq Nat /\ l.update \in BOOLEAN
       /\ l.repeats \subseteq BOOLEAN \X BOOLEAN
       /\ \A s \in l.stores : IsStore(s)

VARIABLES
  limit,     \* the bounds of this behaviour
  playlist,  \* m_playlist; an entry is a path and a number of its own
  added,     \* entries added so far
  all,       \* m_fAllRepeat
  single,    \* m_fSingleRepeat
  ui,        \* "idle", or what goes on when the sender thread has ended
  offset,    \* where the command line says to begin, or None
  menu,      \* the list that the playlist's menu was made of, or None
  file,      \* the file open in the sender, or NotOpen
  alive,     \* the sender thread runs
  at,        \* its position
  asked,     \* seeks posted to it
  shown,     \* m_infoPos, m_infoExtMode and m_infoDur
  posted,    \* what the end of a file posted to the window
  store,     \* the section FileInfo of the ini file
  left,      \* history: where each content was last left
  newer,     \* history: the hashes that came before it in the list, then or since
  wish,      \* history: where the viewer is: what was last asked for, or come to since
  aim        \* history: where the file just opened was sought to, 0 for nowhere

vars == <<limit, playlist, added, all, single, ui, offset, menu, file, alive, at, asked,
          shown, posted, store, left, newer, wish, aim>>

list == <<playlist, added>>
modes == <<all, single>>
sender == <<file, alive, at, asked, shown, wish>>
resume == <<store, left, newer>>

NotOpen == [entry |-> [path |-> None, id |-> 0], dur |-> 0, fixed |-> TRUE]
IsOpen == file # NotOpen
Stopped == [pos |-> 0, fixed |-> TRUE, dur |-> 0]

-----------------------------------------------------------------------------
(* The resume positions                                                    *)

\* LoadFileInfoSetting reads no more than it keeps.
Loaded(s) == {h \in DOMAIN s : s[h].key < HashMax}

\* The entries read for a content, of either method; the position is that of the
\* first one, or None.
Found(s, c) == Loaded(s) \cap OfContent(c)
ResumeOf(s, c) ==
  IF Found(s, c) = {} THEN None
  ELSE s[CHOOSE h \in Found(s, c) : \A g \in Found(s, c) : s[h].key <= s[g].key].pos

\* Of what is read the hashes in gone go, a position for the content comes first,
\* and as many as are kept are written again.
Put(s, c, pos, gone) ==
  LET first  == IF pos >= 0 THEN {New(c)} ELSE {}
      rest   == Loaded(s) \ gone
      Key(h) == Cardinality(first \union {g \in rest : s[g].key < s[h].key})
  IN  [h \in first \union {g \in rest : Key(g) < HashMax} |->
         IF h \in first THEN [key |-> 0, pos |-> pos] ELSE [key |-> Key(h), pos |-> s[h].pos]]

\* Slip: the hash of the old method is not looked for.
UpdatedNew(s, c, pos) == Put(s, c, pos, {New(c)})

\* UpdateFileInfoSetting: what is there for the content goes.
Updated(s, c, pos) == Put(s, c, pos, OfContent(c))

\* No position is recorded near the beginning, and near the end of what does
\* not grow.
Recorded(pos, dur, fixed) ==
  IF pos <= Margin \/ (fixed /\ dur - Margin <= pos) THEN None ELSE pos

\* The position pos is saved, when the viewer is at w.
Save(pos, dur, fixed, w) ==
  LET c == Content[file.entry.path]
      l == Recorded(w, dur, fixed)
  IN  /\ store' = Updated(store, c, Recorded(pos, dur, fixed))
      /\ left' = [left EXCEPT ![c] = l]
      /\ newer' = [d \in Contents |->
                     IF d = c THEN {} ELSE IF l >= 0 THEN newer[d] \cup {New(c)} ELSE newer[d]]

\* Where an opened file is sought to: where the command line says, else where it was
\* left, else where its opening chapter skips to; 0 when it is not.
Goal(path, dur) ==
  LET r == ResumeOf(store', Content[path])
  IN  IF offset >= 0
      THEN IF 0 < offset /\ offset < dur - Margin THEN offset ELSE Skip[path]
      ELSE IF Margin < r /\ r < dur - Margin THEN r - GoBack ELSE Skip[path]

\* Where a seek to t ends: there, or anywhere else when it fails (no clock, six attempts
\* in vain, an error), of which nobody takes notice.
Lands(t, dur) == {t} \cup {u \in limit.times \cup {0, dur} : u <= dur}

-----------------------------------------------------------------------------
(* Commands                                                                *)

\* The UI thread goes on when the sender thread, if there is one, has ended.
Go(what) == ui' = what
Idle == ui = "idle"
Busy == UNCHANGED <<file, alive, at, shown>>

\* A file or a list of files is added, and the first of it opened; with a
\* place to begin at when the command line has it.  A list may have nothing
\* that is there.
Entries(paths) == [i \in 1 .. Len(paths) |-> [path |-> paths[i], id |-> added + i]]
Add ==
  \E n \in 0 .. 2 : \E paths \in [1 .. n -> Paths] : \E o \in {None} \cup limit.times :
    /\ Idle /\ added + n <= limit.entries
    /\ playlist' = PushBack(playlist, Entries(paths), TRUE)
    /\ added' = added + n
    /\ IF n > 0 THEN Go("open") /\ offset' = o ELSE UNCHANGED <<ui, offset>>
    /\ UNCHANGED <<modes, menu, sender, posted, resume>>

\* Several files, of which the first that can be added is opened.
AddMore ==
  \E p, q \in Paths :
    /\ Idle /\ added + 2 <= limit.entries
    /\ playlist' = PushBack(PushBack(playlist, Entries(<<p>>), TRUE),
                            <<[path |-> q, id |-> added + 2]>>, FALSE)
    /\ added' = added + 2
    /\ Go("open")
    /\ UNCHANGED <<modes, offset, menu, sender, posted, resume>>

\* A seek posted before that one is carried out too.
PostSeek(t) ==
  IF alive THEN asked' = <<t>> /\ wish' = t ELSE UNCHANGED <<asked, wish>>

\* ID_COMMAND_PREV, ID_COMMAND_SEEK_END, the button that plays and the command
\* that closes.
PrevFile ==
  /\ Idle
  /\ IF CanPrev(playlist, all)
     THEN playlist' = PrevOf(playlist, all) /\ Go("open") /\ UNCHANGED <<asked, wish>>
     ELSE PostSeek(0) /\ UNCHANGED <<playlist, ui>>
  /\ UNCHANGED <<added, modes, offset, menu, posted, resume>> /\ Busy
SeekEnd ==
  /\ Idle
  /\ IF ~single /\ Len(playlist.list) >= 2 /\ CanNext(playlist, all)
     THEN playlist' = NextOf(playlist, all) /\ Go("open") /\ UNCHANGED <<asked, wish>>
     ELSE PostSeek(file.dur) /\ UNCHANGED <<playlist, ui>>
  /\ UNCHANGED <<added, modes, offset, menu, posted, resume>> /\ Busy
Play ==
  /\ Idle /\ ~IsOpen /\ playlist.list # <<>> /\ Go("open")
  /\ UNCHANGED <<list, modes, offset, menu, sender, posted, resume>>
CloseFile ==
  /\ Idle /\ IsOpen /\ Go("close")
  /\ UNCHANGED <<list, modes, offset, menu, sender, posted, resume>>
Seek ==
  \E t \in limit.times :
    /\ Idle /\ alive /\ t <= file.dur /\ PostSeek(t)
    /\ UNCHANGED <<list, modes, ui, offset, menu, posted, resume>> /\ Busy
SetRepeat ==
  /\ Idle /\ \E m \in limit.repeats : all' = m[1] /\ single' = m[2]
  /\ UNCHANGED <<list, ui, offset, menu, sender, posted, resume>>

\* OpenWithPlayListPopup: while the menu is up messages are handled, but no
\* other menu comes up.  Its commands move or sort, clear, or erase; or a file is chosen.
ShowMenu ==
  /\ Idle /\ menu = <<>> /\ playlist.list # <<>>
  /\ menu' = playlist.list
  /\ UNCHANGED <<list, modes, ui, offset, sender, posted, resume>>
Rearrange ==
  /\ Idle /\ menu # <<>> /\ menu' = <<>>
  /\ \/ playlist' = MoveCurrentToPrev(playlist)
     \/ playlist' = MoveCurrentToNext(playlist)
     \/ \E mode \in {"asc", "desc", "shuffle"} :
          \E order \in SortOrders([i \in 1 .. Len(playlist.list) |-> playlist.list[i].path],
                                  mode) :
            playlist' = Sort(playlist, order)
  /\ UNCHANGED <<added, modes, ui, offset, sender, posted, resume>>
Clear ==
  /\ Idle /\ menu # <<>> /\ menu' = <<>>
  /\ playlist' = ClearWithoutCurrent(playlist)
  /\ UNCHANGED <<added, modes, ui, offset, sender, posted, resume>>
Choose ==
  /\ Idle /\ menu # <<>> /\ menu' = <<>>
  /\ \/ UNCHANGED <<playlist, ui>>
     \/ Go("erase") /\ UNCHANGED playlist
     \/ \E i \in 1 .. Len(menu) :
          /\ i <= Len(playlist.list)
          /\ playlist' = [playlist EXCEPT !.pos = i - 1]
          /\ Go("open")
  /\ UNCHANGED <<added, modes, offset, sender, posted, resume>>

\* WM_QUERY_CLOSE_NEXT and WM_QUERY_SEEK_BGN, whatever is open by now.
AtEnd ==
  /\ Idle /\ posted # "none" /\ posted' = "none"
  /\ IF posted = "next" THEN Go("next") /\ UNCHANGED <<asked, wish>>
     ELSE PostSeek(0) /\ UNCHANGED ui
  /\ UNCHANGED <<list, modes, offset, menu, resume>> /\ Busy

\* TIMER_ID_UPDATE_HASH_LIST
Timer ==
  /\ Idle /\ limit.update /\ IsOpen
  /\ Save(shown.pos, shown.dur, shown.fixed, shown.pos)
  /\ UNCHANGED <<list, modes, ui, offset, menu, sender, posted>>

\* Close when the thread has ended, and what follows it.  The position is the
\* sender's own.
Opens == ui = "open" \/ (ui = "next" /\ CanNext(playlist, all))
Finish ==
  /\ ui # "idle" /\ ~alive /\ ui' = "idle" /\ offset' = None
  /\ IF IsOpen THEN Save(at, file.dur, file.fixed, wish) ELSE UNCHANGED resume
  /\ playlist' = CASE ui = "next" -> NextOf(playlist, all)
                   [] ui = "erase" -> EraseCurrent(playlist)
                   [] OTHER -> playlist
  /\ \/ /\ Opens
        /\ \E dur \in Durations[Current(playlist').path] :
             LET path == Current(playlist').path
                 fixed == path \notin Growing
             IN  /\ file' = [entry |-> Current(playlist'), dur |-> dur, fixed |-> fixed]
                 /\ alive' = TRUE
                 /\ aim' = Goal(path, dur)
                 /\ at' \in IF aim' = 0 THEN {0} ELSE Lands(aim', dur)
                 /\ wish' = at'
                 /\ shown' = [pos |-> at', fixed |-> fixed, dur |-> dur]
     \/ \* There is nothing to open, or it cannot be opened.
        /\ file' = NotOpen /\ alive' = FALSE /\ at' = 0 /\ wish' = 0 /\ shown' = Stopped
        /\ aim' = 0
  /\ asked' = <<>>
  /\ UNCHANGED <<added, modes, menu, posted>>

\* TVTest ends without closing the file, and starts again.
Crash ==
  /\ playlist' = Empty /\ ui' = "idle" /\ offset' = None /\ menu' = <<>>
  /\ file' = NotOpen /\ alive' = FALSE /\ at' = 0 /\ asked' = <<>> /\ wish' = 0
  /\ shown' = Stopped /\ posted' = "none"
  /\ added' = 0
  /\ UNCHANGED <<modes, resume>>

-----------------------------------------------------------------------------
(* The sender thread                                                       *)

Elsewhere == UNCHANGED <<list, modes, ui, offset, menu, resume>>

SeekAsked ==
  /\ alive /\ asked # <<>> /\ at' \in Lands(asked[1], file.dur) /\ asked' = <<>>
  /\ wish' = at'
  /\ UNCHANGED <<file, alive, shown, posted>> /\ Elsewhere
Plays ==
  /\ alive /\ at' \in {t \in limit.times \cup {file.dur} : at < t /\ t <= file.dur}
  /\ wish' = IF asked = <<>> THEN at' ELSE wish
  /\ UNCHANGED <<file, alive, asked, shown, posted>> /\ Elsewhere
Ceases ==
  /\ alive /\ ~file.fixed /\ file' = [file EXCEPT !.fixed = TRUE]
  /\ UNCHANGED <<alive, at, asked, shown, posted, wish>> /\ Elsewhere
Tells ==
  /\ alive /\ limit.update /\ shown' = [pos |-> at, fixed |-> file.fixed, dur |-> file.dur]
  /\ UNCHANGED <<file, alive, at, asked, posted, wish>> /\ Elsewhere
Ends ==
  /\ alive /\ file.fixed /\ at = file.dur /\ posted = "none"
  /\ posted' = IF single THEN "begin" ELSE "next"
  /\ UNCHANGED sender /\ Elsewhere

\* Slip: WM_QUIT overtakes the seeks.
QuitsAtOnce == ui # "idle"

\* WM_QUIT comes after the seeks posted before it.
Quits == ui # "idle" /\ asked = <<>>

Quit ==
  /\ alive /\ Quits /\ alive' = FALSE
  /\ UNCHANGED <<file, at, asked, shown, posted, wish>> /\ Elsewhere

-----------------------------------------------------------------------------

Init ==
  /\ limit \in Limits
  /\ playlist = Empty /\ added = 0 /\ \E m \in limit.repeats : all = m[1] /\ single = m[2]
  /\ ui = "idle" /\ offset = None /\ menu = <<>>
  /\ file = NotOpen /\ alive = FALSE /\ at = 0 /\ asked = <<>> /\ wish = 0
  /\ shown = Stopped /\ aim = 0
  /\ posted = "none"
  /\ store \in limit.stores
  /\ left = [c \in Contents |-> ResumeOf(store, c)]
  /\ newer = [c \in Contents |->
                {g \in DOMAIN store : \A h \in Found(store, c) : store[g].key < store[h].key}]

Command ==
  \/ Add \/ AddMore \/ PrevFile \/ SeekEnd \/ Play \/ CloseFile \/ Seek \/ SetRepeat
  \/ ShowMenu \/ Rearrange \/ Clear \/ Choose
Next ==
  /\ \/ Finish
     \/ /\ Command \/ AtEnd \/ Timer \/ Crash
           \/ SeekAsked \/ Plays \/ Ceases \/ Tells \/ Ends \/ Quit
        /\ aim' = 0
  /\ UNCHANGED limit
Spec == Init /\ [][Next]_vars

-----------------------------------------------------------------------------

TypeOK ==
  /\ IsPlaylist(playlist) /\ added \in Nat
  /\ \A i \in 1 .. Len(playlist.list) :
       playlist.list[i] \in [path : Paths, id : 1 .. added]
  /\ ui \in {"idle", "open", "next", "close", "erase"}
  /\ all \in BOOLEAN /\ single \in BOOLEAN /\ alive \in BOOLEAN
  /\ posted \in {"none", "next", "begin"}
  /\ IsStore(store)

\* The entry at the current position is the file that is open whenever the UI
\* thread handles something: it moves on from there, erases it, names its path
\* (WM_TVTP_GET_PATH) and makes thumbnails of it.
OpenIsCurrent == Idle /\ IsOpen => playlist.list # <<>> /\ Current(playlist) = file.entry

\* The entries of t are some of those of s, each at most once; or all of them.
Selects(s, t) ==
  \E f \in [1 .. Len(t) -> 1 .. Len(s)] :
    /\ \A i, j \in 1 .. Len(t) : f[i] = f[j] => i = j
    /\ \A i \in 1 .. Len(t) : t[i] = s[f[i]]
Reorders(s, t) == Len(t) = Len(s) /\ Selects(s, t)

\* Only the n-th entry of s is not in t, and the others are in their order.
Lacks(s, t, n) ==
  /\ Len(t) = Len(s) - 1
  /\ \A i \in 1 .. Len(t) : t[i] = s[IF i < n THEN i ELSE i + 1]

\* However entries are moved and sorted from the menu, none is lost or doubled and the
\* current position keeps its entry; clearing leaves that entry alone; erasing takes it
\* alone, and the position goes to the next entry or, when there is none, the one before.
CursorKept ==
  [][/\ Rearrange =>
          Reorders(playlist.list, playlist'.list) /\ Current(playlist') = Current(playlist)
     /\ Clear => playlist'.list = <<Current(playlist)>> /\ playlist'.pos = 0
     /\ ui = "erase" /\ Finish =>
          /\ Lacks(playlist.list, playlist'.list, playlist.pos + 1)
          /\ playlist'.list # <<>> =>
               Current(playlist') = playlist.list[IF playlist.pos + 1 < Len(playlist.list)
                                                  THEN playlist.pos + 2 ELSE playlist.pos]]_vars

\* What is chosen from the menu is the entry that was shown there, whatever was
\* added and opened while it was up.
ChosenAsShown ==
  [][\A i \in 1 .. Len(menu) :
       menu' = <<>> /\ ui' = "open" /\ playlist'.pos = i - 1 => Current(playlist') = menu[i]]_vars

\* The ini file has the position each content was last left at, which is where
\* the last seek went though it was not carried out when the file was closed,
\* unless as many others as are kept came before it since or at first; and none for
\* what was left near its beginning or end (TvtPlay_Readme.txt: what was not used for
\* longest goes first).
Remembered ==
  \A c \in Contents :
    \/ ResumeOf(store, c) = left[c]
    \/ ResumeOf(store, c) = None /\ Cardinality(newer[c]) >= HashMax

\* A file that is opened is sought to 3 seconds before where it was last left, or past its
\* opening chapter, or not at all; then it begins at its beginning, else where it was sought
\* to unless that seek failed.
ResumesThere ==
  [][ui # "idle" /\ ui' = "idle" /\ alive' /\ offset = None =>
       LET c == Content[file'.entry.path]
       IN  Cardinality(newer'[c]) < HashMax =>
             /\ aim' = IF Margin < left'[c] /\ left'[c] < file'.dur - Margin
                       THEN left'[c] - GoBack ELSE Skip[file'.entry.path]
             /\ aim' = 0 => at' = 0]_vars
=============================================================================
