------------------------------- MODULE PipeLink -------------------------------
(***************************************************************************)
(* The link between the sender of an open file (CTsSender, in the plug-in) *)
(* and the receiver (CBonDriverPipe, a tuner driver in the same process):  *)
(* a data pipe that the sender writes, and a control pipe on which it      *)
(* sends one request at a time and waits for the answer.  TVTest selects a *)
(* channel of the driver at any time, which breaks both pipes, and tells   *)
(* the sender afterwards.                                                  *)
(*                                                                         *)
(* PipeRing models the receiver's ring thread by thread; here it is the    *)
(* queue it was shown to be: buffers that GetTsStream can return (store),  *)
(* the one the read thread is about to publish (hand), and what the kernel *)
(* holds, the outstanding requests included (pipe).  A buffer is "new", or *)
(* "stale" when it is from before a seek whose PURGE was answered.         *)
(***************************************************************************)
EXTENDS Naturals, Sequences, SequencesExt

CONSTANTS
  Channels,   \* channels of the driver
  NoPipe,     \* m_pipeNumber when it is negative
  N,          \* ASYNCBUFFSIZE, buffers in the receiver's ring
  R,          \* REQRESERVNUM, requests it keeps outstanding
  PipeCap,    \* buffers the kernel holds beyond those
  High,       \* ready buffers from which GET_READY_STATE answers H or F
  Burst       \* bound: buffers written up to one clock

\* The ring has room for what the answer of GET_READY_STATE does not count: what
\* is on its way, and what is sent until the next one, an empty PAT included.
ASSUME LinkAssumption ==
  /\ NoPipe \notin Channels
  /\ R \in Nat \ {0} /\ PipeCap \in Nat /\ High \in Nat \ {0} /\ Burst \in Nat \ {0}
  /\ N \in Nat /\ High + R + Burst + 2 <= N

VARIABLES
  pause, purged,  \* m_fPause, m_fPurged
  num,      \* m_pipeNumber
  hPipe,    \* m_hPipe: none, up, or of a pipe that is broken
  hCtrl,    \* m_hCtrlPipe, likewise
  pat,      \* a reset is due, after which an empty PAT is sent
  at,       \* where the sender is
  plan,     \* requests it has still to make
  goal,     \* where it goes on after them
  ok,       \* the last request was answered
  full,     \* GET_READY_STATE answered H or F
  left,     \* buffers it has still to write
  what,     \* what they hold
  chan,     \* m_dwCurChannel, or NoPipe
  told,     \* the channel TVTest last told the sender
  dsrv, csrv,  \* the driver's ends of the pipes: none, listening or connected
  rpause,   \* CBonDriverPipe::m_fPause
  store, hand, pipe,
  purge,    \* m_hOnPurgeEvent is signalled
  rep,      \* an answer is in the control pipe
  kept,     \* history: what the receiver held when a pause without a purge began
  orphan,   \* history: the receiver was paused when a channel was selected
  late      \* history: stale buffers returned since the last seek

control  == <<pause, purged, num>>
handles  == <<hPipe, hCtrl>>
call     == <<at, plan, goal, ok, full>>
writing  == <<left, what>>
sender   == <<control, handles, pat, call, writing>>
channel  == <<chan, told, dsrv, csrv>>
ring     == <<store, hand, pipe, purge>>
hist     == <<kept, orphan, late>>
vars     == <<sender, channel, rpause, ring, rep, hist>>

Init ==
  /\ pause = FALSE /\ purged = FALSE /\ num = NoPipe
  /\ hPipe = "none" /\ hCtrl = "none" /\ pat = FALSE
  /\ at = "closed" /\ plan = <<>> /\ goal = "idle" /\ ok = FALSE /\ full = FALSE
  /\ left = 0 /\ what = "data"
  /\ chan = NoPipe /\ told = NoPipe /\ dsrv = "none" /\ csrv = "none"
  /\ rpause = FALSE /\ store = <<>> /\ hand = <<>> /\ pipe = <<>> /\ purge = FALSE
  /\ rep = "none"
  /\ kept = <<>> /\ orphan = FALSE /\ late = 0

Content == store \o hand \o pipe

-----------------------------------------------------------------------------
(* TransactMessage *)

\* Make the requests in order, then go on at g.
Ask(requests, g) ==
  /\ at' = IF requests = <<>> THEN g ELSE "call"
  /\ plan' = requests /\ goal' = IF requests = <<>> THEN "idle" ELSE g
  /\ ok' = FALSE /\ full' = FALSE

\* A request is over, and its result known.
Answered(result, isFull) ==
  /\ IF Len(plan) = 1 THEN at' = goal /\ goal' = "idle" ELSE at' = "call" /\ goal' = goal
  /\ plan' = Tail(plan) /\ ok' = result /\ full' = isFull

\* There is no control pipe.
Refused ==
  /\ at = "call" /\ (num = NoPipe \/ hCtrl = "none")
  /\ Answered(FALSE, FALSE)
  /\ UNCHANGED <<control, handles, pat, writing, channel, rpause, ring, rep, hist>>

Reply ==
  /\ at = "reply" /\ rep # "none"
  /\ rep' = "none" /\ Answered(TRUE, rep = "full")
  /\ UNCHANGED <<control, handles, pat, writing, channel, rpause, ring, hist>>

\* The pipe broke, before or after the receiver handled the request.
NoReply ==
  /\ at \in {"call", "reply"} /\ num # NoPipe /\ hCtrl = "broken"
  /\ hCtrl' = "none" /\ Answered(FALSE, FALSE)
  /\ UNCHANGED <<control, hPipe, pat, writing, channel, rpause, ring, rep, hist>>

-----------------------------------------------------------------------------
(* Pause, Seek, Close and the destination *)

\* Slip: a paused receiver is purged and stays paused.
ToPurgeOnly == IF pause /\ purged THEN <<>> ELSE <<"PURGE">>

\* The requests that leave the receiver empty and running.
ToPurge ==
  IF ~pause THEN <<"PURGE">> ELSE IF ~purged THEN <<"PAUSE 0", "PURGE">> ELSE <<>>

\* WM_TS_PAUSE: with TsTryGaplessPause the receiver is asked to pause.
PauseGapless ==
  /\ at = "idle" /\ ~pause
  /\ Ask(<<"PAUSE 1">>, "gapless")
  /\ UNCHANGED <<control, handles, pat, writing, channel, rpause, ring, rep, hist>>

\* If it has not answered it is purged.
GaplessDone ==
  /\ at = "gapless"
  /\ IF ok
       THEN /\ pause' = TRUE /\ purged' = FALSE
            /\ kept' = IF purge THEN <<>> ELSE Content
            /\ Ask(<<>>, "idle")
       ELSE Ask(<<"PURGE">>, "purged") /\ UNCHANGED <<pause, purged, kept>>
  /\ UNCHANGED <<num, handles, pat, writing, channel, rpause, ring, rep, orphan, late>>

\* Otherwise, or when the filter graph did not pause.
PausePurge ==
  /\ at = "idle" /\ ToPurge # <<>>
  /\ Ask(ToPurge, "purged") /\ kept' = <<>>
  /\ UNCHANGED <<control, handles, pat, writing, channel, rpause, ring, rep, orphan, late>>

PurgeDone ==
  /\ at = "purged"
  /\ pause' = TRUE /\ purged' = TRUE /\ Ask(<<>>, "idle")
  /\ UNCHANGED <<num, handles, pat, writing, channel, rpause, ring, rep, hist>>

Resume ==
  /\ at = "idle" /\ pause
  /\ Ask(IF purged THEN <<>> ELSE <<"PAUSE 0">>, "resumed") /\ kept' = <<>>
  /\ UNCHANGED <<control, handles, pat, writing, channel, rpause, ring, rep, orphan, late>>

ResumeDone ==
  /\ at = "resumed"
  /\ pause' = FALSE /\ Ask(<<>>, "idle")
  /\ UNCHANGED <<purged, num, handles, pat, writing, channel, rpause, ring, rep, hist>>

\* SeekToBegin, SeekToEnd and Seek.
Seek ==
  /\ at = "idle"
  /\ Ask(ToPurge, "seek") /\ kept' = <<>>
  /\ UNCHANGED <<control, handles, pat, writing, channel, rpause, ring, rep, orphan, late>>

\* The move in the file: a failed one leaves the position as it was.
SeekDone ==
  /\ at = "seek"
  /\ purged' = (purged \/ pause) /\ Ask(<<>>, "idle")
  /\ \/ UNCHANGED <<pat, store, hand, pipe, late>>
     \/ /\ pat' \in BOOLEAN
        /\ IF ok
             THEN LET Old(q) == [i \in DOMAIN q |-> "stale"]
                  IN  store' = Old(store) /\ hand' = Old(hand) /\ pipe' = Old(pipe)
             ELSE UNCHANGED <<store, hand, pipe>>
        /\ late' = IF ok THEN 0 ELSE late
  /\ UNCHANGED <<pause, num, handles, writing, channel, rpause, purge, rep, kept, orphan>>

\* WM_TS_SET_PIPE or WM_TS_SET_UDP, whichever suits the driver.
SetDestination ==
  /\ at = "idle" /\ num # told
  /\ num' = told /\ hPipe' = "none" /\ hCtrl' = "none"
  /\ UNCHANGED <<pause, purged, pat, call, writing, channel, rpause, ring, rep, hist>>

\* Slip: a file that is paused is closed without a word to the receiver.
ToCloseNothing == <<>>

ToClose == IF pause THEN ToPurge ELSE <<>>

\* Once the sender's thread has ended.
Close ==
  /\ at = "idle"
  /\ Ask(ToClose, "close") /\ kept' = <<>>
  /\ UNCHANGED <<control, handles, pat, writing, channel, rpause, ring, rep, orphan, late>>

CloseDone ==
  /\ at = "close"
  /\ hPipe' = "none" /\ hCtrl' = "none" /\ num' = NoPipe
  /\ purged' = (purged \/ pause) /\ pat' = FALSE /\ Ask(<<>>, "closed")
  /\ UNCHANGED <<pause, writing, channel, rpause, ring, rep, hist>>

\* A file is opened paused; its own seeks find no pipe to purge.
Open ==
  /\ at = "closed"
  /\ pause' = TRUE /\ purged' = TRUE /\ Ask(<<>>, "idle")
  /\ UNCHANGED <<num, handles, pat, writing, channel, rpause, ring, rep, hist>>

-----------------------------------------------------------------------------
(* Send and SendData *)

MaySend == num # NoPipe /\ ~pause

Send ==
  /\ at = "idle" /\ MaySend
  /\ Ask(<<"GET_READY_STATE">>, "send")
  /\ UNCHANGED <<control, handles, pat, writing, channel, rpause, ring, rep, hist>>

\* The receiver holds much: nothing is sent now.
HeldBack == full

SendReady ==
  /\ at = "send"
  /\ IF HeldBack
       THEN Ask(<<>>, "idle") /\ UNCHANGED writing
       ELSE \E k \in 1 .. Burst : Ask(<<>>, "write") /\ left' = k /\ what' = "data"
  /\ UNCHANGED <<control, handles, pat, channel, rpause, ring, rep, hist>>

\* After WM_QUERY_RESET, in a paused sender too.
SendEmptyPat ==
  /\ at = "idle" /\ pat /\ num # NoPipe
  /\ pat' = FALSE /\ Ask(<<>>, "write") /\ left' = 1 /\ what' = "PAT"
  /\ UNCHANGED <<control, handles, channel, rpause, ring, rep, hist>>

\* OpenPipe; without the data pipe the buffer is dropped.
OpenPipe ==
  /\ at = "write" /\ left > 0 /\ hPipe = "none"
  /\ IF chan = num /\ dsrv = "listen"
       THEN /\ hPipe' = "up" /\ dsrv' = "open" /\ left' = left
            /\ IF csrv = "listen"
                 THEN hCtrl' = "up" /\ csrv' = "open"
                 ELSE hCtrl' = "none" /\ csrv' = csrv
       ELSE left' = left - 1 /\ hCtrl' = "none" /\ UNCHANGED <<hPipe, dsrv, csrv>>
  /\ UNCHANGED <<control, pat, call, what, chan, told, rpause, ring, rep, hist>>

\* Requests the read thread has outstanding, as far as the ring has room.
Outstanding ==
  LET room == N - 1 - Len(store) - Len(hand)
  IN  IF room < R THEN room ELSE R

\* WriteFile waits until the kernel has taken the buffer.
Write ==
  /\ at = "write" /\ left > 0 /\ hPipe = "up" /\ Len(pipe) < Outstanding + PipeCap
  /\ pipe' = Append(pipe, "new") /\ left' = left - 1
  /\ UNCHANGED <<control, handles, pat, call, what, channel, rpause, store, hand, purge,
                 rep, hist>>

WriteFails ==
  /\ at = "write" /\ left > 0 /\ hPipe = "broken"
  /\ hPipe' = "none" /\ hCtrl' = "none" /\ left' = left - 1
  /\ UNCHANGED <<control, pat, call, what, channel, rpause, ring, rep, hist>>

\* The end of Send; the receiver is purged when the rate got out of control.
WriteDone ==
  /\ at = "write" /\ left = 0
  /\ \/ Ask(<<>>, "idle")
     \/ what = "data" /\ Ask(<<"PURGE">>, "idle")
  /\ what' = "data"
  /\ UNCHANGED <<control, handles, pat, left, channel, rpause, ring, rep, hist>>

-----------------------------------------------------------------------------
(* The receiver *)

\* ResetChannel, which leaves m_fPause alone: the threads end, the pipes break
\* and the ring is emptied.
ResetChannel ==
  /\ hPipe' = IF hPipe = "up" THEN "broken" ELSE hPipe
  /\ hCtrl' = IF hCtrl = "up" THEN "broken" ELSE hCtrl
  /\ store' = <<>> /\ hand' = <<>> /\ pipe' = <<>> /\ purge' = FALSE
  /\ rep' = "none"
  /\ kept' = <<>> /\ orphan' = (orphan \/ rpause)
  /\ csrv' = "none"

\* SetChannel, up to the data pipe.
SetChannel(c) ==
  /\ dsrv = "none" \/ csrv # "none"
  /\ ResetChannel /\ chan' = c /\ dsrv' = "listen"
  /\ UNCHANGED <<control, pat, call, writing, told, rpause, late>>

\* The rest of it; then TVTest tells the sender.
SetChannelEnd ==
  /\ dsrv # "none" /\ csrv = "none"
  /\ csrv' = "listen" /\ told' = chan
  /\ UNCHANGED <<sender, chan, dsrv, rpause, ring, rep, hist>>

\* TVTest changes to another driver: this one is released.
Release ==
  /\ dsrv # "none" /\ csrv # "none"
  /\ ResetChannel /\ chan' = NoPipe /\ told' = NoPipe /\ dsrv' = "none"
  /\ rpause' = FALSE
  /\ UNCHANGED <<control, pat, call, writing, late>>

\* The request arrives and is handled (ProcessPipeMessage).
PipeMessage ==
  LET req == Head(plan)
  IN
  /\ at = "call" /\ num # NoPipe /\ hCtrl = "up"
  /\ at' = "reply"
  /\ \/ /\ req = "PURGE"
        /\ store' = <<>> /\ purge' = TRUE /\ rep' = "yes"
        /\ UNCHANGED <<rpause, orphan>>
     \/ /\ req \in {"PAUSE 0", "PAUSE 1"}
        /\ rpause' = (req = "PAUSE 1") /\ orphan' = FALSE /\ rep' = "yes"
        /\ UNCHANGED <<store, purge>>
     \/ /\ req = "GET_READY_STATE"
        /\ rep' = IF Len(store) >= High THEN "full" ELSE "yes"
        /\ UNCHANGED <<store, purge, rpause, orphan>>
  /\ UNCHANGED <<control, handles, pat, plan, goal, ok, full, writing, channel, hand, pipe,
                 kept, late>>

\* The control thread notices that the client has gone.
CtrlDisconnect ==
  /\ csrv = "open" /\ hCtrl # "up"
  /\ csrv' = "listen" /\ rep' = "none"
  /\ UNCHANGED <<sender, chan, told, dsrv, rpause, ring, hist>>

\* The read thread has all its requests outstanding; if not it sleeps.
Reading == dsrv = "open" /\ hand = <<>> /\ Outstanding = R

ReceiveOne ==
  /\ Reading /\ ~purge /\ pipe # <<>>
  /\ hand' = <<Head(pipe)>> /\ pipe' = Tail(pipe)
  /\ UNCHANGED <<sender, channel, rpause, store, purge, rep, hist>>

\* A purge may have been requested meanwhile.
Publish ==
  /\ hand # <<>>
  /\ store' = store \o hand /\ hand' = <<>>
  /\ UNCHANGED <<sender, channel, rpause, pipe, purge, rep, hist>>

\* Slip: what the outstanding requests have read is kept.
CancelNone(q) == q

\* CancelIo: results of outstanding requests are dropped.
Cancel(q) == SubSeq(q, R + 1, Len(q))

Purging ==
  /\ Reading /\ purge
  /\ purge' = FALSE /\ store' = <<>> /\ pipe' = Cancel(pipe)
  /\ UNCHANGED <<sender, channel, rpause, hand, rep, hist>>

\* The client has gone and its data are read: the outstanding requests become
\* 0-byte buffers.
DataDisconnect ==
  /\ Reading /\ pipe = <<>> /\ hPipe # "up"
  /\ dsrv' = "listen" /\ store' = store \o [i \in 1 .. R |-> "new"]
  /\ UNCHANGED <<sender, chan, told, csrv, rpause, hand, pipe, purge, rep, hist>>

\* Slip: a paused receiver returns buffers.
MayTakeAlways == store # <<>>

MayTake == store # <<>> /\ ~rpause

GetTsStream ==
  /\ MayTake
  /\ store' = Tail(store)
  /\ late' = IF Head(store) = "stale" THEN late + 1 ELSE late
  /\ UNCHANGED <<sender, channel, rpause, hand, pipe, purge, rep, kept, orphan>>

-----------------------------------------------------------------------------

\* Steps the sender's thread takes of itself once it handles a command.
SenderStep ==
  \/ Refused \/ Reply \/ NoReply
  \/ GaplessDone \/ PurgeDone \/ ResumeDone \/ SeekDone \/ CloseDone
  \/ SendReady \/ OpenPipe \/ Write \/ WriteFails \/ WriteDone

Command ==
  PauseGapless \/ PausePurge \/ Resume \/ Seek \/ SetDestination \/ Close \/ Open

ReadThread == ReceiveOne \/ Publish \/ Purging \/ DataDisconnect

Next ==
  \/ SenderStep \/ Command \/ Send \/ SendEmptyPat
  \/ (\E c \in Channels : SetChannel(c)) \/ SetChannelEnd \/ Release
  \/ PipeMessage \/ CtrlDisconnect \/ ReadThread \/ GetTsStream

Spec == Init /\ [][Next]_vars

\* Windows schedules the threads, and TVTest polls GetTsStream and completes a
\* channel selection it has begun.
FairSpec ==
  /\ Spec
  /\ WF_vars(SenderStep) /\ WF_vars(PipeMessage) /\ WF_vars(CtrlDisconnect)
  /\ WF_vars(ReadThread) /\ WF_vars(GetTsStream) /\ WF_vars(SetChannelEnd)

-----------------------------------------------------------------------------
(* Properties *)

Handles  == {"none", "up", "broken"}
Requests ==
  {<<"PAUSE 0">>, <<"PAUSE 1">>, <<"PURGE">>, <<"PAUSE 0", "PURGE">>, <<"GET_READY_STATE">>}
Buffers  == {"new", "stale"}

SenderTypes ==
  /\ num \in Channels \union {NoPipe} /\ hPipe \in Handles /\ hCtrl \in Handles
  /\ at \in {"idle", "call", "reply", "gapless", "purged", "resumed", "seek",
             "close", "closed", "send", "write"}
  /\ plan \in Requests \union {<<>>}
  /\ left \in 0 .. Burst /\ what \in {"data", "PAT"}
DriverTypes ==
  /\ chan \in Channels \union {NoPipe} /\ told \in Channels \union {NoPipe}
  /\ dsrv \in {"none", "listen", "open"} /\ csrv \in {"none", "listen", "open"}
  /\ rep \in {"none", "yes", "full"}
FlagTypes ==
  /\ pause \in BOOLEAN /\ purged \in BOOLEAN /\ ok \in BOOLEAN /\ full \in BOOLEAN
  /\ pat \in BOOLEAN /\ rpause \in BOOLEAN /\ purge \in BOOLEAN /\ orphan \in BOOLEAN
RingTypes ==
  /\ store \in Seq(Buffers) /\ hand \in Seq(Buffers) /\ pipe \in Seq(Buffers)
  /\ Len(store) + Len(hand) <= N - 1 /\ Len(hand) <= 1 /\ Len(pipe) <= R + PipeCap
  /\ late \in Nat

\* Every variable keeps its type; the ring never holds more than it has room
\* for, and the kernel no more than the outstanding requests and its buffer.
TypeOK == SenderTypes /\ DriverTypes /\ FlagTypes /\ RingTypes

\* Once the PURGE of a seek was answered, at most one buffer from before the
\* seek, the one the read thread is publishing, and what the kernel holds
\* beyond the outstanding requests still reach the application, however slow
\* the read thread is (BonDriver_Pipe.cpp:444).
CleanSeek == late <= 1 + PipeCap

\* A pause that was asked of the receiver loses nothing: whatever it held when
\* it answered it still holds, in order, until playback goes on, a seek or a
\* channel selection ends it (TsSender.cpp:800, BonDriver_Pipe.cpp:132).
GaplessKeeps == IsPrefix(kept, Content)

\* Between requests the receiver is paused exactly when the sender believes
\* so, unless a channel was selected while it was paused (TsSender.cpp:779).
PauseAgrees == at = "idle" /\ ~orphan => (rpause <=> pause /\ ~purged)

\* The sender's thread always gets back to its messages, on which the endless
\* wait of CTvtPlay::Close depends, although WriteFile and TransactNamedPipe
\* have no timeout; unless it writes to a receiver that a channel selection
\* left paused, or its empty PAT to one that is paused and full
\* (TsSender.cpp:1310).
SenderReturns ==
  []<>(at \in {"idle", "closed"}) \/ <>[](at = "write" /\ rpause /\ (orphan \/ what = "PAT"))

\* A receiver with which the sender can talk does not stay paused when the
\* sender has resumed: "frames are not skipped when playback resumes"
\* (TvtPlay_Readme.txt:257).
NoStuckPause == at = "idle" /\ ~pause /\ hCtrl = "up" => ~rpause
=============================================================================
