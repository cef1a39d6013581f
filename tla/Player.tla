-------------------------------- MODULE Player --------------------------------
(***************************************************************************)
(* Playback control of the plug-in (CTvtPlay): TVTest's user-interface     *)
(* thread, which opens and closes files and handles commands and window    *)
(* messages, and the sender thread of the open file (TsSenderThread),      *)
(* which repeats: take a message, or send data up to the next clock.       *)
(* They talk by the thread's message queue, by messages posted and sent to *)
(* the frame window, by m_hThreadEvent and by m_fHalt.  While the UI       *)
(* thread waits it handles no message, sent ones included.                 *)
(*                                                                         *)
(* A position counts the clocks of a file, 0 .. Len.  The playlist is      *)
(* 1 .. Files.  A chapter that the player watches sits at a position in    *)
(* Watched and leads to position Jump[c].                                  *)
(***************************************************************************)
EXTENDS Integers, Sequences

CONSTANTS
  Files,      \* entries of the playlist
  Len_,       \* clocks in a file
  Watched,    \* positions of chapters where playback jumps
  Jump,       \* where it jumps to
  W,          \* RESET_WAIT
  MaxOpen,    \* bound: files opened
  Begins,     \* bound: the options a behaviour may begin with, and how many commands
              \* the user gives in it
  MaxPost     \* bound: messages kept in the frame window's queue

Positions == 0 .. Len_

Options == [all : BOOLEAN, single : BOOLEAN, auto : BOOLEAN, jump : BOOLEAN]

ASSUME PlayerAssumption ==
  /\ Files \in Nat \ {0} /\ Len_ \in Nat /\ W \in Nat \ {0, 1}
  /\ Watched \subseteq Positions /\ Jump \in [Watched -> Positions]
  /\ Begins \subseteq [opt : Options, cmds : Nat]
  /\ MaxOpen \in Nat /\ MaxPost \in Nat

VARIABLES
  ui,       \* what the UI thread is doing: idle, or in one of its waits
  job,      \* what it does when that wait is over
  open,     \* m_hThread: a file is open and has a thread
  cur,      \* position of the playlist
  opt,      \* m_fAllRepeat, m_fSingleRepeat, m_fAutoClose, chapter jumps on
  timer,    \* TIMER_ID_WATCH_POS_GT is set
  uiq,      \* messages posted to the frame window
  sentq,    \* WM_SATISFIED_POS_GT notifications sent to the frame window
  thq,      \* messages posted to the sender thread
  event,    \* m_hThreadEvent is signalled (manual reset)
  halt,     \* m_fHalt
  at,       \* where the sender thread is; "none" when there is no thread
  msg,      \* the message it took
  ret,      \* where it goes on after WM_QUERY_RESET
  paused,   \* CTsSender::m_fPause
  pos,      \* where the next data come from
  grow,     \* how CTsSender sees the file: nobody writes it, it grows, or it ceased to
  resetCount,
  posWatch, \* the watched position, or -1
  infoPos,  \* m_infoPos
  moved,    \* history: a seek succeeded and no reset was requested since
  ready,    \* history: WM_TS_INIT_DONE of this file was handled
  gaps,     \* history: rounds since the last reset and since the one before it
  early,    \* history: TVTest was closed by the end of an earlier file
  opens,
  cmds      \* commands the user may still give

uiVars     == <<ui, job, open, cur, opt, timer, opens, cmds>>
queues     == <<uiq, sentq, thq>>
senderVars == <<at, msg, ret, paused, pos, grow, resetCount, posWatch, infoPos>>
playback   == <<paused, pos, grow>>
hist       == <<moved, ready, gaps, early>>
vars       == <<uiVars, queues, event, halt, senderVars, hist>>

\* A message; "old" marks one that a later close has overtaken.
Msg(m, arg) == [m |-> m, arg |-> arg, old |-> FALSE]
Overtaken(q) == [i \in DOMAIN q |-> [q[i] EXCEPT !.old = TRUE]]
Nothing == Msg("NONE", 0)

\* Rounds are counted up to W + 1.
LongAgo == [last |-> W + 1, prev |-> W + 1]
Longer(n) == IF n <= W THEN n + 1 ELSE n

Init ==
  /\ ui = "idle" /\ job = Nothing /\ open = FALSE /\ cur = 1
  /\ \E b \in Begins : opt = b.opt /\ cmds = b.cmds
  /\ timer = FALSE /\ uiq = <<>> /\ sentq = <<>> /\ thq = <<>>
  /\ event = FALSE /\ halt = FALSE
  /\ at = "none" /\ msg = Nothing /\ ret = "info"
  /\ paused = TRUE /\ pos = 0 /\ grow = "fixed"
  /\ resetCount = 0 /\ posWatch = -1 /\ infoPos = 0
  /\ moved = FALSE /\ ready = FALSE /\ gaps = LongAgo /\ early = FALSE
  /\ opens = 0

-----------------------------------------------------------------------------
(* The UI thread: pieces of its handlers *)

\* CPlaylist::Next and Prev on the current position.
HasNext == cur < Files \/ opt.all
NextPos == IF cur < Files THEN cur + 1 ELSE 1
HasPrev == cur > 1 \/ opt.all
PrevPos == IF cur > 1 THEN cur - 1 ELSE Files

\* Close, up to its wait for the thread; "next" is what the caller does then.
StartClose(next) ==
  /\ ui' = "joining" /\ job' = next
  /\ thq' = IF open THEN Append(thq, Msg("QUIT", 0)) ELSE thq

\* WaitAndPostToSender, up to its wait for the sender; nothing without a thread.
StartHalt(m) ==
  IF open THEN ui' = "halting" /\ job' = m /\ halt' = TRUE /\ event' = FALSE
          ELSE UNCHANGED <<ui, job, halt, event>>

\* BeginWatchingNextChapter(false) posts the nearest chapter after m_infoPos.
Ahead == {c \in Watched : c > infoPos}
WatchNext(on) ==
  IF open /\ on /\ Ahead # {}
    THEN \E c \in Ahead : /\ \A d \in Ahead : c <= d
                          /\ thq' = Append(thq, Msg("WATCH", c))
    ELSE thq' = thq

-----------------------------------------------------------------------------
(* The UI thread: waits *)

Joined == at = "none"

\* The rest of Close once the thread has ended.
CloseDone ==
  /\ ui = "joining" /\ Joined
  /\ ui' = "closed" /\ open' = FALSE
  /\ IF open
       THEN /\ timer' = FALSE /\ infoPos' = 0 /\ moved' = FALSE
            /\ uiq' = Overtaken(uiq)
       ELSE UNCHANGED <<timer, infoPos, moved, uiq>>
  /\ UNCHANGED <<job, cur, opt, opens, cmds, sentq, thq, event, halt, at, msg, ret,
                 playback, resetCount, posWatch, ready, gaps, early>>

\* A command or a plug-in that is switched off only closes.
JustClosed ==
  /\ ui = "closed" /\ job.m = "CLOSE"
  /\ ui' = "idle" /\ job' = Nothing
  /\ UNCHANGED <<open, cur, opt, timer, opens, cmds, queues, event, halt, senderVars, hist>>

\* WM_QUERY_CLOSE_NEXT after Close: the next file is opened, or TVTest is
\* closed, or the player stays closed.
AdvanceOrStop ==
  /\ ui = "closed" /\ job.m = "NEXT"
  /\ IF HasNext
       THEN cur' = NextPos /\ job' = Msg("OPEN", 0) /\ UNCHANGED <<ui, early>>
       ELSE /\ ui' = IF opt.auto THEN "exit" ELSE "idle"
            /\ early' = (early \/ (opt.auto /\ job.old))
            /\ job' = Nothing /\ cur' = cur
  /\ UNCHANGED <<open, opt, timer, opens, cmds, queues, event, halt, senderVars,
                 moved, ready, gaps>>

OpenFails ==
  /\ ui = "closed" /\ job.m = "OPEN"
  /\ ui' = "idle" /\ job' = Nothing
  /\ UNCHANGED <<open, cur, opt, timer, opens, cmds, queues, event, halt, senderVars, hist>>

\* Slip: the sender of a new file is not paused.
OpenPlaying == FALSE

\* CTsSender::Open leaves the sender paused.
OpenPaused == TRUE

\* Open up to its wait for the thread; playback starts at the beginning, at an
\* offset or where it was left.
OpenFile(p, g) ==
  /\ ui = "closed" /\ job.m = "OPEN" /\ opens < MaxOpen
  /\ opens' = opens + 1
  /\ ui' = "starting" /\ job' = Nothing /\ open' = TRUE
  /\ event' = FALSE /\ thq' = <<>>
  /\ at' = "peek" /\ msg' = Nothing /\ ret' = "info"
  /\ paused' = OpenPaused /\ pos' = p /\ grow' = g /\ infoPos' = p
  /\ resetCount' = -W /\ posWatch' = -1
  /\ moved' = FALSE /\ ready' = FALSE /\ gaps' = LongAgo
  /\ UNCHANGED <<cur, opt, timer, cmds, uiq, sentq, halt, early>>

\* The rest of Open: its last message is WM_TS_INIT_DONE.
Started ==
  /\ ui = "starting" /\ event
  /\ ui' = "idle" /\ timer' = (Watched # {})
  /\ thq' = Append(thq, Msg("INIT_DONE", 0))
  /\ UNCHANGED <<job, open, cur, opt, opens, cmds, uiq, sentq, event, halt, senderVars,
                 hist>>

\* The rest of WaitAndPostToSender, when the sender has answered or 1000 ms are
\* over, and of a seek, which then delays the watch.
HaltOver ==
  /\ ui = "halting"
  /\ ui' = "idle" /\ job' = Nothing /\ halt' = FALSE
  /\ thq' = Append(thq, job)
  /\ timer' = IF job.m = "SEEK" THEN Watched # {} ELSE timer
  /\ UNCHANGED <<open, cur, opt, opens, cmds, uiq, sentq, event, senderVars, hist>>

-----------------------------------------------------------------------------
(* The UI thread: messages of the frame window *)

\* WM_SATISFIED_POS_GT.
PosSatisfied ==
  /\ ui = "idle" /\ sentq # <<>>
  /\ sentq' = Tail(sentq)
  /\ IF open /\ opt.jump
       THEN StartHalt(Msg("SEEK", Jump[Head(sentq).arg])) /\ timer' = timer
       ELSE timer' = (open \/ timer) /\ UNCHANGED <<ui, job, halt, event>>
  /\ UNCHANGED <<open, cur, opt, opens, cmds, uiq, thq, senderVars, hist>>

\* WM_QUERY_CLOSE_NEXT and WM_QUERY_SEEK_BGN.
EndReported ==
  /\ ui = "idle" /\ sentq = <<>> /\ uiq # <<>>
  /\ uiq' = Tail(uiq)
  /\ \/ /\ Head(uiq).m = "CLOSE_NEXT"
        /\ StartClose([m |-> "NEXT", arg |-> 0, old |-> Head(uiq).old /\ open])
        /\ UNCHANGED <<event, halt>>
     \/ /\ Head(uiq).m = "SEEK_BGN"
        /\ StartHalt(Msg("SEEK", 0)) /\ thq' = thq
  /\ UNCHANGED <<open, cur, opt, timer, opens, cmds, sentq, senderVars, hist>>

TimerWatch ==
  /\ ui = "idle" /\ sentq = <<>> /\ uiq = <<>> /\ timer
  /\ timer' = FALSE /\ WatchNext(opt.jump)
  /\ UNCHANGED <<ui, job, open, cur, opt, opens, cmds, uiq, sentq, event, halt,
                 senderVars, hist>>

-----------------------------------------------------------------------------
(* The UI thread: commands of the user *)

Command == ui = "idle" /\ cmds > 0 /\ cmds' = cmds - 1

\* A file of the playlist is chosen, the open one included.
CmdOpen ==
  /\ Command
  /\ cur' \in 1 .. Files /\ StartClose(Msg("OPEN", 0))
  /\ UNCHANGED <<open, opt, timer, opens, uiq, sentq, event, halt, senderVars, hist>>

CmdClose ==
  /\ Command
  /\ StartClose(Msg("CLOSE", 0))
  /\ UNCHANGED <<open, cur, opt, timer, opens, uiq, sentq, event, halt, senderVars, hist>>

\* ID_COMMAND_SEEK_END and ID_COMMAND_PREV move in the playlist when they can.
CmdSkip ==
  /\ Command
  /\ \/ ~opt.single /\ Files >= 2 /\ HasNext /\ cur' = NextPos
     \/ HasPrev /\ cur' = PrevPos
  /\ StartClose(Msg("OPEN", 0))
  /\ UNCHANGED <<open, opt, timer, opens, uiq, sentq, event, halt, senderVars, hist>>

\* The seeks and the pause of an open file.  The pause goes by what the display
\* shows, which may be out of date.
CmdSend(m) ==
  /\ Command /\ open
  /\ StartHalt(m)
  /\ UNCHANGED <<open, cur, opt, timer, opens, queues, senderVars, hist>>

\* ID_COMMAND_LOOP.
CmdLoop ==
  /\ Command
  /\ opt' = [opt EXCEPT !.all = ~opt.single, !.single = opt.all /\ ~opt.single]
  /\ UNCHANGED <<ui, job, open, cur, timer, opens, queues, event, halt, senderVars, hist>>

\* ID_COMMAND_SKIP_X_CHAPTER and ID_COMMAND_REPEAT_CHAPTER watch at once.
CmdJumps ==
  /\ Command
  /\ opt' = [opt EXCEPT !.jump = ~opt.jump]
  /\ WatchNext(~opt.jump)
  /\ UNCHANGED <<ui, job, open, cur, timer, opens, uiq, sentq, event, halt, senderVars,
                 hist>>

-----------------------------------------------------------------------------
(* The sender thread *)

\* PeekMessage.
Peek ==
  /\ at = "peek" /\ at' = "signal"
  /\ IF thq = <<>>
       THEN msg' = Nothing /\ thq' = thq
       ELSE msg' = Head(thq) /\ thq' = Tail(thq)
  /\ UNCHANGED <<uiVars, uiq, sentq, event, halt, ret, playback, resetCount, posWatch,
                 infoPos, hist>>

SignalEvent ==
  /\ at = "signal" /\ at' = "act"
  /\ event' = TRUE
  /\ UNCHANGED <<uiVars, queues, halt, msg, ret, playback, resetCount, posWatch, infoPos,
                 hist>>

Quit ==
  /\ at = "act" /\ msg.m = "QUIT" /\ at' = "none"
  /\ UNCHANGED <<uiVars, queues, event, halt, msg, ret, playback, resetCount, posWatch,
                 infoPos, hist>>

\* Slip: a seek while the count runs leaves it alone.
AfterSeekKeep == IF resetCount = 0 THEN -W ELSE resetCount

AfterSeek == IF resetCount = 0 THEN -W ELSE W

\* The seeks; one that is broken off may leave another position.
Seek(ok) ==
  /\ at = "act" /\ msg.m = "SEEK" /\ at' = "info"
  /\ pos' \in {msg.arg} \union (IF ok THEN {} ELSE {pos})
  /\ posWatch' = -1
  /\ resetCount' = IF ok THEN AfterSeek ELSE resetCount
  /\ moved' = (moved \/ ok)
  /\ UNCHANGED <<uiVars, queues, event, halt, msg, ret, paused, grow, infoPos, ready,
                 gaps, early>>

\* WM_TS_PAUSE; when the filter graph does not take the command, the viewer is
\* reset: after a pause, before a resumption.
PauseMsg ==
  /\ at = "act" /\ msg.m = "PAUSE"
  /\ \/ paused' = (msg.arg = 1) /\ at' = "info" /\ ret' = ret
     \/ msg.arg = 1 /\ paused' = TRUE /\ at' = "reset" /\ ret' = "info"
     \/ msg.arg = 0 /\ paused' = paused /\ at' = "reset" /\ ret' = "resume"
  /\ UNCHANGED <<uiVars, queues, event, halt, msg, pos, grow, resetCount, posWatch,
                 infoPos, hist>>

Resume ==
  /\ at = "resume" /\ at' = "info" /\ paused' = FALSE
  /\ UNCHANGED <<uiVars, queues, event, halt, msg, ret, pos, grow, resetCount, posWatch,
                 infoPos, hist>>

WatchMsg ==
  /\ at = "act" /\ msg.m = "WATCH" /\ at' = "info"
  /\ posWatch' = msg.arg
  /\ UNCHANGED <<uiVars, queues, event, halt, msg, ret, playback, resetCount, infoPos,
                 hist>>

InitDone ==
  /\ at = "act" /\ msg.m = "INIT_DONE" /\ at' = "info"
  /\ paused' = FALSE /\ ready' = TRUE
  /\ UNCHANGED <<uiVars, queues, event, halt, msg, ret, pos, grow, resetCount, posWatch,
                 infoPos, moved, gaps, early>>

\* m_fHalt: sleep for 20 ms.
HaltNap ==
  /\ at = "act" /\ msg.m = "NONE" /\ halt /\ at' = "info"
  /\ UNCHANGED <<uiVars, queues, event, halt, msg, ret, playback, resetCount, posWatch,
                 infoPos, hist>>

ResetDue == resetCount \in {-W, 1}

\* No message and no halt: ask for a reset when one is due.
Pace ==
  /\ at = "act" /\ msg.m = "NONE" /\ ~halt
  /\ IF ResetDue
       THEN /\ at' = "reset" /\ ret' = "paced"
            /\ moved' = FALSE /\ gaps' = [last |-> 0, prev |-> gaps.last]
       ELSE at' = "paced" /\ UNCHANGED <<ret, moved, gaps>>
  /\ UNCHANGED <<uiVars, queues, event, halt, msg, playback, resetCount, posWatch, infoPos,
                 ready, early>>

\* Slip: WM_QUERY_RESET is sent without a timeout.
TimesOutNever == FALSE

\* SendMessageTimeout gives up after 1000 ms.
TimesOut == TRUE

\* WM_QUERY_RESET is answered by an idle UI thread, or not in time.
ResetOver ==
  /\ at = "reset" /\ (ui = "idle" \/ TimesOut)
  /\ at' = ret
  /\ UNCHANGED <<uiVars, queues, event, halt, msg, ret, playback, resetCount, posWatch,
                 infoPos, hist>>

\* Slip: a positive count stays.
TowardsZeroUp(n) == IF n < 0 THEN n + 1 ELSE n

TowardsZero(n) == IF n < 0 THEN n + 1 ELSE IF n > 0 THEN n - 1 ELSE 0

\* While the count runs down the thread sleeps and takes messages only.
Paced ==
  /\ at = "paced"
  /\ resetCount' = TowardsZero(resetCount)
  /\ at' = IF resetCount' > 0 THEN "peek" ELSE "send"
  /\ gaps' = [last |-> Longer(gaps.last), prev |-> Longer(gaps.prev)]
  /\ UNCHANGED <<uiVars, queues, event, halt, msg, ret, playback, posWatch, infoPos,
                 moved, ready, early>>

\* CTsSender::Send watches the size of a file that somebody may be writing; the
\* file may grow again after it seemed to have ceased to.
WatchGrowth == grow' \in IF grow = "fixed" THEN {"fixed"} ELSE {"growing", "ceased"}

\* Send: up to the next clock, paused, or at the end of the file.
SendData ==
  /\ at = "send" /\ ~paused /\ pos < Len_
  /\ WatchGrowth
  /\ pos' = pos + 1
  /\ \/ at' = "info" /\ ret' = ret
     \/ at' = "reset" /\ ret' = "info"        \* the rate control was reset
  /\ UNCHANGED <<uiVars, queues, event, halt, msg, paused, resetCount, posWatch, infoPos,
                 hist>>

SendPaused ==
  /\ at = "send" /\ paused /\ at' = "info"
  /\ WatchGrowth
  /\ UNCHANGED <<uiVars, queues, event, halt, msg, ret, paused, pos, resetCount, posWatch,
                 infoPos, hist>>

\* Slip: the end counts only when the file is found to have ceased to grow.
EndOfFileOnce == grow' = "ceased" /\ grow # "ceased"

\* The end of a file that is IsFixed.
EndOfFile == grow' # "growing"

SendEnd ==
  /\ at = "send" /\ ~paused /\ pos = Len_
  /\ WatchGrowth
  /\ at' = IF EndOfFile THEN "end" ELSE "info"
  /\ UNCHANGED <<uiVars, queues, event, halt, msg, ret, paused, pos, resetCount, posWatch,
                 infoPos, hist>>

\* The sleep of m_supposedDispDelay + 300 ms is over.
ReportEnd ==
  /\ at = "end" /\ at' = "info"
  /\ uiq' = IF Len(uiq) < MaxPost
              THEN Append(uiq, Msg(IF opt.single THEN "SEEK_BGN" ELSE "CLOSE_NEXT", 0))
              ELSE uiq
  /\ UNCHANGED <<uiVars, sentq, thq, event, halt, msg, ret, playback, resetCount, posWatch,
                 infoPos, hist>>

\* UpdateInfos, and the notification that the watched position is passed.
UpdateInfos ==
  /\ at = "info" /\ at' = "peek"
  /\ infoPos' = pos
  /\ IF posWatch >= 0 /\ pos > posWatch
       THEN /\ sentq' = Append(sentq, Msg("POS_GT", posWatch))
            /\ posWatch' = -1
       ELSE UNCHANGED <<sentq, posWatch>>
  /\ UNCHANGED <<uiVars, uiq, thq, event, halt, msg, ret, playback, resetCount, hist>>

-----------------------------------------------------------------------------
UIWaits == CloseDone \/ JustClosed \/ AdvanceOrStop \/ OpenFails \/ Started \/ HaltOver
             \/ \E p \in Positions, g \in {"fixed", "growing"} : p < Len_ /\ OpenFile(p, g)

UIMessages == PosSatisfied \/ EndReported \/ TimerWatch

UserCommands ==
  \/ CmdOpen \/ CmdClose \/ CmdSkip \/ CmdLoop \/ CmdJumps
  \/ \E t \in Positions : CmdSend(Msg("SEEK", t))
  \/ \E b \in {0, 1} : CmdSend(Msg("PAUSE", b))

SenderStep ==
  \/ Peek \/ SignalEvent \/ Quit \/ PauseMsg \/ Resume \/ WatchMsg \/ InitDone
  \/ HaltNap \/ Pace \/ ResetOver \/ Paced \/ SendData \/ SendPaused \/ ReportEnd
  \/ SendEnd \/ UpdateInfos
  \/ \E ok \in BOOLEAN : Seek(ok)

Next == UIWaits \/ UIMessages \/ UserCommands \/ SenderStep

Spec == Init /\ [][Next]_vars

\* Both threads are scheduled and the UI thread handles its messages; the user
\* owes nothing.
FairSpec == Spec /\ WF_vars(UIWaits) /\ WF_vars(UIMessages) /\ WF_vars(SenderStep)

-----------------------------------------------------------------------------
(* Properties *)

Messages == [m : {"NONE", "QUIT", "SEEK", "PAUSE", "WATCH", "INIT_DONE", "CLOSE_NEXT",
                  "SEEK_BGN", "POS_GT", "OPEN", "CLOSE", "NEXT"},
             arg : Nat, old : BOOLEAN]

\* Every variable has its type.
TypeOK ==
  /\ ui \in {"idle", "joining", "closed", "starting", "halting", "exit"}
  /\ job \in Messages /\ open \in BOOLEAN /\ cur \in 1 .. Files
  /\ opt \in Options
  /\ timer \in BOOLEAN /\ event \in BOOLEAN /\ halt \in BOOLEAN
  /\ uiq \in Seq(Messages) /\ sentq \in Seq(Messages) /\ thq \in Seq(Messages)
  /\ at \in {"none", "peek", "signal", "act", "reset", "resume", "paced", "send", "end",
             "info"}
  /\ msg \in Messages /\ ret \in {"info", "paced", "resume"}
  /\ paused \in BOOLEAN /\ pos \in Positions /\ grow \in {"fixed", "growing", "ceased"}
  /\ resetCount \in -W .. W /\ posWatch \in Positions \union {-1}
  /\ infoPos \in Positions
  /\ moved \in BOOLEAN /\ ready \in BOOLEAN /\ early \in BOOLEAN
  /\ gaps \in [last : 0 .. W + 1, prev : 0 .. W + 1]
  /\ opens \in Nat /\ cmds \in Nat

\* The viewer is asked to reset itself before it gets data from the place a
\* successful seek went to, however many seeks follow each other.
ResetBeforeData == at = "send" => ~moved

\* Resets for seeks do not come in numbers (the comment on resetCount): between a
\* reset and the one after the next the sender goes through more than RESET_WAIT
\* rounds.
ResetsSpaced == at = "act" /\ msg.m = "NONE" /\ ~halt /\ ResetDue => gaps.prev > W

\* What a reset is put off for must not let data through, and what lets none through
\* must not ask for one after the other.
ResetsRight == ResetBeforeData /\ ResetsSpaced

\* No data of a file flow before its destination, timestamps and chapters are
\* set up: the sender is paused until WM_TS_INIT_DONE.
NoDataBeforeInit == ~ready /\ at # "none" => paused

\* A thread and its queue belong to the open file: nothing the thread does can
\* concern a file that is closed.
SenderOfOpenFile == at # "none" => open

\* Close returns, although it waits without a timeout for a thread that may be
\* waiting for the UI thread.
CloseReturns == ui = "joining" ~> ui # "joining"

\* After a seek the reset is not put off for ever, or the thread ends.
ResetFollowsSeek == moved ~> ~moved

\* At the end of a file that does not grow the player does something about it.
EndMovesOn ==
  (ui = "idle" /\ open /\ grow # "growing" /\ ~paused /\ pos = Len_)
    ~> (ui # "idle" \/ grow = "growing" \/ paused \/ pos # Len_)

\* TVTest is closed when playback ends (AutoClose), not while a file plays.
AutoCloseAtEnd == ~early
=============================================================================
