----------------------------- MODULE PlayerProofs -----------------------------
(***************************************************************************)
(* Proofs about Player for every playlist, length of file, chapter map and *)
(* RESET_WAIT.  Resets for seeks are proved from an invariant of the       *)
(* sender thread alone (ResetInv), the order of WM_TS_INIT_DONE from one   *)
(* that follows the message through the thread's queue (InitInv).          *)
(***************************************************************************)
EXTENDS Player, TLAPS

LEMMA WaitIsPositive == W \in Nat /\ W >= 2
  BY PlayerAssumption

LEMMA CountRange == 0 \in -W .. W /\ -W \in -W .. W
  BY WaitIsPositive

LEMMA LongAgoType == LongAgo \in [last : 0 .. W + 1, prev : 0 .. W + 1]
  BY WaitIsPositive DEF LongAgo

LEMMA LongAgoParts == LongAgo.last = W + 1 /\ LongAgo.prev = W + 1
  BY DEF LongAgo

-----------------------------------------------------------------------------
(* Resets for seeks *)

ResetType ==
  /\ at \in {"none", "peek", "signal", "act", "reset", "resume", "paced", "send", "end",
             "info"}
  /\ ret \in {"info", "paced", "resume"}
  /\ moved \in BOOLEAN
  /\ resetCount \in -W .. W
  /\ gaps \in [last : 0 .. W + 1, prev : 0 .. W + 1]

\* A reset was requested in the round that is under way.
Requested == (at = "reset" /\ ret = "paced") \/ (at = "paced" /\ ResetDue)

\* A seek whose reset is still to come keeps the count where it brings it about.
MovedPending ==
  moved => /\ at # "send" /\ ~Requested
           /\ resetCount = -W \/ resetCount > 0

\* What the count says of the rounds since the last two resets.
Spacing ==
  IF Requested
    THEN /\ ResetDue /\ gaps.last = 0 /\ gaps.prev >= 1
         /\ resetCount = 1 => gaps.prev >= W
    ELSE /\ gaps.last >= 1 /\ (gaps.prev > gaps.last \/ gaps.prev = W + 1)
         /\ -W < resetCount /\ resetCount < 0 => gaps.last = W + resetCount
         /\ resetCount \in {-W, 0} => gaps.prev > W
         /\ resetCount > 0 => gaps.last >= W - resetCount + 1

ResetInv == ResetType /\ MovedPending /\ Spacing

senderReset == <<at, ret, moved, resetCount, gaps>>

LEMMA ResetInvInit == Init => ResetInv
<1> SUFFICES ASSUME Init PROVE ResetInv
  OBVIOUS
<1>1. /\ at = "none" /\ ret = "info" /\ moved = FALSE /\ resetCount = 0
      /\ gaps = LongAgo
  BY DEF Init
<1>2. ResetType
  BY <1>1, CountRange, LongAgoType, Zenon DEF ResetType
<1>3. gaps.last = W + 1 /\ gaps.prev = W + 1 /\ ~Requested
  BY <1>1, LongAgoParts DEF Requested
<1>4. Spacing
  BY <1>1, <1>3, WaitIsPositive DEF Spacing
<1> QED
  BY <1>1, <1>2, <1>4 DEF ResetInv, MovedPending

\* Whatever leaves the reset state of the sender alone keeps its invariant.
LEMMA ResetInvFrame == ResetInv /\ UNCHANGED senderReset => ResetInv'
  BY DEF ResetInv, ResetType, MovedPending, Spacing, Requested, ResetDue, senderReset

\* Moves of the sender thread between places where no reset is under way.
LEMMA ResetInvMove ==
  ASSUME ResetInv, UNCHANGED <<resetCount, gaps>>, moved' = moved \/ moved' = FALSE,
         ~Requested, at \notin {"paced"},
         at' \in {"none", "peek", "signal", "act", "resume", "end", "info"},
         ret' \in {"info", "paced", "resume"}
  PROVE  ResetInv'
<1>1. ~Requested'
  BY DEF Requested
<1>2. ResetType'
  BY DEF ResetInv, ResetType
<1>3. MovedPending'
  BY <1>1 DEF ResetInv, MovedPending
<1>4. Spacing'
  BY <1>1 DEF ResetInv, Spacing
<1> QED
  BY <1>2, <1>3, <1>4 DEF ResetInv

LEMMA ResetInvStep == ResetInv /\ [Next]_vars => ResetInv'
<1> SUFFICES ASSUME ResetInv, [Next]_vars PROVE ResetInv'
  OBVIOUS
<1> USE WaitIsPositive
<1>1. CASE UNCHANGED vars
  BY <1>1, ResetInvFrame DEF vars, senderVars, hist, senderReset
<1>2. CASE UIMessages
  BY <1>2, ResetInvFrame
     DEF UIMessages, PosSatisfied, EndReported, TimerWatch, senderVars, hist, senderReset
<1>3. CASE UserCommands
  BY <1>3, ResetInvFrame
     DEF UserCommands, CmdOpen, CmdClose, CmdSkip, CmdSend, CmdLoop, CmdJumps, senderVars,
         hist, senderReset
<1>4. CASE CloseDone
  <2>1. UNCHANGED <<at, ret, resetCount, gaps>> /\ (moved' = moved \/ moved' = FALSE)
    BY <1>4 DEF CloseDone
  <2>2. Requested' <=> Requested
    BY <2>1 DEF Requested, ResetDue
  <2>3. Spacing' /\ MovedPending'
    BY <2>1, <2>2 DEF ResetInv, Spacing, MovedPending, ResetDue
  <2>4. ResetType'
    BY <2>1 DEF ResetInv, ResetType
  <2> QED
    BY <2>3, <2>4 DEF ResetInv
<1>5. CASE JustClosed \/ AdvanceOrStop \/ OpenFails \/ Started \/ HaltOver
  BY <1>5, ResetInvFrame
     DEF JustClosed, AdvanceOrStop, OpenFails, Started, HaltOver, senderVars, hist, senderReset
<1>6. ASSUME NEW p \in Positions, NEW g \in {"fixed", "growing"}, OpenFile(p, g)
      PROVE  ResetInv'
  <2>1. /\ at' = "peek" /\ ret' = "info" /\ moved' = FALSE /\ resetCount' = -W
        /\ gaps' = LongAgo
    BY <1>6 DEF OpenFile
  <2>2. ResetType'
    BY <2>1, CountRange, LongAgoType, Zenon DEF ResetType
  <2>3. gaps'.last = W + 1 /\ gaps'.prev = W + 1 /\ ~Requested'
    BY <2>1, LongAgoParts DEF Requested
  <2>4. Spacing'
    BY <2>1, <2>3, WaitIsPositive DEF Spacing
  <2> QED
    BY <2>1, <2>2, <2>4 DEF ResetInv, MovedPending
<1>7. CASE Peek \/ SignalEvent \/ Quit \/ Resume \/ WatchMsg \/ InitDone \/ HaltNap
  <2>1. /\ UNCHANGED <<ret, moved, resetCount, gaps>> /\ ~Requested /\ at # "paced"
        /\ at' \in {"none", "peek", "signal", "act", "resume", "end", "info"}
    BY <1>7 DEF Peek, SignalEvent, Quit, Resume, WatchMsg, InitDone, HaltNap, Requested, hist
  <2> QED
    BY <2>1, ResetInvMove DEF ResetInv, ResetType
<1>8. CASE PauseMsg
  BY <1>8 DEF PauseMsg, hist, ResetInv, ResetType, MovedPending, Spacing, Requested, ResetDue
<1>9. ASSUME NEW ok \in BOOLEAN, Seek(ok) PROVE ResetInv'
  <2>1. /\ at = "act" /\ at' = "info" /\ UNCHANGED <<ret, gaps>>
        /\ resetCount' = (IF ok THEN AfterSeek ELSE resetCount) /\ moved' = (moved \/ ok)
    BY <1>9 DEF Seek
  <2>2. CASE ok
    BY <2>1, <2>2
       DEF AfterSeek, ResetInv, ResetType, MovedPending, Spacing, Requested, ResetDue
  <2>3. CASE ~ok
    BY <2>1, <2>3 DEF ResetInv, ResetType, MovedPending, Spacing, Requested, ResetDue
  <2> QED BY <2>2, <2>3
<1>10. CASE Pace
  <2>1. /\ at = "act" /\ UNCHANGED resetCount
    BY <1>10 DEF Pace
  <2>2. CASE ResetDue
    <3>1. at' = "reset" /\ ret' = "paced" /\ moved' = FALSE /\ gaps' = [last |-> 0, prev |-> gaps.last]
      BY <1>10, <2>2 DEF Pace
    <3>2. gaps'.last = 0 /\ gaps'.prev = gaps.last
      BY <3>1
    <3>3. ~Requested /\ Requested' /\ ResetDue'
      BY <2>1, <2>2, <3>1 DEF Requested, ResetDue
    <3>4. gaps'.prev >= 1 /\ (resetCount' = 1 => gaps'.prev >= W)
      BY <2>1, <3>2, <3>3 DEF ResetInv, ResetType, Spacing
    <3>5. ResetType'
      <4>1. gaps.last \in 0 .. W + 1 /\ resetCount \in -W .. W
        BY DEF ResetInv, ResetType
      <4>2. gaps' \in [last : 0 .. W + 1, prev : 0 .. W + 1]
        BY <3>1, <4>1
      <4> QED
        BY <2>1, <3>1, <4>1, <4>2 DEF ResetType
    <3> QED
      BY <3>1, <3>2, <3>3, <3>4, <3>5 DEF ResetInv, MovedPending, Spacing
  <2>3. CASE ~ResetDue
    <3>1. at' = "paced" /\ UNCHANGED <<ret, moved, gaps>>
      BY <1>10, <2>3 DEF Pace
    <3> QED
      BY <2>1, <2>3, <3>1
         DEF ResetInv, ResetType, MovedPending, Spacing, Requested, ResetDue
  <2> QED BY <2>2, <2>3
<1>11. CASE ResetOver
  BY <1>11 DEF ResetOver, hist, ResetInv, ResetType, MovedPending, Spacing, Requested, ResetDue
<1>12. CASE Paced
  <2>1. /\ at = "paced" /\ resetCount' = TowardsZero(resetCount)
        /\ at' = (IF resetCount' > 0 THEN "peek" ELSE "send")
        /\ UNCHANGED <<ret, moved>>
    BY <1>12 DEF Paced
  <2>2. gaps' = [last |-> Longer(gaps.last), prev |-> Longer(gaps.prev)]
    BY <1>12 DEF Paced
  <2>3. CASE ResetDue
    BY <2>1, <2>2, <2>3
       DEF TowardsZero, Longer, ResetInv, ResetType, MovedPending, Spacing, Requested, ResetDue
  <2>4. CASE ~ResetDue
    BY <2>1, <2>2, <2>4
       DEF TowardsZero, Longer, ResetInv, ResetType, MovedPending, Spacing, Requested, ResetDue
  <2> QED BY <2>3, <2>4
<1>13. CASE SendData
  BY <1>13 DEF SendData, hist, ResetInv, ResetType, MovedPending, Spacing, Requested, ResetDue
<1>14. CASE SendPaused \/ ReportEnd \/ UpdateInfos
  <2>1. /\ UNCHANGED <<ret, moved, resetCount, gaps>> /\ ~Requested /\ at # "paced"
        /\ at' \in {"none", "peek", "signal", "act", "resume", "end", "info"}
    BY <1>14 DEF SendPaused, ReportEnd, UpdateInfos, Requested, hist
  <2> QED
    BY <2>1, ResetInvMove DEF ResetInv, ResetType
<1>15. CASE SendEnd
  <2>1. /\ UNCHANGED <<ret, moved, resetCount, gaps>> /\ ~Requested /\ at # "paced"
        /\ at' \in {"none", "peek", "signal", "act", "resume", "end", "info"}
    BY <1>15 DEF SendEnd, Requested, hist
  <2> QED
    BY <2>1, ResetInvMove DEF ResetInv, ResetType
<1> QED
  BY <1>1, <1>2, <1>3, <1>4, <1>5, <1>6, <1>7, <1>8, <1>9, <1>10, <1>11, <1>12, <1>13,
     <1>14, <1>15
     DEF Next, UIWaits, SenderStep

LEMMA ResetInvHolds == Spec => []ResetInv
  BY ResetInvInit, ResetInvStep, PTL DEF Spec

\* The viewer is asked to reset before data flow from where a seek went.
THEOREM SeekResetsFirst == Spec => []ResetBeforeData
<1>1. ResetInv => ResetBeforeData
  BY DEF ResetInv, MovedPending, ResetBeforeData
<1> QED BY <1>1, ResetInvHolds, PTL

\* However the seeks come, three resets for them span more than RESET_WAIT rounds.
THEOREM SeekResetsSpaced == Spec => []ResetsSpaced
<1>1. ResetInv => ResetsSpaced
  BY PlayerAssumption
     DEF ResetInv, ResetType, Spacing, Requested, ResetsSpaced, ResetDue
<1> QED BY <1>1, ResetInvHolds, PTL

\* The resets for seeks come neither too late nor too often.
THEOREM ResetsAreRight == Spec => []ResetsRight
<1>1. ResetBeforeData /\ ResetsSpaced => ResetsRight
  BY DEF ResetsRight
<1> QED BY <1>1, SeekResetsFirst, SeekResetsSpaced, PTL

-----------------------------------------------------------------------------
(* Types *)

Seeks   == [m : {"SEEK"}, arg : Positions, old : BOOLEAN]
Watches == [m : {"WATCH"}, arg : Watched, old : BOOLEAN]
Plain   == [m : {"NONE", "QUIT", "PAUSE", "INIT_DONE", "OPEN", "CLOSE", "NEXT"},
            arg : Nat, old : BOOLEAN]
Orders  == Seeks \union Watches \union Plain
Passed  == [m : {"POS_GT"}, arg : Watched, old : BOOLEAN]
Ends    == [m : {"CLOSE_NEXT", "SEEK_BGN"}, arg : Nat, old : BOOLEAN]

UIType ==
  /\ ui \in {"idle", "joining", "closed", "starting", "halting", "exit"}
  /\ job \in Orders /\ open \in BOOLEAN /\ cur \in 1 .. Files
  /\ opt \in Options
  /\ timer \in BOOLEAN /\ opens \in Nat /\ cmds \in Nat

QueueType == uiq \in Seq(Ends) /\ sentq \in Seq(Passed) /\ thq \in Seq(Orders)

FlagType == event \in BOOLEAN /\ halt \in BOOLEAN

PlaceType == msg \in Orders /\ posWatch \in Watched \union {-1}
             /\ pos \in Positions /\ infoPos \in Positions

PlayType == paused \in BOOLEAN /\ grow \in {"fixed", "growing", "ceased"}

HistType == ready \in BOOLEAN /\ early \in BOOLEAN

\* What each message carries is part of its type: a seek a position, a watch a
\* chapter that has a place to jump to.
TypeInv == UIType /\ QueueType /\ FlagType /\ PlaceType /\ PlayType /\ HistType

LEMMA PositionsAre == /\ Positions \subseteq Nat /\ 0 \in Positions
                      /\ Watched \subseteq Nat
                      /\ \A p \in Positions : p < Len_ => p + 1 \in Positions
  BY PlayerAssumption DEF Positions

LEMMA MsgFields == \A m, a : /\ Msg(m, a).m = m /\ Msg(m, a).arg = a
                             /\ Msg(m, a).old = FALSE
  BY DEF Msg

LEMMA MsgTypes ==
  /\ Nothing \in Orders /\ Nothing \in Plain
  /\ \A p \in Positions : Msg("SEEK", p) \in Orders
  /\ \A c \in Watched : Msg("WATCH", c) \in Orders
  /\ \A m \in {"NONE", "QUIT", "PAUSE", "INIT_DONE", "OPEN", "CLOSE", "NEXT"} :
       \A n \in {0, 1} : Msg(m, n) \in Orders
  BY DEF Orders, Seeks, Watches, Plain, Msg, Nothing

LEMMA OldTypes == \A r \in Ends : [r EXCEPT !.old = TRUE] \in Ends
  BY DEF Ends

\* Marking a queue keeps its type.
LEMMA OvertakenType ==
  ASSUME NEW q \in Seq(Ends)
  PROVE  Overtaken(q) \in Seq(Ends)
<1>1. DOMAIN q = 1 .. Len(q) /\ Len(q) \in Nat
  OBVIOUS
<1>2. \A i \in DOMAIN q : [q[i] EXCEPT !.old = TRUE] \in Ends
  BY OldTypes
<1> QED
  BY <1>1, <1>2 DEF Overtaken

LEMMA TypeFrame ==
  /\ UIType /\ UNCHANGED <<ui, job, open, cur, opt, timer, opens, cmds>> => UIType'
  /\ QueueType /\ UNCHANGED <<uiq, sentq, thq>> => QueueType'
  /\ FlagType /\ UNCHANGED <<event, halt>> => FlagType'
  /\ PlaceType /\ UNCHANGED <<msg, posWatch, pos, infoPos>> => PlaceType'
  /\ PlayType /\ UNCHANGED <<paused, grow>> => PlayType'
  /\ HistType /\ UNCHANGED <<ready, early>> => HistType'
  BY DEF UIType, QueueType, FlagType, PlaceType, PlayType, HistType

LEMMA TypeInvInit == Init => TypeInv
<1> SUFFICES ASSUME Init PROVE TypeInv
  OBVIOUS
<1> USE DEF Init
<1>1. UIType
  <2>1. cur \in 1 .. Files
    BY PlayerAssumption
  <2>2. opt \in Options /\ cmds \in Nat
    BY PlayerAssumption
  <2> QED
    BY <2>1, <2>2, MsgTypes DEF UIType
<1>2. QueueType
  BY DEF QueueType
<1>3. FlagType /\ PlayType /\ HistType
  BY DEF FlagType, PlayType, HistType
<1>4. PlaceType
  BY MsgTypes, PositionsAre DEF PlaceType
<1> QED
  BY <1>1, <1>2, <1>3, <1>4 DEF TypeInv

LEMMA WatchType == \A on : QueueType /\ WatchNext(on) => thq' \in Seq(Orders)
  BY MsgTypes, SMTT(30) DEF WatchNext, Ahead, QueueType

LEMMA TypeInvUI == TypeInv /\ (UIWaits \/ UIMessages \/ UserCommands) => TypeInv'
<1> SUFFICES ASSUME TypeInv, UIWaits \/ UIMessages \/ UserCommands PROVE TypeInv'
  OBVIOUS
<1> USE PositionsAre, MsgTypes DEF TypeInv, uiVars, queues, senderVars, playback, hist
<1>1. CASE CloseDone
  <2>1. UIType'
    BY <1>1 DEF CloseDone, UIType
  <2>4. FlagType' /\ PlayType' /\ HistType'
    BY <1>1, TypeFrame DEF CloseDone
  <2>2. QueueType'
    <3>1. CASE open
      BY <1>1, <3>1, OvertakenType DEF CloseDone, QueueType
    <3>2. CASE ~open
      BY <1>1, <3>2 DEF CloseDone, QueueType
    <3> QED BY <3>1, <3>2
  <2>3. PlaceType'
    BY <1>1 DEF CloseDone, PlaceType
  <2> QED BY <2>1, <2>2, <2>3, <2>4
<1>2. CASE JustClosed \/ OpenFails
  BY <1>2 DEF JustClosed, OpenFails, UIType, QueueType, FlagType, PlaceType, PlayType, HistType
<1>3. CASE AdvanceOrStop
  <2>1. UIType'
    BY <1>3, PlayerAssumption DEF AdvanceOrStop, NextPos, UIType
  <2>2. HistType'
    BY <1>3 DEF AdvanceOrStop, HistType, UIType
  <2>3. QueueType' /\ FlagType' /\ PlaceType' /\ PlayType'
    BY <1>3 DEF AdvanceOrStop, QueueType, FlagType, PlaceType, PlayType
  <2> QED BY <2>1, <2>2, <2>3
<1>4. CASE Started
  BY <1>4 DEF Started, UIType, QueueType, FlagType, PlaceType, PlayType, HistType
<1>5. CASE HaltOver
  <2>1. UIType'
    BY <1>5 DEF HaltOver, UIType
  <2>2. QueueType'
    BY <1>5 DEF HaltOver, QueueType, UIType
  <2>3. FlagType' /\ PlaceType' /\ PlayType' /\ HistType'
    BY <1>5, TypeFrame DEF HaltOver, FlagType
  <2> QED BY <2>1, <2>2, <2>3
<1>6. ASSUME NEW p \in Positions, NEW g \in {"fixed", "growing"}, OpenFile(p, g)
      PROVE  TypeInv'
  <2>1. UIType' /\ QueueType' /\ PlaceType'
    BY <1>6 DEF OpenFile, UIType, QueueType, PlaceType
  <2>2. FlagType' /\ PlayType' /\ HistType'
    BY <1>6 DEF OpenFile, OpenPaused, FlagType, PlayType, HistType
  <2> QED BY <2>1, <2>2
<1>7. CASE PosSatisfied
  <2>1. Head(sentq) \in Passed /\ Tail(sentq) \in Seq(Passed)
    BY <1>7 DEF PosSatisfied, QueueType
  <2>2. Jump[Head(sentq).arg] \in Positions
    BY <2>1, PlayerAssumption DEF Passed
  <2>3. UIType' /\ FlagType'
    BY <1>7, <2>2 DEF PosSatisfied, StartHalt, UIType, FlagType
  <2>4. QueueType'
    BY <1>7, <2>1 DEF PosSatisfied, QueueType
  <2> QED
    BY <1>7, <2>3, <2>4, TypeFrame DEF PosSatisfied
<1>8. CASE EndReported
  <2>1. Head(uiq) \in Ends /\ Tail(uiq) \in Seq(Ends)
    BY <1>8 DEF EndReported, QueueType
  <2>2. [m |-> "NEXT", arg |-> 0, old |-> Head(uiq).old /\ open] \in Orders
    BY <2>1 DEF Ends, Orders, Plain, UIType
  <2>3. UIType' /\ FlagType'
    BY <1>8, <2>2 DEF EndReported, StartClose, StartHalt, UIType, FlagType
  <2>4. QueueType'
    BY <1>8, <2>1 DEF EndReported, StartClose, QueueType
  <2>5. PlaceType' /\ PlayType' /\ HistType'
    BY <1>8 DEF EndReported, PlaceType, PlayType, HistType
  <2> QED BY <2>3, <2>4, <2>5
<1>9. CASE TimerWatch
  <2>1. UIType'
    BY <1>9 DEF TimerWatch, UIType
  <2>2. QueueType'
    BY <1>9, WatchType DEF TimerWatch, QueueType
  <2> QED
    BY <1>9, <2>1, <2>2, TypeFrame DEF TimerWatch
<1>10. CASE CmdOpen \/ CmdClose
  <2>1. UIType'
    BY <1>10 DEF CmdOpen, CmdClose, Command, StartClose, UIType
  <2>2. QueueType'
    <3>1. Msg("QUIT", 0) \in Orders
      OBVIOUS
    <3>2. uiq' = uiq /\ sentq' = sentq
      BY <1>10 DEF CmdOpen, CmdClose
    <3>3. thq' = thq \/ thq' = Append(thq, Msg("QUIT", 0))
      BY <1>10 DEF CmdOpen, CmdClose, StartClose
    <3> QED
      BY <3>1, <3>2, <3>3, SMTT(30) DEF QueueType
  <2> QED
    BY <1>10, <2>1, <2>2, TypeFrame DEF CmdOpen, CmdClose
<1>11. CASE CmdSkip
  <2>1. cur' \in 1 .. Files
    BY <1>11, PlayerAssumption DEF CmdSkip, NextPos, PrevPos, UIType
  <2>2. UIType'
    BY <1>11, <2>1 DEF CmdSkip, Command, StartClose, UIType
  <2>3. QueueType'
    BY <1>11 DEF CmdSkip, StartClose, QueueType
  <2> QED
    BY <1>11, <2>2, <2>3, TypeFrame DEF CmdSkip
<1>12. ASSUME NEW m \in Orders, CmdSend(m) PROVE TypeInv'
  <2>1. UIType'
    BY <1>12 DEF CmdSend, Command, StartHalt, UIType
  <2>2. FlagType'
    BY <1>12, Zenon DEF CmdSend, StartHalt, FlagType
  <2> QED
    BY <1>12, <2>1, <2>2, TypeFrame DEF CmdSend
<1>13. CASE CmdLoop
  <2>1. opt' \in Options
    BY <1>13, Zenon DEF CmdLoop, UIType, Options
  <2>2. UIType'
    BY <1>13, <2>1 DEF CmdLoop, Command, UIType
  <2> QED
    BY <1>13, <2>2, TypeFrame DEF CmdLoop
<1>14. CASE CmdJumps
  <2>1. opt' \in Options
    BY <1>14 DEF CmdJumps, UIType, Options
  <2>2. UIType'
    BY <1>14, <2>1 DEF CmdJumps, Command, UIType
  <2>3. QueueType'
    BY <1>14, WatchType DEF CmdJumps, QueueType
  <2> QED
    BY <1>14, <2>2, <2>3, TypeFrame DEF CmdJumps
<1> QED
  BY <1>1, <1>2, <1>3, <1>4, <1>5, <1>6, <1>7, <1>8, <1>9, <1>10, <1>11, <1>12, <1>13,
     <1>14
     DEF UIWaits, UIMessages, UserCommands

LEMMA TypeInvSender == TypeInv /\ SenderStep => TypeInv'
<1> SUFFICES ASSUME TypeInv, SenderStep PROVE TypeInv'
  OBVIOUS
<1> USE PositionsAre, MsgTypes DEF TypeInv, uiVars, queues, senderVars, playback, hist
<1>1. CASE Peek
  <2>1. UIType' /\ FlagType' /\ PlayType'
    BY <1>1, TypeFrame DEF Peek
  <2>2. HistType'
    BY <1>1, TypeFrame DEF Peek
  <2>3. msg' \in Orders /\ thq' \in Seq(Orders)
    <3>1. CASE thq = <<>>
      BY <1>1, <3>1 DEF Peek, QueueType
    <3>2. CASE thq # <<>>
      <4>1. thq \in Seq(Orders)
        BY DEF QueueType
      <4>2. Head(thq) \in Orders /\ Tail(thq) \in Seq(Orders)
        BY <3>2, <4>1
      <4> QED BY <1>1, <3>2, <4>2 DEF Peek
    <3> QED BY <3>1, <3>2
  <2>4. QueueType'
    BY <1>1, <2>3 DEF Peek, QueueType
  <2>5. PlaceType'
    BY <1>1, <2>3 DEF Peek, PlaceType
  <2> QED BY <2>1, <2>2, <2>4, <2>5
<1>2. CASE SignalEvent \/ Quit \/ HaltNap \/ Pace \/ ResetOver \/ Paced \/ SendPaused
  <2>1. FlagType'
    BY <1>2, TypeFrame
       DEF SignalEvent, Quit, HaltNap, Pace, ResetOver, Paced, SendPaused, FlagType
  <2>2. UIType' /\ QueueType'
    BY <1>2, TypeFrame DEF SignalEvent, Quit, HaltNap, Pace, ResetOver, Paced, SendPaused
  <2>3. PlaceType' /\ HistType'
    BY <1>2, TypeFrame DEF SignalEvent, Quit, HaltNap, Pace, ResetOver, Paced, SendPaused
  <2>4. PlayType'
    BY <1>2, TypeFrame
       DEF SignalEvent, Quit, HaltNap, Pace, ResetOver, Paced, SendPaused, WatchGrowth, PlayType
  <2> QED BY <2>1, <2>2, <2>3, <2>4
<1>3. CASE PauseMsg \/ Resume \/ InitDone
  <2>1. UIType' /\ QueueType' /\ FlagType' /\ PlaceType'
    BY <1>3, SMTT(30) DEF PauseMsg, Resume, InitDone, UIType, QueueType, FlagType, PlaceType
  <2>2. PlayType' /\ HistType'
    BY <1>3 DEF PauseMsg, Resume, InitDone, PlayType, HistType
  <2> QED BY <2>1, <2>2
<1>4. CASE WatchMsg
  <2>1. msg.arg \in Watched
    BY <1>4 DEF WatchMsg, PlaceType, Orders, Seeks, Watches, Plain
  <2>2. PlaceType'
    BY <1>4, <2>1 DEF WatchMsg, PlaceType
  <2> QED
    BY <1>4, <2>2, TypeFrame DEF WatchMsg
<1>5. ASSUME NEW ok \in BOOLEAN, Seek(ok) PROVE TypeInv'
  <2>1. msg.arg \in Positions
    BY <1>5 DEF Seek, PlaceType, Orders, Seeks, Watches, Plain
  <2>2. UIType' /\ QueueType' /\ FlagType' /\ PlayType' /\ HistType'
    BY <1>5 DEF Seek, UIType, QueueType, FlagType, PlayType, HistType
  <2>3. PlaceType'
    BY <1>5, <2>1 DEF Seek, PlaceType
  <2> QED BY <2>2, <2>3
<1>6. CASE SendData
  <2>1. pos' \in Positions
    BY <1>6 DEF SendData, PlaceType
  <2>2. PlaceType'
    BY <1>6, <2>1 DEF SendData, PlaceType
  <2>3. PlayType'
    BY <1>6 DEF SendData, WatchGrowth, PlayType
  <2> QED
    BY <1>6, <2>1, <2>2, <2>3, TypeFrame DEF SendData
<1>7. CASE SendEnd
  <2>1. PlayType'
    BY <1>7 DEF SendEnd, WatchGrowth, PlayType
  <2> QED
    BY <1>7, <2>1, TypeFrame DEF SendEnd
<1>8. CASE ReportEnd
  <2>1. Msg("SEEK_BGN", 0) \in Ends /\ Msg("CLOSE_NEXT", 0) \in Ends
    BY DEF Msg, Ends
  <2>2. QueueType'
    BY <1>8, <2>1 DEF ReportEnd, QueueType
  <2> QED
    BY <1>8, <2>2 DEF ReportEnd, UIType, FlagType, PlaceType, PlayType, HistType
<1>9. CASE UpdateInfos
  <2>1. posWatch >= 0 => Msg("POS_GT", posWatch) \in Passed
    BY DEF Passed, PlaceType, Msg
  <2>2. QueueType'
    BY <1>9, <2>1, SMTT(30) DEF UpdateInfos, QueueType
  <2>3. PlaceType'
    BY <1>9 DEF UpdateInfos, PlaceType
  <2> QED
    BY <1>9, <2>2, <2>3, TypeFrame DEF UpdateInfos
<1> QED
  BY <1>1, <1>2, <1>3, <1>4, <1>5, <1>6, <1>7, <1>8, <1>9 DEF SenderStep

LEMMA TypeInvStep == TypeInv /\ [Next]_vars => TypeInv'
<1>1. TypeInv /\ UNCHANGED vars => TypeInv'
  BY DEF TypeInv, UIType, QueueType, FlagType, PlaceType, PlayType, HistType, vars, uiVars,
         queues, senderVars, playback, hist
<1> QED
  BY <1>1, TypeInvUI, TypeInvSender DEF Next

LEMMA TypeInvHolds == Spec => []TypeInv
  BY TypeInvInit, TypeInvStep, PTL DEF Spec

\* Every variable keeps its type: a seek's position lies in the file, and the
\* player jumps only from chapters that have a place to jump to.
THEOREM TypeCorrect == Spec => []TypeOK
<1>1. Orders \subseteq Messages /\ Passed \subseteq Messages /\ Ends \subseteq Messages
  BY PositionsAre DEF Orders, Seeks, Watches, Plain, Passed, Ends, Messages
<1>2. Watched \subseteq Positions
  BY PlayerAssumption
<1>3. TypeInv /\ ResetInv => TypeOK
  <2> SUFFICES ASSUME TypeInv, ResetInv PROVE TypeOK
    OBVIOUS
  <2>1. /\ ui \in {"idle", "joining", "closed", "starting", "halting", "exit"}
        /\ job \in Messages /\ open \in BOOLEAN /\ cur \in 1 .. Files
        /\ opt \in Options
        /\ timer \in BOOLEAN /\ opens \in Nat /\ cmds \in Nat
    BY <1>1 DEF TypeInv, UIType
  <2>2. uiq \in Seq(Messages) /\ sentq \in Seq(Messages) /\ thq \in Seq(Messages)
    BY <1>1 DEF TypeInv, QueueType
  <2>3. /\ event \in BOOLEAN /\ halt \in BOOLEAN /\ paused \in BOOLEAN
        /\ grow \in {"fixed", "growing", "ceased"}
    BY DEF TypeInv, FlagType, PlayType
  <2>4. /\ msg \in Messages /\ posWatch \in Positions \union {-1}
        /\ pos \in Positions /\ infoPos \in Positions
    BY <1>1, <1>2 DEF TypeInv, PlaceType
  <2>5. ready \in BOOLEAN /\ early \in BOOLEAN
    BY DEF TypeInv, HistType
  <2>6. /\ at \in {"none", "peek", "signal", "act", "reset", "resume", "paced", "send",
                   "end", "info"}
        /\ ret \in {"info", "paced", "resume"} /\ moved \in BOOLEAN
        /\ resetCount \in -W .. W /\ gaps \in [last : 0 .. W + 1, prev : 0 .. W + 1]
    BY Zenon DEF ResetInv, ResetType
  <2> QED
    BY <2>1, <2>2, <2>3, <2>4, <2>5, <2>6, Zenon DEF TypeOK
<1> QED
  BY <1>3, TypeInvHolds, ResetInvHolds, PTL

-----------------------------------------------------------------------------
(* The first message of a file *)

\* While a file is being started nobody sends its thread anything, and the
\* thread is done with every message before it sends data: what it has not yet
\* handled begins with WM_TS_INIT_DONE.
FirstMessage ==
  IF ui = "starting"
    THEN thq = <<>> /\ msg.m = "NONE"
    ELSE \/ msg.m = "NONE" /\ thq # <<>> /\ Head(thq).m = "INIT_DONE"
         \/ msg.m = "INIT_DONE" /\ at \in {"signal", "act"}

NotReady == ~ready /\ at # "none"

InitInv ==
  /\ at # "none" => open /\ ui \notin {"closed", "exit"}
  /\ NotReady => /\ paused /\ at # "resume" /\ (at = "reset" => ret # "resume")
                 /\ FirstMessage

\* A message appended while none is being started comes after the first.
LEMMA FirstKept ==
  ASSUME TypeInv, InitInv, NEW m, UNCHANGED <<ready, paused, at, ret>>,
         ui # "starting", ui' \notin {"starting", "closed", "exit"}, open' = open,
         msg' = msg,
         thq' \in {thq, Append(thq, m)}
  PROVE  InitInv'
<1>1. at # "none" => open' /\ ui' \notin {"closed", "exit"}
  BY DEF InitInv
<1>2. ASSUME NotReady PROVE FirstMessage'
  <2>1. thq \in Seq(Orders) /\ FirstMessage
    BY <1>2 DEF TypeInv, QueueType, InitInv
  <2>2. CASE msg.m = "NONE" /\ thq # <<>> /\ Head(thq).m = "INIT_DONE"
    <3>1. thq' # <<>> /\ Head(thq').m = "INIT_DONE"
      BY <2>1, <2>2
    <3> QED
      BY <2>2, <3>1 DEF FirstMessage
  <2>3. CASE msg.m = "INIT_DONE" /\ at \in {"signal", "act"}
    BY <2>3 DEF FirstMessage
  <2> QED
    BY <2>1, <2>2, <2>3 DEF FirstMessage
<1> QED
  BY <1>1, <1>2 DEF InitInv, NotReady

LEMMA InitInvInit == Init => InitInv
  BY DEF Init, InitInv, NotReady

LEMMA InitInvStep == TypeInv /\ ResetInv /\ InitInv /\ [Next]_vars => InitInv'
<1> SUFFICES ASSUME TypeInv, ResetInv, InitInv, [Next]_vars PROVE InitInv'
  OBVIOUS
<1>1. CASE UNCHANGED vars
  BY <1>1 DEF vars, uiVars, queues, senderVars, playback, hist, InitInv, NotReady, FirstMessage
<1>2. CASE CloseDone \/ JustClosed \/ AdvanceOrStop \/ OpenFails
  <2>1. at = "none"
    BY <1>2 DEF CloseDone, JustClosed, AdvanceOrStop, OpenFails, Joined, InitInv
  <2>2. at' = at
    BY <1>2 DEF CloseDone, JustClosed, AdvanceOrStop, OpenFails, senderVars
  <2> QED
    BY <2>1, <2>2 DEF InitInv, NotReady
<1>3. CASE Started
  <2>1. /\ ui = "starting" /\ ui' = "idle" /\ thq' = Append(thq, Msg("INIT_DONE", 0))
        /\ UNCHANGED <<open, at, msg, ret, paused, ready>>
    BY <1>3 DEF Started, senderVars, playback, hist
  <2>2. Append(<<>>, Msg("INIT_DONE", 0)) # <<>>
        /\ Head(Append(<<>>, Msg("INIT_DONE", 0))) = Msg("INIT_DONE", 0)
    OBVIOUS
  <2> QED
    BY <2>1, <2>2, MsgFields DEF InitInv, NotReady, FirstMessage
<1>4. CASE HaltOver
  <2>1. /\ ui # "starting" /\ ui' = "idle" /\ open' = open
        /\ UNCHANGED <<ready, paused, at, ret, msg>>
        /\ thq' = Append(thq, job)
    BY <1>4 DEF HaltOver, senderVars, playback, hist
  <2> QED
    BY <2>1, FirstKept
<1>5. ASSUME NEW p \in Positions, NEW g \in {"fixed", "growing"}, OpenFile(p, g)
      PROVE  InitInv'
  BY <1>5, MsgFields DEF OpenFile, OpenPaused, Nothing, InitInv, NotReady, FirstMessage
<1>6. CASE UIMessages \/ UserCommands
  <2>1. ui = "idle" /\ ui' \in {"idle", "joining", "halting"} /\ open' = open
    BY <1>6
       DEF UIMessages, PosSatisfied, EndReported, TimerWatch, UserCommands, CmdOpen, CmdClose,
           CmdSkip, CmdSend, CmdLoop, CmdJumps, Command, StartClose, StartHalt
  <2>2. UNCHANGED <<ready, paused, at, ret, msg>>
    BY <1>6
       DEF UIMessages, PosSatisfied, EndReported, TimerWatch, UserCommands, CmdOpen, CmdClose,
           CmdSkip, CmdSend, CmdLoop, CmdJumps, senderVars, playback, hist
  <2>3. \E m : thq' \in {thq, Append(thq, m)}
    BY <1>6
       DEF UIMessages, PosSatisfied, EndReported, TimerWatch, UserCommands, CmdOpen, CmdClose,
           CmdSkip, CmdSend, CmdLoop, CmdJumps, StartClose, WatchNext, queues
  <2> QED
    BY <2>1, <2>2, <2>3, FirstKept
<1>7. CASE Peek
  <2>1. /\ at = "peek" /\ at' = "signal" /\ UNCHANGED <<ui, open, ret, paused, ready>>
        /\ IF thq = <<>> THEN msg' = Nothing /\ thq' = thq
                         ELSE msg' = Head(thq) /\ thq' = Tail(thq)
    BY <1>7 DEF Peek, uiVars, playback, hist
  <2> QED
    BY <2>1, MsgFields DEF InitInv, NotReady, FirstMessage, Nothing
<1>8. CASE SignalEvent
  BY <1>8
     DEF SignalEvent, uiVars, queues, playback, hist, InitInv, NotReady, FirstMessage
<1>9. CASE Quit \/ InitDone
  BY <1>9 DEF Quit, InitDone, uiVars, InitInv, NotReady
<1>10. CASE PauseMsg \/ WatchMsg \/ \E ok \in BOOLEAN : Seek(ok)
  <2>1. at = "act" /\ msg.m \in {"PAUSE", "WATCH", "SEEK"}
    BY <1>10 DEF PauseMsg, WatchMsg, Seek
  <2>2. /\ ready /\ ready' = ready /\ at' # "none"
        /\ UNCHANGED <<ui, open>>
    BY <1>10, <2>1
       DEF PauseMsg, WatchMsg, Seek, uiVars, hist, InitInv, NotReady, FirstMessage
  <2> QED
    BY <2>1, <2>2 DEF InitInv, NotReady
<1>11. CASE Resume \/ SendData \/ SendEnd
  <2>1. at # "none" /\ (at = "resume" \/ ~paused) /\ ready' = ready /\ UNCHANGED <<ui, open>>
    BY <1>11 DEF Resume, SendData, SendEnd, uiVars, hist
  <2> QED
    BY <2>1 DEF InitInv, NotReady
<1>12. CASE HaltNap \/ Pace \/ ResetOver \/ Paced \/ SendPaused
  <2>1. /\ UNCHANGED <<ui, open, thq, msg, paused, ready>>
        /\ at \notin {"none", "signal"} /\ (at = "act" => msg.m # "INIT_DONE")
    BY <1>12
       DEF HaltNap, Pace, ResetOver, Paced, SendPaused, uiVars, queues, playback, hist
  <2>2. /\ at' = "resume" => at = "reset" /\ ret = "resume"
        /\ at' = "reset" => ret' = "paced"
    BY <1>12 DEF ResetInv, ResetType, HaltNap, Pace, ResetOver, Paced, SendPaused
  <2> QED
    BY <2>1, <2>2 DEF InitInv, NotReady, FirstMessage
<1>13. CASE ReportEnd \/ UpdateInfos
  BY <1>13
     DEF ReportEnd, UpdateInfos, uiVars, playback, hist, InitInv, NotReady, FirstMessage
<1> QED
  BY <1>1, <1>2, <1>3, <1>4, <1>5, <1>6, <1>7, <1>8, <1>9, <1>10, <1>11, <1>12, <1>13
     DEF Next, UIWaits, SenderStep

LEMMA InitInvHolds == Spec => []InitInv
  BY InitInvInit, InitInvStep, TypeInvHolds, ResetInvHolds, PTL DEF Spec

\* No data of a file flow before its WM_TS_INIT_DONE is handled.
THEOREM PausedUntilInit == Spec => []NoDataBeforeInit
<1>1. InitInv => NoDataBeforeInit
  BY DEF InitInv, NotReady, NoDataBeforeInit
<1> QED BY <1>1, InitInvHolds, PTL

\* A sender thread runs only while its file is open.
THEOREM SenderHasFile == Spec => []SenderOfOpenFile
<1>1. InitInv => SenderOfOpenFile
  BY DEF InitInv, SenderOfOpenFile
<1> QED BY <1>1, InitInvHolds, PTL
=============================================================================
