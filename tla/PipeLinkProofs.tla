---------------------------- MODULE PipeLinkProofs ----------------------------
(***************************************************************************)
(* Proofs about PipeLink for any channels, sizes and bounds: between two   *)
(* requests the receiver is paused exactly when the sender believes so,    *)
(* unless a channel was selected while it was paused.  The receiver can be *)
(* paused at all only over a control pipe that still stands, and what each *)
(* list of requests leaves behind is known while it is worked off.         *)
(***************************************************************************)
EXTENDS PipeLink, SequenceTheorems, TLAPS

\* What is told apart of the state is true or false.
Flags ==
  /\ pause \in BOOLEAN /\ purged \in BOOLEAN /\ ok \in BOOLEAN
  /\ rpause \in BOOLEAN /\ orphan \in BOOLEAN

\* A control pipe that is up leads to the driver's channel, of which TVTest has told.
Linked ==
  /\ hCtrl = "up" => csrv = "open" /\ hPipe = "up" /\ num = chan
  /\ csrv # "none" => told = chan
  /\ csrv # "none" => dsrv # "none"
  /\ dsrv # "none" => chan # NoPipe

\* A receiver that is paused, and no channel was selected since, can be reached.
Reached == rpause /\ ~orphan => hCtrl = "up"

Asking == at \in {"call", "reply"}

\* The requests that are under way, by where the sender goes on.
Planned ==
  Asking =>
    \/ goal = "gapless" /\ plan = <<"PAUSE 1">>
    \/ goal \in {"purged", "seek", "close"} /\ plan = <<"PURGE">>
    \/ goal \in {"purged", "seek", "close"} /\ plan = <<"PAUSE 0", "PURGE">>
    \/ goal = "resumed" /\ plan = <<"PAUSE 0">>
    \/ goal = "send" /\ plan = <<"GET_READY_STATE">>
    \/ goal = "idle" /\ plan = <<"PURGE">>

Same == (rpause => pause /\ ~purged) /\ (pause /\ ~purged => rpause)

\* What the sender knows of the receiver's pause at each point of its work.
Known ==
  /\ at \in {"idle", "write", "send"} => Same
  /\ Asking /\ goal \in {"idle", "send"} => Same
  /\ at \in {"purged", "resumed", "seek", "close", "closed"} => ~rpause
  /\ Asking /\ goal \in {"purged", "seek", "close"} /\ plan = <<"PURGE">> => ~rpause
  /\ at = "reply" /\ goal \in {"purged", "seek", "close", "resumed"} => ~rpause
  /\ at = "call" /\ goal = "gapless" => ~rpause
  /\ at = "reply" /\ goal = "gapless" => rpause
  /\ at = "gapless" => (rpause => ok) /\ (ok => rpause)

LInv == Flags /\ Linked /\ Reached /\ Planned /\ (~orphan => Known)

\* It holds before a file is opened and a channel selected.
LEMMA LInvInit == Init => LInv
BY Zenon DEF Init, LInv, Flags, Linked, Reached, Planned, Asking, Known, Same

\* What may become of the pipes in a step that is not about requests.
LEMMA LinkedKeeps ==
  ASSUME LInv, [Next]_vars
  PROVE  Linked'
<1> USE DEF LInv, Linked
<1>1. CASE \E c \in Channels : SetChannel(c)
  BY <1>1, LinkAssumption DEF SetChannel, ResetChannel
<1>2. CASE SetChannelEnd
  BY <1>2 DEF SetChannelEnd, sender, handles, control
<1>3. CASE Release
  BY <1>3 DEF Release, ResetChannel
<1>4. CASE CtrlDisconnect
  BY <1>4 DEF CtrlDisconnect, sender, handles, control
<1>5. CASE OpenPipe
  BY <1>5 DEF OpenPipe, control
<1>6. CASE WriteFails
  BY <1>6 DEF WriteFails, control, channel
<1>7. CASE SetDestination
  BY <1>7 DEF SetDestination, channel
<1>8. CASE CloseDone
  BY <1>8 DEF CloseDone, channel
<1>9. CASE NoReply
  BY <1>9 DEF NoReply, channel, control
<1>10. CASE DataDisconnect
  BY <1>10 DEF DataDisconnect, sender, handles, control, Reading
<1>11. CASE ReceiveOne \/ Publish \/ Purging \/ GetTsStream \/ UNCHANGED vars
  BY <1>11 DEF ReceiveOne, Publish, Purging, GetTsStream, vars, sender, handles, control, channel
<1>12. CASE Refused \/ Reply \/ PipeMessage \/ GaplessDone \/ PurgeDone \/ ResumeDone \/ SeekDone
            \/ SendReady \/ Write \/ WriteDone
  BY <1>12 DEF Refused, Reply, PipeMessage, GaplessDone, PurgeDone, ResumeDone, SeekDone, SendReady,
               Write, WriteDone, handles, control, channel
<1>13. CASE PauseGapless \/ PausePurge \/ Resume \/ Seek \/ Close \/ Open \/ Send \/ SendEmptyPat
  BY <1>13 DEF PauseGapless, PausePurge, Resume, Seek, Close, Open, Send, SendEmptyPat,
               handles, control, channel
<1> QED
  BY <1>1, <1>2, <1>3, <1>4, <1>5, <1>6, <1>7, <1>8, <1>9, <1>10, <1>11, <1>12, <1>13
     DEF Next, SenderStep, Command, ReadThread

\* Steps that are not about requests.
Aside ==
  \/ (\E c \in Channels : SetChannel(c)) \/ SetChannelEnd \/ Release \/ CtrlDisconnect
  \/ ReadThread \/ GetTsStream \/ OpenPipe \/ Write \/ WriteFails \/ SetDestination
  \/ UNCHANGED vars

\* Nothing is asked, and a receiver that was paused when its channel went is an orphan.
LEMMA AsideKeeps == ASSUME LInv, Aside PROVE Flags' /\ Reached' /\ Planned' /\ (~orphan' => Known')
<1>1. UNCHANGED <<pause, purged, call>>
  BY DEF Aside, SetChannel, SetChannelEnd, Release, CtrlDisconnect, ReadThread, ReceiveOne, Publish,
         Purging, DataDisconnect, GetTsStream, OpenPipe, Write, WriteFails, SetDestination,
         vars, sender, control, handles
<1>2. /\ orphan' \in BOOLEAN /\ rpause' \in BOOLEAN
      /\ ~orphan' => ~orphan /\ rpause' = rpause /\ (rpause => hCtrl' = "up")
  <2> USE DEF LInv, Flags, Linked, Reached
  <2>1. CASE (\E c \in Channels : SetChannel(c)) \/ Release
    BY <2>1, Zenon DEF SetChannel, Release, ResetChannel
  <2>2. CASE SetChannelEnd \/ CtrlDisconnect \/ ReadThread \/ GetTsStream \/ Write \/ UNCHANGED vars
    BY <2>2, Zenon DEF SetChannelEnd, CtrlDisconnect, ReadThread, ReceiveOne, Publish, Purging,
           DataDisconnect, GetTsStream, Write, vars, sender, handles, hist
  <2>3. CASE OpenPipe \/ WriteFails \/ SetDestination
    <3>1. orphan' = orphan /\ rpause' = rpause
      BY <2>3, Zenon DEF OpenPipe, WriteFails, SetDestination, hist
    <3>2. hCtrl # "up"
      BY <2>3 DEF OpenPipe, WriteFails, SetDestination
    <3> QED
      BY <3>1, <3>2, Zenon
  <2> QED
    BY <2>1, <2>2, <2>3 DEF Aside
<1>3. Flags'
  BY <1>1, <1>2, Zenon DEF LInv, Flags, call
<1>4. Reached'
  BY <1>2, Zenon DEF Reached
<1>5. Planned'
  BY <1>1 DEF LInv, Planned, Asking, call
<1>6. ~orphan' => Known'
  <2> SUFFICES ASSUME ~orphan' PROVE Known'
    OBVIOUS
  <2>1. Known
    BY <1>2 DEF LInv
  <2>2. /\ at' = at /\ plan' = plan /\ goal' = goal
        /\ rpause' = rpause /\ pause' = pause /\ purged' = purged /\ ok' = ok
    BY <1>1, <1>2, Zenon DEF call
  <2> QED
    BY <2>1, <2>2 DEF Known, Same, Asking
<1> QED
  BY <1>3, <1>4, <1>5, <1>6

\* A list of one request.
LEMMA OneRequest == ASSUME NEW x PROVE Head(<<x>>) = x /\ Len(<<x>>) = 1
OBVIOUS

\* A list of two.
LEMMA TwoRequests ==
  ASSUME NEW x, NEW y
  PROVE  Head(<<x, y>>) = x /\ Len(<<x, y>>) = 2 /\ Tail(<<x, y>>) = <<y>>
<1>1. Head(<<x, y>>) = x
  OBVIOUS
<1>2. Len(<<x, y>>) = 2
  OBVIOUS
<1>3. Tail(<<x, y>>) = <<y>>
  OBVIOUS
<1> QED
  BY <1>1, <1>2, <1>3

\* A request is over: the sender goes on, or makes the second one.
LEMMA AnsweredGoes ==
  ASSUME Planned, Asking, NEW r, NEW f, Answered(r, f)
  PROVE  /\ ok' = r
         /\ \/ /\ plan # <<"PAUSE 0", "PURGE">> /\ at' = goal /\ goal' = "idle"
               /\ goal \in {"gapless", "purged", "seek", "close", "resumed", "send", "idle"}
            \/ /\ plan = <<"PAUSE 0", "PURGE">> /\ goal \in {"purged", "seek", "close"}
               /\ at' = "call" /\ goal' = goal /\ plan' = <<"PURGE">>
<1>1. CASE plan = <<"PAUSE 0", "PURGE">>
  <2>1. Len(plan) = 2 /\ Tail(plan) = <<"PURGE">>
    BY <1>1, TwoRequests
  <2>2. goal \in {"purged", "seek", "close"}
    BY <1>1 DEF Planned
  <2>3. at' = "call" /\ goal' = goal /\ plan' = <<"PURGE">> /\ ok' = r
    BY <2>1 DEF Answered
  <2> QED
    BY <1>1, <2>2, <2>3
<1>2. CASE plan # <<"PAUSE 0", "PURGE">>
  <2>0. \A x : Len(<<x>>) = 1
    BY OneRequest
  <2>1. Len(plan) = 1 /\ goal \in {"gapless", "purged", "seek", "close", "resumed", "send", "idle"}
    BY <1>2, <2>0 DEF Planned
  <2> QED
    BY <1>2, <2>1 DEF Answered
<1> QED
  BY <1>1, <1>2

\* A request that ends unanswered was made of a receiver that is not paused.
LEMMA CallEnds ==
  ASSUME LInv, Refused \/ Reply \/ NoReply
  PROVE  Flags' /\ Reached' /\ Planned' /\ (~orphan' => Known')
<1>1. /\ Asking /\ Flags /\ Planned /\ (~orphan => Known)
      /\ UNCHANGED <<pause, purged, rpause, orphan>>
  BY Zenon DEF LInv, Refused, Reply, NoReply, Asking, control, hist
<1>2. PICK r \in BOOLEAN, f \in BOOLEAN :
        /\ Answered(r, f)
        /\ ~orphan => (r /\ at = "reply" /\ hCtrl' = hCtrl) \/ (~r /\ ~rpause)
  <2>1. CASE Reply
    <3>1. PICK f \in BOOLEAN : f = (rep = "full")
      OBVIOUS
    <3>2. Answered(TRUE, f) /\ at = "reply" /\ hCtrl' = hCtrl
      BY <2>1, <3>1, Zenon DEF Reply, handles
    <3> QED
      BY <3>2, Zenon
  <2>2. CASE Refused \/ NoReply
    <3>1. Answered(FALSE, FALSE)
      BY <2>2, Zenon DEF Refused, NoReply
    <3>2. hCtrl # "up"
      BY <2>2 DEF Refused, NoReply, LInv, Linked
    <3>3. ~orphan => ~rpause
      BY <3>2, Zenon DEF LInv, Reached
    <3> QED
      BY <3>1, <3>3, Zenon
  <2> QED
    BY <2>1, <2>2
<1>3. /\ ok' = r
      /\ \/ /\ plan # <<"PAUSE 0", "PURGE">> /\ at' = goal /\ goal' = "idle"
            /\ goal \in {"gapless", "purged", "seek", "close", "resumed", "send", "idle"}
         \/ /\ plan = <<"PAUSE 0", "PURGE">> /\ goal \in {"purged", "seek", "close"}
            /\ at' = "call" /\ goal' = goal /\ plan' = <<"PURGE">>
  BY <1>1, <1>2, AnsweredGoes
<1>4. Flags'
  BY <1>1, <1>3, Zenon DEF Flags
<1>5. Reached'
  BY <1>1, <1>2, Zenon DEF LInv, Reached
<1>6. Planned'
  BY <1>3 DEF Planned, Asking
<1>7. ASSUME ~orphan' PROVE Known'
  <2>1. ~orphan /\ Known /\ ((r /\ at = "reply") \/ (~r /\ ~rpause))
    BY <1>1, <1>2, <1>7, Zenon
  <2>2. CASE plan = <<"PAUSE 0", "PURGE">>
    <3>1. ~rpause
      BY <1>1, <1>3, <2>1, <2>2 DEF Known, Asking
    <3> QED
      BY <1>1, <1>3, <2>2, <3>1 DEF Known, Asking, Same
  <2>3. CASE plan # <<"PAUSE 0", "PURGE">>
    <3>1. at' = goal /\ goal' = "idle" /\ ok' = r
      BY <1>3, <2>3
    <3>2. CASE goal = "gapless"
      <4>1. (rpause => r) /\ (r => rpause)
        BY <2>1, <3>2 DEF Known
      <4> QED
        BY <1>1, <3>1, <3>2, <4>1 DEF Known, Asking
    <3>3. CASE goal \in {"purged", "seek", "close", "resumed"}
      <4>1. ~rpause
        BY <1>1, <2>1, <2>3, <3>3 DEF Known, Planned
      <4> QED
        BY <1>1, <3>1, <3>3, <4>1 DEF Known, Asking
    <3>4. CASE goal \in {"send", "idle"}
      <4>1. Same
        BY <1>1, <2>1, <3>4 DEF Known
      <4> QED
        BY <1>1, <3>1, <3>4, <4>1 DEF Known, Asking, Same
    <3> QED
      BY <1>3, <2>3, <3>2, <3>3, <3>4
  <2> QED
    BY <2>2, <2>3
<1> QED
  BY <1>4, <1>5, <1>6, <1>7

\* The receiver does what it is asked.
LEMMA MessageKeeps ==
  ASSUME LInv, PipeMessage
  PROVE  Flags' /\ Reached' /\ Planned' /\ (~orphan' => Known')
<1>1. /\ at = "call" /\ hCtrl = "up" /\ hCtrl' = "up" /\ at' = "reply"
      /\ plan' = plan /\ goal' = goal /\ ok' = ok /\ pause' = pause /\ purged' = purged
  BY Zenon DEF PipeMessage, control, handles
<1>2. /\ Head(plan) \in {"PURGE", "GET_READY_STATE", "PAUSE 0", "PAUSE 1"}
      /\ Head(plan) \in {"PURGE", "GET_READY_STATE"} => rpause' = rpause /\ orphan' = orphan
      /\ Head(plan) = "PAUSE 0" => rpause' = FALSE /\ orphan' = FALSE
      /\ Head(plan) = "PAUSE 1" => rpause' = TRUE /\ orphan' = FALSE
  <2>1. CASE Head(plan) = "PURGE"
    BY <2>1 DEF PipeMessage
  <2>2. CASE Head(plan) = "GET_READY_STATE"
    BY <2>2 DEF PipeMessage
  <2>3. CASE Head(plan) = "PAUSE 0"
    BY <2>3 DEF PipeMessage
  <2>4. CASE Head(plan) = "PAUSE 1"
    BY <2>4 DEF PipeMessage
  <2>5. Head(plan) \in {"PURGE", "GET_READY_STATE", "PAUSE 0", "PAUSE 1"}
    BY DEF PipeMessage
  <2> QED
    BY <2>1, <2>2, <2>3, <2>4, <2>5
<1>3. Flags /\ Planned /\ (~orphan => Known)
  BY DEF LInv
<1>4. Flags'
  <2>1. rpause' \in {rpause, TRUE, FALSE} /\ orphan' \in {orphan, FALSE}
    BY <1>2, Zenon
  <2> QED
    BY <1>1, <1>3, <2>1, Zenon DEF Flags
<1>5. Reached'
  BY <1>1, Zenon DEF Reached
<1>6. Planned'
  BY <1>1, <1>3 DEF Planned, Asking
<1>7. /\ Head(<<"PURGE">>) = "PURGE" /\ Head(<<"GET_READY_STATE">>) = "GET_READY_STATE"
      /\ Head(<<"PAUSE 0">>) = "PAUSE 0" /\ Head(<<"PAUSE 1">>) = "PAUSE 1"
      /\ Head(<<"PAUSE 0", "PURGE">>) = "PAUSE 0"
  BY OneRequest, TwoRequests
<1>8. ASSUME ~orphan' PROVE Known'
  <2>1. CASE plan = <<"PURGE">> \/ plan = <<"GET_READY_STATE">>
    <3>0. Head(plan) \in {"PURGE", "GET_READY_STATE"}
      BY <2>1, OneRequest
    <3>1. rpause' = rpause /\ Known
      BY <1>2, <1>3, <1>8, <3>0, Zenon
    <3>2. goal \in {"purged", "seek", "close"} => ~rpause
      <4>1. goal \in {"purged", "seek", "close"} => plan = <<"PURGE">>
        BY <1>1, <1>3, <1>7, <3>0, Zenon DEF Planned, Asking
      <4> QED
        <5>1. Asking /\ goal \in {"purged", "seek", "close"} /\ plan = <<"PURGE">> => ~rpause
          BY <3>1 DEF Known
        <5>2. Asking
          BY <1>1 DEF Asking
        <5> QED
          BY <4>1, <5>1, <5>2
    <3>3. goal \in {"purged", "seek", "close", "send", "idle"}
      BY <1>1, <1>3, <1>7, <3>0, Zenon DEF Planned, Asking
    <3>4. goal \in {"idle", "send"} => Same
      BY <1>1, <3>1 DEF Known, Asking
    <3> QED
      BY <1>1, <3>1, <3>2, <3>3, <3>4 DEF Known, Asking, Same
  <2>2. CASE plan = <<"PAUSE 0">> \/ plan = <<"PAUSE 0", "PURGE">>
    <3>0. Head(plan) = "PAUSE 0"
      BY <2>2, OneRequest, TwoRequests
    <3>1. ~rpause'
      <4>1. rpause' = FALSE
        BY <1>2, <3>0, Zenon
      <4> QED
        BY <4>1
    <3>2. goal \in {"purged", "seek", "close", "resumed"}
      BY <1>1, <1>3, <1>7, <3>0, Zenon DEF Planned, Asking
    <3> QED
      BY <1>1, <3>1, <3>2 DEF Known, Asking
  <2>3. CASE plan = <<"PAUSE 1">>
    <3>0. Head(plan) = "PAUSE 1"
      BY <2>3, OneRequest
    <3>1. rpause'
      BY <1>2, <3>0, Zenon
    <3>2. goal = "gapless"
      BY <1>1, <1>3, <2>3 DEF Planned, Asking
    <3> QED
      BY <1>1, <3>1, <3>2 DEF Known, Asking
  <2> QED
    BY <1>1, <1>3, <2>1, <2>2, <2>3 DEF Planned, Asking
<1> QED
  BY <1>4, <1>5, <1>6, <1>8

\* What a list of requests may find when the sender goes on at g after it.
Fits(q, g) ==
  \/ q = <<>> /\ g \in {"idle", "write"} /\ Same'
  \/ q = <<>> /\ g \in {"purged", "resumed", "seek", "close", "closed"} /\ ~rpause'
  \/ q = <<"PURGE">> /\ g \in {"purged", "seek", "close"} /\ ~rpause'
  \/ q = <<"PAUSE 0", "PURGE">> /\ g \in {"purged", "seek", "close"}
  \/ q = <<"PAUSE 0">> /\ g = "resumed"
  \/ q = <<"PAUSE 1">> /\ g = "gapless" /\ ~rpause'
  \/ q = <<"GET_READY_STATE">> /\ g = "send" /\ Same'
  \/ q = <<"PURGE">> /\ g = "idle" /\ Same'

Shaped(q, g) ==
  \/ q = <<>> /\ g \in {"idle", "write", "purged", "resumed", "seek", "close", "closed"}
  \/ q \in {<<"PURGE">>, <<"PAUSE 0", "PURGE">>} /\ g \in {"purged", "seek", "close"}
  \/ q = <<"PAUSE 0">> /\ g = "resumed"
  \/ q = <<"PAUSE 1">> /\ g = "gapless"
  \/ q = <<"GET_READY_STATE">> /\ g = "send"
  \/ q = <<"PURGE">> /\ g = "idle"

\* Lists of requests that differ.
LEMMA Differ ==
  /\ <<"PURGE">> # <<>> /\ <<"PAUSE 0", "PURGE">> # <<>> /\ <<"PAUSE 0">> # <<>>
  /\ <<"PAUSE 1">> # <<>> /\ <<"GET_READY_STATE">> # <<>>
  /\ <<"PAUSE 0", "PURGE">> # <<"PURGE">> /\ <<"PAUSE 0">> # <<"PURGE">>
  /\ <<"PAUSE 1">> # <<"PURGE">> /\ <<"GET_READY_STATE">> # <<"PURGE">>
<1>1. /\ <<"PURGE">> # <<>> /\ <<"PAUSE 0", "PURGE">> # <<>> /\ <<"PAUSE 0">> # <<>>
      /\ <<"PAUSE 1">> # <<>> /\ <<"GET_READY_STATE">> # <<>>
  OBVIOUS
<1>2. <<"PAUSE 0", "PURGE">> # <<"PURGE">>
  OBVIOUS
<1>3. <<"PAUSE 0">> # <<"PURGE">> /\ <<"PAUSE 1">> # <<"PURGE">>
  OBVIOUS
<1>4. <<"GET_READY_STATE">> # <<"PURGE">>
  OBVIOUS
<1> QED
  BY <1>1, <1>2, <1>3, <1>4

\* Requests that fit leave what is known.
LEMMA AskKeeps ==
  ASSUME NEW q, NEW g, Ask(q, g), Shaped(q, g), ~orphan' => Fits(q, g)
  PROVE  Planned' /\ (~orphan' => Known') /\ ok' = FALSE /\ at' # "reply"
<1>1. CASE q = <<>>
  <2>1. at' = g /\ ok' = FALSE
    BY <1>1 DEF Ask
  <2>2. g \in {"idle", "write", "purged", "resumed", "seek", "close", "closed"}
    BY <1>1, Differ DEF Shaped
  <2>3. ~Asking'
    BY <2>1, <2>2 DEF Asking
  <2>4. ASSUME ~orphan' PROVE Known'
    <3>1. \/ g \in {"idle", "write"} /\ Same'
          \/ g \in {"purged", "resumed", "seek", "close", "closed"} /\ ~rpause'
      BY <1>1, <2>4, Differ DEF Fits
    <3> QED
      BY <2>1, <2>3, <3>1 DEF Known, Asking
  <2> QED
    BY <2>1, <2>2, <2>3, <2>4 DEF Planned
<1>2. CASE q # <<>>
  <2>1. at' = "call" /\ goal' = g /\ plan' = q /\ ok' = FALSE
    BY <1>2 DEF Ask
  <2>2. Planned'
    BY <1>2, <2>1 DEF Planned, Shaped
  <2>3. ASSUME ~orphan' PROVE Known'
    <3>1. \/ q = <<"PURGE">> /\ g \in {"purged", "seek", "close"} /\ ~rpause'
          \/ q = <<"PAUSE 0", "PURGE">> /\ g \in {"purged", "seek", "close"}
          \/ q = <<"PAUSE 0">> /\ g = "resumed"
          \/ g = "gapless" /\ ~rpause'
          \/ g \in {"send", "idle"} /\ Same'
      BY <1>2, <2>3 DEF Fits
    <3>2. CASE g \in {"purged", "seek", "close"}
      <4>1. plan' = <<"PURGE">> => ~rpause'
        BY <2>1, <3>1, <3>2, Differ
      <4> QED
        BY <2>1, <3>2, <4>1 DEF Known
    <3>3. CASE g \in {"send", "idle"}
      BY <2>1, <3>1, <3>3 DEF Known
    <3>4. CASE g \in {"gapless", "resumed"}
      BY <2>1, <3>1, <3>4 DEF Known
    <3> QED
      BY <3>1, <3>2, <3>3, <3>4
  <2> QED
    BY <2>1, <2>2, <2>3
<1> QED
  BY <1>1, <1>2

\* The requests before a purge, by what the sender knows.
LEMMA PurgePlans ==
  \/ ToPurge = <<"PURGE">> /\ ~pause
  \/ ToPurge = <<"PAUSE 0", "PURGE">> /\ pause /\ ~purged
  \/ ToPurge = <<>> /\ pause /\ purged
BY DEF ToPurge

\* Steps that begin or end what the sender does.
Working ==
  \/ PauseGapless \/ PausePurge \/ Resume \/ Seek \/ Close \/ Open \/ Send \/ SendEmptyPat
  \/ GaplessDone \/ PurgeDone \/ ResumeDone \/ SeekDone \/ CloseDone \/ SendReady \/ WriteDone

\* Each of them makes the requests that fit what is known.
LEMMA WorkFits ==
  ASSUME LInv, Working
  PROVE  \E q, g : Ask(q, g) /\ Shaped(q, g) /\ (~orphan' => Fits(q, g))
<1>1. /\ rpause' = rpause /\ orphan' = orphan /\ (~orphan => Known)
      /\ pause \in BOOLEAN /\ purged \in BOOLEAN
  BY Zenon DEF LInv, Flags, Working, PauseGapless, PausePurge, Resume, Seek, Close, Open, Send,
         SendEmptyPat, GaplessDone, PurgeDone, ResumeDone, SeekDone, CloseDone, SendReady,
         WriteDone, hist
<1>2. ASSUME at = "idle", ~orphan PROVE Same
  BY <1>1, <1>2 DEF Known
<1>3. CASE PauseGapless
  <2>1. /\ at = "idle" /\ ~pause /\ Ask(<<"PAUSE 1">>, "gapless")
    BY <1>3 DEF PauseGapless
  <2>2. ~orphan' => ~rpause'
    BY <1>1, <1>2, <2>1 DEF Same
  <2> QED
    BY <2>1, <2>2 DEF Shaped, Fits
<1>4. ASSUME NEW g \in {"purged", "seek", "close"}, at = "idle", Ask(ToPurge, g)
      PROVE  \E q, h : Ask(q, h) /\ Shaped(q, h) /\ (~orphan' => Fits(q, h))
  <2>1. CASE ToPurge = <<"PURGE">> /\ ~pause
    <3>1. ~orphan' => ~rpause'
      BY <1>1, <1>2, <1>4, <2>1 DEF Same
    <3>2. Shaped(<<"PURGE">>, g) /\ (~orphan' => Fits(<<"PURGE">>, g)) /\ Ask(<<"PURGE">>, g)
      BY <1>4, <2>1, <3>1 DEF Shaped, Fits
    <3> QED
      BY <3>2
  <2>2. CASE ToPurge = <<"PAUSE 0", "PURGE">>
    <3>1. /\ Shaped(<<"PAUSE 0", "PURGE">>, g) /\ Fits(<<"PAUSE 0", "PURGE">>, g)
          /\ Ask(<<"PAUSE 0", "PURGE">>, g)
      BY <1>4, <2>2 DEF Shaped, Fits
    <3> QED
      BY <3>1
  <2>3. CASE ToPurge = <<>> /\ pause /\ purged
    <3>1. ~orphan' => ~rpause'
      BY <1>1, <1>2, <1>4, <2>3 DEF Same
    <3>2. Shaped(<<>>, g) /\ (~orphan' => Fits(<<>>, g)) /\ Ask(<<>>, g)
      BY <1>4, <2>3, <3>1 DEF Shaped, Fits
    <3> QED
      BY <3>2
  <2> QED
    BY <2>1, <2>2, <2>3, PurgePlans
<1>5. ASSUME NEW g \in {"purged", "resumed", "seek", "close", "closed"}, Ask(<<>>, g),
             ~orphan' => ~rpause'
      PROVE  \E q, h : Ask(q, h) /\ Shaped(q, h) /\ (~orphan' => Fits(q, h))
  <2>1. Shaped(<<>>, g) /\ (~orphan' => Fits(<<>>, g))
    BY <1>5 DEF Shaped, Fits
  <2> QED
    BY <1>5, <2>1
<1>6. ASSUME NEW g \in {"idle", "write"}, Ask(<<>>, g), ~orphan' => Same'
      PROVE  \E q, h : Ask(q, h) /\ Shaped(q, h) /\ (~orphan' => Fits(q, h))
  <2>1. Shaped(<<>>, g) /\ (~orphan' => Fits(<<>>, g))
    BY <1>6 DEF Shaped, Fits
  <2> QED
    BY <1>6, <2>1
<1>7. CASE PausePurge
  BY <1>4, <1>7 DEF PausePurge
<1>8. CASE Seek
  BY <1>4, <1>8 DEF Seek
<1>9. CASE Close
  <2>1. CASE pause
    BY <1>4, <1>9, <2>1 DEF Close, ToClose
  <2>2. CASE ~pause
    <3>1. at = "idle" /\ Ask(<<>>, "close")
      BY <1>9, <2>2 DEF Close, ToClose
    <3>2. ~orphan' => ~rpause'
      BY <1>1, <1>2, <2>2, <3>1 DEF Same
    <3> QED
      BY <1>5, <3>1, <3>2
  <2> QED
    BY <2>1, <2>2
<1>10. CASE Resume
  <2>1. CASE purged
    <3>1. at = "idle" /\ Ask(<<>>, "resumed")
      BY <1>10, <2>1 DEF Resume
    <3>2. ~orphan' => ~rpause'
      BY <1>1, <1>2, <2>1, <3>1 DEF Same
    <3> QED
      BY <1>5, <3>1, <3>2
  <2>2. CASE ~purged
    <3>1. Ask(<<"PAUSE 0">>, "resumed")
      BY <1>10, <2>2 DEF Resume
    <3> QED
      BY <3>1 DEF Shaped, Fits
  <2> QED
    BY <2>1, <2>2
<1>11. CASE Send
  <2>1. Ask(<<"GET_READY_STATE">>, "send") /\ at = "idle" /\ pause' = pause /\ purged' = purged
    BY <1>11, Zenon DEF Send, control
  <2>2. ~orphan' => Same'
    BY <1>1, <1>2, <2>1 DEF Same
  <2> QED
    BY <2>1, <2>2 DEF Shaped, Fits
<1>12. CASE GaplessDone
  <2>1. CASE ok
    <3>1. Ask(<<>>, "idle") /\ at = "gapless" /\ pause' = TRUE /\ purged' = FALSE
      BY <1>12, <2>1 DEF GaplessDone
    <3>2. ~orphan => rpause
      BY <1>1, <2>1, <3>1 DEF Known
    <3>3. ~orphan' => Same'
      BY <1>1, <3>1, <3>2 DEF Same
    <3> QED
      BY <1>6, <3>1, <3>3
  <2>2. CASE ~ok
    <3>1. Ask(<<"PURGE">>, "purged") /\ at = "gapless"
      BY <1>12, <2>2 DEF GaplessDone
    <3>2. ~orphan' => ~rpause'
      BY <1>1, <2>2, <3>1 DEF Known
    <3> QED
      BY <3>1, <3>2 DEF Shaped, Fits
  <2> QED
    BY <2>1, <2>2
<1>13. CASE Open \/ PurgeDone
  <2>1. Ask(<<>>, "idle") /\ at \in {"closed", "purged"} /\ pause' = TRUE /\ purged' = TRUE
    BY <1>13 DEF Open, PurgeDone
  <2>2. ~orphan => ~rpause
    BY <1>1, <2>1 DEF Known
  <2>3. ~orphan' => Same'
    BY <1>1, <2>1, <2>2 DEF Same
  <2> QED
    BY <1>6, <2>1, <2>3
<1>14. CASE ResumeDone
  <2>1. Ask(<<>>, "idle") /\ at = "resumed" /\ pause' = FALSE
    BY <1>14 DEF ResumeDone
  <2>2. ~orphan => ~rpause
    BY <1>1, <2>1 DEF Known
  <2>3. ~orphan' => Same'
    BY <1>1, <2>1, <2>2 DEF Same
  <2> QED
    BY <1>6, <2>1, <2>3
<1>15. CASE SeekDone
  <2>1. Ask(<<>>, "idle") /\ at = "seek" /\ pause' = pause /\ purged' = (purged \/ pause)
    BY <1>15, Zenon DEF SeekDone
  <2>2. ~orphan => ~rpause
    BY <1>1, <2>1 DEF Known
  <2>3. ~orphan' => Same'
    BY <1>1, <2>1, <2>2 DEF Same
  <2> QED
    BY <1>6, <2>1, <2>3
<1>16. CASE CloseDone
  <2>1. Ask(<<>>, "closed") /\ at = "close"
    BY <1>16 DEF CloseDone
  <2>2. ~orphan' => ~rpause'
    BY <1>1, <2>1 DEF Known
  <2> QED
    BY <1>5, <2>1, <2>2
<1>17. CASE SendReady \/ SendEmptyPat
  <2>1. /\ at \in {"send", "idle"} /\ pause' = pause /\ purged' = purged
        /\ Ask(<<>>, "idle") \/ Ask(<<>>, "write")
    BY <1>17, Zenon DEF SendReady, SendEmptyPat, control
  <2>2. ~orphan' => Same'
    BY <1>1, <2>1 DEF Known, Same
  <2> QED
    BY <1>6, <2>1, <2>2
<1>18. CASE WriteDone
  <2>1. /\ at = "write" /\ pause' = pause /\ purged' = purged
        /\ Ask(<<>>, "idle") \/ Ask(<<"PURGE">>, "idle")
    BY <1>18, Zenon DEF WriteDone, control
  <2>2. ~orphan' => Same'
    BY <1>1, <2>1 DEF Known, Same
  <2>3. CASE Ask(<<>>, "idle")
    BY <1>6, <2>2, <2>3
  <2>4. CASE Ask(<<"PURGE">>, "idle")
    BY <2>2, <2>4 DEF Shaped, Fits
  <2> QED
    BY <2>1, <2>3, <2>4
<1> QED
  BY <1>3, <1>7, <1>8, <1>9, <1>10, <1>11, <1>12, <1>13, <1>14, <1>15, <1>16, <1>17, <1>18
     DEF Working

\* So they keep what is known.
LEMMA WorkKeeps ==
  ASSUME LInv, Working
  PROVE  Flags' /\ Reached' /\ Planned' /\ (~orphan' => Known') /\ ok' = FALSE /\ at' # "reply"
<1>1. Planned' /\ (~orphan' => Known') /\ ok' = FALSE /\ at' # "reply"
  <2>1. PICK q, g : Ask(q, g) /\ Shaped(q, g) /\ (~orphan' => Fits(q, g))
    BY WorkFits
  <2> QED
    BY <2>1, AskKeeps
<1>2. /\ rpause' = rpause /\ orphan' = orphan
      /\ pause' \in {pause, TRUE, FALSE} /\ purged' \in {purged, TRUE, FALSE, purged \/ pause}
      /\ hCtrl' = hCtrl \/ at = "close"
  BY Zenon DEF Working, PauseGapless, PausePurge, Resume, Seek, Close, Open, Send,
         SendEmptyPat, GaplessDone, PurgeDone, ResumeDone, SeekDone, CloseDone, SendReady,
         WriteDone, hist, control, handles
<1>3. Flags'
  BY <1>1, <1>2, Zenon DEF LInv, Flags
<1>4. Reached'
  <2>1. at = "close" /\ ~orphan => ~rpause
    BY DEF LInv, Known
  <2> QED
    BY <1>2, <2>1, Zenon DEF LInv, Reached
<1> QED
  BY <1>1, <1>3, <1>4

\* Every step keeps it.
LEMMA LInvStep == LInv /\ [Next]_vars => LInv'
<1> SUFFICES ASSUME LInv, [Next]_vars PROVE LInv'
  OBVIOUS
<1>1. Linked'
  BY LinkedKeeps
<1>2. Aside \/ (Refused \/ Reply \/ NoReply) \/ PipeMessage \/ Working
  BY DEF Next, SenderStep, Command, Aside, Working
<1>3. Flags' /\ Reached' /\ Planned' /\ (~orphan' => Known')
  BY <1>2, AsideKeeps, CallEnds, MessageKeeps, WorkKeeps
<1> QED
  BY <1>1, <1>3 DEF LInv

\* And it always holds.
LEMMA LInvHolds == Spec => []LInv
<1>1. Init => LInv
  BY LInvInit
<1>2. LInv /\ [Next]_vars => LInv'
  BY LInvStep
<1> QED
  BY <1>1, <1>2, PTL DEF Spec

\* Between requests the receiver is paused exactly when the sender believes so (m_fPause and
\* not m_fPurged), whatever was answered or not and whenever a channel was selected, unless it
\* was selected while the receiver was paused.
THEOREM PausesAgree == Spec => []PauseAgrees
<1>1. LInv => PauseAgrees
  <2> SUFFICES ASSUME LInv, at = "idle", ~orphan PROVE rpause <=> pause /\ ~purged
    BY DEF PauseAgrees
  <2>1. Same
    BY DEF LInv, Known
  <2> QED
    BY <2>1, Zenon DEF Same
<1> QED
  BY <1>1, LInvHolds, PTL

\* What the sender relies on while it works: a receiver that is paused, and whose channel was
\* not selected since, can still be asked to go on (TransactMessage over m_hCtrlPipe).
THEOREM PausedIsReached == Spec => [](rpause /\ ~orphan => hCtrl = "up")
<1>1. LInv => (rpause /\ ~orphan => hCtrl = "up")
  BY DEF LInv, Reached
<1> QED
  BY <1>1, LInvHolds, PTL

-----------------------------------------------------------------------------
(* What is left of before a seek *)

\* The queue without its first buffer.
LEMMA TailOf ==
  ASSUME NEW q \in Seq(Buffers), q # <<>>
  PROVE  /\ Tail(q) \in Seq(Buffers) /\ Len(q) \in Nat /\ Len(q) >= 1 /\ Len(Tail(q)) = Len(q) - 1
         /\ \A i \in 1 .. Len(q) - 1 : Tail(q)[i] = q[i + 1]
         /\ Head(q) = q[1] /\ Head(q) \in Buffers
BY DEF Buffers

\* The queue and one more.
LEMMA AppendOf ==
  ASSUME NEW q \in Seq(Buffers), NEW b \in Buffers
  PROVE  /\ Append(q, b) \in Seq(Buffers) /\ Len(q) \in Nat /\ Len(Append(q, b)) = Len(q) + 1
         /\ \A i \in 1 .. Len(q) : Append(q, b)[i] = q[i]
         /\ Append(q, b)[Len(q) + 1] = b
OBVIOUS

\* A queue of one.
LEMMA OneOf ==
  ASSUME NEW b \in Buffers
  PROVE  <<b>> \in Seq(Buffers) /\ Len(<<b>>) = 1 /\ <<b>>[1] = b
OBVIOUS

\* Two queues, one after the other.
LEMMA CatOf ==
  ASSUME NEW q \in Seq(Buffers), NEW p \in Seq(Buffers)
  PROVE  /\ q \o p \in Seq(Buffers) /\ Len(q) \in Nat /\ Len(p) \in Nat
         /\ Len(q \o p) = Len(q) + Len(p)
         /\ \A i \in 1 .. Len(q) : (q \o p)[i] = q[i]
         /\ \A i \in 1 .. Len(p) : (q \o p)[Len(q) + i] = p[i]
OBVIOUS

\* What is left when the outstanding requests are cancelled.
LEMMA CancelOf ==
  ASSUME NEW q \in Seq(Buffers)
  PROVE  /\ Cancel(q) \in Seq(Buffers)
         /\ \/ Len(q) >= R /\ Len(Cancel(q)) = Len(q) - R
            \/ Len(q) < R /\ Len(Cancel(q)) = 0
         /\ \A i \in 1 .. Len(Cancel(q)) : R + i \in 1 .. Len(q) /\ Cancel(q)[i] = q[R + i]
<1>1. R \in Nat /\ Len(q) \in Nat
  BY LinkAssumption
<1>2. CASE Len(q) >= R
  BY <1>1, <1>2 DEF Cancel
<1>3. CASE Len(q) < R
  BY <1>1, <1>3 DEF Cancel
<1> QED
  BY <1>1, <1>2, <1>3

\* None at all.
LEMMA EmptyOf == <<>> \in Seq(Buffers) /\ Len(<<>>) = 0
OBVIOUS

\* The 0-byte buffers of the outstanding requests.
LEMMA ReservedOf ==
  LET n == [i \in 1 .. R |-> "new"] IN
     n \in Seq(Buffers) /\ Len(n) = R /\ \A i \in 1 .. R : n[i] = "new"
BY LinkAssumption DEF Buffers

\* The queue once it is of before a seek.
LEMMA OldOf == ASSUME NEW q \in Seq(Buffers) PROVE
  LET n == [i \in DOMAIN q |-> "stale"] IN n \in Seq(Buffers) /\ Len(n) = Len(q)
BY DEF Buffers

\* Buffers from before a seek are among the first k the receiver will return, or, of those
\* it holds already, among the first k.
Ahead(k) ==
  /\ \A i \in 1 .. Len(store) : store[i] = "stale" => i <= k
  /\ \A i \in 1 .. Len(hand) : hand[i] = "stale" => Len(store) + i <= k
Below(k) ==
  /\ Ahead(k)
  /\ \A i \in 1 .. Len(pipe) : pipe[i] = "stale" => Len(store) + Len(hand) + i <= k

\* No more of them come than CleanSeek allows, besides c that are still to be cancelled and
\* which are not held yet.
Few(c) ==
  /\ \E k \in Nat : Below(k) /\ late + k <= 1 + PipeCap + c
  /\ \E k \in Nat : Ahead(k) /\ late + k <= 1 + PipeCap
FewStale == (purge => Few(R)) /\ (~purge => Few(0))

\* From the PURGE of a seek to its move in the file the receiver holds little.
Purged == (at = "reply" /\ plan = <<"PURGE">>) \/ (at = "seek" /\ ok)
Holds(c) ==
  /\ Len(store) + Len(hand) + Len(pipe) <= 1 + PipeCap + c
  /\ Len(store) + Len(hand) <= 1 + PipeCap
Emptied == Purged => (purge => Holds(R)) /\ (~purge => Holds(0)) /\ (dsrv = "open" => hPipe = "up")

RInv == RingTypes /\ FewStale /\ Emptied

\* The numbers that are compared.
LEMMA Numbers == N \in Nat /\ R \in Nat /\ R >= 1 /\ PipeCap \in Nat /\ N >= 3
BY LinkAssumption

\* A receiver whose channel is selected holds nothing.
LEMMA ResetFew ==
  ASSUME RingTypes, NEW c \in Nat, NEW d \in Nat, Few(c),
         store' = <<>>, hand' = <<>>, pipe' = <<>>, late' = late
  PROVE  RingTypes' /\ Few(d)' /\ Holds(d)'
<1>1. PICK k \in Nat : late + k <= 1 + PipeCap
  BY DEF Few
<1>2. late \in Nat /\ late <= 1 + PipeCap
  BY <1>1, Numbers DEF RingTypes
<1>3. Len(store') = 0 /\ Len(hand') = 0 /\ Len(pipe') = 0
  BY EmptyOf
<1>4. RingTypes'
  BY <1>2, <1>3, EmptyOf, Numbers DEF RingTypes
<1>5. Below(0)' /\ Ahead(0)'
  BY <1>3 DEF Below, Ahead
<1>6. late' + 0 <= 1 + PipeCap + d /\ late' + 0 <= 1 + PipeCap
  BY <1>2, Numbers
<1>7. Few(d)'
  BY <1>5, <1>6 DEF Few
<1>8. Holds(d)'
  BY <1>2, <1>3, Numbers DEF Holds
<1> QED
  BY <1>4, <1>7, <1>8

\* GetTsStream returns the first.
LEMMA TakeFew ==
  ASSUME RingTypes, NEW c \in Nat, Few(c), GetTsStream
  PROVE  RingTypes' /\ Few(c)' /\ (Holds(c) => Holds(c)')
<1>1. /\ store # <<>> /\ store' = Tail(store) /\ hand' = hand /\ pipe' = pipe
      /\ late' = IF Head(store) = "stale" THEN late + 1 ELSE late
  BY DEF GetTsStream, MayTake
<1>2. /\ Len(store) \in Nat /\ Len(store) >= 1 /\ store' \in Seq(Buffers)
      /\ Len(store') = Len(store) - 1 /\ Head(store) = store[1]
      /\ \A i \in 1 .. Len(store) - 1 : store'[i] = store[i + 1]
  BY <1>1, TailOf DEF RingTypes
<1>3. Len(hand) \in Nat /\ Len(pipe) \in Nat /\ late \in Nat
  BY <1>1 DEF RingTypes
<1>4. RingTypes'
  BY <1>1, <1>2, <1>3, Numbers DEF RingTypes
<1>5. Holds(c) => Holds(c)'
  BY <1>1, <1>2, <1>3, Numbers DEF Holds
<1>6. ASSUME NEW k \in Nat, Ahead(k)
      PROVE  \E m \in Nat : Ahead(m)' /\ (Below(k) => Below(m)') /\ late' + m <= late + k
  <2>1. CASE Head(store) = "stale"
    <3>1. k >= 1 /\ k - 1 \in Nat
      BY <1>2, <1>6, <2>1 DEF Ahead
    <3>2. late' + (k - 1) <= late + k
      BY <1>1, <1>3, <2>1, <3>1
    <3>3. Ahead(k - 1)'
      BY <1>1, <1>2, <1>3, <1>6, <3>1 DEF Ahead
    <3>4. Below(k) => Below(k - 1)'
      BY <1>1, <1>2, <1>3, <3>1, <3>3 DEF Below
    <3> QED
      BY <3>1, <3>2, <3>3, <3>4
  <2>2. CASE Head(store) # "stale"
    <3>1. Ahead(k)'
      BY <1>1, <1>2, <1>3, <1>6 DEF Ahead
    <3>2. Below(k) => Below(k)'
      BY <1>1, <1>2, <1>3, <3>1 DEF Below
    <3> QED
      BY <1>1, <1>3, <2>2, <3>1, <3>2
  <2> QED
    BY <2>1, <2>2
<1>7. Few(c)'
  <2>1. PICK k \in Nat : Below(k) /\ late + k <= 1 + PipeCap + c
    BY DEF Few
  <2>2. PICK m \in Nat : Below(m)' /\ late' + m <= late + k
    BY <1>6, <2>1 DEF Below
  <2>3. PICK j \in Nat : Ahead(j) /\ late + j <= 1 + PipeCap
    BY DEF Few
  <2>4. PICK n \in Nat : Ahead(n)' /\ late' + n <= late + j
    BY <1>6, <2>3
  <2>5. PICK l \in Nat : l = late'
    BY <1>4 DEF RingTypes
  <2>6. l + m <= 1 + PipeCap + c
    <3>1. l + m <= late + k /\ late + k <= 1 + PipeCap + c
      BY <2>1, <2>2, <2>5
    <3> QED
      BY <1>3, <3>1, Numbers
  <2>7. l + n <= 1 + PipeCap
    <3>1. l + n <= late + j /\ late + j <= 1 + PipeCap
      BY <2>3, <2>4, <2>5
    <3> QED
      BY <1>3, <3>1, Numbers
  <2> QED
    BY <2>2, <2>4, <2>5, <2>6, <2>7 DEF Few
<1> QED
  BY <1>4, <1>5, <1>7

\* The read thread takes a buffer in hand,
LEMMA ReceiveFew ==
  ASSUME RingTypes, NEW c \in Nat, Few(c), ReceiveOne
  PROVE  RingTypes' /\ (c = 0 => Few(c)' /\ (Holds(c) => Holds(c)'))
<1>1. /\ hand = <<>> /\ pipe # <<>> /\ store' = store /\ late' = late
      /\ hand' = <<Head(pipe)>> /\ pipe' = Tail(pipe) /\ Outstanding = R
  BY DEF ReceiveOne, Reading, hist
<1>2. /\ Len(store) \in Nat /\ Len(hand) = 0 /\ Len(pipe) \in Nat /\ Len(pipe) >= 1 /\ late \in Nat
      /\ Head(pipe) \in Buffers /\ Head(pipe) = pipe[1] /\ pipe' \in Seq(Buffers)
      /\ Len(pipe') = Len(pipe) - 1 /\ \A i \in 1 .. Len(pipe) - 1 : pipe'[i] = pipe[i + 1]
  BY <1>1, TailOf, EmptyOf DEF RingTypes
<1>3. hand' \in Seq(Buffers) /\ Len(hand') = 1 /\ hand'[1] = pipe[1]
  BY <1>1, <1>2, OneOf
<1>4. Len(store) + 1 <= N - 1
  BY <1>1, <1>2, Numbers DEF Outstanding
<1>5. RingTypes'
  BY <1>1, <1>2, <1>3, <1>4, Numbers DEF RingTypes
<1>6. ASSUME NEW k \in Nat, Below(k) PROVE Below(k)' /\ Ahead(k)'
  <2>1. Ahead(k)'
    BY <1>1, <1>2, <1>3, <1>6 DEF Ahead, Below
  <2>2. \A i \in 1 .. Len(pipe') : pipe'[i] = "stale" => Len(store') + Len(hand') + i <= k
    BY <1>1, <1>2, <1>3, <1>6 DEF Below
  <2> QED
    BY <2>1, <2>2 DEF Below
<1>7. c = 0 => Few(c)'
  <2> SUFFICES ASSUME c = 0 PROVE Few(c)'
    OBVIOUS
  <2>1. PICK k \in Nat : Below(k) /\ late + k <= 1 + PipeCap + c
    BY DEF Few
  <2>2. late' + k <= 1 + PipeCap + c /\ late' + k <= 1 + PipeCap
    BY <1>1, <1>2, <2>1, Numbers
  <2> QED
    BY <1>6, <2>1, <2>2 DEF Few
<1>8. c = 0 /\ Holds(c) => Holds(c)'
  BY <1>1, <1>2, <1>3, Numbers DEF Holds
<1> QED
  BY <1>5, <1>7, <1>8

\* and publishes it.
LEMMA PublishFew ==
  ASSUME RingTypes, NEW c \in Nat, Few(c), Publish
  PROVE  RingTypes' /\ Few(c)' /\ (Holds(c) => Holds(c)')
<1>1. hand # <<>> /\ store' = store \o hand /\ hand' = <<>> /\ pipe' = pipe /\ late' = late
  BY DEF Publish, hist
<1>2. /\ Len(store) \in Nat /\ Len(hand) \in Nat /\ Len(pipe) \in Nat /\ late \in Nat
      /\ store' \in Seq(Buffers) /\ Len(store') = Len(store) + Len(hand)
      /\ \A i \in 1 .. Len(store) : store'[i] = store[i]
      /\ \A i \in 1 .. Len(hand) : store'[Len(store) + i] = hand[i]
      /\ hand' \in Seq(Buffers) /\ Len(hand') = 0
  BY <1>1, CatOf, EmptyOf DEF RingTypes
<1>3. RingTypes'
  BY <1>1, <1>2, Numbers DEF RingTypes
<1>4. ASSUME NEW k \in Nat, Ahead(k) PROVE Ahead(k)'
  <2>1. ASSUME NEW i \in 1 .. Len(store'), store'[i] = "stale" PROVE i <= k
    <3>1. CASE i <= Len(store)
      <4>1. i \in 1 .. Len(store)
        BY <1>2, <3>1
      <4> QED
        BY <1>2, <1>4, <2>1, <4>1 DEF Ahead
    <3>2. CASE i > Len(store)
      <4>1. i - Len(store) \in 1 .. Len(hand) /\ i = Len(store) + (i - Len(store))
        BY <1>2, <3>2
      <4>2. store'[i] = hand[i - Len(store)]
        BY <1>2, <4>1
      <4>3. hand[i - Len(store)] = "stale" => Len(store) + (i - Len(store)) <= k
        BY <1>4, <4>1 DEF Ahead
      <4> QED
        BY <2>1, <4>1, <4>2, <4>3
    <3> QED
      BY <1>2, <3>1, <3>2
  <2> QED
    BY <1>2, <2>1 DEF Ahead
<1>5. ASSUME NEW k \in Nat, Below(k) PROVE Below(k)'
  BY <1>1, <1>2, <1>4, <1>5 DEF Below
<1>6. Few(c)'
  BY <1>1, <1>4, <1>5 DEF Few
<1>7. Holds(c) => Holds(c)'
  BY <1>1, <1>2 DEF Holds
<1> QED
  BY <1>3, <1>6, <1>7

\* The sender's buffers are new.
LEMMA WriteFew ==
  ASSUME RingTypes, NEW c \in Nat, Few(c), Write
  PROVE  RingTypes' /\ Few(c)'
<1>1. /\ store' = store /\ hand' = hand /\ pipe' = Append(pipe, "new") /\ late' = late
      /\ Len(pipe) < Outstanding + PipeCap
  BY DEF Write, hist
<1>2. /\ Len(store) \in Nat /\ Len(hand) \in Nat /\ Len(pipe) \in Nat /\ late \in Nat
      /\ pipe' \in Seq(Buffers) /\ Len(pipe') = Len(pipe) + 1
      /\ \A i \in 1 .. Len(pipe) : pipe'[i] = pipe[i]
      /\ pipe'[Len(pipe) + 1] = "new"
  BY <1>1, AppendOf DEF RingTypes, Buffers
<1>3. Len(pipe) + 1 <= R + PipeCap
  BY <1>1, <1>2, Numbers DEF Outstanding, RingTypes
<1>4. RingTypes'
  BY <1>1, <1>2, <1>3, Numbers DEF RingTypes
<1>5. ASSUME NEW k \in Nat, Below(k) PROVE Below(k)'
  <2>1. Ahead(k)'
    BY <1>1, <1>5 DEF Ahead, Below
  <2>2. ASSUME NEW i \in 1 .. Len(pipe'), pipe'[i] = "stale"
        PROVE  Len(store') + Len(hand') + i <= k
    <3>1. i \in 1 .. Len(pipe)
      BY <1>2, <2>2
    <3> QED
      BY <1>1, <1>2, <1>5, <2>2, <3>1 DEF Below
  <2> QED
    BY <2>1, <2>2 DEF Below
<1>6. Few(c)'
  <2>1. PICK k \in Nat : Below(k) /\ late + k <= 1 + PipeCap + c
    BY DEF Few
  <2>2. PICK j \in Nat : Ahead(j) /\ late + j <= 1 + PipeCap
    BY DEF Few
  <2>3. Ahead(j)'
    BY <1>1, <2>2 DEF Ahead
  <2> QED
    BY <1>1, <1>5, <2>1, <2>2, <2>3 DEF Few
<1> QED
  BY <1>4, <1>6

\* So are the 0-byte buffers of a client that has gone.
LEMMA GoneFew ==
  ASSUME RingTypes, NEW c \in Nat, Few(c), DataDisconnect
  PROVE  RingTypes' /\ Few(c)'
<1> DEFINE n == [i \in 1 .. R |-> "new"]
<1>1. /\ hand = <<>> /\ pipe = <<>> /\ Outstanding = R
      /\ store' = store \o n /\ hand' = <<>> /\ pipe' = <<>> /\ late' = late
  BY DEF DataDisconnect, Reading, hist
<1>2. n \in Seq(Buffers) /\ Len(n) = R /\ \A i \in 1 .. R : n[i] = "new"
  BY ReservedOf
<1> HIDE DEF n
<1>3. /\ Len(store) \in Nat /\ Len(hand) = 0 /\ late \in Nat /\ Len(hand') = 0 /\ Len(pipe') = 0
      /\ store' \in Seq(Buffers) /\ Len(store') = Len(store) + R
      /\ \A i \in 1 .. Len(store) : store'[i] = store[i]
      /\ \A i \in 1 .. R : store'[Len(store) + i] = "new"
  BY <1>1, <1>2, CatOf, EmptyOf DEF RingTypes
<1>4. Len(store) + R <= N - 1
  BY <1>1, <1>3, Numbers DEF Outstanding
<1>5. RingTypes'
  BY <1>1, <1>3, <1>4, EmptyOf, Numbers DEF RingTypes
<1>6. ASSUME NEW k \in Nat, Ahead(k) PROVE Below(k)'
  <2>1. ASSUME NEW i \in 1 .. Len(store'), store'[i] = "stale" PROVE i <= k
    <3>1. CASE i <= Len(store)
      <4>1. i \in 1 .. Len(store)
        BY <1>3, <3>1
      <4> QED
        BY <1>3, <1>6, <2>1, <4>1 DEF Ahead
    <3>2. CASE i > Len(store)
      <4>1. i - Len(store) \in 1 .. R /\ i = Len(store) + (i - Len(store))
        BY <1>3, <3>2, Numbers
      <4>2. store'[i] = "new"
        BY <1>3, <4>1
      <4> QED
        BY <2>1, <4>2
    <3> QED
      BY <1>3, <3>1, <3>2
  <2> QED
    BY <1>3, <2>1 DEF Ahead, Below
<1>7. Few(c)'
  <2>1. PICK j \in Nat : Ahead(j) /\ late + j <= 1 + PipeCap
    BY DEF Few
  <2>2. late' + j <= 1 + PipeCap + c
    BY <1>1, <1>3, <2>1, Numbers
  <2> QED
    BY <1>1, <1>6, <2>1, <2>2 DEF Few, Below
<1> QED
  BY <1>5, <1>7

\* A purge that is carried out drops what the outstanding requests have read,
LEMMA PurgingFew ==
  ASSUME RingTypes, Few(R), Purging
  PROVE  RingTypes' /\ Few(0)' /\ (Holds(R) => Holds(0)')
<1>1. /\ hand = <<>> /\ store' = <<>> /\ hand' = <<>> /\ pipe' = Cancel(pipe) /\ late' = late
  BY DEF Purging, Reading, hist
<1>2. PICK p \in Seq(Buffers) : p = Cancel(pipe)
  BY CancelOf DEF RingTypes
<1>3. /\ Len(store) \in Nat /\ Len(hand) = 0 /\ Len(pipe) \in Nat /\ late \in Nat /\ Len(p) \in Nat
      /\ \/ Len(pipe) >= R /\ Len(p) = Len(pipe) - R
         \/ Len(pipe) < R /\ Len(p) = 0
      /\ \A i \in 1 .. Len(p) : R + i \in 1 .. Len(pipe) /\ p[i] = pipe[R + i]
  <2>1. /\ \/ Len(pipe) >= R /\ Len(p) = Len(pipe) - R
           \/ Len(pipe) < R /\ Len(p) = 0
        /\ \A i \in 1 .. Len(p) : R + i \in 1 .. Len(pipe) /\ p[i] = pipe[R + i]
    BY <1>2, CancelOf DEF RingTypes
  <2>2. /\ Len(store) \in Nat /\ Len(hand) = 0 /\ Len(pipe) \in Nat /\ late \in Nat
        /\ Len(p) \in Nat
    BY <1>1, <1>2, EmptyOf DEF RingTypes
  <2> QED
    BY <2>1, <2>2
<1>4. pipe' = p /\ Len(store') = 0 /\ Len(hand') = 0
  BY <1>1, <1>2, EmptyOf
<1>5. RingTypes'
  BY <1>1, <1>2, <1>3, <1>4, EmptyOf, Numbers DEF RingTypes
<1>6. PICK k \in Nat : Below(k) /\ late + k <= 1 + PipeCap + R
  BY DEF Few
<1>7. PICK j \in Nat : Ahead(j) /\ late + j <= 1 + PipeCap
  BY DEF Few
<1>8. PICK m \in Nat : (k >= R => m = k - R) /\ (k < R => m = 0)
  <2>1. CASE k >= R
    <3>1. k - R \in Nat
      BY <2>1, Numbers
    <3> QED
      BY <2>1, <3>1, Numbers
  <2>2. CASE k < R
    BY <2>2, Numbers
  <2> QED
    BY <2>1, <2>2, Numbers
<1>9. late + m <= 1 + PipeCap
  BY <1>3, <1>6, <1>7, <1>8, Numbers
<1>10. Ahead(m)'
  BY <1>4 DEF Ahead
<1>11. ASSUME NEW i \in 1 .. Len(p), p[i] = "stale" PROVE i <= m
  <2>1. Len(store) + Len(hand) + (R + i) <= k
    BY <1>3, <1>6, <1>11 DEF Below
  <2> QED
    BY <1>3, <1>8, <2>1, Numbers
<1>12. Below(m)'
  BY <1>3, <1>4, <1>10, <1>11 DEF Below
<1>13. Few(0)'
  <2>1. late + m <= 1 + PipeCap + 0
    BY <1>9, Numbers
  <2> QED
    BY <1>1, <1>9, <1>10, <1>12, <2>1 DEF Few
<1>14. Holds(R) => Holds(0)'
  BY <1>3, <1>4, Numbers DEF Holds
<1> QED
  BY <1>5, <1>13, <1>14

\* and one that is asked for leaves the one in hand and the kernel's.
LEMMA PurgeFew ==
  ASSUME RingTypes, NEW c \in Nat, Few(c), c \in {0, R},
         store' = <<>>, hand' = hand, pipe' = pipe, late' = late
  PROVE  RingTypes' /\ Few(R)' /\ Holds(R)'
<1>1. /\ Len(store) \in Nat /\ Len(hand) \in Nat /\ Len(pipe) \in Nat /\ late \in Nat
      /\ Len(store') = 0 /\ Len(hand) <= 1 /\ Len(pipe) <= R + PipeCap
  BY EmptyOf DEF RingTypes
<1>2. RingTypes'
  BY <1>1, EmptyOf, Numbers DEF RingTypes
<1>3. Holds(R)'
  BY <1>1, Numbers DEF Holds
<1>4. ASSUME NEW k \in Nat, Ahead(k) PROVE Ahead(k)'
  BY <1>1, <1>4 DEF Ahead
<1>5. ASSUME NEW k \in Nat, Below(k) PROVE Below(k)'
  BY <1>1, <1>4, <1>5 DEF Below
<1>6. Few(R)'
  <2>1. PICK k \in Nat : Below(k) /\ late + k <= 1 + PipeCap + c
    BY DEF Few
  <2>2. late + k <= 1 + PipeCap + R
    BY <1>1, <2>1, Numbers
  <2>3. PICK j \in Nat : Ahead(j) /\ late + j <= 1 + PipeCap
    BY DEF Few
  <2> QED
    BY <1>4, <1>5, <2>1, <2>2, <2>3 DEF Few
<1> QED
  BY <1>2, <1>3, <1>6

\* The move in the file makes everything old, of which the receiver then holds little.
LEMMA MoveFew ==
  ASSUME RingTypes, NEW c \in Nat, Holds(c), late' = 0,
         store' = [i \in DOMAIN store |-> "stale"], hand' = [i \in DOMAIN hand |-> "stale"],
         pipe' = [i \in DOMAIN pipe |-> "stale"]
  PROVE  RingTypes' /\ Few(c)'
<1>1. /\ store' \in Seq(Buffers) /\ hand' \in Seq(Buffers) /\ pipe' \in Seq(Buffers)
      /\ Len(store') = Len(store) /\ Len(hand') = Len(hand) /\ Len(pipe') = Len(pipe)
      /\ Len(store) \in Nat /\ Len(hand) \in Nat /\ Len(pipe) \in Nat
  BY OldOf DEF RingTypes
<1>2. RingTypes'
  BY <1>1, Numbers DEF RingTypes
<1>3. PICK k \in Nat : k = Len(store) + Len(hand) + Len(pipe)
  BY <1>1
<1>4. PICK j \in Nat : j = Len(store) + Len(hand)
  BY <1>1
<1>5. 0 + k <= 1 + PipeCap + c /\ 0 + j <= 1 + PipeCap
  BY <1>1, <1>3, <1>4, Numbers DEF Holds
<1>6. Ahead(k)' /\ Below(k)' /\ Ahead(j)'
  <2>1. \A i \in 1 .. Len(store) : i <= j /\ i <= k
    BY <1>1, <1>3, <1>4
  <2>2. \A i \in 1 .. Len(hand) : Len(store) + i <= j /\ Len(store) + i <= k
    BY <1>1, <1>3, <1>4
  <2>3. \A i \in 1 .. Len(pipe) : Len(store) + Len(hand) + i <= k
    BY <1>1, <1>3
  <2>4. Ahead(k)' /\ Ahead(j)'
    BY <1>1, <2>1, <2>2 DEF Ahead
  <2> QED
    BY <1>1, <2>3, <2>4 DEF Below
<1> QED
  BY <1>2, <1>5, <1>6 DEF Few

\* It holds before a file is opened and a channel selected.
LEMMA RInvInit == Init => RInv
<1> SUFFICES ASSUME Init PROVE RInv
  OBVIOUS
<1>1. /\ store = <<>> /\ hand = <<>> /\ pipe = <<>> /\ late = 0 /\ purge = FALSE /\ at = "closed"
  BY Zenon DEF Init
<1>2. Len(store) = 0 /\ Len(hand) = 0 /\ Len(pipe) = 0
  BY <1>1, EmptyOf
<1>3. RingTypes
  BY <1>1, <1>2, EmptyOf, Numbers DEF RingTypes
<1>4. Below(0) /\ Ahead(0) /\ late + 0 <= 1 + PipeCap + 0 /\ late + 0 <= 1 + PipeCap
  BY <1>1, <1>2, Numbers DEF Below, Ahead
<1>5. Few(0)
  BY <1>4 DEF Few
<1>6. FewStale /\ Emptied
  BY <1>1, <1>5 DEF FewStale, Emptied, Purged
<1> QED
  BY <1>3, <1>6 DEF RInv

\* Which bound is kept.
LEMMA Bounded ==
  ASSUME FewStale, purge \in BOOLEAN
  PROVE  \E c \in {0, R} : c \in Nat /\ Few(c) /\ (purge => c = R) /\ (~purge => c = 0)
<1>1. CASE purge
  BY <1>1, Numbers DEF FewStale
<1>2. CASE ~purge
  BY <1>2, Numbers DEF FewStale
<1> QED
  BY <1>1, <1>2

\* Steps of the receiver.
LEMMA RingSteps ==
  ASSUME LInv, RInv, purge \in BOOLEAN,
         ReadThread \/ GetTsStream \/ Release \/ \E c \in Channels : SetChannel(c)
  PROVE  RInv' /\ purge' \in BOOLEAN
<1>1. RingTypes /\ FewStale /\ Emptied
  BY DEF RInv
<1>2. Purged' <=> Purged
  <2>1. UNCHANGED <<at, plan, ok>>
    BY DEF ReadThread, ReceiveOne, Publish, Purging, DataDisconnect, GetTsStream, Release,
           SetChannel, sender, call
  <2> QED
    BY <2>1, Zenon DEF Purged
<1>3. PICK c \in {0, R} : c \in Nat /\ Few(c) /\ (purge => c = R) /\ (~purge => c = 0)
  BY <1>1, Bounded
<1>4. Purged => Holds(c)
  BY <1>1, <1>3 DEF Emptied
<1>5. ASSUME purge' = purge, dsrv' = dsrv, hPipe' = hPipe, RingTypes', Few(c)', Holds(c) => Holds(c)'
      PROVE  RInv' /\ purge' \in BOOLEAN
  <2>1. FewStale'
    BY <1>3, <1>5 DEF FewStale
  <2>2. Emptied'
    BY <1>1, <1>2, <1>3, <1>4, <1>5 DEF Emptied
  <2> QED
    BY <1>5, <2>1, <2>2 DEF RInv
<1>6. CASE GetTsStream
  <2>1. purge' = purge /\ dsrv' = dsrv /\ hPipe' = hPipe
    BY <1>6 DEF GetTsStream, channel, sender, handles
  <2> QED
    BY <1>1, <1>3, <1>5, <1>6, <2>1, TakeFew
<1>7. CASE Publish
  <2>1. purge' = purge /\ dsrv' = dsrv /\ hPipe' = hPipe
    BY <1>7 DEF Publish, channel, sender, handles
  <2> QED
    BY <1>1, <1>3, <1>5, <1>7, <2>1, PublishFew
<1>8. CASE ReceiveOne
  <2>1. ~purge /\ purge' = purge /\ dsrv' = dsrv /\ hPipe' = hPipe
    BY <1>8 DEF ReceiveOne, channel, sender, handles
  <2> QED
    BY <1>1, <1>3, <1>5, <1>8, <2>1, ReceiveFew
<1>9. CASE Purging
  <2>1. purge /\ purge' = FALSE /\ dsrv' = dsrv /\ hPipe' = hPipe
    BY <1>9 DEF Purging, channel, sender, handles
  <2>2. RingTypes' /\ Few(0)' /\ (Holds(R) => Holds(0)')
    BY <1>1, <1>3, <1>9, <2>1, PurgingFew
  <2>3. FewStale'
    BY <2>1, <2>2 DEF FewStale
  <2>4. Emptied'
    BY <1>1, <1>2, <2>1, <2>2 DEF Emptied
  <2> QED
    BY <2>1, <2>2, <2>3, <2>4 DEF RInv
<1>10. CASE DataDisconnect
  <2>1. purge' = purge /\ dsrv = "open" /\ hPipe # "up"
    BY <1>10 DEF DataDisconnect, Reading
  <2>2. ~Purged
    BY <1>1, <2>1 DEF Emptied
  <2>3. RingTypes' /\ Few(c)'
    BY <1>1, <1>3, <1>10, GoneFew
  <2>4. FewStale' /\ Emptied'
    BY <1>2, <1>3, <2>1, <2>2, <2>3 DEF FewStale, Emptied
  <2> QED
    BY <2>1, <2>3, <2>4 DEF RInv
<1>11. CASE Release \/ \E d \in Channels : SetChannel(d)
  <2>1. /\ store' = <<>> /\ hand' = <<>> /\ pipe' = <<>> /\ purge' = FALSE /\ late' = late
        /\ dsrv' # "open"
    BY <1>11 DEF Release, SetChannel, ResetChannel
  <2>2. RingTypes' /\ Few(0)' /\ Holds(0)'
    BY <1>1, <1>3, <2>1, ResetFew, Numbers
  <2>3. FewStale' /\ Emptied'
    BY <2>1, <2>2 DEF FewStale, Emptied
  <2> QED
    BY <2>1, <2>2, <2>3 DEF RInv
<1> QED
  BY <1>6, <1>7, <1>8, <1>9, <1>10, <1>11 DEF ReadThread

\* Steps that leave what the receiver holds as it is.
LEMMA RingKept ==
  ASSUME RInv, purge \in BOOLEAN, UNCHANGED <<store, hand, pipe, purge, late>>,
         Purged' => Purged /\ (dsrv' = "open" => hPipe' = "up")
  PROVE  RInv' /\ purge' \in BOOLEAN
<1>1. RingTypes /\ FewStale /\ Emptied
  BY DEF RInv
<1>2. RingTypes'
  BY <1>1 DEF RingTypes
<1>3. PICK c \in {0, R} : c \in Nat /\ Few(c) /\ (purge => c = R) /\ (~purge => c = 0)
  BY <1>1, Bounded
<1>4. Few(c)' /\ (Holds(c) => Holds(c)')
  BY <1>3 DEF Few, Below, Ahead, Holds
<1>5. FewStale'
  BY <1>3, <1>4 DEF FewStale
<1>6. Emptied'
  BY <1>1, <1>3, <1>4 DEF Emptied
<1> QED
  BY <1>2, <1>5, <1>6 DEF RInv

\* The steps of the sender, of the control pipe and of a selection that ends.
LEMMA SenderSteps ==
  ASSUME LInv, RInv, purge \in BOOLEAN, [Next]_vars
  PROVE  RInv' /\ purge' \in BOOLEAN
<1>1. RingTypes /\ FewStale /\ Emptied /\ Linked /\ Planned
  BY DEF RInv, LInv
<1>2. PICK c \in {0, R} : c \in Nat /\ Few(c) /\ (purge => c = R) /\ (~purge => c = 0)
  BY <1>1, Bounded
<1>3. CASE Write
  <2>1. purge' = purge /\ at' = "write"
    BY <1>3 DEF Write, call
  <2>2. RingTypes' /\ Few(c)'
    BY <1>1, <1>2, <1>3, WriteFew
  <2>3. FewStale' /\ Emptied'
    BY <1>2, <2>1, <2>2 DEF FewStale, Emptied, Purged
  <2> QED
    BY <2>1, <2>2, <2>3 DEF RInv
<1>4. CASE PipeMessage
  <2>1. /\ at = "call" /\ at' = "reply" /\ hCtrl = "up" /\ plan' = plan /\ hPipe' = hPipe
        /\ hand' = hand /\ pipe' = pipe /\ late' = late
    BY <1>4 DEF PipeMessage, handles
  <2>2. CASE Head(plan) = "PURGE"
    <3>1. store' = <<>> /\ purge' = TRUE
      BY <1>4, <2>2 DEF PipeMessage
    <3>2. RingTypes' /\ Few(R)' /\ Holds(R)'
      BY <1>1, <1>2, <2>1, <3>1, PurgeFew
    <3>3. hPipe' = "up"
      BY <1>1, <2>1 DEF Linked
    <3>4. FewStale' /\ Emptied'
      BY <3>1, <3>2, <3>3 DEF FewStale, Emptied
    <3> QED
      BY <3>1, <3>2, <3>4 DEF RInv
  <2>3. CASE Head(plan) # "PURGE"
    <3>1. store' = store /\ purge' = purge
      BY <1>4, <2>3 DEF PipeMessage
    <3>2. plan # <<"PURGE">>
      BY <2>3, OneRequest
    <3>3. ~Purged'
      BY <2>1, <3>2 DEF Purged
    <3> QED
      BY <2>1, <3>1, <3>3, RingKept
  <2> QED
    BY <2>2, <2>3
<1>5. CASE SeekDone
  <2>1. /\ at = "seek" /\ purge' = purge
        /\ \/ UNCHANGED <<store, hand, pipe, late>>
           \/ /\ ok /\ late' = 0 /\ store' = [i \in DOMAIN store |-> "stale"]
              /\ hand' = [i \in DOMAIN hand |-> "stale"] /\ pipe' = [i \in DOMAIN pipe |-> "stale"]
    BY <1>5 DEF SeekDone
  <2>2. ~Purged'
    BY <1>5, WorkKeeps DEF Working, Purged
  <2>3. CASE UNCHANGED <<store, hand, pipe, late>>
    BY <2>1, <2>2, <2>3, RingKept
  <2>4. CASE ~ UNCHANGED <<store, hand, pipe, late>>
    <3>1. Holds(c)
      BY <1>1, <1>2, <2>1, <2>4 DEF Emptied, Purged
    <3>2. RingTypes' /\ Few(c)'
      BY <1>1, <1>2, <2>1, <2>4, <3>1, MoveFew
    <3>3. FewStale' /\ Emptied'
      BY <1>2, <2>1, <2>2, <3>2 DEF FewStale, Emptied
    <3> QED
      BY <2>1, <3>2, <3>3 DEF RInv
  <2> QED
    BY <2>3, <2>4
<1>6. CASE Working /\ ~SeekDone
  <2>1. UNCHANGED <<store, hand, pipe, purge, late>>
    BY <1>6, Zenon DEF Working, PauseGapless, PausePurge, Resume, Seek, Close, Open, Send,
           SendEmptyPat, GaplessDone, PurgeDone, ResumeDone, CloseDone, SendReady, WriteDone,
           hist, ring
  <2>2. ~Purged'
    BY <1>6, WorkKeeps DEF Purged
  <2> QED
    BY <2>1, <2>2, RingKept
<1>7. CASE Refused \/ Reply \/ NoReply
  <2>1. UNCHANGED <<store, hand, pipe, purge, late, hPipe, dsrv>> /\ Asking
    BY <1>7, Zenon DEF Refused, Reply, NoReply, hist, ring, channel, handles, Asking
  <2>2. PICK x, y : Answered(x, y) /\ (x = FALSE \/ at = "reply")
    BY <1>7, Zenon DEF Refused, Reply, NoReply
  <2>3. /\ ok' = x
        /\ \/ /\ plan # <<"PAUSE 0", "PURGE">> /\ at' = goal /\ goal' = "idle"
              /\ goal \in {"gapless", "purged", "seek", "close", "resumed", "send", "idle"}
           \/ /\ plan = <<"PAUSE 0", "PURGE">> /\ goal \in {"purged", "seek", "close"}
              /\ at' = "call" /\ goal' = goal /\ plan' = <<"PURGE">>
    BY <1>1, <2>1, <2>2, AnsweredGoes
  <2>4. ASSUME Purged' PROVE Purged
    <3>1. at' = "seek" /\ ok'
      BY <2>3, <2>4 DEF Purged
    <3>2. at = "reply" /\ goal = "seek" /\ plan # <<"PAUSE 0", "PURGE">>
      BY <2>2, <2>3, <3>1
    <3>3. plan = <<"PURGE">>
      BY <1>1, <2>1, <3>2 DEF Planned
    <3> QED
      BY <3>2, <3>3 DEF Purged
  <2> QED
    BY <1>1, <2>1, <2>4, RingKept DEF Emptied
<1>8. CASE OpenPipe \/ WriteFails \/ SetDestination
  <2>1. UNCHANGED <<store, hand, pipe, purge, late, at>> /\ at \in {"write", "idle"}
    BY <1>8, Zenon DEF OpenPipe, WriteFails, SetDestination, hist, ring, call
  <2> QED
    BY <2>1, RingKept DEF Purged
<1>9. CASE SetChannelEnd \/ CtrlDisconnect \/ UNCHANGED vars
  <2>1. UNCHANGED <<store, hand, pipe, purge, late, at, plan, ok, dsrv, hPipe>>
    BY <1>9, Zenon
       DEF SetChannelEnd, CtrlDisconnect, vars, hist, ring, sender, call, handles, channel
  <2>2. Purged' => Purged /\ (dsrv' = "open" => hPipe' = "up")
    BY <1>1, <2>1, Zenon DEF Purged, Emptied
  <2> QED
    BY <2>1, <2>2, RingKept
<1>10. CASE ReadThread \/ GetTsStream \/ Release \/ \E d \in Channels : SetChannel(d)
  BY <1>10, RingSteps
<1> QED
  BY <1>3, <1>4, <1>5, <1>6, <1>7, <1>8, <1>9, <1>10 DEF Next, SenderStep, Command, Working

\* All of it holds together,
LEMMA RInvHolds == Spec => [](LInv /\ RInv /\ purge \in BOOLEAN)
<1>1. Init => LInv /\ RInv /\ purge \in BOOLEAN
  BY LInvInit, RInvInit DEF Init
<1>2. LInv /\ RInv /\ purge \in BOOLEAN /\ [Next]_vars => (LInv /\ RInv /\ purge \in BOOLEAN)'
  BY LInvStep, SenderSteps
<1> QED
  BY <1>1, <1>2, PTL DEF Spec

\* so that of what was sent before a seek (a PURGE that was answered, and the move in the file)
\* at most the buffer in hand and what the kernel holds beyond the outstanding requests reach
\* the application, whatever the sizes and however slow the read thread is.
THEOREM SeeksClean == Spec => []CleanSeek
<1>1. RInv /\ purge \in BOOLEAN => CleanSeek
  <2> SUFFICES ASSUME RInv, purge \in BOOLEAN PROVE late <= 1 + PipeCap
    BY DEF CleanSeek
  <2>1. PICK c \in {0, R} : Few(c)
    BY Bounded DEF RInv
  <2>2. PICK k \in Nat : late + k <= 1 + PipeCap
    BY <2>1 DEF Few
  <2> QED
    BY <2>2, Numbers DEF RInv, RingTypes
<1> QED
  BY <1>1, RInvHolds, PTL

\* The variables of the sender that are not requests, and of the driver.
Rest == SenderTypes /\ DriverTypes /\ full \in BOOLEAN /\ pat \in BOOLEAN

\* They keep their types.
LEMMA RestStep ==
  ASSUME LInv, Rest, [Next]_vars
  PROVE  Rest'
<1>1. CASE Working
  <2>1. PICK q, g : Ask(q, g) /\ Shaped(q, g)
    BY <1>1, WorkFits
  <2>2. at' \in {"call", g} /\ plan' = q /\ full' = FALSE
    BY <2>1 DEF Ask
  <2>3. /\ g \in {"idle", "gapless", "purged", "resumed", "seek", "close", "closed", "send", "write"}
        /\ q \in Requests \union {<<>>}
    BY <2>1 DEF Shaped, Requests
  <2>4. /\ num' \in {num, NoPipe} /\ hPipe' \in {hPipe, "none"} /\ hCtrl' \in {hCtrl, "none"}
        /\ pat' \in {pat, TRUE, FALSE} /\ what' \in {what, "data", "PAT"}
        /\ UNCHANGED <<channel, rep>>
    BY <1>1 DEF Working, PauseGapless, PausePurge, Resume, Seek, Close, Open, Send, SendEmptyPat,
           GaplessDone, PurgeDone, ResumeDone, SeekDone, CloseDone, SendReady, WriteDone,
           control, handles, writing
  <2>5. left' \in {left, 1} \/ left' \in 1 .. Burst
    BY <1>1 DEF Working, PauseGapless, PausePurge, Resume, Seek, Close, Open, Send, SendEmptyPat,
           GaplessDone, PurgeDone, ResumeDone, SeekDone, CloseDone, SendReady, WriteDone, writing
  <2>6. left' \in 0 .. Burst
    BY <2>5, LinkAssumption DEF Rest, SenderTypes
  <2>7. SenderTypes'
    BY <2>2, <2>3, <2>4, <2>6 DEF Rest, SenderTypes, Handles
  <2>8. DriverTypes'
    BY <2>4 DEF Rest, DriverTypes, channel
  <2>9. full' \in BOOLEAN /\ pat' \in BOOLEAN
    BY <2>2, <2>4, Zenon DEF Rest
  <2> QED
    BY <2>7, <2>8, <2>9 DEF Rest
<1>2. CASE Refused \/ Reply \/ NoReply
  <2>1. /\ Asking /\ num' = num /\ hPipe' = hPipe /\ hCtrl' \in {hCtrl, "none"} /\ pat' = pat
        /\ left' = left /\ what' = what /\ UNCHANGED channel /\ rep' \in {rep, "none"}
    BY <1>2 DEF Refused, Reply, NoReply, control, handles, writing, Asking
  <2>2. PICK x, y : Answered(x, y) /\ y \in BOOLEAN
    <3>1. PICK f \in BOOLEAN : f = (rep = "full")
      OBVIOUS
    <3> QED
      BY <1>2, <3>1, Zenon DEF Refused, Reply, NoReply
  <2>3. full' = y /\ plan' = Tail(plan)
    BY <2>2 DEF Answered
  <2>4. at' \in {"gapless", "purged", "seek", "close", "resumed", "send", "idle", "call"}
    BY <2>1, <2>2, AnsweredGoes DEF LInv
  <2>5. plan' \in {<<>>, <<"PURGE">>}
    <3>1. \A x1 : Tail(<<x1>>) = <<>>
      OBVIOUS
    <3>2. Tail(<<"PAUSE 0", "PURGE">>) = <<"PURGE">>
      BY TwoRequests
    <3> QED
      BY <2>1, <2>3, <3>1, <3>2 DEF LInv, Planned
  <2>6. SenderTypes'
    BY <2>1, <2>4, <2>5 DEF Rest, SenderTypes, Handles, Requests
  <2>7. DriverTypes'
    BY <2>1 DEF Rest, DriverTypes, channel
  <2>8. full' \in BOOLEAN /\ pat' \in BOOLEAN
    BY <2>1, <2>2, <2>3, Zenon DEF Rest
  <2> QED
    BY <2>6, <2>7, <2>8 DEF Rest
<1>3. CASE PipeMessage
  <2>1. /\ UNCHANGED <<num, hPipe, hCtrl, plan, left, what, chan, told, dsrv, csrv, full, pat>>
        /\ at' = "reply" /\ rep' \in {"yes", "full"}
    BY <1>3 DEF PipeMessage, control, handles, writing, channel
  <2>2. SenderTypes'
    BY <2>1 DEF Rest, SenderTypes
  <2>3. DriverTypes'
    BY <2>1 DEF Rest, DriverTypes
  <2> QED
    BY <2>1, <2>2, <2>3, Zenon DEF Rest
<1>4. CASE OpenPipe \/ Write \/ WriteFails \/ SetDestination
  <2>1. /\ num' \in {num, told} /\ hPipe' \in {hPipe, "up", "none"} /\ hCtrl' \in {hCtrl, "up", "none"}
        /\ UNCHANGED <<at, plan, what, chan, told, full, pat, rep>>
        /\ dsrv' \in {dsrv, "open"} /\ csrv' \in {csrv, "open"}
    BY <1>4
       DEF OpenPipe, Write, WriteFails, SetDestination, control, handles, call, writing, channel
  <2>2. left' \in 0 .. Burst
    <3>1. left' = left \/ (left > 0 /\ left' = left - 1)
      BY <1>4 DEF OpenPipe, Write, WriteFails, SetDestination, writing
    <3>2. left \in 0 .. Burst /\ Burst \in Nat
      BY LinkAssumption DEF Rest, SenderTypes
    <3> QED
      BY <3>1, <3>2
  <2>3. SenderTypes'
    BY <2>1, <2>2 DEF Rest, SenderTypes, DriverTypes, Handles
  <2>4. DriverTypes'
    BY <2>1 DEF Rest, DriverTypes
  <2> QED
    BY <2>1, <2>3, <2>4, Zenon DEF Rest
<1>5. CASE \/ \E c \in Channels : SetChannel(c)
           \/ SetChannelEnd \/ Release \/ CtrlDisconnect \/ ReadThread \/ GetTsStream \/ UNCHANGED vars
  <2>1. /\ UNCHANGED <<num, at, plan, left, what, full, pat>>
        /\ hPipe' \in {hPipe, "broken"} /\ hCtrl' \in {hCtrl, "broken"}
    BY <1>5 DEF SetChannel, SetChannelEnd, Release, ResetChannel, CtrlDisconnect, ReadThread,
           ReceiveOne, Publish, Purging, DataDisconnect, GetTsStream, vars, sender, control, handles,
           call, writing
  <2>2. /\ chan' \in Channels \union {chan, NoPipe} /\ told' \in {told, chan, NoPipe}
        /\ dsrv' \in {dsrv, "listen", "none"} /\ csrv' \in {csrv, "listen", "none"}
        /\ rep' \in {rep, "none"}
    BY <1>5 DEF SetChannel, SetChannelEnd, Release, ResetChannel, CtrlDisconnect, ReadThread,
           ReceiveOne, Publish, Purging, DataDisconnect, GetTsStream, vars, channel
  <2>3. SenderTypes'
    BY <2>1 DEF Rest, SenderTypes, Handles
  <2>4. DriverTypes'
    BY <2>2 DEF Rest, DriverTypes
  <2> QED
    BY <2>1, <2>3, <2>4, Zenon DEF Rest
<1> QED
  BY <1>1, <1>2, <1>3, <1>4, <1>5 DEF Next, SenderStep, Command, Working

\* Every variable has its type, and the ring never overflows: what is ready and what is in hand
\* leave room (ASYNCBUFFSIZE), and the kernel holds no more than the outstanding requests
\* (REQRESERVNUM) and its buffer.
THEOREM TypeCorrect == Spec => []TypeOK
<1> DEFINE I == LInv /\ RInv /\ purge \in BOOLEAN
<1>1. Init => Rest
  <2> SUFFICES ASSUME Init PROVE Rest
    OBVIOUS
  <2>1. SenderTypes
    BY LinkAssumption DEF Init, SenderTypes, Handles
  <2>2. DriverTypes
    BY DEF Init, DriverTypes
  <2> QED
    BY <2>1, <2>2, Zenon DEF Init, Rest
<1>2. I /\ Rest /\ [Next]_vars => Rest'
  BY RestStep
<1>3. I /\ Rest => TypeOK
  <2> SUFFICES ASSUME I, Rest PROVE TypeOK
    OBVIOUS
  <2>1. FlagTypes
    BY Zenon DEF LInv, Flags, Rest, FlagTypes
  <2> QED
    BY <2>1 DEF RInv, Rest, TypeOK
<1>4. Spec => []I
  BY RInvHolds
<1> HIDE DEF I
<1> QED
  BY <1>1, <1>2, <1>3, <1>4, PTL DEF Spec

-----------------------------------------------------------------------------
(* What a pause keeps *)

\* The receiver was asked to pause, and has done so or lost its channel since.
Held == (at = "gapless" /\ ok) \/ (at = "reply" /\ goal = "gapless")

\* While something is kept the receiver is paused, is not purged and is sent no request.
Guarded ==
  kept # <<>> => /\ pause /\ ~purged /\ ~purge /\ rpause
                 /\ at = "idle" \/ (at = "write" /\ what = "PAT")

\* A receiver that lost its channel after it was asked to pause holds nothing.
Emptied0 == Held /\ orphan => store = <<>> /\ hand = <<>> /\ pipe = <<>> /\ dsrv # "open"

KInv == kept \in Seq(Buffers) /\ IsPrefix(kept, Content) /\ Guarded /\ Emptied0

\* A prefix stays one when more is added behind.
LEMMA PrefixGrows ==
  ASSUME NEW k \in Seq(Buffers), NEW q \in Seq(Buffers), NEW x \in Seq(Buffers), IsPrefix(k, q)
  PROVE  IsPrefix(k, q \o x)
<1>1. /\ Len(k) \in Nat /\ Len(q) \in Nat /\ Len(k) <= Len(q)
      /\ SubSeq(k, 1, Len(k)) = SubSeq(q, 1, Len(k))
  BY DEF IsPrefix
<1>2. q \o x \in Seq(Buffers) /\ Len(q \o x) = Len(q) + Len(x) /\ Len(x) \in Nat
  BY CatOf
<1>3. SubSeq(q \o x, 1, Len(k)) = SubSeq(q, 1, Len(k))
  <2>1. CASE Len(k) = 0
    BY <1>2, <2>1
  <2>2. CASE Len(k) > 0
    BY <1>1, <2>2, SubSeqOfConcat1
  <2> QED
    BY <1>1, <2>1, <2>2
<1> QED
  BY <1>1, <1>2, <1>3 DEF IsPrefix

\* The empty sequence is a prefix of every one, and every one of itself.
LEMMA PrefixTrivial == ASSUME NEW q \in Seq(Buffers) PROVE IsPrefix(<<>>, q) /\ IsPrefix(q, q)
<1>1. Len(<<>>) = 0 /\ Len(q) \in Nat
  OBVIOUS
<1>2. SubSeq(<<>>, 1, 0) = <<>> /\ SubSeq(q, 1, 0) = <<>>
  OBVIOUS
<1> QED
  BY <1>1, <1>2 DEF IsPrefix

\* The read thread and the sender only add to what a paused receiver holds.
LEMMA ContentGrows ==
  ASSUME RingTypes, ReceiveOne \/ Publish \/ Write \/ DataDisconnect
  PROVE  \E x \in Seq(Buffers) : Content' = Content \o x
<1>1. store \in Seq(Buffers) /\ hand \in Seq(Buffers) /\ pipe \in Seq(Buffers) /\ <<>> \in Seq(Buffers)
  BY EmptyOf DEF RingTypes
<1>2. Content \in Seq(Buffers) /\ Content \o <<>> = Content /\ store \o hand \in Seq(Buffers)
  BY <1>1, CatOf, ConcatEmptySeq DEF Content
<1>3. CASE ReceiveOne
  <2>1. hand = <<>> /\ pipe # <<>> /\ store' = store /\ hand' = <<Head(pipe)>> /\ pipe' = Tail(pipe)
    BY <1>3 DEF ReceiveOne, Reading
  <2>2. Head(pipe) \in Buffers /\ Tail(pipe) \in Seq(Buffers)
    BY <1>1, <2>1, TailOf
  <2>3. PICK h \in Seq(Buffers) : h = <<Head(pipe)>>
    BY <2>2, OneOf
  <2>4. h \o Tail(pipe) = pipe
    BY <1>1, <2>1, <2>2, <2>3
  <2>5. (store \o h) \o Tail(pipe) = store \o (h \o Tail(pipe))
    BY <1>1, <2>2, ConcatAssociative, SMTT(30)
  <2>6. Content = store \o pipe
    BY <1>1, <2>1, ConcatEmptySeq DEF Content
  <2>7. Content' = Content
    BY <2>1, <2>3, <2>4, <2>5, <2>6 DEF Content
  <2> QED
    BY <1>1, <1>2, <2>7
<1>4. CASE Publish
  <2>1. store' = store \o hand /\ hand' = <<>> /\ pipe' = pipe
    BY <1>4 DEF Publish
  <2>2. (store \o hand) \o <<>> = store \o hand
    BY <1>2, ConcatEmptySeq
  <2> QED
    BY <1>1, <1>2, <2>1, <2>2 DEF Content
<1>5. CASE Write
  <2>1. store' = store /\ hand' = hand /\ pipe' = Append(pipe, "new") /\ "new" \in Buffers
    BY <1>5 DEF Write, Buffers
  <2>2. PICK x \in Seq(Buffers) : x = <<"new">>
    BY <2>1, OneOf
  <2>3. Append(pipe, "new") = pipe \o x
    BY <1>1, <2>1, <2>2, AppendIsConcat
  <2>4. PICK a \in Seq(Buffers) : a = store \o hand
    BY <1>2
  <2>5. (a \o pipe) \o x = a \o (pipe \o x)
    BY <1>1, ConcatAssociative, SMTT(30)
  <2> QED
    BY <2>1, <2>3, <2>4, <2>5 DEF Content
<1>6. CASE DataDisconnect
  <2> DEFINE n == [i \in 1 .. R |-> "new"]
  <2>1. hand = <<>> /\ pipe = <<>> /\ store' = store \o n /\ hand' = hand /\ pipe' = pipe
    BY <1>6 DEF DataDisconnect, Reading
  <2>2. n \in Seq(Buffers)
    BY ReservedOf
  <2> HIDE DEF n
  <2>3. store \o n \in Seq(Buffers)
    BY <1>1, <2>2, CatOf
  <2>4. Content = store /\ Content' = store \o n
    BY <1>1, <2>1, <2>3, ConcatEmptySeq DEF Content
  <2> QED
    BY <2>2, <2>4
<1> QED
  BY <1>3, <1>4, <1>5, <1>6

\* What is kept is not changed while it is kept.
LEMMA KeptGrows ==
  ASSUME RingTypes, KInv, kept' = kept, \E x \in Seq(Buffers) : Content' = Content \o x
  PROVE  kept' \in Seq(Buffers) /\ IsPrefix(kept', Content')
<1>1. PICK x \in Seq(Buffers) : Content' = Content \o x
  OBVIOUS
<1>2. Content \in Seq(Buffers)
  BY CatOf DEF RingTypes, Content
<1>3. IsPrefix(kept, Content \o x)
  BY <1>2, PrefixGrows DEF KInv
<1> QED
  BY <1>1, <1>3 DEF KInv

\* Steps that forget what was kept, or end when nothing is.
LEMMA NothingKept ==
  ASSUME RingTypes', kept' = <<>>
  PROVE  kept' \in Seq(Buffers) /\ IsPrefix(kept', Content') /\ Guarded'
<1>1. Content' \in Seq(Buffers)
  BY CatOf DEF RingTypes, Content
<1>2. PICK q \in Seq(Buffers) : q = Content'
  BY <1>1
<1>3. IsPrefix(<<>>, q)
  BY PrefixTrivial
<1> QED
  BY <1>2, <1>3, EmptyOf DEF Guarded

\* It holds before a file is opened and a channel selected.
LEMMA KInvInit == Init => KInv
<1> SUFFICES ASSUME Init PROVE KInv
  OBVIOUS
<1>1. kept = <<>> /\ store = <<>> /\ hand = <<>> /\ pipe = <<>> /\ at = "closed"
  BY DEF Init
<1>2. PICK q \in Seq(Buffers) : q = Content
  BY <1>1, EmptyOf, CatOf DEF Content
<1>3. IsPrefix(<<>>, q)
  BY PrefixTrivial
<1> QED
  BY <1>1, <1>2, <1>3, EmptyOf DEF KInv, Guarded, Emptied0, Held

\* Every step keeps it.
LEMMA KInvStep ==
  ASSUME LInv, RInv, purge \in BOOLEAN, KInv, RInv', [Next]_vars
  PROVE  KInv'
<1>1. /\ RingTypes /\ RingTypes' /\ Guarded /\ Emptied0 /\ (~orphan => Known) /\ Flags
      /\ Planned
  BY DEF RInv, LInv, KInv
<1>2. Content \in Seq(Buffers) /\ <<>> \in Seq(Buffers)
  BY <1>1, CatOf, EmptyOf DEF RingTypes, Content
<1>3. ASSUME kept' = kept, UNCHANGED <<store, hand, pipe>>
      PROVE  kept' \in Seq(Buffers) /\ IsPrefix(kept', Content')
  BY <1>3 DEF KInv, Content
<1>4. CASE ReceiveOne \/ Publish \/ Write \/ DataDisconnect
  <2>1. /\ UNCHANGED <<pause, purged, rpause, purge, kept, orphan, at, what, goal, ok>>
    BY <1>4 DEF ReceiveOne, Publish, Write, DataDisconnect, sender, control, call, writing, hist
  <2>2. kept' \in Seq(Buffers) /\ IsPrefix(kept', Content')
    BY <1>1, <1>4, <2>1, ContentGrows, KeptGrows
  <2>3. Guarded'
    BY <1>1, <2>1, Zenon DEF Guarded
  <2>4. Emptied0'
    <3>1. CASE Write
      <4>1. at = "write"
        BY <3>1 DEF Write
      <4> QED
        BY <2>1, <4>1 DEF Emptied0, Held
    <3>2. CASE ReceiveOne
      <4>1. dsrv = "open"
        BY <3>2 DEF ReceiveOne, Reading
      <4>2. ~(Held /\ orphan)
        BY <1>1, <4>1 DEF Emptied0
      <4> QED
        BY <2>1, <4>2, Zenon DEF Emptied0, Held
    <3>3. CASE Publish
      <4>1. hand # <<>>
        BY <3>3 DEF Publish
      <4>2. ~(Held /\ orphan)
        BY <1>1, <4>1 DEF Emptied0
      <4> QED
        BY <2>1, <4>2, Zenon DEF Emptied0, Held
    <3>4. CASE DataDisconnect
      <4>1. dsrv = "open"
        BY <3>4 DEF DataDisconnect, Reading
      <4>2. ~(Held /\ orphan)
        BY <1>1, <4>1 DEF Emptied0
      <4> QED
        BY <2>1, <4>2, Zenon DEF Emptied0, Held
    <3> QED
      BY <1>4, <3>1, <3>2, <3>3, <3>4
  <2> QED
    BY <2>2, <2>3, <2>4 DEF KInv
<1>5. CASE Purging \/ GetTsStream
  <2>1. /\ UNCHANGED <<pause, purged, rpause, kept, orphan, at, what, goal, ok, dsrv>>
        /\ purge \/ ~rpause
    BY <1>5 DEF Purging, GetTsStream, MayTake, sender, control, call, writing, hist, channel
  <2>2. kept = <<>>
    BY <1>1, <2>1, Zenon DEF Guarded
  <2>3. kept' \in Seq(Buffers) /\ IsPrefix(kept', Content') /\ Guarded'
    BY <1>1, <2>1, <2>2, NothingKept
  <2>4. store # <<>> \/ dsrv = "open"
    BY <1>5 DEF Purging, Reading, GetTsStream, MayTake
  <2>5. ~(Held /\ orphan)
    BY <1>1, <2>4 DEF Emptied0
  <2>6. Emptied0'
    BY <2>1, <2>5, Zenon DEF Emptied0, Held
  <2> QED
    BY <2>3, <2>6 DEF KInv
<1>6. CASE Release \/ \E c \in Channels : SetChannel(c)
  <2>1. /\ kept' = <<>> /\ store' = <<>> /\ hand' = <<>> /\ pipe' = <<>> /\ dsrv' # "open"
    BY <1>6 DEF Release, SetChannel, ResetChannel
  <2> QED
    BY <1>1, <2>1, NothingKept DEF KInv, Emptied0
<1>7. CASE SetChannelEnd \/ CtrlDisconnect \/ WriteFails \/ SetDestination \/ OpenPipe \/ UNCHANGED vars
  <2>1. UNCHANGED <<pause, purged, rpause, purge, kept, orphan, at, what, goal, ok, store, hand, pipe>>
    BY <1>7 DEF SetChannelEnd, CtrlDisconnect, WriteFails, SetDestination, OpenPipe, vars, sender,
           control, call, writing, hist, ring
  <2>2. Guarded'
    BY <1>1, <2>1, Zenon DEF Guarded
  <2>3. Emptied0'
    <3>1. CASE OpenPipe
      <4>1. at = "write"
        BY <3>1 DEF OpenPipe
      <4> QED
        BY <2>1, <4>1 DEF Emptied0, Held
    <3>2. CASE ~OpenPipe
      <4>1. dsrv' = dsrv
        BY <1>7, <3>2 DEF SetChannelEnd, CtrlDisconnect, WriteFails, SetDestination, vars, channel
      <4> QED
        BY <1>1, <2>1, <4>1, Zenon DEF Emptied0, Held
    <3> QED
      BY <3>1, <3>2
  <2> QED
    BY <1>3, <2>1, <2>2, <2>3 DEF KInv
<1>8. ASSUME Asking, kept' = kept,
             ~(Held' /\ orphan') \/ (UNCHANGED <<store, hand, pipe>> /\ dsrv' = dsrv /\ Held /\ orphan)
      PROVE  KInv'
  <2>1. kept = <<>>
    BY <1>1, <1>8 DEF Guarded, Asking
  <2>2. Emptied0'
    BY <1>1, <1>8, Zenon DEF Emptied0
  <2> QED
    BY <1>1, <1>8, <2>1, <2>2, NothingKept DEF KInv
<1>9. CASE Refused \/ Reply \/ NoReply
  <2>1. /\ Asking /\ UNCHANGED <<kept, orphan, store, hand, pipe, dsrv>>
    BY <1>9 DEF Refused, Reply, NoReply, Asking, hist, ring, channel
  <2>2. PICK x, y : Answered(x, y) /\ (x = FALSE \/ at = "reply")
    BY <1>9, Zenon DEF Refused, Reply, NoReply
  <2>3. /\ ok' = x
        /\ \/ /\ plan # <<"PAUSE 0", "PURGE">> /\ at' = goal /\ goal' = "idle"
              /\ goal \in {"gapless", "purged", "seek", "close", "resumed", "send", "idle"}
           \/ /\ plan = <<"PAUSE 0", "PURGE">> /\ goal \in {"purged", "seek", "close"}
              /\ at' = "call" /\ goal' = goal /\ plan' = <<"PURGE">>
    BY <1>1, <2>1, <2>2, AnsweredGoes
  <2>4. ASSUME Held' PROVE Held
    <3>1. at' = "gapless" /\ ok' /\ goal = "gapless"
      BY <2>3, <2>4 DEF Held
    <3> QED
      BY <2>2, <2>3, <3>1 DEF Held
  <2> QED
    BY <1>8, <2>1, <2>4, Zenon
<1>10. CASE PipeMessage
  <2>1. Asking /\ kept' = kept /\ at' = "reply" /\ goal' = goal /\ at = "call" /\ plan' = plan
    BY <1>10 DEF PipeMessage, Asking
  <2>2. ASSUME Held' PROVE ~orphan'
    <3>1. goal = "gapless"
      BY <2>1, <2>2 DEF Held
    <3>2. plan = <<"PAUSE 1">>
      BY <1>1, <2>1, <3>1 DEF Planned
    <3>3. Head(plan) = "PAUSE 1"
      BY <3>2, OneRequest
    <3> QED
      BY <1>10, <3>3 DEF PipeMessage
  <2> QED
    BY <1>8, <2>1, <2>2, Zenon
<1>11. CASE Working
  <2>1. at' # "reply" /\ ok' = FALSE
    BY <1>11, WorkKeeps
  <2>2. Emptied0'
    BY <2>1 DEF Emptied0, Held
  <2>3. CASE PausePurge \/ Resume \/ Seek \/ Close
    <3>1. kept' = <<>>
      BY <2>3 DEF PausePurge, Resume, Seek, Close
    <3> QED
      BY <1>1, <2>2, <3>1, NothingKept DEF KInv
  <2>4. CASE PurgeDone \/ ResumeDone \/ SeekDone \/ CloseDone \/ SendReady \/ Open \/ PauseGapless \/ Send
    <3>1. kept' = kept /\ (at \in {"purged", "resumed", "seek", "close", "send", "closed"} \/ ~pause)
      BY <2>4 DEF PurgeDone, ResumeDone, SeekDone, CloseDone, SendReady, Open, PauseGapless, Send,
             MaySend, hist
    <3>2. kept = <<>>
      BY <1>1, <3>1 DEF Guarded
    <3> QED
      BY <1>1, <2>2, <3>1, <3>2, NothingKept DEF KInv
  <2>5. CASE SendEmptyPat
    <3>1. /\ UNCHANGED <<kept, store, hand, pipe, pause, purged, purge, rpause>>
          /\ at' = "write" /\ what' = "PAT"
      BY <2>5 DEF SendEmptyPat, Ask, hist, ring, control
    <3>2. Guarded'
      BY <1>1, <3>1 DEF Guarded
    <3> QED
      BY <1>3, <2>2, <3>1, <3>2 DEF KInv
  <2>6. CASE WriteDone
    <3>1. /\ UNCHANGED <<kept, store, hand, pipe, pause, purged, purge, rpause>>
          /\ at = "write" /\ (what = "data" \/ at' = "idle")
      BY <2>6 DEF WriteDone, Ask, hist, ring, control
    <3>2. Guarded'
      BY <1>1, <3>1 DEF Guarded
    <3> QED
      BY <1>3, <2>2, <3>1, <3>2 DEF KInv
  <2>7. CASE GaplessDone
    <3>1. CASE ok /\ ~purge /\ Content # <<>>
      <4>1. /\ at = "gapless" /\ pause' = TRUE /\ purged' = FALSE /\ kept' = Content
            /\ at' = "idle" /\ UNCHANGED <<store, hand, pipe, purge, rpause>>
        BY <2>7, <3>1 DEF GaplessDone, Ask, ring
      <4>2. ~orphan
        <5>1. Held
          BY <3>1, <4>1 DEF Held
        <5>2. orphan => Content = <<>>
          BY <1>1, <5>1, EmptyOf, ConcatEmptySeq DEF Emptied0, Content
        <5> QED
          BY <3>1, <5>2
      <4>3. rpause
        BY <1>1, <3>1, <4>1, <4>2 DEF Known
      <4>4. Guarded'
        BY <3>1, <4>1, <4>3, Zenon DEF Guarded
      <4>5. Content' = Content
        BY <4>1 DEF Content
      <4>6. IsPrefix(Content, Content)
        BY <1>2, PrefixTrivial
      <4> QED
        BY <1>2, <2>2, <4>1, <4>4, <4>5, <4>6 DEF KInv
    <3>2. CASE ok /\ (purge \/ Content = <<>>)
      <4>1. kept' = <<>>
        BY <2>7, <3>2 DEF GaplessDone
      <4> QED
        BY <1>1, <2>2, <4>1, NothingKept DEF KInv
    <3>3. CASE ~ok
      <4>1. kept' = kept /\ at = "gapless"
        BY <2>7, <3>3 DEF GaplessDone
      <4>2. kept = <<>>
        BY <1>1, <4>1 DEF Guarded
      <4> QED
        BY <1>1, <2>2, <4>1, <4>2, NothingKept DEF KInv
    <3> QED
      BY <3>1, <3>2, <3>3
  <2> QED
    BY <1>11, <2>3, <2>4, <2>5, <2>6, <2>7 DEF Working
<1> QED
  BY <1>4, <1>5, <1>6, <1>7, <1>9, <1>10, <1>11 DEF Next, SenderStep, Command, ReadThread, Working

\* What the receiver held when it answered that it had paused (CBonDriverPipe::m_fPause) it still
\* holds, in the same order and in front, until playback goes on, a seek or a channel selection.
THEOREM PauseKeeps == Spec => []GaplessKeeps
<1> DEFINE I == LInv /\ RInv /\ purge \in BOOLEAN
<1>1. Init => KInv
  BY KInvInit
<1>2. I /\ KInv /\ I' /\ [Next]_vars => KInv'
  BY KInvStep
<1>3. KInv => GaplessKeeps
  BY DEF KInv, GaplessKeeps
<1>4. Spec => []I
  BY RInvHolds
<1> HIDE DEF I
<1> QED
  BY <1>1, <1>2, <1>3, <1>4, PTL DEF Spec
=============================================================================
