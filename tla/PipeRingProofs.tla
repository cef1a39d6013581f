---------------------------- MODULE PipeRingProofs ----------------------------
(***************************************************************************)
(* Proofs that the safety properties of PipeRing hold for every size of    *)
(* the ring, number of requests and length of the run.                     *)
(***************************************************************************)
EXTENDS PipeRing, SequenceTheorems, TLAPS

\* A request is there to be received, and a caller of ResetChannel has given
\* up its buffer.
Steps ==
  /\ rd = "RECEIVE" => busy > 0
  /\ app = "resetting" => held = N

\* The buffer GetTsStream returned is the one just before m_pIoGetReq.
HeldBehind == fresh /\ held # N => held = Plus(get, N - 1)

\* A purge that arrives while a buffer is being received starts a new count.
PurgeCount == stale <= 1 /\ (rd = "RECEIVE" /\ purge => stale = 0)

\* The inductive invariant.
Inv ==
  /\ TypeOK /\ Steps /\ RingAligned /\ HeldBehind /\ PurgeCount
  /\ EventsDistinct

-----------------------------------------------------------------------------
(* Walking the ring *)

\* pNext stays in the ring.
LEMMA PlusInRing ==
  ASSUME NEW s \in Slots, NEW k \in 0 .. N
  PROVE  Plus(s, k) \in Slots
BY RingAssumption DEF Plus, Slots

\* Steps along the ring add up.
LEMMA PlusPlus ==
  ASSUME NEW s \in Slots, NEW j \in 0 .. N, NEW k \in 0 .. N, j + k <= N
  PROVE  Plus(Plus(s, j), k) = Plus(s, j + k)
BY RingAssumption DEF Plus, Slots

\* Less than a turn apart, two numbers of steps lead to two buffers.
LEMMA PlusInjective ==
  ASSUME NEW s \in Slots, NEW j \in 0 .. N - 1, NEW k \in 0 .. N - 1,
         Plus(s, j) = Plus(s, k)
  PROVE  j = k
BY RingAssumption DEF Plus, Slots


-----------------------------------------------------------------------------
(* The invariant is inductive *)

LEMMA InvInit == Init => Inv
<1> SUFFICES ASSUME Init PROVE Inv
  OBVIOUS
<1>1. TypeOK
  BY RingAssumption DEF Init, TypeOK, RingType, ThreadType, BufferType, ClientType,
     HistoryType, Slots, Events, ReadStates
<1>2. Steps /\ RingAligned /\ HeldBehind /\ PurgeCount
  BY RingAssumption DEF Init, Steps, RingAligned, HeldBehind, PurgeCount, InFlight
<1>3. EventsDistinct
  BY DEF Init, EventsDistinct
<1> QED
  BY <1>1, <1>2, <1>3 DEF Inv

\* The kernel's queue of chunks keeps its type when its head is read.
LEMMA HeadTail ==
  ASSUME NEW q \in Seq(Nat), q # <<>>
  PROVE  Head(q) \in Nat /\ Tail(q) \in Seq(Nat)
OBVIOUS

\* Popping a request keeps the types of the read thread's locals.
LEMMA PopTyped ==
  ASSUME ThreadType, BufferType, busy > 0, PopRequest
  PROVE  stack' \in [Events -> Events] /\ busy' \in 0 .. R /\ deq' \in Slots
<1>1. hev[deq] \in Events
  BY DEF ThreadType, BufferType
<1>2. busy' \in 0 .. R /\ deq' \in Slots
  BY RingAssumption DEF ThreadType, PopRequest, Plus, Slots
<1> QED
  BY <1>1, <1>2 DEF ThreadType, PopRequest, PushEvent

\* Every step keeps the types.
LEMMA TypeStep ==
  ASSUME TypeOK, Steps, RingAligned, [Next]_vars
  PROVE  TypeOK'
<1> USE DEF TypeOK, ring, local, bufs, client, hist
<1>1. CASE OpenTuner
  BY <1>1 DEF OpenTuner, ReadStates, RingType, ThreadType, BufferType, ClientType,
     HistoryType
<1>2. CASE GetTsStream
  <2>1. RingType'
    BY <1>2, RingAssumption DEF RingType, ThreadType, Slots, Plus, GetTsStream, TakeBuffer
  <2>2. ThreadType'
    BY <1>2 DEF ThreadType, ReadStates, GetTsStream, TakeBuffer
  <2>3. BufferType'
    BY <1>2 DEF BufferType, GetTsStream, TakeBuffer
  <2>4. ClientType'
    BY <1>2 DEF ClientType, GetTsStream, TakeBuffer
  <2>5. HistoryType'
    BY <1>2, RingAssumption DEF HistoryType, RingType, BufferType, Slots, Item, GetTsStream, TakeBuffer
  <2> QED
    BY <2>1, <2>2, <2>3, <2>4, <2>5
<1>3. CASE GetTsStreamEmpty
  <2>1. RingType'
    BY <1>3, RingAssumption DEF RingType, ThreadType, Slots, Plus, GetTsStreamEmpty
  <2>2. ThreadType'
    BY <1>3 DEF ThreadType, ReadStates, GetTsStreamEmpty
  <2>3. BufferType'
    BY <1>3 DEF BufferType, GetTsStreamEmpty
  <2>4. ClientType'
    BY <1>3 DEF ClientType, GetTsStreamEmpty
  <2>5. HistoryType'
    BY <1>3, RingAssumption DEF HistoryType, RingType, BufferType, Slots, Item, GetTsStreamEmpty
  <2> QED
    BY <2>1, <2>2, <2>3, <2>4, <2>5
<1>4. CASE AppPurge
  <2>1. RingType'
    BY <1>4, RingAssumption DEF RingType, ThreadType, Slots, Plus, AppPurge, PurgeTsStream
  <2>2. ThreadType'
    BY <1>4 DEF ThreadType, ReadStates, AppPurge, PurgeTsStream
  <2>3. BufferType'
    BY <1>4 DEF BufferType, AppPurge, PurgeTsStream
  <2>4. ClientType'
    BY <1>4 DEF ClientType, AppPurge, PurgeTsStream
  <2>5. HistoryType'
    BY <1>4, RingAssumption DEF HistoryType, RingType, BufferType, Slots, Item, AppPurge, PurgeTsStream
  <2> QED
    BY <2>1, <2>2, <2>3, <2>4, <2>5
<1>5. CASE CtrlPurge
  <2>1. RingType'
    BY <1>5, RingAssumption DEF RingType, ThreadType, Slots, Plus, CtrlPurge, PurgeTsStream
  <2>2. ThreadType'
    BY <1>5 DEF ThreadType, ReadStates, CtrlPurge, PurgeTsStream
  <2>3. BufferType'
    BY <1>5 DEF BufferType, CtrlPurge, PurgeTsStream
  <2>4. ClientType'
    BY <1>5 DEF ClientType, CtrlPurge, PurgeTsStream
  <2>5. HistoryType'
    BY <1>5, RingAssumption DEF HistoryType, RingType, BufferType, Slots, Item, CtrlPurge, PurgeTsStream
  <2> QED
    BY <2>1, <2>2, <2>3, <2>4, <2>5
<1>6. CASE ResetEnd
  <2>1. RingType'
    <3>1. get' \in Slots /\ ready' \in 0 .. N - 1
      BY <1>6, RingAssumption DEF ResetEnd, Slots
    <3>2. paused' \in BOOLEAN /\ purge' \in BOOLEAN /\ quit' \in BOOLEAN
      BY <1>6 DEF ResetEnd, RingType
    <3> QED
      BY <3>1, <3>2 DEF RingType
  <2>2. ThreadType'
    <3>1. [i \in Events |-> i] \in [Events -> Events]
      OBVIOUS
    <3>2. 0 \in Slots /\ 0 \in 0 .. R
      BY RingAssumption DEF Slots
    <3> QED
      BY <1>6, <3>1, <3>2 DEF ThreadType, ReadStates, ResetEnd
  <2>3. BufferType'
    BY <1>6 DEF BufferType, ResetEnd
  <2>4. ClientType'
    <3>1. pipe' \in Seq(Nat) /\ opens' \in Nat
      BY <1>6 DEF ResetEnd, ClientType
    <3> QED
      BY <1>6, <3>1 DEF ClientType, ResetEnd
  <2>5. HistoryType'
    BY <1>6, RingAssumption DEF HistoryType, RingType, BufferType, Slots, Item, ResetEnd
  <2> QED
    BY <2>1, <2>2, <2>3, <2>4, <2>5
<1>7. CASE CtrlExit
  <2>1. RingType'
    BY <1>7, RingAssumption DEF RingType, ThreadType, Slots, Plus, CtrlExit
  <2>2. ThreadType'
    BY <1>7 DEF ThreadType, ReadStates, CtrlExit
  <2>3. BufferType'
    BY <1>7 DEF BufferType, CtrlExit
  <2>4. ClientType'
    BY <1>7 DEF ClientType, CtrlExit
  <2>5. HistoryType'
    BY <1>7, RingAssumption DEF HistoryType, RingType, BufferType, Slots, Item, CtrlExit
  <2> QED
    BY <2>1, <2>2, <2>3, <2>4, <2>5
<1>8. CASE ReadExit
  BY <1>8 DEF ReadExit, Exit, QuitSeen, ReadStates, RingType, ThreadType, BufferType,
     ClientType, HistoryType
<1>9. CASE Connect
  BY <1>9 DEF Connect, ReadStates, RingType, ThreadType, BufferType, ClientType,
     HistoryType
<1>10. CASE ConnectNoData
  BY <1>10 DEF ConnectNoData, Exit, ReadStates, RingType, ThreadType, BufferType,
     ClientType, HistoryType
<1>11. CASE Connected
  BY <1>11 DEF Connected, ReadStates, RingType, ThreadType, BufferType, ClientType,
     HistoryType
<1>12. CASE WaitOver \/ RingFull
  <2>1. rd' \in ReadStates
    BY <1>12 DEF WaitOver, RingFull, ReadStates
  <2>2. RingType'
    BY <1>12 DEF WaitOver, RingFull, RingType
  <2>3. ThreadType'
    BY <1>12, <2>1 DEF WaitOver, RingFull, ThreadType
  <2>4. BufferType' /\ HistoryType'
    BY <1>12 DEF WaitOver, RingFull, BufferType, HistoryType
  <2>5. ClientType'
    BY <1>12 DEF WaitOver, RingFull, ClientType
  <2> QED
    BY <2>2, <2>3, <2>4, <2>5
<1>13. CASE PostRead
  <2>1. RingType'
    BY <1>13, RingAssumption DEF RingType, ThreadType, Slots, Plus, PostRead, RoomForRead
  <2>2. ThreadType'
    <3>1. stack' = stack /\ deq' = deq /\ rd' \in ReadStates
      BY <1>13 DEF PostRead, ThreadType, ReadStates
    <3>2. enq' \in Slots /\ busy' \in 0 .. R
      BY <1>13, RingAssumption DEF PostRead, ThreadType, Slots, Plus
    <3> QED
      BY <3>1, <3>2 DEF ThreadType
  <2>3. BufferType'
    <3>1. stack[busy] \in Events
      BY <1>13, RingAssumption DEF PostRead, ThreadType, Events
    <3>2. pipe # <<>> => Head(pipe) \in Nat
      BY HeadTail DEF ClientType
    <3> QED
      BY <1>13, <3>1, <3>2 DEF BufferType, PostRead
  <2>4. ClientType'
    <3>1. pipe' \in {pipe, Tail(pipe)} /\ (pipe' = Tail(pipe) => pipe # <<>> \/ pipe' = pipe)
      BY <1>13 DEF PostRead
    <3>2. pipe' \in Seq(Nat)
      BY <3>1, HeadTail DEF ClientType
    <3> QED
      BY <1>13, <3>2 DEF ClientType, PostRead
  <2>5. HistoryType'
    BY <1>13, RingAssumption DEF HistoryType, RingType, BufferType, Slots, Item, PostRead, RoomForRead
  <2> QED
    BY <2>1, <2>2, <2>3, <2>4, <2>5
<1>14. CASE AwaitPurge
  BY <1>14, ZenonT(40) DEF AwaitPurge, ReadStates, RingType, ThreadType, BufferType, ClientType,
     HistoryType
<1>15. CASE AwaitError
  BY <1>15 DEF AwaitError, ReadStates, RingType, ThreadType, BufferType, ClientType,
     HistoryType
<1>16. CASE AwaitDone
  BY <1>16, SMTT(30) DEF AwaitDone, PurgeFirst, Finished, ReadStates, RingType, ThreadType,
     BufferType, ClientType, HistoryType
<1>17. CASE Receive
  <2>1. RingType'
    BY <1>17, RingAssumption DEF RingType, ThreadType, Slots, Steps, RingAligned, InFlight, PopRequest, Receive
  <2>2. ThreadType'
    BY <1>17, PopTyped DEF ThreadType, ReadStates, Steps, Receive
  <2>3. BufferType'
    BY <1>17 DEF BufferType, Receive, PopRequest, PushEvent
  <2>4. ClientType'
    BY <1>17 DEF ClientType, Receive, PopRequest, PushEvent
  <2>5. HistoryType'
    BY <1>17, RingAssumption DEF HistoryType, RingType, BufferType, Slots, Item, Receive, PopRequest, PushEvent
  <2> QED
    BY <2>1, <2>2, <2>3, <2>4, <2>5
<1>18. CASE CancelRequests
  BY <1>18 DEF CancelRequests, ReadStates, RingType, ThreadType, BufferType, ClientType,
     HistoryType
<1>19. CASE PurgeReady
  <2>1. RingType'
    BY <1>19, RingAssumption DEF RingType, ThreadType, Slots, Plus, PurgeReady
  <2>2. ThreadType'
    BY <1>19 DEF ThreadType, ReadStates, PurgeReady
  <2>3. BufferType'
    BY <1>19 DEF BufferType, PurgeReady
  <2>4. ClientType'
    BY <1>19 DEF ClientType, PurgeReady
  <2>5. HistoryType'
    BY <1>19, RingAssumption DEF HistoryType, RingType, BufferType, Slots, Item, PurgeReady
  <2> QED
    BY <2>1, <2>2, <2>3, <2>4, <2>5
<1>20. CASE DiscardOne
  <2>1. RingType'
    BY <1>20, RingAssumption DEF RingType, ThreadType, Slots, Plus, DiscardOne, PopRequest, PushEvent, SkipBuffer
  <2>2. ThreadType'
    BY <1>20, PopTyped DEF ThreadType, ReadStates, Steps, DiscardOne
  <2>3. BufferType'
    BY <1>20 DEF BufferType, DiscardOne, PopRequest, PushEvent, SkipBuffer
  <2>4. ClientType'
    BY <1>20 DEF ClientType, DiscardOne, PopRequest, PushEvent, SkipBuffer
  <2>5. HistoryType'
    BY <1>20, RingAssumption DEF HistoryType, RingType, BufferType, Slots, Item, DiscardOne, PopRequest, PushEvent, SkipBuffer
  <2> QED
    BY <2>1, <2>2, <2>3, <2>4, <2>5
<1>21. CASE DiscardEnd
  BY <1>21 DEF DiscardEnd, ReadStates, RingType, ThreadType, BufferType, ClientType,
     HistoryType
<1>22. CASE Disconnect
  BY <1>22 DEF Disconnect, ReadStates, RingType, ThreadType, BufferType, ClientType,
     HistoryType
<1>23. CASE FlushOne
  <2>1. RingType'
    BY <1>23, RingAssumption DEF RingType, ThreadType, Slots, Steps, RingAligned, InFlight, PopRequest, FlushOne
  <2>2. ThreadType'
    BY <1>23, PopTyped DEF ThreadType, ReadStates, Steps, FlushOne
  <2>3. BufferType'
    BY <1>23 DEF BufferType, FlushOne, PopRequest, PushEvent
  <2>4. ClientType'
    BY <1>23 DEF ClientType, FlushOne, PopRequest, PushEvent
  <2>5. HistoryType'
    BY <1>23, RingAssumption DEF HistoryType, RingType, BufferType, Slots, Item, FlushOne, PopRequest, PushEvent
  <2> QED
    BY <2>1, <2>2, <2>3, <2>4, <2>5
<1>24. CASE FlushEnd
  BY <1>24 DEF FlushEnd, ReadStates, RingType, ThreadType, BufferType, ClientType,
     HistoryType
<1>25. CASE ClientConnect
  BY <1>25 DEF ClientConnect, ReadStates, RingType, ThreadType, BufferType, ClientType,
     HistoryType
<1>26. CASE ClientWrite
  <2>1. RingType'
    BY <1>26, RingAssumption DEF RingType, ThreadType, Slots, Plus, ClientWrite
  <2>2. ThreadType'
    BY <1>26 DEF ThreadType, ReadStates, ClientWrite
  <2>3. BufferType'
    BY <1>26 DEF BufferType, ClientType, ClientWrite
  <2>4. ClientType'
    <3>1. pipe' \in Seq(Nat) /\ sent' \in Nat
      BY <1>26, SMTT(30) DEF ClientWrite, ClientType
    <3> QED
      BY <1>26, <3>1 DEF ClientType, ClientWrite
  <2>5. HistoryType'
    BY <1>26, RingAssumption DEF HistoryType, RingType, BufferType, Slots, Item, ClientWrite
  <2> QED
    BY <2>1, <2>2, <2>3, <2>4, <2>5
<1>27. CASE ClientClose
  BY <1>27 DEF ClientClose, ReadStates, RingType, ThreadType, BufferType, ClientType,
     HistoryType
<1>28. ASSUME NEW goal \in {"set", "close"}, ResetBegin(goal) PROVE TypeOK'
  <2>1. N \in 0 .. N
    BY RingAssumption
  <2> QED
    BY <1>28, <2>1 DEF RingType, ThreadType, BufferType, ClientType, HistoryType, ResetBegin
<1>29. ASSUME NEW b \in BOOLEAN, CtrlPause(b) PROVE TypeOK'
  BY <1>29 DEF CtrlPause, ReadStates, RingType, ThreadType, BufferType, ClientType,
     HistoryType
<1>30. CASE UNCHANGED vars
  BY <1>30 DEF vars, ReadStates, RingType, ThreadType, BufferType, ClientType,
     HistoryType
<1> QED
  BY <1>1, <1>2, <1>3, <1>4, <1>5, <1>6, <1>7, <1>8, <1>9, <1>10, <1>11,
     <1>12, <1>13, <1>14, <1>15, <1>16, <1>17, <1>18, <1>19, <1>20, <1>21,
     <1>22, <1>23, <1>24, <1>25, <1>26, <1>27, <1>28, <1>29, <1>30
  DEF Next, AppStep, CtrlStep, ReadStep, ClientStep

\* A request waits to be received only where ReadPipeMain counted one, and
\* nobody inside ResetChannel holds a buffer.
LEMMA StepsStep ==
  ASSUME TypeOK, Steps, [Next]_vars
  PROVE  Steps'
<1> USE RingAssumption DEF TypeOK, RingType, ThreadType, Steps, ring, local, bufs, client, hist
<1>1. CASE OpenTuner \/ GetTsStream \/ GetTsStreamEmpty
  BY <1>1 DEF OpenTuner, GetTsStream, TakeBuffer, GetTsStreamEmpty
<1>2. CASE AppPurge \/ CtrlPurge
  BY <1>2 DEF AppPurge, PurgeTsStream, CtrlPurge
<1>3. CASE ResetEnd \/ CtrlExit
  BY <1>3 DEF ResetEnd, CtrlExit
<1>4. CASE ReadExit \/ Connect \/ ConnectNoData \/ Connected
  BY <1>4 DEF ReadExit, Exit, QuitSeen, Connect, ConnectNoData, Connected
<1>5. CASE WaitOver \/ RingFull
  BY <1>5 DEF WaitOver, RingFull, RoomForRead
<1>6. CASE PostRead
  BY <1>6 DEF PostRead, RoomForRead
<1>7. CASE AwaitPurge \/ AwaitDone \/ AwaitError
  BY <1>7 DEF AwaitPurge, AwaitDone, PurgeFirst, Finished, AwaitError
<1>8. CASE Receive
  BY <1>8 DEF Receive, PopRequest, PushEvent
<1>9. CASE PurgeReady \/ CancelRequests
  BY <1>9 DEF PurgeReady, CancelRequests
<1>10. CASE DiscardOne
  BY <1>10 DEF DiscardOne, PopRequest, PushEvent, SkipBuffer
<1>11. CASE DiscardEnd \/ Disconnect
  BY <1>11 DEF DiscardEnd, Disconnect
<1>12. CASE FlushOne
  BY <1>12 DEF FlushOne, PopRequest, PushEvent
<1>13. CASE FlushEnd \/ ClientConnect \/ ClientWrite \/ ClientClose
  BY <1>13 DEF FlushEnd, ClientConnect, ClientWrite, ClientClose
<1>14. ASSUME NEW goal \in {"set", "close"}, ResetBegin(goal) PROVE Steps'
  BY <1>14 DEF ResetBegin
<1>15. ASSUME NEW b \in BOOLEAN, CtrlPause(b) PROVE Steps'
  BY <1>15 DEF CtrlPause
<1>16. CASE UNCHANGED vars
  BY <1>16 DEF vars
<1> QED
  BY <1>1, <1>2, <1>3, <1>4, <1>5, <1>6, <1>7, <1>8, <1>9, <1>10, <1>11,
     <1>12, <1>13, <1>14, <1>15, <1>16
  DEF Next, AppStep, CtrlStep, ReadStep, ClientStep

\* Every step keeps the three pointers aligned.
LEMMA AlignedStep ==
  ASSUME TypeOK, Steps, RingAligned, [Next]_vars
  PROVE  RingAligned'
<1> USE RingAssumption DEF TypeOK, RingType, ThreadType, Steps, RingAligned, InFlight,
           Plus, Slots, ring, local, bufs, client, hist
<1>1. CASE OpenTuner \/ GetTsStream \/ GetTsStreamEmpty
  BY <1>1 DEF OpenTuner, GetTsStream, TakeBuffer, GetTsStreamEmpty
<1>2. CASE AppPurge \/ CtrlPurge
  BY <1>2 DEF AppPurge, PurgeTsStream, CtrlPurge
<1>3. CASE ResetEnd \/ CtrlExit
  BY <1>3 DEF ResetEnd, CtrlExit
<1>4. CASE ReadExit \/ Connect \/ ConnectNoData \/ Connected
  BY <1>4, SMTT(30) DEF ReadExit, Exit, QuitSeen, Connect, ConnectNoData, Connected
<1>5. CASE WaitOver \/ RingFull
  BY <1>5 DEF WaitOver, RingFull, RoomForRead
<1>6. CASE PostRead
  <2>1. /\ get' = get /\ ready' = ready /\ deq' = deq /\ rd # "none" /\ rd' # "none"
        /\ ready + busy < N - 1
    BY <1>6 DEF PostRead, RoomForRead
  <2>2. \/ enq' = Plus(enq, 1) /\ busy' = busy + 1
        \/ enq' = enq /\ busy' = busy
    BY <1>6 DEF PostRead
  <2> QED
    BY <2>1, <2>2
<1>7. CASE AwaitPurge \/ AwaitDone \/ AwaitError
  BY <1>7 DEF AwaitPurge, AwaitDone, PurgeFirst, Finished, AwaitError
<1>8. CASE Receive
  BY <1>8 DEF Receive, PopRequest, PushEvent
<1>9. CASE PurgeReady \/ CancelRequests
  BY <1>9 DEF PurgeReady, CancelRequests
<1>10. CASE DiscardOne
  BY <1>10 DEF DiscardOne, PopRequest, PushEvent, SkipBuffer
<1>11. CASE DiscardEnd \/ Disconnect
  BY <1>11 DEF DiscardEnd, Disconnect
<1>12. CASE FlushOne
  BY <1>12 DEF FlushOne, PopRequest, PushEvent
<1>13. CASE FlushEnd \/ ClientConnect \/ ClientWrite \/ ClientClose
  BY <1>13 DEF FlushEnd, ClientConnect, ClientWrite, ClientClose
<1>14. ASSUME NEW goal \in {"set", "close"}, ResetBegin(goal) PROVE RingAligned'
  BY <1>14 DEF ResetBegin
<1>15. ASSUME NEW b \in BOOLEAN, CtrlPause(b) PROVE RingAligned'
  BY <1>15 DEF CtrlPause
<1>16. CASE UNCHANGED vars
  BY <1>16 DEF vars
<1> QED
  BY <1>1, <1>2, <1>3, <1>4, <1>5, <1>6, <1>7, <1>8, <1>9, <1>10, <1>11,
     <1>12, <1>13, <1>14, <1>15, <1>16
  DEF Next, AppStep, CtrlStep, ReadStep, ClientStep

\* Only a purge parts m_pIoGetReq from the buffer returned last.
LEMMA HeldStep ==
  ASSUME TypeOK, Steps, HeldBehind, [Next]_vars
  PROVE  HeldBehind'
<1> USE RingAssumption DEF TypeOK, RingType, HistoryType, Steps, HeldBehind, Plus, Slots, ring, local, bufs, client, hist
<1>1. CASE OpenTuner \/ GetTsStreamEmpty
  BY <1>1 DEF OpenTuner, GetTsStreamEmpty
<1>2. CASE GetTsStream
  BY <1>2 DEF GetTsStream, TakeBuffer
<1>3. CASE AppPurge \/ CtrlPurge
  BY <1>3 DEF AppPurge, PurgeTsStream, CtrlPurge
<1>4. CASE ResetEnd \/ CtrlExit
  BY <1>4 DEF ResetEnd, CtrlExit
<1>5. CASE ReadExit \/ Connect \/ ConnectNoData \/ Connected
  BY <1>5 DEF ReadExit, Exit, QuitSeen, Connect, ConnectNoData, Connected
<1>6. CASE WaitOver \/ RingFull
  BY <1>6 DEF WaitOver, RingFull, RoomForRead
<1>7. CASE PostRead
  BY <1>7 DEF PostRead, RoomForRead
<1>8. CASE AwaitPurge \/ AwaitDone \/ AwaitError
  BY <1>8 DEF AwaitPurge, AwaitDone, PurgeFirst, Finished, AwaitError
<1>9. CASE Receive
  BY <1>9 DEF Receive, PopRequest, PushEvent
<1>10. CASE PurgeReady \/ CancelRequests
  BY <1>10 DEF PurgeReady, CancelRequests
<1>11. CASE DiscardOne
  BY <1>11 DEF DiscardOne, PopRequest, PushEvent, SkipBuffer
<1>12. CASE DiscardEnd \/ Disconnect
  BY <1>12 DEF DiscardEnd, Disconnect
<1>13. CASE FlushOne
  BY <1>13 DEF FlushOne, PopRequest, PushEvent
<1>14. CASE FlushEnd \/ ClientConnect \/ ClientWrite \/ ClientClose
  BY <1>14 DEF FlushEnd, ClientConnect, ClientWrite, ClientClose
<1>15. ASSUME NEW goal \in {"set", "close"}, ResetBegin(goal) PROVE HeldBehind'
  BY <1>15 DEF ResetBegin
<1>16. ASSUME NEW b \in BOOLEAN, CtrlPause(b) PROVE HeldBehind'
  BY <1>16 DEF CtrlPause
<1>17. CASE UNCHANGED vars
  BY <1>17 DEF vars
<1> QED
  BY <1>1, <1>2, <1>3, <1>4, <1>5, <1>6, <1>7, <1>8, <1>9, <1>10, <1>11,
     <1>12, <1>13, <1>14, <1>15, <1>16, <1>17
  DEF Next, AppStep, CtrlStep, ReadStep, ClientStep

\* A pending purge lets one buffer through.
LEMMA PurgeStep ==
  ASSUME TypeOK, PurgeCount, [Next]_vars
  PROVE  PurgeCount'
<1> USE DEF TypeOK, RingType, HistoryType, PurgeCount, ring, local, bufs, client, hist
<1>1. CASE OpenTuner \/ GetTsStream \/ GetTsStreamEmpty
  BY <1>1 DEF OpenTuner, GetTsStream, TakeBuffer, GetTsStreamEmpty
<1>2. CASE AppPurge \/ CtrlPurge
  BY <1>2 DEF AppPurge, PurgeTsStream, CtrlPurge
<1>3. CASE ResetEnd \/ CtrlExit
  BY <1>3 DEF ResetEnd, CtrlExit
<1>4. CASE ReadExit \/ Connect \/ ConnectNoData \/ Connected
  BY <1>4 DEF ReadExit, Exit, QuitSeen, Connect, ConnectNoData, Connected
<1>5. CASE WaitOver \/ RingFull
  BY <1>5 DEF WaitOver, RingFull, RoomForRead
<1>6. CASE PostRead
  BY <1>6 DEF PostRead, RoomForRead
<1>7. CASE AwaitPurge \/ AwaitDone \/ AwaitError
  BY <1>7 DEF AwaitPurge, AwaitDone, PurgeFirst, Finished, AwaitError
<1>8. CASE Receive
  BY <1>8 DEF Receive, PopRequest, PushEvent
<1>9. CASE PurgeReady \/ CancelRequests
  BY <1>9 DEF PurgeReady, CancelRequests
<1>10. CASE DiscardOne
  BY <1>10 DEF DiscardOne, PopRequest, PushEvent, SkipBuffer
<1>11. CASE DiscardEnd \/ Disconnect
  BY <1>11 DEF DiscardEnd, Disconnect
<1>12. CASE FlushOne
  BY <1>12 DEF FlushOne, PopRequest, PushEvent
<1>13. CASE FlushEnd \/ ClientConnect \/ ClientWrite \/ ClientClose
  BY <1>13 DEF FlushEnd, ClientConnect, ClientWrite, ClientClose
<1>14. ASSUME NEW goal \in {"set", "close"}, ResetBegin(goal) PROVE PurgeCount'
  BY <1>14 DEF ResetBegin
<1>15. ASSUME NEW b \in BOOLEAN, CtrlPause(b) PROVE PurgeCount'
  BY <1>15 DEF CtrlPause
<1>16. CASE UNCHANGED vars
  BY <1>16 DEF vars
<1> QED
  BY <1>1, <1>2, <1>3, <1>4, <1>5, <1>6, <1>7, <1>8, <1>9, <1>10, <1>11,
     <1>12, <1>13, <1>14, <1>15, <1>16
  DEF Next, AppStep, CtrlStep, ReadStep, ClientStep

-----------------------------------------------------------------------------
(* Events *)

\* A step that moves neither requests nor events.
LEMMA EventsFrame ==
  ASSUME EventsDistinct, rd = "none" => rd' = "none",
         busy' = busy, stack' = stack, hev' = hev, deq' = deq
  PROVE  EventsDistinct'
BY DEF EventsDistinct, Plus

\* The event of the oldest request goes back to the stack.
LEMMA EventsPop ==
  ASSUME ThreadType, BufferType, EventsDistinct, rd # "none", busy > 0,
         PopRequest, hev' = hev
  PROVE  EventsDistinct'
<1> DEFINE ev(i) == hev[Plus(deq, i)]
<1> USE RingAssumption DEF ThreadType
<1>1. /\ busy' = busy - 1 /\ busy - 1 \in Events
      /\ stack' = [stack EXCEPT ![busy - 1] = ev(0)]
  <2>1. Plus(deq, 0) = deq
    BY DEF Plus, Slots
  <2>2. busy' = busy - 1 /\ stack' = [stack EXCEPT ![busy - 1] = hev[deq]]
    BY DEF PopRequest, PushEvent
  <2>3. busy - 1 \in Events
    BY DEF Events
  <2> QED
    BY <2>1, <2>2, <2>3
<1>2. /\ \A j \in busy .. R - 1 : stack'[j] = stack[j]
      /\ stack'[busy - 1] = ev(0)
  BY <1>1 DEF Events
<1>3. ASSUME NEW i \in 0 .. busy - 2
      PROVE  hev'[Plus(deq', i)] = ev(i + 1)
  <2>1. deq' = Plus(deq, 1) /\ deq \in Slots
    BY DEF PopRequest
  <2>2. Plus(Plus(deq, 1), i) = Plus(deq, 1 + i)
    BY <2>1, PlusPlus
  <2> QED
    BY <2>1, <2>2
<1>4. /\ \A i, j \in busy .. R - 1 : i # j => stack[i] # stack[j]
      /\ \A i, j \in 0 .. busy - 1 : i # j => ev(i) # ev(j)
      /\ \A i \in 0 .. busy - 1, j \in busy .. R - 1 : ev(i) # stack[j]
  BY DEF EventsDistinct
<1> HIDE DEF ev
<1>5. \A i, j \in busy - 1 .. R - 1 : i # j => stack'[i] # stack'[j]
  BY <1>2, <1>4
<1>6. \A i, j \in 0 .. busy - 2 :
        i # j => hev'[Plus(deq', i)] # hev'[Plus(deq', j)]
  BY <1>3, <1>4
<1>7. \A i \in 0 .. busy - 2, j \in busy - 1 .. R - 1 :
        hev'[Plus(deq', i)] # stack'[j]
  BY <1>2, <1>3, <1>4
<1> QED
  <2>1. busy' - 1 = busy - 2
    BY <1>1
  <2> QED
    BY <1>1, <1>5, <1>6, <1>7, <2>1 DEF EventsDistinct

\* ReadFile takes the event on top of the stack.
LEMMA EventsPost ==
  ASSUME ThreadType, BufferType, RingAligned, EventsDistinct, PostRead
  PROVE  EventsDistinct'
<1> USE RingAssumption DEF ThreadType, BufferType
<1>1. /\ rd # "none" /\ busy < R /\ enq = Plus(deq, busy) /\ enq \in Slots
      /\ hev' = [hev EXCEPT ![enq] = stack[busy]]
      /\ stack' = stack /\ deq' = deq /\ busy' \in {busy, busy + 1}
  BY DEF PostRead, RingAligned
<1>2. ASSUME NEW i \in 0 .. busy - 1
      PROVE  hev'[Plus(deq, i)] = hev[Plus(deq, i)]
  <2>1. Plus(deq, i) # enq /\ Plus(deq, i) \in Slots
    BY <1>1, PlusInjective, PlusInRing
  <2> QED
    BY <1>1, <2>1
<1>3. hev'[Plus(deq, busy)] = stack[busy]
  BY <1>1
<1>4. /\ \A i, j \in busy .. R - 1 : i # j => stack[i] # stack[j]
      /\ \A i, j \in 0 .. busy - 1 :
           i # j => hev[Plus(deq, i)] # hev[Plus(deq, j)]
      /\ \A i \in 0 .. busy - 1, j \in busy .. R - 1 :
           hev[Plus(deq, i)] # stack[j]
  BY <1>1 DEF EventsDistinct
<1> HIDE DEF Plus
<1>5. CASE busy' = busy
  BY <1>1, <1>2, <1>4, <1>5 DEF EventsDistinct
<1>6. CASE busy' = busy + 1
  <2>1. \A i, j \in busy + 1 .. R - 1 : i # j => stack[i] # stack[j]
    BY <1>1, <1>4
  <2>2. \A i, j \in 0 .. busy :
          i # j => hev'[Plus(deq, i)] # hev'[Plus(deq, j)]
    BY <1>1, <1>2, <1>3, <1>4
  <2>3. \A i \in 0 .. busy, j \in busy + 1 .. R - 1 : hev'[Plus(deq, i)] # stack[j]
    BY <1>1, <1>2, <1>3, <1>4
  <2>4. busy' - 1 = busy
    BY <1>6
  <2> QED
    BY <1>1, <1>6, <2>1, <2>2, <2>3, <2>4 DEF EventsDistinct
<1> QED
  BY <1>1, <1>5, <1>6

\* Every step keeps events distinct.
LEMMA EventsStep ==
  ASSUME TypeOK, Steps, RingAligned, EventsDistinct, [Next]_vars
  PROVE  EventsDistinct'
<1> USE DEF TypeOK, ring, local, bufs, client, hist
<1>1. CASE ResetEnd
  <2>1. rd' # "none" => busy' = 0 /\ stack' = [i \in Events |-> i]
    BY <1>1 DEF ResetEnd
  <2> QED
    BY <2>1, RingAssumption DEF EventsDistinct, Events
<1>2. CASE PostRead
  BY <1>2, EventsPost
<1>3. CASE Receive
  BY <1>3, EventsPop DEF Receive, Steps
<1>4. CASE DiscardOne
  BY <1>4, EventsPop DEF DiscardOne, ThreadType
<1>5. CASE FlushOne
  BY <1>5, EventsPop DEF FlushOne, ThreadType
<1>6. CASE ReadExit \/ ConnectNoData
  BY <1>6 DEF ReadExit, ConnectNoData, Exit, EventsDistinct
<1> DEFINE Still == /\ busy' = busy /\ stack' = stack /\ hev' = hev /\ deq' = deq
                    /\ rd = "none" => rd' = "none"
<1>7. CASE Still
  BY <1>7, EventsFrame
<1>8. CASE OpenTuner \/ GetTsStream \/ GetTsStreamEmpty \/ AppPurge
           \/ \E goal \in {"set", "close"} : ResetBegin(goal)
  <2>1. Still
    BY <1>8 DEF OpenTuner, GetTsStream, GetTsStreamEmpty, AppPurge, ResetBegin,
       PurgeTsStream
  <2> QED
    BY <2>1, <1>7
<1>9. CASE CtrlStep
  <2>1. Still
    BY <1>9 DEF CtrlStep, CtrlPurge, CtrlExit, CtrlPause, PurgeTsStream
  <2> QED
    BY <2>1, <1>7
<1>10. CASE Connect \/ Connected \/ WaitOver \/ RingFull \/ AwaitPurge \/ AwaitDone
            \/ AwaitError
  <2>1. Still
    BY <1>10 DEF Connect, Connected, WaitOver, RingFull, AwaitPurge, AwaitDone,
       AwaitError
  <2> QED
    BY <2>1, <1>7
<1>11. CASE PurgeReady \/ CancelRequests \/ DiscardEnd \/ Disconnect \/ FlushEnd
  <2>1. Still
    BY <1>11 DEF PurgeReady, CancelRequests, DiscardEnd, Disconnect, FlushEnd
  <2> QED
    BY <2>1, <1>7
<1>12. CASE ClientStep \/ UNCHANGED vars
  <2>1. Still
    BY <1>12 DEF ClientStep, ClientConnect, ClientWrite, ClientClose, vars
  <2> QED
    BY <2>1, <1>7
<1> QED
  BY <1>1, <1>2, <1>3, <1>4, <1>5, <1>6, <1>8, <1>9, <1>10, <1>11, <1>12
  DEF Next, AppStep, ReadStep

\* The invariant holds in every state of every behaviour.
LEMMA InvHolds == Spec => []Inv
<1>1. Inv /\ [Next]_vars => Inv'
  BY TypeStep, StepsStep, AlignedStep, HeldStep, PurgeStep, EventsStep DEF Inv
<1> QED
  BY InvInit, <1>1, PTL DEF Spec

-----------------------------------------------------------------------------
(* The properties *)

\* Every variable keeps its type (CBonDriverPipe's pointers stay in the ring and
\* m_dwReadyReqNum below ASYNCBUFFSIZE).
THEOREM TypeCorrect == Spec => []TypeOK
<1>1. Inv => TypeOK
  BY DEF Inv
<1> QED
  BY <1>1, InvHolds, PTL

\* The retrievable buffers, the outstanding requests and the free buffers are
\* adjacent runs of the ring, whatever the two threads do to m_pIoGetReq.
THEOREM RingStaysAligned == Spec => []RingAligned
<1>1. Inv => RingAligned
  BY DEF Inv
<1> QED
  BY <1>1, InvHolds, PTL

\* hEventStack never hands out the event of an outstanding request.
THEOREM EventsStayDistinct == Spec => []EventsDistinct
<1>1. Inv => EventsDistinct
  BY DEF Inv
<1> QED
  BY <1>1, InvHolds, PTL

\* Both hold together: the read thread's pointers and events fit the ring.
THEOREM RingStaysSound == Spec => []RingSound
<1>1. Inv => RingSound
  BY DEF Inv, RingSound
<1> QED
  BY <1>1, InvHolds, PTL

\* The buffer GetTsStream returned is not read into again before the next call
\* or a purge.
THEOREM HeldBufferReserved == Spec => []HeldReservedNoPurge
<1>1. Inv => HeldReservedNoPurge
  <2> SUFFICES ASSUME Inv, fresh, held # N, NEW k \in 0 .. InFlight - 1
               PROVE  Plus(deq, k) # held
    BY DEF HeldReservedNoPurge
  <2>1. rd # "none" /\ InFlight = busy /\ k \in 0 .. busy - 1
    BY DEF Inv, InFlight
  <2>2. deq = Plus(get, ready) /\ ready + k < N - 1 /\ held = Plus(get, N - 1)
    BY <2>1, RingAssumption
    DEF Inv, RingAligned, HeldBehind, TypeOK, RingType, ThreadType, Slots
  <2> QED
    BY <2>1, <2>2, RingAssumption DEF Inv, TypeOK, RingType, ThreadType, Plus, Slots
<1> QED
  BY <1>1, InvHolds, PTL

\* At most one buffer gets past a pending purge, as the TODO in ReadPipeMain says.
THEOREM StaleBounded == Spec => []StaleAtMostOne
<1>1. Inv => StaleAtMostOne
  BY DEF Inv, PurgeCount, StaleAtMostOne
<1> QED
  BY <1>1, InvHolds, PTL

-----------------------------------------------------------------------------
(* The stream through the ring *)

\* Requests complete in the order they were posted: behind one that is outstanding
\* all are, and the kernel holds nothing.
FlightOrder ==
  rd # "none" =>
  \A k \in 0 .. busy - 1 :
    st[Plus(deq, k)] = "pending" =>
      pipe = <<>> /\ \A j \in k .. busy - 1 : st[Plus(deq, j)] = "pending"
\* What GetTsStream can return was received, or carries no data.
ReadyKnown == \A i \in 0 .. ready - 1 : st[Plus(get, i)] \in {"known", "zero"}

\* What the read thread's place says of the pipe, the oldest request and the ring.
Phases ==
  /\ rd = "none" => conn = "none" /\ pipe = <<>>
  /\ rd = "RECEIVE" => st[deq] = "known"
  /\ rd \in {"CANCEL", "DISCARD"} => ready = 0
  /\ rd = "FLUSH" /\ busy # 0 => lost
  /\ last <= sent /\ sent <= MaxChunk

\* The chunks that remain after a step stand in the same order as before, d places
\* nearer to the application.
LEMMA FlowKept ==
  ASSUME NothingLost, sent' = sent, last' = last, NEW d \in Nat,
         \A i \in Places' : ChunkAt(i)' # 0 => i + d \in Places /\ ChunkAt(i + d) = ChunkAt(i)',
         ~lost' => ~lost /\ \A i \in Places : ChunkAt(i) # 0 =>
                              \E j \in Places' : ChunkAt(j)' = ChunkAt(i),
         Places \subseteq Nat, Places' \subseteq Nat
  PROVE  NothingLost'
<1>1. Queued' \subseteq Queued
  BY DEF Queued
<1>2. ASSUME NEW i \in Places', NEW j \in Places', i < j, ChunkAt(i)' # 0, ChunkAt(j)' # 0
      PROVE  ChunkAt(i)' < ChunkAt(j)'
  <2>1. i + d < j + d /\ i + d \in Places /\ j + d \in Places
    BY <1>2
  <2> QED
    BY <1>2, <2>1 DEF NothingLost
<1>3. ~lost' => ~lost /\ Queued \subseteq Queued'
  BY DEF Queued
<1> QED
  BY <1>1, <1>2, <1>3 DEF NothingLost

\* The places before a step.
LEMMA PlacesNat ==
  ASSUME TypeOK
  PROVE  /\ ready \in Nat /\ InFlight \in Nat /\ Len(pipe) \in Nat
         /\ Places \subseteq Nat
<1>1. ready \in Nat /\ busy \in Nat /\ Len(pipe) \in Nat
  BY RingAssumption DEF TypeOK, RingType, ThreadType, ClientType
<1> QED
  BY <1>1 DEF InFlight, Places

\* Buffers up to the last outstanding request are in the ring.
LEMMA BufferInRing ==
  ASSUME TypeOK, RingAligned, NEW i \in 1 .. ready + InFlight
  PROVE  /\ i - 1 \in 0 .. N - 1 /\ Plus(get, i - 1) \in Slots
         /\ i > ready => /\ rd # "none" /\ i - 1 - ready \in 0 .. busy - 1
                         /\ Plus(get, i - 1) = Plus(deq, i - 1 - ready)
<1>1. get \in Slots /\ ready \in Nat /\ busy \in Nat /\ deq \in Slots
  BY RingAssumption DEF TypeOK, RingType, ThreadType
<1>2. ready + InFlight <= N - 1 /\ InFlight \in Nat
  BY <1>1 DEF RingAligned, InFlight
<1>3. i - 1 \in 0 .. N - 1
  BY <1>1, <1>2, RingAssumption
<1>4. Plus(get, i - 1) \in Slots
  BY <1>1, <1>3, RingAssumption, PlusInRing
<1>5. ASSUME i > ready
      PROVE  rd # "none" /\ i - 1 - ready \in 0 .. busy - 1 /\ Plus(get, i - 1) = Plus(deq, i - 1 - ready)
  <2>1. rd # "none" /\ InFlight = busy /\ deq = Plus(get, ready)
    BY <1>1, <1>5 DEF InFlight, RingAligned
  <2>2. i - 1 - ready \in 0 .. busy - 1
    BY <1>1, <1>5, <2>1
  <2>3. ready \in 0 .. N /\ i - 1 - ready \in 0 .. N /\ ready + (i - 1 - ready) = i - 1
    BY <1>1, <1>2, <2>1, <2>2, RingAssumption
  <2> QED
    BY <1>1, <1>3, <2>1, <2>2, <2>3, PlusPlus, RingAssumption
<1> QED
  BY <1>1, <1>3, <1>4, <1>5

\* A step that moves no chunk.
LEMMA FlowSame ==
  ASSUME TypeOK, RingAligned, NothingLost, sent' = sent, last' = last, get' = get,
         pipe' = pipe, ready' + InFlight' = ready + InFlight, lost => lost',
         \A i \in 1 .. ready + InFlight : Item(Plus(get, i - 1))' = Item(Plus(get, i - 1))
  PROVE  NothingLost'
<1>1. Places' = Places
  BY DEF Places
<1>2. ASSUME NEW i \in Places
      PROVE  ChunkAt(i)' = ChunkAt(i)
  <2>1. /\ ready \in Nat /\ InFlight \in Nat /\ Len(pipe) \in Nat
        /\ i \in 1 .. ready + InFlight + Len(pipe)
    BY PlacesNat DEF Places
  <2>2. CASE i <= ready + InFlight
    BY <2>1, <2>2 DEF ChunkAt
  <2>3. CASE ~(i <= ready + InFlight)
    BY <2>1, <2>3 DEF ChunkAt
  <2> QED
    BY <2>2, <2>3
<1>3. \A i \in Places' : i + 0 \in Places /\ ChunkAt(i + 0) = ChunkAt(i)'
  BY <1>1, <1>2, PlacesNat
<1> QED
  BY <1>1, <1>2, <1>3, PlacesNat, FlowKept

\* Where a chunk was before a step that moves m_pIoGetReq d buffers on.
LEMMA FlowShift ==
  ASSUME TypeOK, RingAligned,
         NEW d \in Nat, NEW m \in Nat, m + d = ready + InFlight, ready' + InFlight' = m,
         get' = Plus(get, d), pipe' = pipe, \A s \in Slots : Item(s)' = Item(s)
  PROVE  /\ Places' = 1 .. m + Len(pipe)
         /\ \A i \in Places' : i + d \in Places /\ ChunkAt(i + d) = ChunkAt(i)'
<1>1. /\ ready \in Nat /\ InFlight \in Nat /\ Len(pipe) \in Nat /\ Places \subseteq Nat
      /\ get \in Slots /\ ready + InFlight <= N - 1
  BY PlacesNat DEF TypeOK, RingType, RingAligned
<1>2. Places' = 1 .. m + Len(pipe)
  BY DEF Places
<1>3. ASSUME NEW i \in Places'
      PROVE  i + d \in Places /\ ChunkAt(i + d) = ChunkAt(i)'
  <2>0. ChunkAt(i)' = IF i <= m THEN Item(Plus(get, i - 1))' ELSE pipe[i - m]
    BY Zenon DEF ChunkAt
  <2>1. i \in Nat /\ i >= 1 /\ i + d <= ready + InFlight + Len(pipe)
    BY <1>1, <1>2
  <2>2. i + d \in Places
    BY <1>1, <1>2, <2>1 DEF Places
  <2>3. CASE i <= m
    <3>1. i + d <= ready + InFlight
      BY <1>1, <1>2, <2>1, <2>3
    <3>2. i - 1 \in 0 .. N /\ d \in 0 .. N /\ d + (i - 1) <= N /\ d + (i - 1) = (i + d) - 1
      BY <1>1, <1>2, <2>1, <3>1, RingAssumption
    <3>3. Plus(Plus(get, d), i - 1) = Plus(get, (i + d) - 1)
      BY <1>1, <3>2, PlusPlus
    <3>4. PICK s \in Slots : s = Plus(get, (i + d) - 1)
      BY <1>1, <1>2, <2>1, <3>2, PlusInRing, RingAssumption
    <3>5. ChunkAt(i + d) = Item(s)
      BY <3>1, <3>4 DEF ChunkAt
    <3>6. Plus(get', i - 1) = s
      BY <3>3, <3>4
    <3>7. ChunkAt(i)' = Item(s)'
      BY <2>0, <2>3, <3>6 DEF Item
    <3> QED
      BY <2>2, <3>5, <3>7
  <2>4. CASE ~(i <= m)
    <3>1. (i + d) - (ready + InFlight) = i - m /\ ~(i + d <= ready + InFlight)
      BY <1>1, <1>2, <2>1, <2>4
    <3> QED
      BY <2>0, <2>2, <2>4, <3>1 DEF ChunkAt
  <2> QED
    BY <2>3, <2>4
<1> QED
  BY <1>2, <1>3

\* Buffers are skipped, or nothing is.
LEMMA FlowSkip ==
  ASSUME TypeOK, RingAligned, NothingLost, sent' = sent, last' = last,
         NEW d \in Nat, NEW m \in Nat, m + d = ready + InFlight, ready' + InFlight' = m,
         get' = Plus(get, d), pipe' = pipe, ~lost' => ~lost /\ d = 0,
         \A s \in Slots : Item(s)' = Item(s)
  PROVE  NothingLost'
<1>1. /\ ready \in Nat /\ InFlight \in Nat /\ Len(pipe) \in Nat /\ Places \subseteq Nat
  BY PlacesNat
<1>2. /\ Places' = 1 .. m + Len(pipe)
      /\ \A i \in Places' : i + d \in Places /\ ChunkAt(i + d) = ChunkAt(i)'
  BY FlowShift
<1>3. Places' \subseteq Nat
  BY <1>1, <1>2
<1>4. ~lost' => ~lost /\ \A i \in Places : \E j \in Places' : ChunkAt(j)' = ChunkAt(i)
  <2> SUFFICES ASSUME ~lost' PROVE ~lost /\ \A i \in Places : \E j \in Places' : ChunkAt(j)' = ChunkAt(i)
    OBVIOUS
  <2>1. ~lost /\ d = 0
    OBVIOUS
  <2>2. m = ready + InFlight /\ \A i \in Nat : i + d = i
    BY <1>1, <2>1
  <2>3. Places' = Places
    BY <1>2, <2>2 DEF Places
  <2> QED
    BY <1>1, <1>2, <2>1, <2>2, <2>3
<1> QED
  BY <1>1, <1>2, <1>3, <1>4, FlowKept

\* GetTsStream delivers the oldest buffer.
LEMMA FlowTake ==
  ASSUME TypeOK, RingAligned, NothingLost, last <= sent, ready # 0, sent' = sent,
         NEW m \in Nat, m + 1 = ready + InFlight, ready' + InFlight' = m,
         get' = Plus(get, 1), pipe' = pipe, lost' = lost,
         last' = IF Item(get) # 0 THEN Item(get) ELSE last,
         \A s \in Slots : Item(s)' = Item(s)
  PROVE  NothingLost' /\ last' <= sent'
<1>1. /\ ready \in Nat /\ InFlight \in Nat /\ Len(pipe) \in Nat /\ Places \subseteq Nat
      /\ last \in Nat /\ sent \in Nat /\ get \in Slots
  BY PlacesNat DEF TypeOK, HistoryType, ClientType, RingType
<1>2. /\ Places' = 1 .. m + Len(pipe)
      /\ \A i \in Places' : i + 1 \in Places /\ ChunkAt(i + 1) = ChunkAt(i)'
  BY FlowShift
<1>3. 1 \in Places /\ ChunkAt(1) = Item(get)
  <2>1. Plus(get, 1 - 1) = get
    BY <1>1, RingAssumption DEF Plus, Slots
  <2> QED
    BY <1>1, <2>1 DEF Places, ChunkAt
<1>4. PICK l \in Nat : /\ l = last' /\ last <= l /\ l <= sent
                       /\ ChunkAt(1) = 0 \/ ChunkAt(1) = l
                       /\ ChunkAt(1) = 0 => l = last
  <2>1. CASE ChunkAt(1) = 0
    BY <1>1, <1>3, <2>1
  <2>2. CASE ChunkAt(1) # 0
    <3>1. ChunkAt(1) \in last + 1 .. sent
      BY <1>3, <2>2 DEF NothingLost, Queued
    <3> QED
      BY <1>1, <1>3, <2>2, <3>1
  <2> QED
    BY <2>1, <2>2
<1>5. ASSUME NEW i \in Places', ChunkAt(i)' # 0
      PROVE  ChunkAt(i)' \in l + 1 .. sent
  <2>1. i + 1 \in Places /\ 1 < i + 1 /\ ChunkAt(i + 1) = ChunkAt(i)' /\ ChunkAt(i + 1) # 0
    BY <1>1, <1>2, <1>5
  <2>2. ChunkAt(i + 1) \in last + 1 .. sent
    BY <2>1 DEF NothingLost, Queued
  <2>3. ChunkAt(1) # 0 => ChunkAt(1) < ChunkAt(i + 1)
    BY <1>3, <2>1 DEF NothingLost
  <2>4. ChunkAt(i + 1) \in l + 1 .. sent
    BY <1>1, <1>4, <2>2, <2>3
  <2> QED
    BY <2>1, <2>4
<1>6. ASSUME NEW i \in Places', NEW j \in Places', i < j, ChunkAt(i)' # 0, ChunkAt(j)' # 0
      PROVE  ChunkAt(i)' < ChunkAt(j)'
  <2>1. /\ i + 1 < j + 1 /\ i + 1 \in Places /\ j + 1 \in Places
        /\ ChunkAt(i + 1) = ChunkAt(i)' /\ ChunkAt(j + 1) = ChunkAt(j)'
    BY <1>1, <1>2, <1>6
  <2> QED
    BY <1>6, <2>1 DEF NothingLost
<1>7. ASSUME ~lost, NEW c \in l + 1 .. sent
      PROVE  c \in Queued'
  <2>1. c \in last + 1 .. sent /\ c # 0 /\ c # l
    BY <1>1, <1>4
  <2>2. PICK i \in Places : ChunkAt(i) = c
    BY <1>7, <2>1 DEF NothingLost, Queued
  <2>3. i # 1
    BY <1>4, <2>1, <2>2
  <2>4. i - 1 \in Places' /\ (i - 1) + 1 = i
    BY <1>1, <1>2, <2>2, <2>3 DEF Places
  <2> QED
    BY <1>2, <2>1, <2>2, <2>4 DEF Queued
<1>8. Queued' \subseteq l + 1 .. sent
  BY <1>5 DEF Queued
<1> QED
  BY <1>4, <1>6, <1>7, <1>8 DEF NothingLost

\* Everything behind the first m buffers is discarded.
LEMMA FlowCut ==
  ASSUME TypeOK, RingAligned, NothingLost, sent' = sent, last' = last, get' = get,
         NEW m \in Nat, m <= ready + InFlight, ready' + InFlight' = m, pipe' = <<>>,
         ~lost' => ~lost /\ m = ready + InFlight /\ pipe = <<>>,
         \A s \in Slots : Item(s)' # 0 => Item(s)' = Item(s),
         ~lost' => \A s \in Slots : Item(s)' = Item(s)
  PROVE  NothingLost'
<1>1. /\ ready \in Nat /\ InFlight \in Nat /\ Len(pipe) \in Nat /\ Places \subseteq Nat
  BY PlacesNat
<1>2. Places' = 1 .. m
  BY DEF Places
<1>3. ASSUME NEW i \in Places'
      PROVE  /\ i \in Places /\ i + 0 = i
             /\ ChunkAt(i)' # 0 => ChunkAt(i) = ChunkAt(i)'
             /\ ~lost' => ChunkAt(i) = ChunkAt(i)'
  <2>1. i \in 1 .. ready + InFlight /\ i \in Places /\ i + 0 = i
    BY <1>1, <1>2 DEF Places
  <2>2. PICK s \in Slots : s = Plus(get, i - 1)
    BY <2>1, BufferInRing
  <2>3. ChunkAt(i) = Item(s)
    BY <2>1, <2>2 DEF ChunkAt
  <2>4. ChunkAt(i)' = IF i <= m THEN Item(Plus(get, i - 1))' ELSE pipe'[i - m]
    BY Zenon DEF ChunkAt
  <2>5. ChunkAt(i)' = Item(s)'
    BY <1>2, <2>2, <2>4 DEF Item
  <2> QED
    BY <2>1, <2>3, <2>5
<1>4. Places' \subseteq Nat
  BY <1>2
<1>5. ~lost' => ~lost /\ \A i \in Places : \E j \in Places' : ChunkAt(j)' = ChunkAt(i)
  <2> SUFFICES ASSUME ~lost' PROVE ~lost /\ \A i \in Places : \E j \in Places' : ChunkAt(j)' = ChunkAt(i)
    OBVIOUS
  <2>1. Places' = Places
    BY <1>1, <1>2 DEF Places
  <2> QED
    BY <1>3, <2>1
<1> QED
  BY <1>1, <1>3, <1>4, <1>5, FlowKept

\* ReadFile takes a chunk the kernel holds into the first free buffer: it stays at
\* its place.  An empty buffer at the end moves nothing.
LEMMA FlowPost ==
  ASSUME TypeOK, RingAligned, NothingLost, PostRead
  PROVE  NothingLost'
<1>1. /\ ready \in Nat /\ InFlight \in Nat /\ Len(pipe) \in Nat /\ Places \subseteq Nat
      /\ rd = "READING" /\ InFlight = busy /\ busy \in Nat /\ get \in Slots /\ enq \in Slots
      /\ sent' = sent /\ last' = last /\ lost' = lost /\ get' = get /\ ready' = ready
      /\ ready + busy < N - 1 /\ pipe \in Seq(Nat)
  BY PlacesNat DEF TypeOK, RingType, ThreadType, ClientType, PostRead, InFlight, RoomForRead,
     ring, hist
<1>2. enq = Plus(get, ready + busy)
  BY <1>1, PlusPlus, RingAssumption DEF RingAligned
<1>3. /\ st \in [Slots -> {"pending", "arrived", "known", "error", "zero"}]
      /\ data \in [Slots -> Nat]
  BY DEF TypeOK, BufferType
<1>4. ASSUME NEW i \in 1 .. ready + busy
      PROVE  Plus(get, i - 1) # enq /\ Plus(get, i - 1) \in Slots
  <2>1. i - 1 \in 0 .. N - 1 /\ ready + busy \in 0 .. N - 1 /\ i - 1 # ready + busy
    BY <1>1, RingAssumption
  <2>2. i - 1 \in 0 .. N
    BY <2>1, RingAssumption
  <2> QED
    BY <1>1, <1>2, <2>1, <2>2, PlusInjective, PlusInRing
<1>5. CASE pipe # <<>> /\ pipe' = Tail(pipe)
  <2>1. /\ rd' = "READING" /\ busy' = busy + 1 /\ data' = [data EXCEPT ![enq] = Head(pipe)]
        /\ st' = [st EXCEPT ![enq] = "known"]
    BY <1>1, <1>5, HeadTail DEF PostRead
  <2>2. ready' + InFlight' = ready + busy + 1
    BY <1>1, <2>1 DEF InFlight
  <2>3. /\ Len(pipe) > 0 /\ Len(pipe') = Len(pipe) - 1 /\ Head(pipe) = pipe[1]
        /\ \A i \in 1 .. Len(pipe) - 1 : pipe'[i] = pipe[i + 1]
    BY <1>1, <1>5
  <2>4. Places' = Places
    <3>1. Places' = 1 .. ready + busy + 1 + Len(pipe')
      BY <2>2, Zenon DEF Places
    <3> QED
      BY <1>1, <2>3, <3>1 DEF Places
  <2>5. ASSUME NEW i \in Places
        PROVE  ChunkAt(i)' = ChunkAt(i)
    <3>1. i \in Nat /\ i >= 1 /\ i <= ready + busy + Len(pipe)
      BY <1>1 DEF Places
    <3>2. ChunkAt(i)' = IF i <= ready + busy + 1 THEN Item(Plus(get, i - 1))'
                                                 ELSE pipe'[i - (ready + busy + 1)]
      BY <2>2, Zenon DEF ChunkAt
    <3>3. CASE i <= ready + busy
      <4>1. PICK s \in Slots : s = Plus(get, i - 1) /\ s # enq
        BY <1>4, <3>1, <3>3
      <4>2. ChunkAt(i) = Item(s)
        BY <1>1, <3>3, <4>1 DEF ChunkAt
      <4>3. ChunkAt(i)' = Item(s)'
        BY <1>1, <3>1, <3>2, <3>3, <4>1 DEF Item
      <4>4. Item(s)' = Item(s)
        BY <1>3, <2>1, <4>1 DEF Item
      <4> QED
        BY <4>2, <4>3, <4>4
    <3>4. CASE i = ready + busy + 1
      <4>1. Plus(get, i - 1) = enq
        BY <1>1, <1>2, <3>4
      <4>2. PICK s \in Slots : s = enq
        BY <1>1
      <4>3. ChunkAt(i)' = Item(s)'
        BY <1>1, <3>1, <3>2, <3>4, <4>1, <4>2 DEF Item
      <4>4. Item(s)' = Head(pipe)
        BY <1>3, <2>1, <4>2 DEF Item
      <4>5. ChunkAt(i) = pipe[1]
        BY <1>1, <3>4 DEF ChunkAt
      <4> QED
        BY <2>3, <4>3, <4>4, <4>5
    <3>5. CASE i > ready + busy + 1
      <4>1. /\ i - (ready + busy + 1) \in 1 .. Len(pipe) - 1
            /\ (i - (ready + busy + 1)) + 1 = i - (ready + busy)
            /\ ~(i <= ready + busy + 1) /\ ~(i <= ready + busy)
        BY <1>1, <3>1, <3>5
      <4> QED
        BY <1>1, <2>3, <3>2, <4>1 DEF ChunkAt
    <3> QED
      BY <1>1, <3>1, <3>3, <3>4, <3>5
  <2>6. \A i \in Places' : i + 0 \in Places /\ ChunkAt(i + 0) = ChunkAt(i)'
    BY <1>1, <2>4, <2>5
  <2> QED
    BY <1>1, <2>4, <2>5, <2>6, FlowKept
<1>6. CASE pipe = <<>> /\ pipe' = <<>> /\ busy' = busy + 1
  <2>1. rd' = "READING" /\ data' = data /\ st' = [st EXCEPT ![enq] = "pending"]
    BY <1>1, <1>6 DEF PostRead
  <2>2. ready' + InFlight' = ready + busy + 1
    BY <1>1, <1>6, <2>1 DEF InFlight
  <2>3. Places' = 1 .. ready + busy + 1 /\ Places = 1 .. ready + busy
    <3>1. Len(pipe') = 0 /\ Len(pipe) = 0
      BY <1>6
    <3>2. Places' = 1 .. ready + busy + 1 + Len(pipe')
      BY <2>2, Zenon DEF Places
    <3> QED
      BY <1>1, <3>1, <3>2 DEF Places
  <2>4. ASSUME NEW i \in Places
        PROVE  ChunkAt(i)' = ChunkAt(i)
    <3>1. i \in 1 .. ready + busy /\ i <= ready + busy + 1
      BY <1>1, <2>3
    <3>2. PICK s \in Slots : s = Plus(get, i - 1) /\ s # enq
      BY <1>4, <3>1
    <3>3. ChunkAt(i) = Item(s)
      BY <1>1, <3>1, <3>2 DEF ChunkAt
    <3>4. ChunkAt(i)' = IF i <= ready + busy + 1 THEN Item(Plus(get, i - 1))'
                                                 ELSE pipe'[i - (ready + busy + 1)]
      BY <2>2, Zenon DEF ChunkAt
    <3>5. ChunkAt(i)' = Item(s)'
      BY <1>1, <3>1, <3>2, <3>4 DEF Item
    <3>6. Item(s)' = Item(s)
      BY <1>3, <2>1, <3>2 DEF Item
    <3> QED
      BY <3>3, <3>5, <3>6
  <2>5. ASSUME NEW i \in Places', i \notin Places
        PROVE  ChunkAt(i)' = 0
    <3>1. i = ready + busy + 1 /\ i - 1 = ready + busy /\ i <= ready + busy + 1
      BY <1>1, <2>3, <2>5
    <3>2. ChunkAt(i)' = IF i <= ready + busy + 1 THEN Item(Plus(get, i - 1))'
                                                 ELSE pipe'[i - (ready + busy + 1)]
      BY <2>2, Zenon DEF ChunkAt
    <3>3. PICK s \in Slots : s = enq
      BY <1>1
    <3>4. ChunkAt(i)' = Item(s)'
      BY <1>1, <1>2, <3>1, <3>2, <3>3 DEF Item
    <3>5. Item(s)' = 0
      BY <1>3, <2>1, <3>3 DEF Item
    <3> QED
      BY <3>4, <3>5
  <2>6. \A i \in Places' : ChunkAt(i)' # 0 => i + 0 \in Places /\ ChunkAt(i + 0) = ChunkAt(i)'
    BY <1>1, <2>3, <2>4, <2>5
  <2>7. Places \subseteq Places' /\ Places' \subseteq Nat
    BY <1>1, <2>3
  <2> QED
    BY <1>1, <2>4, <2>6, <2>7, FlowKept
<1>7. CASE pipe' = pipe /\ busy' = busy
  <2>1. rd' = "DISCONNECTING" /\ data' = data /\ st' = st
    BY <1>1, <1>7 DEF PostRead
  <2>2. ready' + InFlight' = ready + InFlight
    BY <1>1, <1>7, <2>1 DEF InFlight
  <2>3. \A i \in 1 .. ready + InFlight : Item(Plus(get, i - 1))' = Item(Plus(get, i - 1))
    BY <1>1, <2>1 DEF Item
  <2> QED
    BY <1>1, <1>7, <2>2, <2>3, FlowSame
<1>8. \/ pipe # <<>> /\ pipe' = Tail(pipe)
      \/ pipe = <<>> /\ pipe' = <<>> /\ busy' = busy + 1
      \/ pipe' = pipe /\ busy' = busy
  BY DEF PostRead
<1> QED
  BY <1>5, <1>6, <1>7, <1>8

\* The client's chunk comes to stand behind every other.
LEMMA FlowGrows ==
  ASSUME TypeOK, NothingLost, last <= sent, sent' = sent + 1, last' = last, lost' = lost,
         NEW p \in Places', Places \subseteq Places', Places' \subseteq Nat,
         ChunkAt(p)' = sent + 1,
         \A i \in Places' : i < p /\ ChunkAt(i)' # 0 => i \in Places /\ ChunkAt(i) = ChunkAt(i)',
         \A i \in Places' : i > p => ChunkAt(i)' = 0,
         \A i \in Places : ChunkAt(i) # 0 => i # p /\ ChunkAt(i)' = ChunkAt(i)
  PROVE  NothingLost'
<1>1. last \in Nat /\ sent \in Nat
  BY DEF TypeOK, HistoryType, ClientType
<1>2. ASSUME NEW i \in Places', ChunkAt(i)' # 0
      PROVE  \/ i = p /\ ChunkAt(i)' = sent + 1
             \/ i < p /\ i \in Places /\ ChunkAt(i) = ChunkAt(i)' /\ ChunkAt(i) \in last + 1 .. sent
  <2>1. i = p \/ i < p
    BY <1>2
  <2>2. CASE i < p
    BY <1>2, <2>2 DEF NothingLost, Queued
  <2> QED
    BY <2>1, <2>2
<1>3. Queued' \subseteq last + 1 .. sent + 1
  <2> SUFFICES ASSUME NEW i \in Places', ChunkAt(i)' # 0
               PROVE  ChunkAt(i)' \in last + 1 .. sent + 1
    BY DEF Queued
  <2> QED
    BY <1>1, <1>2
<1>4. ASSUME NEW i \in Places', NEW j \in Places', i < j, ChunkAt(i)' # 0, ChunkAt(j)' # 0
      PROVE  ChunkAt(i)' < ChunkAt(j)'
  <2>1. j = p \/ j < p
    BY <1>2, <1>4
  <2>2. i < p
    BY <1>4, <2>1
  <2>3. i \in Places /\ ChunkAt(i) = ChunkAt(i)' /\ ChunkAt(i) \in last + 1 .. sent
    BY <1>2, <1>4, <2>2
  <2>4. CASE j = p
    BY <1>1, <2>3, <2>4
  <2>5. CASE j < p
    <3>1. j \in Places /\ ChunkAt(j) = ChunkAt(j)'
      BY <1>4, <2>5
    <3> QED
      BY <1>4, <2>3, <3>1 DEF NothingLost
  <2> QED
    BY <2>1, <2>4, <2>5
<1>5. ASSUME ~lost, NEW c \in last + 1 .. sent + 1
      PROVE  c \in Queued'
  <2>1. c # 0
    BY <1>1
  <2>2. CASE c = sent + 1
    BY <2>1, <2>2 DEF Queued
  <2>3. CASE c \in last + 1 .. sent
    <3>1. PICK i \in Places : ChunkAt(i) = c
      BY <1>5, <2>3 DEF NothingLost, Queued
    <3> QED
      BY <2>1, <3>1 DEF Queued
  <2> QED
    BY <1>1, <2>2, <2>3
<1> QED
  BY <1>3, <1>4, <1>5 DEF NothingLost

\* The client's chunk fills the oldest outstanding request, or waits in the kernel.
LEMMA FlowWrite ==
  ASSUME TypeOK, RingAligned, Phases, FlightOrder, NothingLost, ClientWrite
  PROVE  NothingLost'
<1>1. /\ ready \in Nat /\ InFlight \in Nat /\ Len(pipe) \in Nat /\ Places \subseteq Nat
      /\ busy \in Nat /\ get \in Slots /\ deq \in Slots
      /\ pipe \in Seq(Nat) /\ sent \in Nat
  BY PlacesNat DEF TypeOK, RingType, ThreadType, ClientType
<1>2. /\ rd # "none" /\ rd' = rd /\ InFlight = busy /\ busy' = busy /\ InFlight' = busy
      /\ sent' = sent + 1 /\ last' = last /\ lost' = lost /\ get' = get /\ ready' = ready
      /\ last <= sent
  BY DEF ClientWrite, Phases, InFlight, ring, local, hist
<1>3. /\ st \in [Slots -> {"pending", "arrived", "known", "error", "zero"}]
      /\ data \in [Slots -> Nat]
  BY DEF TypeOK, BufferType
<1>4. ready + busy <= N - 1
  BY <1>2 DEF RingAligned
<1>5. ASSUME NEW k \in 0 .. busy - 1,
             st[Plus(deq, k)] = "pending",
             \A j \in 0 .. k - 1 : st[Plus(deq, j)] # "pending",
             st' = [st EXCEPT ![Plus(deq, k)] = "arrived"],
             data' = [data EXCEPT ![Plus(deq, k)] = sent + 1],
             pipe' = pipe
      PROVE  NothingLost'
  <2>1. pipe = <<>> /\ \A j \in k .. busy - 1 : st[Plus(deq, j)] = "pending"
    BY <1>2, <1>5 DEF FlightOrder
  <2>2. Len(pipe) = 0 /\ Len(pipe') = 0
    BY <1>5, <2>1
  <2>3. Places = 1 .. ready + busy /\ Places' = 1 .. ready + busy
    <3>1. Places' = 1 .. ready + busy + Len(pipe')
      BY <1>2, Zenon DEF Places
    <3> QED
      BY <1>1, <1>2, <2>2, <3>1 DEF Places
  <2>4. PICK p \in Places : p = ready + k + 1
    BY <1>1, <2>3
  <2>5. PICK q \in Slots : q = Plus(get, p - 1) /\ q = Plus(deq, k)
    <3>1. p \in 1 .. ready + InFlight /\ p > ready /\ (p - 1) - ready = k
      BY <1>1, <1>2, <2>3, <2>4
    <3>2. Plus(get, p - 1) \in Slots /\ Plus(get, p - 1) = Plus(deq, p - 1 - ready)
      BY <3>1, BufferInRing
    <3>3. p - 1 - ready = k
      BY <1>1, <2>3, <3>1
    <3> QED
      BY <3>2, <3>3
  <2>6. ASSUME NEW i \in Places
        PROVE  \E s \in Slots : /\ ChunkAt(i) = Item(s) /\ ChunkAt(i)' = Item(s)'
                                /\ s = q <=> i = p
                                /\ i >= p => st[s] = "pending"
    <3>1. i \in 1 .. ready + InFlight /\ i \in 1 .. ready + busy
      BY <1>1, <1>2, <2>3
    <3>2. PICK s \in Slots : s = Plus(get, i - 1)
      BY <3>1, BufferInRing
    <3>3. ChunkAt(i) = Item(s)
      BY <3>1, <3>2 DEF ChunkAt
    <3>4. ChunkAt(i)' = IF i <= ready + busy THEN Item(Plus(get, i - 1))'
                                             ELSE pipe'[i - (ready + busy)]
      BY <1>2, Zenon DEF ChunkAt
    <3>5. ChunkAt(i)' = Item(s)'
      BY <1>2, <3>1, <3>2, <3>4 DEF Item
    <3>6. s = q <=> i = p
      <4>1. i - 1 \in 0 .. N - 1 /\ p - 1 \in 0 .. N - 1
        BY <1>1, <1>4, <2>3, <3>1, RingAssumption
      <4>2. s = q => i - 1 = p - 1
        BY <1>1, <2>5, <3>2, <4>1, PlusInjective
      <4> QED
        BY <2>3, <2>5, <3>1, <3>2, <4>2
    <3>7. ASSUME i >= p
          PROVE  st[s] = "pending"
      <4>1. i > ready /\ (i - 1) - ready \in k .. busy - 1 /\ i - 1 - ready = (i - 1) - ready
        BY <1>1, <2>3, <2>4, <3>1, <3>7
      <4>2. s = Plus(deq, i - 1 - ready)
        BY <3>1, <3>2, <4>1, BufferInRing
      <4> QED
        BY <2>1, <4>1, <4>2
    <3> QED
      BY <3>2, <3>3, <3>5, <3>6, <3>7
  <2>7. ASSUME NEW i \in Places, i # p
        PROVE  ChunkAt(i)' = ChunkAt(i) /\ (i > p => ChunkAt(i)' = 0)
    <3>1. PICK s \in Slots : /\ ChunkAt(i) = Item(s) /\ ChunkAt(i)' = Item(s)' /\ s # q
                             /\ i >= p => st[s] = "pending"
      BY <2>6, <2>7
    <3>2. st'[s] = st[s] /\ data'[s] = data[s]
      BY <1>3, <1>5, <2>5, <3>1
    <3>3. i > p => i >= p
      BY <2>3
    <3> QED
      BY <3>1, <3>2, <3>3 DEF Item
  <2>8. ChunkAt(p) = 0 /\ ChunkAt(p)' = sent + 1
    <3>1. PICK s \in Slots : /\ ChunkAt(p) = Item(s) /\ ChunkAt(p)' = Item(s)' /\ s = q
                             /\ p >= p => st[s] = "pending"
      BY <2>6
    <3>2. st[s] = "pending" /\ st'[s] = "arrived" /\ data'[s] = sent + 1
      BY <1>3, <1>5, <2>5, <3>1
    <3> QED
      BY <3>1, <3>2 DEF Item
  <2>9. /\ \A i \in Places' : i < p /\ ChunkAt(i)' # 0 => i \in Places /\ ChunkAt(i) = ChunkAt(i)'
        /\ \A i \in Places' : i > p => ChunkAt(i)' = 0
        /\ \A i \in Places : ChunkAt(i) # 0 => i # p /\ ChunkAt(i)' = ChunkAt(i)
    BY <1>1, <2>3, <2>7, <2>8
  <2> QED
    BY <1>1, <1>2, <2>3, <2>8, <2>9, FlowGrows
<1>6. ASSUME pipe' = Append(pipe, sent + 1), st' = st, data' = data
      PROVE  NothingLost'
  <2>1. /\ Len(pipe') = Len(pipe) + 1 /\ pipe'[Len(pipe) + 1] = sent + 1
        /\ \A i \in 1 .. Len(pipe) : pipe'[i] = pipe[i]
    BY <1>1, <1>6
  <2>2. /\ Places = 1 .. ready + busy + Len(pipe)
        /\ Places' = 1 .. ready + busy + Len(pipe) + 1
    <3>1. Places' = 1 .. ready + busy + Len(pipe')
      BY <1>2, Zenon DEF Places
    <3> QED
      BY <1>1, <1>2, <2>1, <3>1 DEF Places
  <2>3. PICK p \in Places' : p = ready + busy + Len(pipe) + 1
    BY <1>1, <2>2
  <2>4. ASSUME NEW i \in Places'
        PROVE  ChunkAt(i)' = IF i <= ready + busy THEN Item(Plus(get, i - 1))'
                                                  ELSE pipe'[i - (ready + busy)]
    BY <1>2, Zenon DEF ChunkAt
  <2>5. ASSUME NEW i \in Places
        PROVE  i \in Places' /\ ChunkAt(i)' = ChunkAt(i) /\ i < p
    <3>1. i \in Nat /\ i \in Places' /\ i < p /\ i <= ready + busy + Len(pipe)
      BY <1>1, <2>2, <2>3
    <3>2. CASE i <= ready + busy
      BY <1>2, <1>6, <2>4, <3>1, <3>2 DEF ChunkAt, Item
    <3>3. CASE ~(i <= ready + busy)
      <4>1. i - (ready + busy) \in 1 .. Len(pipe)
        BY <1>1, <3>1, <3>3
      <4> QED
        BY <1>2, <2>1, <2>4, <3>1, <3>3, <4>1 DEF ChunkAt
    <3> QED
      BY <3>1, <3>2, <3>3
  <2>6. ChunkAt(p)' = sent + 1
    <3>1. ~(p <= ready + busy) /\ p - (ready + busy) = Len(pipe) + 1
      BY <1>1, <2>3
    <3> QED
      BY <2>1, <2>4, <3>1
  <2>7. /\ \A i \in Places' : i < p => i \in Places
        /\ \A i \in Places' : ~(i > p)
        /\ Places' \subseteq Nat /\ Places \subseteq Places'
    BY <1>1, <2>2, <2>3
  <2>8. /\ \A i \in Places' : i < p /\ ChunkAt(i)' # 0 => i \in Places /\ ChunkAt(i) = ChunkAt(i)'
        /\ \A i \in Places' : i > p => ChunkAt(i)' = 0
        /\ \A i \in Places : ChunkAt(i) # 0 => i # p /\ ChunkAt(i)' = ChunkAt(i)
    BY <1>1, <2>5, <2>7
  <2> QED
    BY <1>1, <1>2, <2>6, <2>7, <2>8, FlowGrows
<1> QED
  BY <1>5, <1>6 DEF ClientWrite

\* A request that a step neither posts nor ends stays where it is in the order of
\* completion.
LEMMA FlightFrame ==
  ASSUME FlightOrder, rd # "none", deq' = deq, busy' = busy, pipe' = pipe \/ pipe' = <<>>,
         st \in [Slots -> {"pending", "arrived", "known", "error", "zero"}], deq \in Slots,
         busy \in 0 .. R,
         \A s \in Slots : st'[s] = "pending" <=> st[s] = "pending"
  PROVE  FlightOrder'
<1>1. \A k \in 0 .. busy - 1 : Plus(deq, k) \in Slots
  BY PlusInRing, RingAssumption
<1> QED
  BY <1>1 DEF FlightOrder, Plus

\* The oldest request leaves.
LEMMA FlightPop ==
  ASSUME FlightOrder, rd # "none", busy \in Nat, busy # 0, busy <= R, deq \in Slots,
         deq' = Plus(deq, 1), busy' = busy - 1, pipe' = pipe,
         \A s \in Slots : s # deq => st'[s] = st[s]
  PROVE  FlightOrder'
<1>1. ASSUME NEW k \in 0 .. busy - 2
      PROVE  /\ k + 1 \in 0 .. busy - 1 /\ Plus(deq', k) = Plus(deq, k + 1)
             /\ st'[Plus(deq', k)] = st[Plus(deq, k + 1)]
  <2>1. /\ k + 1 \in 0 .. busy - 1 /\ 1 \in 0 .. N /\ k \in 0 .. N /\ 1 + k <= N /\ 1 + k = k + 1
        /\ k + 1 \in 0 .. N - 1 /\ k + 1 \in 0 .. N /\ 0 \in 0 .. N - 1 /\ k + 1 # 0
    BY RingAssumption
  <2>2. Plus(deq', k) = Plus(deq, k + 1)
    BY <2>1, PlusPlus
  <2>3. Plus(deq, 0) = deq
    BY RingAssumption DEF Plus, Slots
  <2>4. Plus(deq, k + 1) # deq /\ Plus(deq, k + 1) \in Slots
    BY <2>1, <2>3, PlusInjective, PlusInRing
  <2> QED
    BY <2>1, <2>2, <2>4
<1>2. ASSUME NEW k \in 0 .. busy - 2, st'[Plus(deq', k)] = "pending"
      PROVE  pipe' = <<>> /\ \A j \in k .. busy - 2 : st'[Plus(deq', j)] = "pending"
  <2>1. pipe = <<>> /\ \A j \in k + 1 .. busy - 1 : st[Plus(deq, j)] = "pending"
    BY <1>1, <1>2 DEF FlightOrder
  <2>2. ASSUME NEW j \in k .. busy - 2
        PROVE  st'[Plus(deq', j)] = "pending"
    <3>1. j \in 0 .. busy - 2 /\ j + 1 \in k + 1 .. busy - 1
      OBVIOUS
    <3> QED
      BY <1>1, <2>1, <3>1
  <2> QED
    BY <2>1, <2>2
<1>3. busy' - 1 = busy - 2
  OBVIOUS
<1> QED
  BY <1>2, <1>3, Zenon DEF FlightOrder

\* A request is posted behind the others, and only when the kernel holds nothing.
LEMMA FlightPost ==
  ASSUME TypeOK, RingAligned, FlightOrder, PostRead
  PROVE  FlightOrder'
<1>1. /\ busy \in 0 .. R - 1 /\ deq \in Slots /\ deq' = deq /\ rd = "READING"
      /\ enq = Plus(deq, busy) /\ enq \in Slots
      /\ st \in [Slots -> {"pending", "arrived", "known", "error", "zero"}]
  BY RingAssumption DEF TypeOK, ThreadType, BufferType, PostRead, RingAligned
<1>2. ASSUME NEW k \in 0 .. busy - 1
      PROVE  Plus(deq, k) # enq /\ Plus(deq, k) \in Slots
  <2>1. k \in 0 .. N - 1 /\ busy \in 0 .. N - 1 /\ k \in 0 .. N /\ k # busy
    BY <1>1, RingAssumption
  <2> QED
    BY <1>1, <2>1, PlusInjective, PlusInRing
<1>3. CASE pipe # <<>> /\ busy' = busy + 1
  <2>1. st' = [st EXCEPT ![enq] = "known"]
    BY <1>3 DEF PostRead
  <2>2. \A k \in 0 .. busy - 1 : st[Plus(deq, k)] # "pending"
    BY <1>1, <1>3 DEF FlightOrder
  <2>3. ASSUME NEW k \in 0 .. busy
        PROVE  st'[Plus(deq, k)] # "pending"
    <3>1. CASE k = busy
      BY <1>1, <2>1, <3>1
    <3>2. CASE k \in 0 .. busy - 1
      BY <1>1, <1>2, <2>1, <2>2, <3>2
    <3> QED
      BY <1>1, <3>1, <3>2
  <2>4. busy' - 1 = busy
    BY <1>1, <1>3
  <2>5. \A k \in 0 .. busy' - 1 : st'[Plus(deq', k)] # "pending"
    BY <1>1, <2>3, <2>4
  <2> QED
    BY <2>5, Zenon DEF FlightOrder
<1>4. CASE pipe = <<>> /\ busy' = busy + 1
  <2>1. st' = [st EXCEPT ![enq] = "pending"] /\ pipe' = <<>>
    BY <1>4 DEF PostRead
  <2>2. ASSUME NEW k \in 0 .. busy, st'[Plus(deq, k)] = "pending",
               NEW j \in k .. busy
        PROVE  st'[Plus(deq, j)] = "pending"
    <3>1. CASE j = busy
      BY <1>1, <2>1, <3>1
    <3>2. CASE j # busy
      <4>1. k \in 0 .. busy - 1 /\ j \in k .. busy - 1 /\ j \in 0 .. busy - 1
        BY <1>1, <3>2
      <4>2. st'[Plus(deq, k)] = st[Plus(deq, k)] /\ st'[Plus(deq, j)] = st[Plus(deq, j)]
        BY <1>1, <1>2, <2>1, <4>1
      <4> QED
        BY <1>1, <2>2, <4>1, <4>2 DEF FlightOrder
    <3> QED
      BY <3>1, <3>2
  <2>3. busy' - 1 = busy
    BY <1>1, <1>4
  <2>4. \A k \in 0 .. busy' - 1 : st'[Plus(deq', k)] = "pending" =>
          pipe' = <<>> /\ \A j \in k .. busy' - 1 : st'[Plus(deq', j)] = "pending"
    BY <1>1, <2>1, <2>2, <2>3
  <2> QED
    BY <2>4, Zenon DEF FlightOrder
<1>5. CASE busy' = busy /\ st' = st /\ pipe' = pipe
  <2>1. rd # "none" /\ busy \in 0 .. R
    BY <1>1, RingAssumption
  <2> QED
    BY <1>1, <1>5, <2>1, FlightFrame
<1>6. \/ pipe # <<>> /\ busy' = busy + 1
      \/ pipe = <<>> /\ busy' = busy + 1
      \/ busy' = busy /\ st' = st /\ pipe' = pipe
  BY DEF PostRead
<1> QED
  BY <1>3, <1>4, <1>5, <1>6

\* A write completes the oldest outstanding request.
LEMMA FlightWrite ==
  ASSUME TypeOK, Phases, FlightOrder, ClientWrite
  PROVE  FlightOrder'
<1>1. /\ busy \in 0 .. R /\ deq \in Slots /\ deq' = deq /\ busy' = busy /\ rd # "none"
      /\ st \in [Slots -> {"pending", "arrived", "known", "error", "zero"}]
  BY DEF TypeOK, ThreadType, BufferType, ClientWrite, Phases, local
<1>2. ASSUME NEW k \in 0 .. busy - 1,
             st[Plus(deq, k)] = "pending",
             \A j \in 0 .. k - 1 : st[Plus(deq, j)] # "pending",
             st' = [st EXCEPT ![Plus(deq, k)] = "arrived"],
             pipe' = pipe
      PROVE  FlightOrder'
  <2>1. pipe = <<>> /\ \A j \in k .. busy - 1 : st[Plus(deq, j)] = "pending"
    BY <1>1, <1>2 DEF FlightOrder
  <2>2. ASSUME NEW j \in 0 .. busy - 1
        PROVE  /\ j # k => st'[Plus(deq, j)] = st[Plus(deq, j)]
               /\ j = k => st'[Plus(deq, j)] = "arrived"
    <3>1. j \in 0 .. N - 1 /\ k \in 0 .. N - 1 /\ j \in 0 .. N
      BY <1>1, RingAssumption
    <3>2. j # k => Plus(deq, j) # Plus(deq, k)
      BY <1>1, <3>1, PlusInjective
    <3>3. Plus(deq, j) \in Slots
      BY <1>1, <3>1, PlusInRing
    <3> QED
      BY <1>1, <1>2, <3>2, <3>3
  <2>3. ASSUME NEW i \in 0 .. busy - 1, st'[Plus(deq, i)] = "pending", NEW j \in i .. busy - 1
        PROVE  st'[Plus(deq, j)] = "pending"
    <3>1. i # k /\ st[Plus(deq, i)] = "pending"
      BY <2>2, <2>3
    <3>2. i > k
      BY <1>2, <3>1
    <3>3. j \in k .. busy - 1 /\ j \in 0 .. busy - 1 /\ j # k
      BY <3>2
    <3> QED
      BY <2>1, <2>2, <3>3
  <2>4. \A i \in 0 .. busy' - 1 : st'[Plus(deq', i)] = "pending" =>
          pipe' = <<>> /\ \A j \in i .. busy' - 1 : st'[Plus(deq', j)] = "pending"
    BY <1>1, <1>2, <2>1, <2>3
  <2> QED
    BY <2>4, Zenon DEF FlightOrder
<1>3. ASSUME \A k \in 0 .. busy - 1 : st[Plus(deq, k)] # "pending", st' = st
      PROVE  FlightOrder'
  <2>1. \A k \in 0 .. busy' - 1 : st'[Plus(deq', k)] # "pending"
    BY <1>1, <1>3
  <2> QED
    BY <2>1, Zenon DEF FlightOrder
<1> QED
  BY <1>2, <1>3 DEF ClientWrite

\* Only requests that are outstanding end when the handle is closed, the client
\* leaves or CancelIo is called.
EndRequests ==
  st' = [s \in Slots |-> IF st[s] = "pending" THEN "error" ELSE st[s]]

\* Ending them takes no data.
LEMMA EndKeepsItems ==
  ASSUME BufferType, EndRequests, data' = data
  PROVE  \A s \in Slots : Item(s)' = Item(s) /\ st'[s] # "pending"
BY DEF BufferType, EndRequests, Item

\* After that none is outstanding.
LEMMA FlightEnd ==
  ASSUME TypeOK, EndRequests, busy' = busy, deq' = deq
  PROVE  FlightOrder'
<1>1. busy \in 0 .. R /\ deq \in Slots
  BY DEF TypeOK, ThreadType
<1>2. \A k \in 0 .. busy - 1 : Plus(deq, k) \in Slots
  BY <1>1, PlusInRing, RingAssumption
<1>3. \A s \in Slots : st'[s] # "pending"
  BY DEF EndRequests, TypeOK, BufferType
<1>4. \A k \in 0 .. busy' - 1 : st'[Plus(deq', k)] # "pending"
  BY <1>2, <1>3
<1> QED
  BY <1>4, Zenon DEF FlightOrder

\* Every step keeps the order of completion.
LEMMA FlightStep ==
  ASSUME TypeOK, Steps, RingAligned, Phases, FlightOrder, [Next]_vars
  PROVE  FlightOrder'
<1>1. /\ busy \in 0 .. R /\ busy \in Nat /\ busy <= R /\ deq \in Slots
      /\ st \in [Slots -> {"pending", "arrived", "known", "error", "zero"}]
  BY RingAssumption DEF TypeOK, ThreadType, BufferType
<1> DEFINE Still == /\ busy' = busy /\ deq' = deq /\ st' = st
                    /\ pipe' = pipe \/ pipe' = <<>>
                    /\ rd # "none"
<1>2. CASE Still
  BY <1>1, <1>2, FlightFrame
<1>3. CASE rd' = "none"
  BY <1>3 DEF FlightOrder
<1>4. CASE PostRead
  BY <1>4, FlightPost
<1>5. CASE ClientWrite
  BY <1>5, FlightWrite
<1>6. CASE Receive \/ DiscardOne \/ FlushOne
  <2>1. /\ rd # "none" /\ busy # 0 /\ deq' = Plus(deq, 1) /\ busy' = busy - 1 /\ pipe' = pipe
    BY <1>6 DEF Receive, DiscardOne, FlushOne, PopRequest, Steps, bufs, client
  <2>2. \A s \in Slots : s # deq => st'[s] = st[s]
    BY <1>1, <1>6 DEF Receive, DiscardOne, FlushOne, bufs
  <2> QED
    BY <1>1, <2>1, <2>2, FlightPop
<1>7. CASE ReadExit \/ ConnectNoData
  BY <1>3, <1>7 DEF ReadExit, ConnectNoData, Exit
<1>8. CASE Disconnect
  <2>1. EndRequests /\ busy' = busy /\ deq' = deq
    BY <1>8 DEF Disconnect, EndRequests
  <2> QED
    BY <2>1, FlightEnd
<1>9. CASE ClientClose
  <2>1. EndRequests /\ busy' = busy /\ deq' = deq
    BY <1>9 DEF ClientClose, EndRequests, local
  <2> QED
    BY <2>1, FlightEnd
<1>10. CASE CancelRequests
  <2>1. CASE EndRequests
    BY <1>10, <2>1, FlightEnd DEF CancelRequests
  <2>2. CASE st' = st
    BY <1>2, <1>10, <2>2 DEF CancelRequests, client
  <2> QED
    BY <1>10, <2>1, <2>2 DEF CancelRequests, EndRequests
<1>11. CASE AwaitDone
  <2>1. /\ rd # "none" /\ busy' = busy /\ deq' = deq /\ pipe' = pipe
        /\ st[deq] # "pending" /\ (st' = st \/ st' = [st EXCEPT ![deq] = "known"])
    BY <1>11 DEF AwaitDone, Finished, client
  <2>2. \A s \in Slots : st'[s] = "pending" <=> st[s] = "pending"
    BY <1>1, <2>1
  <2> QED
    BY <1>1, <2>1, <2>2, FlightFrame
<1>12. CASE ResetEnd
  <2>1. rd' = "none" \/ busy' = 0
    BY <1>12 DEF ResetEnd, local
  <2>2. CASE busy' = 0
    <3>1. \A k \in 0 .. busy' - 1 : FALSE
      BY <2>2
    <3> QED
      BY <3>1, Zenon DEF FlightOrder
  <2> QED
    BY <1>3, <2>1, <2>2
<1>13. CASE OpenTuner \/ GetTsStream \/ GetTsStreamEmpty \/ AppPurge
            \/ \E goal \in {"set", "close"} : ResetBegin(goal)
  <2>1. busy' = busy /\ deq' = deq /\ st' = st /\ pipe' = pipe /\ rd' = rd
    BY <1>13 DEF OpenTuner, GetTsStream, GetTsStreamEmpty, AppPurge, ResetBegin, PurgeTsStream,
       local, bufs, client
  <2> QED
    BY <1>2, <1>3, <2>1
<1>14. CASE CtrlStep \/ ClientConnect \/ UNCHANGED vars
  <2>1. busy' = busy /\ deq' = deq /\ st' = st /\ pipe' = pipe /\ rd' = rd
    BY <1>14 DEF CtrlStep, CtrlPurge, CtrlExit, CtrlPause, PurgeTsStream, ClientConnect, vars,
       local, bufs, client
  <2> QED
    BY <1>2, <1>3, <2>1
<1>15. CASE Connect \/ Connected \/ WaitOver \/ RingFull \/ AwaitPurge \/ AwaitError
            \/ PurgeReady \/ DiscardEnd \/ FlushEnd
  <2>1. Still
    BY <1>15 DEF Connect, Connected, WaitOver, RingFull, AwaitPurge, AwaitError, PurgeReady,
       DiscardEnd, FlushEnd, bufs, client
  <2> QED
    BY <1>2, <2>1
<1> QED
  BY <1>4, <1>5, <1>6, <1>7, <1>8, <1>9, <1>10, <1>11, <1>12, <1>13, <1>14, <1>15
  DEF Next, AppStep, ReadStep, ClientStep

\* Requests in flight and the next free buffer lie apart from the ready buffers.
LEMMA FlightApart ==
  ASSUME TypeOK, RingAligned, rd # "none", NEW k \in 0 .. busy, NEW i \in 0 .. ready - 1
  PROVE  Plus(deq, k) # Plus(get, i)
<1>1. /\ deq = Plus(get, ready) /\ ready \in 0 .. N /\ k \in 0 .. N /\ ready + k <= N
      /\ ready + k \in 0 .. N - 1 /\ i \in 0 .. N - 1 /\ i # ready + k /\ get \in Slots
  BY RingAssumption DEF RingAligned, InFlight, TypeOK, RingType, ThreadType
<1>2. Plus(deq, k) = Plus(get, ready + k)
  BY <1>1, PlusPlus
<1> QED
  BY <1>1, <1>2, PlusInjective

\* Retrievable buffers hold what was received in them, or nothing.
LEMMA ReadyStep ==
  ASSUME TypeOK, Steps, RingAligned, Phases, ReadyKnown, [Next]_vars
  PROVE  ReadyKnown'
<1>1. /\ ready \in 0 .. N - 1 /\ ready \in Nat /\ get \in Slots /\ busy \in Nat /\ deq \in Slots
      /\ st \in [Slots -> {"pending", "arrived", "known", "error", "zero"}] /\ busy <= R
  BY RingAssumption DEF TypeOK, RingType, ThreadType, BufferType
<1>2. ASSUME NEW i \in 0 .. ready - 1
      PROVE  Plus(get, i) \in Slots
  BY <1>1, PlusInRing, RingAssumption
<1>3. ASSUME get' = get, ready' = ready,
             \A i \in 0 .. ready - 1 : st'[Plus(get, i)] = st[Plus(get, i)]
      PROVE  ReadyKnown'
  <2>1. \A i \in 0 .. ready' - 1 : st'[Plus(get', i)] \in {"known", "zero"}
    BY <1>3 DEF ReadyKnown
  <2> QED
    BY <2>1, Zenon DEF ReadyKnown
<1>4. CASE ready' = 0
  <2>1. \A i \in 0 .. ready' - 1 : FALSE
    BY <1>4
  <2> QED
    BY <2>1, Zenon DEF ReadyKnown
<1>5. CASE get' = get /\ ready' = ready /\ st' = st
  BY <1>3, <1>5
<1>6. CASE GetTsStream
  <2>1. CASE paused
    BY <1>5, <1>6, <2>1 DEF GetTsStream, bufs
  <2>2. CASE ~paused
    <3>1. get' = Plus(get, 1) /\ ready' = ready - 1 /\ st' = st /\ ready # 0
      BY <1>6, <2>2 DEF GetTsStream, TakeBuffer, bufs
    <3>2. ASSUME NEW i \in 0 .. ready - 2
          PROVE  st[Plus(Plus(get, 1), i)] \in {"known", "zero"}
      <4>1. /\ 1 \in 0 .. N /\ i \in 0 .. N /\ 1 + i <= N /\ 1 + i \in 0 .. ready - 1
        BY <1>1, <3>1, RingAssumption
      <4>2. Plus(Plus(get, 1), i) = Plus(get, 1 + i)
        BY <1>1, <4>1, PlusPlus
      <4> QED
        BY <4>1, <4>2 DEF ReadyKnown
    <3>3. ready' - 1 = ready - 2
      BY <1>1, <3>1
    <3>4. \A i \in 0 .. ready' - 1 : st'[Plus(get', i)] \in {"known", "zero"}
      BY <3>1, <3>2, <3>3
    <3> QED
      BY <3>4, Zenon DEF ReadyKnown
  <2> QED
    BY <2>1, <2>2
<1>7. CASE AppPurge \/ CtrlPurge \/ ResetEnd \/ PurgeReady
  BY <1>4, <1>7 DEF AppPurge, CtrlPurge, PurgeTsStream, ResetEnd, PurgeReady
<1>8. CASE ReadExit \/ ConnectNoData \/ Disconnect \/ ClientClose \/ CancelRequests
  <2>1. get' = get /\ ready' = ready /\ (EndRequests \/ st' = st)
    BY <1>8 DEF ReadExit, ConnectNoData, Exit, Disconnect, ClientClose, CancelRequests,
       EndRequests, ring
  <2>2. CASE EndRequests
    <3>1. \A i \in 0 .. ready - 1 : st'[Plus(get, i)] = st[Plus(get, i)]
      BY <1>1, <1>2, <2>2 DEF EndRequests, ReadyKnown
    <3> QED
      BY <1>3, <2>1, <3>1
  <2> QED
    BY <1>5, <2>1, <2>2
<1>9. ASSUME NEW k \in 0 .. busy, rd # "none", NEW i \in 0 .. ready - 1
      PROVE  Plus(deq, k) # Plus(get, i)
  BY <1>9, FlightApart
<1>10. rd # "none" => /\ ready + busy <= N - 1 /\ 0 \in 0 .. busy /\ busy \in 0 .. busy
                      /\ Plus(deq, 0) = deq /\ enq = Plus(deq, busy) /\ enq \in Slots
  BY <1>1, RingAssumption DEF RingAligned, InFlight, Plus, Slots, TypeOK, ThreadType
<1>11. CASE PostRead
  <2>1. rd # "none" /\ get' = get /\ ready' = ready
    BY <1>11 DEF PostRead, ring
  <2>2. \A s \in Slots : s # enq => st'[s] = st[s]
    BY <1>1, <1>10, <1>11 DEF PostRead
  <2>3. \A i \in 0 .. ready - 1 : Plus(get, i) # enq
    BY <1>9, <1>10, <2>1
  <2> QED
    BY <1>2, <1>3, <2>1, <2>2, <2>3
<1>12. CASE AwaitDone
  <2>1. rd # "none" /\ get' = get /\ ready' = ready
    BY <1>12 DEF AwaitDone, ring
  <2>2. \A s \in Slots : s # deq => st'[s] = st[s]
    BY <1>1, <1>12 DEF AwaitDone
  <2>3. \A i \in 0 .. ready - 1 : Plus(get, i) # deq
    BY <1>9, <1>10, <2>1
  <2> QED
    BY <1>2, <1>3, <2>1, <2>2, <2>3
<1>13. CASE Receive \/ FlushOne
  <2>1. /\ rd # "none" /\ get' = get /\ ready' = ready + 1
        /\ st'[deq] \in {"known", "zero"}
        /\ \A s \in Slots : s # deq => st'[s] = st[s]
    BY <1>1, <1>13 DEF Receive, FlushOne, Phases, bufs
  <2>2. ASSUME NEW i \in 0 .. ready
        PROVE  st'[Plus(get, i)] \in {"known", "zero"}
    <3>1. CASE i = ready
      BY <1>10, <2>1, <3>1 DEF RingAligned
    <3>2. CASE i \in 0 .. ready - 1
      <4>1. Plus(get, i) # deq
        BY <1>9, <1>10, <2>1, <3>2
      <4> QED
        BY <1>2, <2>1, <3>2, <4>1 DEF ReadyKnown
    <3> QED
      BY <1>1, <3>1, <3>2
  <2>3. ready' - 1 = ready
    BY <1>1, <2>1
  <2>4. \A i \in 0 .. ready' - 1 : st'[Plus(get', i)] \in {"known", "zero"}
    BY <2>1, <2>2, <2>3
  <2> QED
    BY <2>4, Zenon DEF ReadyKnown
<1>14. CASE DiscardOne
  BY <1>4, <1>14 DEF DiscardOne, Phases
<1>15. CASE ClientWrite
  <2>1. rd # "none" /\ get' = get /\ ready' = ready
    BY <1>15 DEF ClientWrite, ring, Phases
  <2>2. CASE st' = st
    BY <1>5, <2>1, <2>2
  <2>3. ASSUME NEW k \in 0 .. busy - 1, st' = [st EXCEPT ![Plus(deq, k)] = "arrived"]
        PROVE  ReadyKnown'
    <3>1. k \in 0 .. busy
      BY <1>1
    <3>2. \A i \in 0 .. ready - 1 : Plus(deq, k) # Plus(get, i)
      BY <1>9, <1>10, <2>1, <3>1
    <3>3. \A i \in 0 .. ready - 1 : st'[Plus(get, i)] = st[Plus(get, i)]
      BY <1>1, <1>2, <2>3, <3>2
    <3> QED
      BY <1>3, <2>1, <3>3
  <2> QED
    BY <1>15, <2>2, <2>3 DEF ClientWrite
<1>16. CASE OpenTuner \/ GetTsStreamEmpty \/ \E goal \in {"set", "close"} : ResetBegin(goal)
  BY <1>5, <1>16 DEF OpenTuner, GetTsStreamEmpty, ResetBegin, ring, bufs
<1>17. CASE CtrlExit \/ (\E b \in BOOLEAN : CtrlPause(b)) \/ ClientConnect \/ UNCHANGED vars
  BY <1>5, <1>17 DEF CtrlExit, CtrlPause, ClientConnect, vars, ring, bufs
<1>18. CASE Connect \/ Connected \/ WaitOver \/ RingFull \/ AwaitPurge \/ AwaitError
            \/ DiscardEnd \/ FlushEnd
  BY <1>5, <1>18 DEF Connect, Connected, WaitOver, RingFull, AwaitPurge, AwaitError,
     DiscardEnd, FlushEnd, ring, bufs
<1> QED
  BY <1>6, <1>7, <1>8, <1>11, <1>12, <1>13, <1>14, <1>15, <1>16, <1>17, <1>18
  DEF Next, AppStep, CtrlStep, ReadStep, ClientStep

\* A step that touches neither the buffers nor the pointers.
LEMMA FlowStill ==
  ASSUME TypeOK, RingAligned, NothingLost, get' = get, pipe' = pipe,
         ready' + InFlight' = ready + InFlight, sent' = sent, last' = last, lost' = lost,
         \A s \in Slots : Item(s)' = Item(s)
  PROVE  NothingLost'
<1>1. ASSUME NEW i \in 1 .. ready + InFlight
      PROVE  Item(Plus(get, i - 1))' = Item(Plus(get, i - 1))
  <2>1. PICK s \in Slots : s = Plus(get, i - 1)
    BY BufferInRing
  <2>2. Item(Plus(get, i - 1))' = Item(s)'
    BY <2>1 DEF Item
  <2> QED
    BY <2>1, <2>2
<1> QED
  BY <1>1, FlowSame

\* GetTsStream delivers a chunk that was sent.
LEMMA FlowGet ==
  ASSUME TypeOK, RingAligned, Phases, NothingLost, GetTsStream
  PROVE  NothingLost' /\ last' <= sent'
<1>1. /\ ready \in 0 .. N - 1 /\ ready \in Nat /\ InFlight \in Nat /\ last <= sent
  BY RingAssumption DEF TypeOK, RingType, ThreadType, InFlight, Phases
<1>2. /\ rd' = rd /\ busy' = busy /\ st' = st /\ data' = data /\ pipe' = pipe /\ sent' = sent
      /\ lost' = lost
  BY DEF GetTsStream, local, bufs, client
<1>3. InFlight' = InFlight /\ \A s \in Slots : Item(s)' = Item(s)
  BY <1>2 DEF InFlight, Item
<1>4. CASE paused
  <2>1. get' = get /\ ready' = ready /\ last' = last
    BY <1>4 DEF GetTsStream
  <2>2. ready' + InFlight' = ready + InFlight
    BY <1>3, <2>1
  <2> QED
    BY <1>1, <1>2, <1>3, <2>1, <2>2, FlowStill
<1>5. CASE ~paused
  <2>1. /\ get' = Plus(get, 1) /\ ready' = ready - 1 /\ ready # 0
        /\ last' = IF Item(get) # 0 THEN Item(get) ELSE last
    BY <1>5 DEF GetTsStream, TakeBuffer
  <2>2. PICK m \in Nat : m + 1 = ready + InFlight /\ m = (ready - 1) + InFlight
    BY <1>1, <2>1
  <2>3. ready' + InFlight' = m
    BY <1>3, <2>1, <2>2
  <2> QED
    BY <1>1, <1>2, <1>3, <2>1, <2>2, <2>3, FlowTake
<1> QED
  BY <1>4, <1>5

\* Every step keeps the chunks.
LEMMA FlowStep ==
  ASSUME TypeOK, Steps, RingAligned, Phases, FlightOrder, NothingLost, [Next]_vars
  PROVE  NothingLost'
<1>1. /\ ready \in 0 .. N - 1 /\ ready \in Nat /\ get \in Slots /\ busy \in Nat /\ deq \in Slots
      /\ InFlight \in Nat /\ last <= sent /\ BufferType /\ Plus(get, 0) = get
  BY RingAssumption DEF TypeOK, RingType, ThreadType, InFlight, Phases, Plus, Slots
<1> DEFINE Still == /\ get' = get /\ pipe' = pipe /\ ready' = ready /\ busy' = busy
                    /\ rd = "none" <=> rd' = "none"
                    /\ sent' = sent /\ last' = last /\ lost' = lost
                    /\ st' = st /\ data' = data
<1>3. CASE Still
  <2>1. \A s \in Slots : Item(s)' = Item(s)
    BY <1>3 DEF Item
  <2>2. ready' + InFlight' = ready + InFlight
    BY <1>3 DEF InFlight
  <2> QED
    BY <1>3, <2>1, <2>2, FlowStill
<1>4. CASE GetTsStream
  BY <1>4, FlowGet
<1>5. CASE AppPurge \/ CtrlPurge \/ PurgeReady
  <2>1. /\ get' = Plus(get, ready) /\ ready' = 0 /\ busy' = busy
        /\ rd = "none" <=> rd' = "none"
        /\ st' = st /\ data' = data /\ pipe' = pipe /\ sent' = sent /\ last' = last
        /\ ~lost' => ~lost /\ ready = 0
    BY <1>5 DEF AppPurge, CtrlPurge, PurgeTsStream, PurgeReady, local, bufs, client
  <2>2. \A s \in Slots : Item(s)' = Item(s)
    BY <2>1 DEF Item
  <2>3. InFlight' = InFlight
    BY <2>1 DEF InFlight
  <2>4. InFlight + ready = ready + InFlight /\ ready' + InFlight' = InFlight
    BY <1>1, <2>1, <2>3
  <2> QED
    BY <1>1, <2>1, <2>2, <2>4, FlowSkip
<1>6. CASE ResetEnd
  <2>1. /\ get' = 0 /\ ready' = 0 /\ (rd' = "none" \/ busy' = 0) /\ pipe' = <<>>
        /\ ~lost' => ~lost /\ ready = 0
        /\ sent' = sent /\ last' = last /\ rd = "none" /\ pipe = <<>>
    BY <1>6 DEF ResetEnd, local, Phases
  <2>2. InFlight' = 0 /\ InFlight = 0 /\ Len(pipe) = 0 /\ Len(pipe') = 0
    BY <2>1 DEF InFlight
  <2>3. Places' = {}
    <3>1. Places' = 1 .. 0 + 0 + 0
      BY <2>1, <2>2, Zenon DEF Places
    <3> QED
      BY <3>1
  <2>4. ready = 0 => Places = {}
    BY <2>2 DEF Places
  <2>5. /\ \A i \in Places' : ChunkAt(i)' # 0 => i + 0 \in Places /\ ChunkAt(i + 0) = ChunkAt(i)'
        /\ Places' \subseteq Nat /\ 0 \in Nat
    BY <2>3
  <2>6. ~lost' => ~lost /\ \A i \in Places : ChunkAt(i) # 0 =>
                               \E j \in Places' : ChunkAt(j)' = ChunkAt(i)
    BY <2>1, <2>4
  <2> QED
    BY <2>1, <2>5, <2>6, PlacesNat, FlowKept
<1>7. CASE ReadExit \/ ConnectNoData
  <2>1. /\ get' = get /\ ready' = ready /\ rd' = "none" /\ pipe' = <<>> /\ rd # "none"
        /\ EndRequests /\ data' = data /\ sent' = sent /\ last' = last
        /\ ~lost' => ~lost /\ busy = 0 /\ pipe = <<>>
    BY <1>7 DEF ReadExit, QuitSeen, ConnectNoData, Exit, EndRequests, ring
  <2>2. \A s \in Slots : Item(s)' = Item(s)
    BY <1>1, <2>1, EndKeepsItems
  <2>3. InFlight' = 0 /\ InFlight = busy
    BY <2>1 DEF InFlight
  <2>4. ready' + InFlight' = ready /\ ready <= ready + InFlight
    BY <1>1, <2>1, <2>3
  <2>5. ~lost' => ~lost /\ ready = ready + InFlight /\ pipe = <<>>
    BY <1>1, <2>1, <2>3
  <2> QED
    BY <1>1, <2>1, <2>2, <2>4, <2>5, FlowCut
<1>8. CASE Disconnect
  <2>1. /\ get' = get /\ ready' = ready /\ rd' = "FLUSH" /\ pipe' = <<>> /\ rd # "none"
        /\ EndRequests /\ data' = data /\ sent' = sent /\ last' = last /\ busy' = busy
        /\ ~lost' => ~lost /\ busy = 0 /\ pipe = <<>>
    BY <1>8 DEF Disconnect, EndRequests, ring
  <2>2. \A s \in Slots : Item(s)' = Item(s)
    BY <1>1, <2>1, EndKeepsItems
  <2>3. InFlight' = busy /\ InFlight = busy
    BY <2>1 DEF InFlight
  <2>4. ready' + InFlight' = ready + busy /\ ready + busy <= ready + InFlight
        /\ ready + busy \in Nat
    BY <1>1, <2>1, <2>3
  <2>5. ~lost' => ~lost /\ ready + busy = ready + InFlight /\ pipe = <<>>
    BY <1>1, <2>1, <2>3
  <2> QED
    BY <1>1, <2>1, <2>2, <2>4, <2>5, FlowCut
<1>9. CASE ClientClose \/ CancelRequests \/ AwaitDone
  <2>1. /\ get' = get /\ ready' = ready /\ pipe' = pipe /\ busy' = busy /\ data' = data
        /\ sent' = sent /\ last' = last /\ lost' = lost
        /\ rd = "none" <=> rd' = "none"
    BY <1>9 DEF ClientClose, CancelRequests, AwaitDone, ring, local, client, hist
  <2>2. \/ EndRequests \/ st' = st
        \/ st[deq] = "arrived" /\ st' = [st EXCEPT ![deq] = "known"]
    BY <1>9 DEF ClientClose, CancelRequests, AwaitDone, Finished, EndRequests
  <2>3. \A s \in Slots : Item(s)' = Item(s)
    <3>1. CASE EndRequests
      BY <1>1, <2>1, <3>1, EndKeepsItems
    <3>2. CASE st' = st
      BY <2>1, <3>2 DEF Item
    <3>3. CASE st[deq] = "arrived" /\ st' = [st EXCEPT ![deq] = "known"]
      BY <1>1, <2>1, <3>3 DEF Item, BufferType
    <3> QED
      BY <2>2, <3>1, <3>2, <3>3
  <2>4. ready' + InFlight' = ready + InFlight
    BY <2>1 DEF InFlight
  <2> QED
    BY <2>1, <2>3, <2>4, FlowStill
<1>10. CASE PostRead
  BY <1>10, FlowPost
<1>11. CASE ClientWrite
  BY <1>11, FlowWrite
<1>12. CASE Receive
  <2>1. /\ get' = get /\ ready' = ready + 1 /\ pipe' = pipe /\ busy' = busy - 1
        /\ sent' = sent /\ last' = last /\ lost' = lost /\ rd # "none" /\ rd' # "none"
        /\ st' = st /\ data' = data
    BY <1>12 DEF Receive, PopRequest, bufs, client
  <2>2. \A s \in Slots : Item(s)' = Item(s)
    BY <2>1 DEF Item
  <2>3. InFlight' = busy - 1 /\ InFlight = busy
    BY <2>1 DEF InFlight
  <2>4. ready' + InFlight' = ready + InFlight
    BY <1>1, <2>1, <2>3
  <2> QED
    BY <2>1, <2>2, <2>4, FlowStill
<1>13. CASE DiscardOne
  <2>1. /\ get' = Plus(get, 1) /\ ready' = ready /\ pipe' = pipe /\ busy' = busy - 1
        /\ sent' = sent /\ last' = last /\ lost' /\ rd # "none" /\ rd' # "none"
        /\ st' = st /\ data' = data /\ busy # 0
    BY <1>13 DEF DiscardOne, PopRequest, SkipBuffer, bufs, client
  <2>2. \A s \in Slots : Item(s)' = Item(s)
    BY <2>1 DEF Item
  <2>3. InFlight' = busy - 1 /\ InFlight = busy
    BY <2>1 DEF InFlight
  <2>4. PICK m \in Nat : m + 1 = ready + InFlight /\ m = ready + (busy - 1)
    BY <1>1, <2>1, <2>3
  <2>5. ready' + InFlight' = m
    BY <2>1, <2>3, <2>4
  <2> QED
    BY <1>1, <2>1, <2>2, <2>4, <2>5, FlowSkip
<1>14. CASE FlushOne
  <2>1. /\ get' = get /\ ready' = ready + 1 /\ pipe' = pipe /\ busy' = busy - 1
        /\ sent' = sent /\ last' = last /\ lost' = lost /\ lost /\ rd # "none" /\ rd' # "none"
        /\ st' = [st EXCEPT ![deq] = "zero"] /\ data' = data
    BY <1>14 DEF FlushOne, PopRequest, Phases, client, hist
  <2>2. \A s \in Slots : Item(s)' # 0 => Item(s)' = Item(s)
    BY <1>1, <2>1 DEF Item, BufferType
  <2>3. InFlight' = busy - 1 /\ InFlight = busy
    BY <2>1 DEF InFlight
  <2>4. ready' + InFlight' = ready + InFlight
    BY <1>1, <2>1, <2>3
  <2>5. Places' = Places /\ Places \subseteq Nat
    BY <2>1, <2>4, PlacesNat DEF Places
  <2>6. ASSUME NEW i \in Places', ChunkAt(i)' # 0
        PROVE  i + 0 \in Places /\ ChunkAt(i + 0) = ChunkAt(i)'
    <3>1. i \in Nat /\ i >= 1 /\ i \in Places /\ i + 0 = i
      <4>1. i \in Places /\ Len(pipe) \in Nat
        BY <2>5, PlacesNat
      <4> QED
        BY <1>1, <4>1 DEF Places
    <3>2. ChunkAt(i)' = IF i <= ready + InFlight THEN Item(Plus(get, i - 1))'
                                                 ELSE pipe'[i - (ready + InFlight)]
      BY <2>4, Zenon DEF ChunkAt
    <3>3. CASE i <= ready + InFlight
      <4>1. PICK s \in Slots : s = Plus(get, i - 1)
        BY <1>1, <3>1, <3>3, BufferInRing
      <4>2. ChunkAt(i)' = Item(s)'
        BY <2>1, <3>2, <3>3, <4>1 DEF Item
      <4>3. ChunkAt(i) = Item(s)
        BY <3>3, <4>1 DEF ChunkAt
      <4> QED
        BY <2>2, <2>6, <3>1, <4>2, <4>3
    <3>4. CASE ~(i <= ready + InFlight)
      BY <2>1, <3>1, <3>2, <3>4 DEF ChunkAt
    <3> QED
      BY <3>3, <3>4
  <2> QED
    BY <2>1, <2>5, <2>6, FlowKept
<1>15. CASE OpenTuner \/ GetTsStreamEmpty \/ \E goal \in {"set", "close"} : ResetBegin(goal)
  <2>1. Still
    BY <1>15 DEF OpenTuner, GetTsStreamEmpty, ResetBegin, ring, local, bufs, client, hist
  <2> QED
    BY <1>3, <2>1
<1>16. CASE CtrlExit \/ (\E b \in BOOLEAN : CtrlPause(b)) \/ ClientConnect \/ UNCHANGED vars
  <2>1. Still
    BY <1>16 DEF CtrlExit, CtrlPause, ClientConnect, vars, ring, local, bufs, client, hist
  <2> QED
    BY <1>3, <2>1
<1>17. CASE Connect \/ Connected \/ WaitOver \/ RingFull \/ AwaitPurge \/ AwaitError
            \/ DiscardEnd \/ FlushEnd
  <2>1. Still
    BY <1>17 DEF Connect, Connected, WaitOver, RingFull, AwaitPurge, AwaitError,
       DiscardEnd, FlushEnd, ring, bufs, client, hist
  <2> QED
    BY <1>3, <2>1
<1> QED
  BY <1>4, <1>5, <1>6, <1>7, <1>8, <1>9, <1>10, <1>11, <1>12, <1>13, <1>14, <1>15, <1>16, <1>17
  DEF Next, AppStep, CtrlStep, ReadStep, ClientStep

\* The phases of the read thread go with the state of the pipe and of the ring.
LEMMA PhasesStep ==
  ASSUME TypeOK, RingAligned, Phases, NothingLost, [Next]_vars
  PROVE  Phases'
<1> USE DEF Phases, ring, local, bufs, client, hist
<1>1. /\ busy \in Nat /\ last \in Nat /\ sent \in Nat /\ MaxChunk \in Nat /\ deq \in Slots
      /\ st \in [Slots -> {"pending", "arrived", "known", "error", "zero"}] /\ pipe \in Seq(Nat)
  BY RingAssumption DEF TypeOK, ThreadType, BufferType, ClientType, HistoryType
<1>2. CASE OpenTuner \/ GetTsStreamEmpty \/ AppPurge
  BY <1>2 DEF OpenTuner, GetTsStreamEmpty, AppPurge, PurgeTsStream
<1>3. CASE GetTsStream
  <2>1. last' <= sent'
    BY <1>3, FlowGet
  <2>2. sent' <= MaxChunk /\ rd' = rd /\ conn' = conn /\ pipe' = pipe /\ st' = st
        /\ deq' = deq /\ busy' = busy /\ lost' = lost
    BY <1>3 DEF GetTsStream
  <2>3. rd' \in {"CANCEL", "DISCARD"} => ready' = 0
    BY <1>3 DEF GetTsStream
  <2> QED
    BY <2>1, <2>2, <2>3
<1>4. CASE ResetEnd
  BY <1>4 DEF ResetEnd
<1>5. ASSUME NEW goal \in {"set", "close"}, ResetBegin(goal) PROVE Phases'
  BY <1>5 DEF ResetBegin
<1>6. CASE CtrlPurge \/ CtrlExit
  BY <1>6 DEF CtrlPurge, PurgeTsStream, CtrlExit
<1>7. ASSUME NEW b \in BOOLEAN, CtrlPause(b) PROVE Phases'
  BY <1>7 DEF CtrlPause
<1>8. CASE ReadExit \/ ConnectNoData
  BY <1>8 DEF ReadExit, ConnectNoData, Exit
<1>9. CASE Connect \/ Connected \/ WaitOver \/ RingFull
  BY <1>9 DEF Connect, Connected, WaitOver, RingFull
<1>10. CASE PostRead
  BY <1>10 DEF PostRead
<1>11. CASE AwaitPurge \/ AwaitError
  BY <1>11 DEF AwaitPurge, AwaitError
<1>12. CASE AwaitDone
  BY <1>1, <1>12 DEF AwaitDone, Finished
<1>13. CASE Receive
  BY <1>13 DEF Receive, PopRequest
<1>14. CASE PurgeReady \/ CancelRequests
  BY <1>14 DEF PurgeReady, CancelRequests
<1>15. CASE DiscardOne \/ DiscardEnd
  BY <1>15 DEF DiscardOne, PopRequest, DiscardEnd
<1>16. CASE Disconnect
  BY <1>16 DEF Disconnect
<1>17. CASE FlushOne \/ FlushEnd
  BY <1>17 DEF FlushOne, PopRequest, FlushEnd
<1>18. CASE ClientConnect
  BY <1>18 DEF ClientConnect
<1>19. CASE ClientWrite
  <2>1. /\ rd # "none" /\ rd' = rd /\ deq' = deq /\ busy' = busy /\ lost' = lost /\ ready' = ready
        /\ sent' = sent + 1 /\ sent < MaxChunk /\ last' = last
    BY <1>19 DEF ClientWrite
  <2>2. sent + 1 <= MaxChunk /\ last <= sent + 1
    BY <1>1, <2>1
  <2>3. st[deq] # "pending" => st'[deq] = st[deq]
    <3>1. ASSUME NEW k \in 0 .. busy - 1, st[Plus(deq, k)] = "pending",
                 st' = [st EXCEPT ![Plus(deq, k)] = "arrived"], st[deq] # "pending"
          PROVE  st'[deq] = st[deq]
      BY <1>1, <3>1
    <3> QED
      BY <1>19, <3>1 DEF ClientWrite
  <2> QED
    BY <2>1, <2>2, <2>3
<1>20. CASE ClientClose
  <2>1. /\ rd # "none" /\ rd' = rd /\ deq' = deq /\ busy' = busy /\ lost' = lost /\ ready' = ready
        /\ sent' = sent /\ last' = last /\ pipe' = pipe
    BY <1>20 DEF ClientClose
  <2>2. st[deq] # "pending" => st'[deq] = st[deq]
    BY <1>1, <1>20 DEF ClientClose
  <2> QED
    BY <2>1, <2>2
<1>21. CASE UNCHANGED vars
  BY <1>21 DEF vars
<1> QED
  BY <1>2, <1>3, <1>4, <1>5, <1>6, <1>7, <1>8, <1>9, <1>10, <1>11, <1>12, <1>13, <1>14,
     <1>15, <1>16, <1>17, <1>18, <1>19, <1>20, <1>21
  DEF Next, AppStep, CtrlStep, ReadStep, ClientStep

\* The inductive invariant of the stream.
StreamInv == Inv /\ Phases /\ FlightOrder /\ ReadyKnown /\ NothingLost

\* It holds at first.
LEMMA StreamInit == Init => StreamInv
<1> SUFFICES ASSUME Init PROVE Phases /\ FlightOrder /\ ReadyKnown /\ NothingLost
  BY InvInit DEF StreamInv
<1>1. Phases /\ FlightOrder /\ ReadyKnown
  BY RingAssumption DEF Init, Phases, FlightOrder, ReadyKnown
<1>2. Places = {} /\ last = 0 /\ sent = 0
  <2>1. Len(pipe) = 0 /\ ready = 0 /\ InFlight = 0
    BY DEF Init, InFlight
  <2> QED
    BY <2>1 DEF Init, Places
<1>3. NothingLost
  BY <1>2 DEF NothingLost, Queued
<1> QED
  BY <1>1, <1>3

\* It is inductive.
LEMMA StreamInvHolds == Spec => []StreamInv
<1>1. Inv /\ [Next]_vars => Inv'
  BY TypeStep, StepsStep, AlignedStep, HeldStep, PurgeStep, EventsStep DEF Inv
<1>2. StreamInv /\ [Next]_vars => StreamInv'
  BY <1>1, PhasesStep, FlightStep, ReadyStep, FlowStep DEF StreamInv, Inv
<1> QED
  BY StreamInit, <1>2, PTL DEF Spec

\* No chunk is lost, repeated or exchanged between the client's write and
\* GetTsStream until a purge, a disconnection or a reset discards data, and none is
\* out of order after it (AsyncIoReq ring, ReadPipeMain).
THEOREM ChunksKept == Spec => []NothingLost
<1>1. StreamInv => NothingLost
  BY DEF StreamInv
<1> QED
  BY <1>1, StreamInvHolds, PTL

-----------------------------------------------------------------------------
(* The receiver implements the queue *)

\* The oldest ready buffers are the first places.
LEMMA AvailIsFirst ==
  ASSUME TypeOK, RingAligned, ReadyKnown
  PROVE  /\ Avail \in Seq(Nat) /\ Len(Avail) = ready
         /\ \A i \in 1 .. ready : i \in Places /\ Avail[i] = ChunkAt(i)
<1>1. /\ ready \in Nat /\ InFlight \in Nat /\ Len(pipe) \in Nat /\ ready \in 0 .. N - 1
      /\ data \in [Slots -> Nat] /\ get \in Slots
  BY PlacesNat DEF TypeOK, RingType, BufferType
<1>2. ASSUME NEW i \in 1 .. ready
      PROVE  /\ i \in Places /\ Avail[i] = ChunkAt(i) /\ Avail[i] \in Nat
  <2>1. /\ i \in Places /\ i <= ready + InFlight /\ i - 1 \in 0 .. ready - 1
        /\ i \in 1 .. ready + InFlight
    BY <1>1 DEF Places
  <2>2. Plus(get, i - 1) \in Slots /\ st[Plus(get, i - 1)] \in {"known", "zero"}
    BY <2>1, BufferInRing DEF ReadyKnown
  <2> QED
    BY <1>1, <2>1, <2>2 DEF Avail, ChunkAt, Item
<1>3. Avail \in Seq(Nat) /\ Len(Avail) = ready
  <2>1. Avail = [i \in 1 .. ready |-> Avail[i]]
    BY DEF Avail
  <2>2. Avail \in [1 .. ready -> Nat]
    BY <1>2, <2>1
  <2> QED
    BY <1>1, <2>2
<1> QED
  BY <1>2, <1>3

\* At first the queue is empty.
LEMMA QueueInit == Init => Queue!Init
BY DEF Init, Queue!Init, Avail

\* A step that leaves the ready buffers alone.
LEMMA AvailSame ==
  ASSUME TypeOK, RingAligned, get' = get, ready' = ready,
         \A i \in 0 .. ready - 1 : /\ st'[Plus(get, i)] = st[Plus(get, i)]
                                   /\ data'[Plus(get, i)] = data[Plus(get, i)]
  PROVE  Avail' = Avail
<1>1. ready \in Nat
  BY RingAssumption DEF TypeOK, RingType
<1>2. \A i \in 1 .. ready : i - 1 \in 0 .. ready - 1
  BY <1>1
<1> QED
  BY <1>2 DEF Avail

\* One more buffer is ready.
LEMMA AvailGrows ==
  ASSUME TypeOK, RingAligned, ReadyKnown, get' = get, ready' = ready + 1, deq = Plus(get, ready),
         \A i \in 0 .. ready - 1 : /\ st'[Plus(get, i)] = st[Plus(get, i)]
                                   /\ data'[Plus(get, i)] = data[Plus(get, i)],
         NEW x, x = IF st'[deq] = "known" THEN data'[deq] ELSE 0
  PROVE  Avail' = Append(Avail, x)
<1>1. ready \in Nat /\ Avail \in Seq(Nat) /\ Len(Avail) = ready
  BY AvailIsFirst, RingAssumption DEF TypeOK, RingType
<1>2. Avail' = [i \in 1 .. ready + 1 |->
                  IF st'[Plus(get, i - 1)] = "known" THEN data'[Plus(get, i - 1)] ELSE 0]
  BY DEF Avail
<1>3. Append(Avail, x) = [i \in 1 .. ready + 1 |-> IF i = ready + 1 THEN x ELSE Avail[i]]
  BY <1>1
<1>4. ASSUME NEW i \in 1 .. ready + 1
      PROVE  (IF st'[Plus(get, i - 1)] = "known" THEN data'[Plus(get, i - 1)] ELSE 0)
               = (IF i = ready + 1 THEN x ELSE Avail[i])
  <2>1. CASE i = ready + 1
    <3>1. Plus(get, i - 1) = deq
      BY <1>1, <2>1
    <3> QED
      BY <2>1, <3>1
  <2>2. CASE i \in 1 .. ready
    <3>1. i - 1 \in 0 .. ready - 1 /\ i # ready + 1
      BY <1>1, <2>2
    <3> QED
      BY <2>2, <3>1 DEF Avail
  <2> QED
    BY <1>1, <2>1, <2>2
<1> QED
  BY <1>2, <1>3, <1>4

\* GetTsStream takes the head.
LEMMA AvailTail ==
  ASSUME TypeOK, RingAligned, ReadyKnown, get' = Plus(get, 1), ready' = ready - 1, ready # 0,
         st' = st, data' = data
  PROVE  Avail' = Tail(Avail)
<1>1. /\ ready \in Nat /\ Avail \in Seq(Nat) /\ Len(Avail) = ready /\ get \in Slots
      /\ ready \in 0 .. N - 1
  BY AvailIsFirst, RingAssumption DEF TypeOK, RingType
<1>2. Avail' = [i \in 1 .. ready - 1 |->
                  IF st[Plus(Plus(get, 1), i - 1)] = "known"
                  THEN data[Plus(Plus(get, 1), i - 1)] ELSE 0]
  BY DEF Avail
<1>3. Tail(Avail) = [i \in 1 .. ready - 1 |-> Avail[i + 1]]
  <2> DEFINE rest == [i \in 1 .. ready - 1 |-> Avail[i + 1]]
  <2>1. Avail # <<>> /\ ready - 1 \in Nat
    BY <1>1
  <2>2. /\ Tail(Avail) \in Seq(Nat) /\ Len(Tail(Avail)) = ready - 1
        /\ \A i \in 1 .. ready - 1 : Tail(Avail)[i] = Avail[i + 1]
    BY <1>1, <2>1, HeadTailProperties
  <2>3. \A i \in 1 .. ready - 1 : Avail[i + 1] \in Nat
    BY <1>1
  <2>4. rest \in Seq(Nat) /\ Len(rest) = ready - 1
    BY <2>1, <2>3
  <2>5. \A i \in 1 .. Len(Tail(Avail)) : Tail(Avail)[i] = rest[i]
    BY <2>2
  <2> QED
    BY <2>2, <2>4, <2>5, SeqEqual
<1>4. ASSUME NEW i \in 1 .. ready - 1
      PROVE  (IF st[Plus(Plus(get, 1), i - 1)] = "known"
              THEN data[Plus(Plus(get, 1), i - 1)] ELSE 0) = Avail[i + 1]
  <2>1. /\ i + 1 \in 1 .. ready /\ 1 \in 0 .. N /\ i - 1 \in 0 .. N /\ 1 + (i - 1) <= N
        /\ 1 + (i - 1) = (i + 1) - 1
    BY <1>1, RingAssumption
  <2>2. Plus(Plus(get, 1), i - 1) = Plus(get, (i + 1) - 1)
    BY <1>1, <2>1, PlusPlus
  <2> QED
    BY <2>1, <2>2 DEF Avail
<1> QED
  BY <1>2, <1>3, <1>4

\* A buffer that becomes ready carries a chunk newer than all before it, or none.
LEMMA QueuePublish ==
  ASSUME TypeOK, Steps, RingAligned, Phases, ReadyKnown, NothingLost, Receive \/ FlushOne
  PROVE  Queue!Publish
<1>1. /\ ready \in Nat /\ busy \in Nat /\ get \in Slots /\ deq \in Slots /\ last \in Nat
      /\ sent \in Nat /\ ready \in 0 .. N - 1 /\ Len(pipe) \in Nat
      /\ st \in [Slots -> {"pending", "arrived", "known", "error", "zero"}]
      /\ data \in [Slots -> Nat]
  BY PlacesNat DEF TypeOK, RingType, ThreadType, BufferType, ClientType, HistoryType
<1>2. /\ rd # "none" /\ busy # 0 /\ InFlight = busy /\ get' = get /\ ready' = ready + 1
      /\ last' = last /\ data' = data
      /\ \A s \in Slots : s # deq => st'[s] = st[s]
      /\ (st' = st /\ st[deq] = "known") \/ st'[deq] = "zero"
  BY <1>1 DEF Receive, FlushOne, Steps, Phases, InFlight, bufs, hist
<1>3. deq = Plus(get, ready) /\ ready + busy <= N - 1
  BY <1>2 DEF RingAligned
<1>4. ASSUME NEW i \in 0 .. ready - 1
      PROVE  st'[Plus(get, i)] = st[Plus(get, i)] /\ data'[Plus(get, i)] = data[Plus(get, i)]
  <2>1. i \in 0 .. N - 1 /\ i \in 0 .. N /\ i # ready
    BY <1>1, RingAssumption
  <2>2. Plus(get, i) # deq /\ Plus(get, i) \in Slots
    BY <1>1, <1>3, <2>1, PlusInjective, PlusInRing
  <2> QED
    BY <1>2, <2>2
<1>5. PICK x \in Nat : /\ x = IF st'[deq] = "known" THEN data'[deq] ELSE 0
                       /\ x = 0 \/ x = Item(deq)
  BY <1>1, <1>2 DEF Item
<1>6. Avail' = Append(Avail, x) /\ Len(Avail) < N - 1
  <2>1. Avail' = Append(Avail, x)
    BY <1>2, <1>3, <1>4, <1>5, AvailGrows
  <2>2. Len(Avail) = ready
    BY AvailIsFirst
  <2> QED
    BY <1>1, <1>2, <1>3, <2>1, <2>2, RingAssumption
<1>7. ASSUME x # 0
      PROVE  x \in 1 .. MaxChunk /\ x > last /\ \A i \in DOMAIN Avail : Avail[i] < x
  <2>1. ready + 1 \in Places /\ ChunkAt(ready + 1) = x
    <3>1. ready + 1 <= ready + InFlight /\ ready + 1 \in Places /\ (ready + 1) - 1 = ready
      BY <1>1, <1>2 DEF Places
    <3> QED
      BY <1>3, <1>5, <1>7, <3>1 DEF ChunkAt
  <2>2. x \in last + 1 .. sent
    BY <1>7, <2>1 DEF NothingLost, Queued
  <2>3. x \in 1 .. MaxChunk /\ x > last
    BY <1>1, <2>2, RingAssumption DEF Phases
  <2>4. ASSUME NEW i \in DOMAIN Avail
        PROVE  Avail[i] < x
    <3>1. i \in 1 .. ready /\ i \in Places /\ Avail[i] = ChunkAt(i) /\ Avail[i] \in Nat
      <4>1. /\ Len(Avail) = ready /\ Avail \in Seq(Nat)
            /\ \A k \in 1 .. ready : k \in Places /\ Avail[k] = ChunkAt(k)
        BY AvailIsFirst
      <4> QED
        BY <4>1
    <3>2. i < ready + 1
      BY <1>1, <3>1
    <3>3. Avail[i] # 0 => Avail[i] < x
      BY <1>7, <2>1, <3>1, <3>2 DEF NothingLost
    <3> QED
      BY <1>5, <1>7, <3>1, <3>3
  <2> QED
    BY <2>3, <2>4
<1> QED
  BY <1>2, <1>6, <1>7 DEF Queue!Publish

\* Every step of the three threads and the client is a step of the queue, or none.
LEMMA QueueStep ==
  ASSUME StreamInv, [Next]_vars
  PROVE  [Queue!Next]_(Queue!qvars)
<1> USE DEF StreamInv, Inv
<1>1. /\ ready \in Nat /\ busy \in Nat /\ get \in Slots /\ deq \in Slots /\ busy <= R
      /\ st \in [Slots -> {"pending", "arrived", "known", "error", "zero"}]
      /\ data \in [Slots -> Nat] /\ ready \in 0 .. N - 1
  BY RingAssumption DEF TypeOK, RingType, ThreadType, BufferType
<1>2. ASSUME NEW i \in 0 .. ready - 1
      PROVE  Plus(get, i) \in Slots /\ st[Plus(get, i)] \in {"known", "zero"}
  BY <1>1, PlusInRing, RingAssumption DEF ReadyKnown
<1>3. ASSUME get' = get, ready' = ready, last' = last,
             \A i \in 0 .. ready - 1 : /\ st'[Plus(get, i)] = st[Plus(get, i)]
                                       /\ data'[Plus(get, i)] = data[Plus(get, i)]
      PROVE  UNCHANGED Queue!qvars
  BY <1>3, AvailSame DEF Queue!qvars
<1>4. CASE get' = get /\ ready' = ready /\ last' = last /\ st' = st /\ data' = data
  BY <1>3, <1>4
<1>5. CASE ready' = 0 /\ last' = last
  <2>1. Avail' = <<>>
    BY <1>5 DEF Avail
  <2> QED
    BY <1>5, <2>1 DEF Queue!Next, Queue!Purge
<1>6. CASE GetTsStream
  <2>1. CASE paused
    BY <1>4, <1>6, <2>1 DEF GetTsStream, bufs
  <2>2. CASE ~paused
    <3>1. /\ get' = Plus(get, 1) /\ ready' = ready - 1 /\ ready # 0 /\ st' = st /\ data' = data
          /\ last' = IF Item(get) # 0 THEN Item(get) ELSE last
      BY <1>6, <2>2 DEF GetTsStream, TakeBuffer, bufs
    <3>2. Avail' = Tail(Avail) /\ Len(Avail) = ready /\ Avail \in Seq(Nat)
      BY <3>1, AvailTail, AvailIsFirst
    <3>3. Avail # <<>> /\ Head(Avail) = Avail[1]
      BY <1>1, <3>1, <3>2
    <3>4. Avail[1] = Item(get)
      <4>1. 1 \in 1 .. ready /\ Avail[1] = ChunkAt(1) /\ Plus(get, 1 - 1) = get
            /\ 1 <= ready + InFlight
        BY <1>1, <3>1, AvailIsFirst, PlacesNat, RingAssumption DEF Plus, Slots
      <4> QED
        BY <4>1 DEF ChunkAt
    <3> QED
      BY <3>1, <3>2, <3>3, <3>4 DEF Queue!Next, Queue!Take
  <2> QED
    BY <2>1, <2>2
<1>7. CASE AppPurge \/ CtrlPurge \/ ResetEnd \/ PurgeReady
  BY <1>5, <1>7 DEF AppPurge, CtrlPurge, PurgeTsStream, ResetEnd, PurgeReady
<1>8. CASE Receive \/ FlushOne
  BY <1>8, QueuePublish DEF Queue!Next
<1>9. CASE DiscardOne
  BY <1>5, <1>9 DEF DiscardOne, Phases
<1>10. CASE ReadExit \/ ConnectNoData \/ Disconnect \/ ClientClose \/ CancelRequests
  <2>1. get' = get /\ ready' = ready /\ last' = last /\ data' = data /\ (EndRequests \/ st' = st)
    BY <1>10 DEF ReadExit, ConnectNoData, Exit, Disconnect, ClientClose, CancelRequests,
       EndRequests, ring, hist
  <2>2. \A i \in 0 .. ready - 1 : st'[Plus(get, i)] = st[Plus(get, i)]
    BY <1>1, <1>2, <2>1 DEF EndRequests
  <2> QED
    BY <1>3, <2>1, <2>2
<1>11. ASSUME NEW k \in 0 .. busy, rd # "none", NEW i \in 0 .. ready - 1
       PROVE  Plus(deq, k) # Plus(get, i)
  BY <1>11, FlightApart
<1>12. rd # "none" => /\ 0 \in 0 .. busy /\ busy \in 0 .. busy
                      /\ Plus(deq, 0) = deq /\ enq = Plus(deq, busy) /\ enq \in Slots
  BY <1>1, RingAssumption DEF RingAligned, Plus, Slots, TypeOK, ThreadType
<1>13. ASSUME NEW q, rd # "none", q = deq \/ q = enq \/ \E k \in 0 .. busy - 1 : q = Plus(deq, k),
              get' = get, ready' = ready, last' = last,
              \A s \in Slots : s # q => st'[s] = st[s] /\ data'[s] = data[s]
       PROVE  UNCHANGED Queue!qvars
  <2>1. \E k \in 0 .. busy : q = Plus(deq, k)
    BY <1>1, <1>12, <1>13
  <2>2. \A i \in 0 .. ready - 1 : Plus(get, i) # q
    BY <1>11, <1>13, <2>1
  <2> QED
    BY <1>2, <1>3, <1>13, <2>2
<1>14. CASE PostRead
  <2>1. \A s \in Slots : s # enq => st'[s] = st[s] /\ data'[s] = data[s]
    BY <1>1, <1>12, <1>14 DEF PostRead
  <2>2. rd # "none" /\ get' = get /\ ready' = ready /\ last' = last
    BY <1>14 DEF PostRead, ring, hist
  <2> QED
    BY <1>13, <2>1, <2>2
<1>15. CASE AwaitDone
  <2>1. \A s \in Slots : s # deq => st'[s] = st[s] /\ data'[s] = data[s]
    BY <1>1, <1>15 DEF AwaitDone
  <2>2. rd # "none" /\ get' = get /\ ready' = ready /\ last' = last
    BY <1>15 DEF AwaitDone, ring, hist
  <2> QED
    BY <1>13, <2>1, <2>2
<1>16. CASE ClientWrite
  <2>1. rd # "none" /\ get' = get /\ ready' = ready /\ last' = last
    BY <1>16 DEF ClientWrite, ring, hist, Phases
  <2>2. CASE st' = st /\ data' = data
    BY <1>4, <2>1, <2>2
  <2>3. ASSUME NEW k \in 0 .. busy - 1, st' = [st EXCEPT ![Plus(deq, k)] = "arrived"],
               data' = [data EXCEPT ![Plus(deq, k)] = sent + 1]
        PROVE  UNCHANGED Queue!qvars
    <3>1. \A s \in Slots : s # Plus(deq, k) => st'[s] = st[s] /\ data'[s] = data[s]
      BY <1>1, <2>3
    <3> QED
      BY <1>13, <2>1, <3>1
  <2> QED
    BY <1>16, <2>2, <2>3 DEF ClientWrite
<1>17. CASE OpenTuner \/ GetTsStreamEmpty \/ \E goal \in {"set", "close"} : ResetBegin(goal)
  BY <1>4, <1>17 DEF OpenTuner, GetTsStreamEmpty, ResetBegin, ring, bufs, hist
<1>18. CASE CtrlExit \/ (\E b \in BOOLEAN : CtrlPause(b)) \/ ClientConnect \/ UNCHANGED vars
  BY <1>4, <1>18 DEF CtrlExit, CtrlPause, ClientConnect, vars, ring, bufs, hist
<1>19. CASE Connect \/ Connected \/ WaitOver \/ RingFull \/ AwaitPurge \/ AwaitError
            \/ DiscardEnd \/ FlushEnd
  BY <1>4, <1>19 DEF Connect, Connected, WaitOver, RingFull, AwaitPurge, AwaitError,
     DiscardEnd, FlushEnd, ring, bufs, hist
<1> QED
  BY <1>6, <1>7, <1>8, <1>9, <1>10, <1>14, <1>15, <1>16, <1>17, <1>18, <1>19
  DEF Next, AppStep, CtrlStep, ReadStep, ClientStep

\* The ring, its three pointers, the overlapped reads and the purges implement the
\* bounded queue that IBonDriver's caller relies on.
THEOREM RingIsQueue == Spec => IsQueue
<1>1. StreamInv /\ [Next]_vars => [Queue!Next]_(Queue!qvars)
  BY QueueStep
<1> QED
  BY QueueInit, <1>1, StreamInvHolds, PTL DEF Spec, IsQueue, Queue!Spec
=============================================================================
