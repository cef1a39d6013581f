-------------------------------- MODULE ReadAhead --------------------------------
(***************************************************************************)
(* Reading ahead (CBufferedFileReader): a queue of N + 1 buffers, of which *)
(* the first "tail" are filled by the read thread and the last one is the  *)
(* one the sender was given.  The sender's thread and the read thread      *)
(* share the queue and the file under m_lock; m_hThreadEvent (auto-reset)  *)
(* wakes the read thread.                                                  *)
(*                                                                         *)
(* The file may grow, may give fewer bytes than it is asked for, may fail  *)
(* to read, and may forget bytes farther back than its rewind size (the    *)
(* converted output of CReadOnlyMmtsFile).                                 *)
(***************************************************************************)
EXTENDS Integers

CONSTANTS
  N,        \* bufNum
  B,        \* m_bufSize
  FileMax   \* bound: size of the file

ASSUME ReadAheadAssumption ==
  N \in Nat \ {0} /\ B \in Nat \ {0} /\ FileMax \in Nat

Slots == 1 .. N + 1

VARIABLES
  con,      \* where the sender's thread is in the reader
  next,     \* what it does after Flush
  started,  \* m_hThread
  stop,     \* m_fStop
  event,    \* m_hThreadEvent is signalled
  fRead,    \* m_fRead: the read thread may read
  queue,    \* where the bytes of each buffer begin in the file, and how many
  tail,     \* m_tail: number of buffers that are read ahead
  rewind,   \* Flush's rewind
  at,       \* where the read thread is
  fp,       \* the file's pointer
  low,      \* the first byte the file can still go back to
  size,     \* the file's size
  dry       \* history: the read thread's last read gave nothing, and no call since

file   == <<fp, low, size>>
vars   == <<con, next, started, stop, event, fRead, queue, tail, rewind, at, fp, low, size, dry>>

\* A buffer that is neither read ahead nor held by the sender holds nothing that
\* matters.
Empty == [from |-> 0, len |-> 0]

Init ==
  /\ con = "idle" /\ next = "none"
  /\ started = FALSE /\ stop = FALSE /\ event = FALSE /\ fRead = FALSE
  /\ queue = [i \in Slots |-> Empty] /\ tail = 0 /\ rewind = 0
  /\ at = "none"
  /\ size \in 0 .. FileMax /\ fp = 0 /\ low = 0
  /\ dry = FALSE

-----------------------------------------------------------------------------
(* The file *)

RewindSize == B * (N + 1)

\* A read advances the pointer over 0 .. B bytes, none only at the end or when it
\* fails, and may forget what lies farther back than the rewind size.
FileRead(n) ==
  /\ n \in 0 .. B /\ fp + n <= size
  /\ fp' = fp + n
  /\ low' \in {low} \union {l \in {fp - RewindSize} : l > low}
  /\ size' = size

\* Another program appends to the file.
Grow ==
  /\ size < FileMax /\ size' \in size + 1 .. FileMax
  /\ UNCHANGED <<con, next, started, stop, event, fRead, queue, tail, rewind, at, fp, low, dry>>

-----------------------------------------------------------------------------
(* The sender's thread *)

LockFree == con # "flush" /\ at # "fill"

Idle == con = "idle" /\ started

\* SetupBuffer with new buffers and a new thread.
Start ==
  /\ con = "idle" /\ ~started
  /\ started' = TRUE /\ stop' = FALSE /\ event' = FALSE /\ fRead' = FALSE
  /\ queue' = [i \in Slots |-> Empty] /\ tail' = 0
  /\ at' = "wait" /\ dry' = FALSE
  /\ UNCHANGED <<con, next, rewind, file>>

\* CTsSender::Open reads and moves in the file before there are buffers.
Probe ==
  /\ con = "idle" /\ ~started
  /\ fp' \in 0 .. size /\ low' \in 0 .. fp'
  /\ UNCHANGED <<con, next, started, stop, event, fRead, queue, tail, rewind, at, size, dry>>

\* Slip: the thread is woken before it is told to stop.
StoppingSwapped(step) ==
  IF step = 1 THEN event' = TRUE /\ stop' = stop ELSE stop' = TRUE /\ event' = event

\* SetupBuffer stops the thread: m_fStop first, then SetEvent.
Stopping(step) ==
  IF step = 1 THEN stop' = TRUE /\ event' = event ELSE event' = TRUE /\ stop' = stop

StopThread ==
  /\ Idle
  /\ con' = "stop" /\ Stopping(1)
  /\ UNCHANGED <<next, started, fRead, queue, tail, rewind, at, file, dry>>

WakeToStop ==
  /\ con = "stop"
  /\ con' = "join" /\ Stopping(2)
  /\ UNCHANGED <<next, started, fRead, queue, tail, rewind, at, file, dry>>

Joined ==
  /\ con = "join" /\ at = "none"
  /\ con' = "idle" /\ started' = FALSE
  /\ queue' = [i \in Slots |-> Empty] /\ tail' = 0
  /\ UNCHANGED <<next, stop, event, fRead, rewind, at, file, dry>>

\* Flush takes the lock; what follows is a SyncRead, a SetPointer of the file, or
\* nothing.
Flush(n) ==
  /\ Idle /\ LockFree
  /\ con' = "flush" /\ next' = n /\ rewind' = 0
  /\ UNCHANGED <<started, stop, event, fRead, queue, tail, at, file, dry>>

\* One turn of Flush's loop.
FlushOne ==
  /\ con = "flush" /\ tail > 0
  /\ tail' = tail - 1 /\ rewind' = rewind + queue[tail].len
  /\ queue' = [queue EXCEPT ![tail] = Empty]
  /\ UNCHANGED <<con, next, started, stop, event, fRead, at, file, dry>>

\* Slip: the pointer is left where the read thread put it.
RewoundNot == fp

\* SetPointer of the file, which leaves it alone when it cannot go back so far.
Rewound == IF fp - rewind >= low THEN fp - rewind ELSE fp
ReadsNot == FALSE

FlushEnd ==
  /\ con = "flush" /\ tail = 0
  /\ fp' = Rewound /\ rewind' = 0 /\ fRead' = ReadsNot
  /\ con' = (IF next = "none" THEN "idle" ELSE next) /\ next' = "none"
  /\ UNCHANGED <<started, stop, event, queue, tail, at, low, size, dry>>

\* SyncRead reads without the lock.
SyncRead(n) ==
  /\ con = "sync"
  /\ FileRead(n)
  /\ queue' = [queue EXCEPT ![N + 1] = [from |-> fp, len |-> n]]
  /\ con' = "idle"
  /\ UNCHANGED <<next, started, stop, event, fRead, tail, rewind, at, dry>>

\* The sender moves the file's pointer; the file may begin anew there.
Seek ==
  /\ con = "seek"
  /\ \/ fp' \in low .. size /\ low' = low
     \/ fp' \in 0 .. size /\ low' = fp'
  /\ con' = "idle"
  /\ UNCHANGED <<next, started, stop, event, fRead, queue, tail, rewind, at, size, dry>>

\* Read when nothing is read ahead: SyncRead under the lock, and the read thread
\* may go on from there.
ReadNow(n) ==
  /\ Idle /\ LockFree /\ tail = 0
  /\ FileRead(n)
  /\ queue' = [queue EXCEPT ![N + 1] = [from |-> fp, len |-> n]]
  /\ fRead' = TRUE /\ event' = TRUE /\ dry' = FALSE
  /\ UNCHANGED <<con, next, started, stop, tail, rewind, at>>

\* Read moves the first buffer to the end of the queue.
ReadQueued ==
  /\ Idle /\ LockFree /\ tail > 0
  /\ queue' = [i \in Slots |-> IF i = N + 1 THEN queue[1]
                               ELSE IF i = N THEN Empty ELSE queue[i + 1]]
  /\ tail' = tail - 1
  /\ event' = TRUE /\ dry' = FALSE
  /\ UNCHANGED <<con, next, started, stop, fRead, rewind, at, file>>

-----------------------------------------------------------------------------
(* The read thread *)

Wake ==
  /\ at = "wait" /\ event
  /\ event' = FALSE
  /\ at' = IF stop THEN "none" ELSE "woken"
  /\ UNCHANGED <<con, next, started, stop, fRead, queue, tail, rewind, file, dry>>

Room == tail < N

\* The thread takes the lock and reads into the buffer at m_tail if it may.
StartFill ==
  /\ at = "woken" /\ LockFree
  /\ at' = IF fRead /\ Room THEN "fill" ELSE "wait"
  /\ UNCHANGED <<con, next, started, stop, event, fRead, queue, tail, rewind, file, dry>>

\* Slip: the thread does not wake itself for the next buffer.
ResignalNot(n) == event

Resignal(n) == event \/ n > 0

\* The read is done; an end of file takes a buffer, a failed read does not.
EndFill(n, ok) ==
  /\ at = "fill" /\ at' = "wait"
  /\ FileRead(n) /\ (~ok => n = 0)
  /\ IF ok THEN /\ queue' = [queue EXCEPT ![tail + 1] = [from |-> fp, len |-> n]]
                /\ tail' = tail + 1
           ELSE UNCHANGED <<queue, tail>>
  /\ event' = Resignal(n) /\ dry' = (n = 0)
  /\ UNCHANGED <<con, next, started, stop, fRead, rewind>>

-----------------------------------------------------------------------------
Sender ==
  \/ Start \/ Probe \/ StopThread \/ WakeToStop \/ Joined \/ FlushOne \/ FlushEnd \/ Seek
  \/ ReadQueued
  \/ \E n \in {"none", "sync", "seek"} : Flush(n)
  \/ \E n \in 0 .. B : SyncRead(n) \/ ReadNow(n)

ReadThread ==
  \/ Wake \/ StartFill
  \/ \E n \in 0 .. B, ok \in BOOLEAN : EndFill(n, ok)

Next == Sender \/ ReadThread \/ Grow

Spec == Init /\ [][Next]_vars

\* Both threads are scheduled, and a file operation ends; the sender need not
\* begin another call.
SenderGoesOn ==
  \/ WakeToStop \/ Joined \/ FlushOne \/ FlushEnd \/ Seek \/ \E n \in 0 .. B : SyncRead(n)

FairSpec == Spec /\ WF_vars(SenderGoesOn) /\ WF_vars(ReadThread)

-----------------------------------------------------------------------------
(* Positions *)

\* Slip: what is read ahead is forgotten.
GetFilePositionFile == fp

\* The bytes of the first i buffers.
Ahead[i \in 0 .. tail] == IF i = 0 THEN 0 ELSE Ahead[i - 1] + queue[i].len

\* GetFilePosition goes back from the file's pointer over what is read ahead.
GetFilePosition == fp - Ahead[tail]

-----------------------------------------------------------------------------
(* Properties *)

Buffers == [from : Nat, len : 0 .. B]

\* Every variable has its type.
TypeOK ==
  /\ con \in {"idle", "stop", "join", "flush", "sync", "seek"}
  /\ next \in {"none", "sync", "seek"}
  /\ started \in BOOLEAN /\ stop \in BOOLEAN /\ event \in BOOLEAN /\ fRead \in BOOLEAN
  /\ queue \in [Slots -> Buffers] /\ tail \in 0 .. N /\ rewind \in Nat
  /\ at \in {"none", "wait", "woken", "fill"}
  /\ fp \in Nat /\ low \in Nat /\ size \in Nat /\ dry \in BOOLEAN

\* The sender and the read thread never use the file at the same time, although
\* the sender uses it without the lock.
FileOwned == at = "fill" => con \notin {"sync", "seek"}

\* What the file keeps (SetRewindSize) reaches back to where Flush must go.
FlushReaches == con = "flush" /\ tail = 0 => fp - rewind >= low

\* Where the next read begins.
Position == IF tail > 0 THEN queue[1].from ELSE fp - rewind

\* GetFilePosition gives the sender's position, however much is read ahead.
PositionExact == Idle => GetFilePosition = Position

\* The read thread does not sleep while there is something for it to read ahead.
NoLostWake ==
  Idle /\ fRead /\ tail < N => event \/ at \in {"woken", "fill"} \/ dry

\* Who may use the file, and who must, never gets lost between the two threads.
TurnsKept == FileOwned /\ NoLostWake

\* Reading ahead cannot be noticed.
Call == IF ~started \/ con \in {"stop", "join"} THEN "setup"
        ELSE IF con = "flush" THEN next
        ELSE IF con = "idle" THEN "none" ELSE con

Sequential == INSTANCE SequentialReader WITH pos <- Position, held <- queue[N + 1], call <- Call
IsSequential == Sequential!Spec

\* SetupBuffer and Close return: the read thread sees that it has to stop.
JoinReturns == con = "stop" ~> ~started
=============================================================================
