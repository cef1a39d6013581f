------------------------------- MODULE PipeRing -------------------------------
(***************************************************************************)
(* The receive ring of BonDriver_Pipe (CBonDriverPipe): a circular list of *)
(* N buffers shared by three actors.                                       *)
(*   - the read thread (ReadPipeMain) keeps up to R overlapped ReadFile    *)
(*     requests outstanding on the data pipe and turns finished ones, in   *)
(*     order, into retrievable buffers;                                    *)
(*   - the application's streaming thread takes buffers (GetTsStream),     *)
(*     purges them, selects and resets channels;                           *)
(*   - the control thread (CtrlPipeMain) serves PURGE and PAUSE requests   *)
(*     of the client that writes the pipe.                                 *)
(* The client and the kernel's pipe object are the environment.  A chunk   *)
(* of stream data is its serial number; 0 stands for a 0-byte buffer.      *)
(***************************************************************************)
EXTENDS Naturals, Sequences

CONSTANTS
  N,          \* ASYNCBUFFSIZE, buffers in the ring
  R,          \* REQRESERVNUM, overlapped requests kept outstanding
  PipeCap,    \* chunks the kernel buffers for the data pipe
  MaxChunk,   \* bound: chunks the client writes
  MaxCmd,     \* bound: purge and pause requests, from both threads
  MaxOpen     \* bound: channel selections and client connections

ASSUME RingAssumption ==
  /\ N \in Nat /\ R \in Nat /\ 1 <= R /\ R < N
  /\ PipeCap \in Nat /\ MaxChunk \in Nat /\ MaxCmd \in Nat /\ MaxOpen \in Nat

VARIABLES
  get,     \* m_pIoGetReq, as an index
  ready,   \* m_dwReadyReqNum
  paused,  \* m_fPause
  purge,   \* m_hOnPurgeEvent is signalled (auto reset)
  quit,    \* m_hQuitEvent is signalled (manual reset)
  rd,      \* where the read thread is; "none" when there is no thread
  deq,     \* pIoDeq, local to the read thread
  enq,     \* pIoEnq, local to the read thread
  busy,    \* dwBusyReqNum, local to the read thread
  stack,   \* hEventStack, local to the read thread
  hev,     \* AsyncIoReq::hEvent of each buffer
  st,      \* what dwSize and the overlapped result say of each buffer
  data,    \* the chunk each buffer holds
  ctrl,    \* the control thread is alive
  app,     \* "closed", "open", or inside ResetChannel
  after,   \* what the caller of ResetChannel does once it returns
  conn,    \* the pipe instance: not listening, listening, or the client's
           \* end is open or closed
  pipe,    \* chunks the kernel holds, written and not yet read
  sent,    \* serial number of the last chunk the client wrote
  cmds,    \* purge and pause requests so far
  opens,   \* channel selections and client connections so far
  held,    \* history: the buffer GetTsStream last returned, or N
  fresh,   \* history: no purge has moved get since held was returned
  last,    \* history: the last chunk GetTsStream delivered
  lost,    \* history: a purge, disconnection or reset has discarded data
  stale    \* history: buffers made retrievable while a purge was pending

ring   == <<get, ready, paused, purge>>
local  == <<rd, deq, enq, busy, stack>>
bufs   == <<hev, st, data>>
client == <<conn, pipe, sent, opens>>
hist   == <<held, fresh, last, lost, stale>>
vars   == <<ring, local, bufs, client, hist, quit, ctrl, app, after, cmds>>

Slots  == 0 .. N - 1
Events == 0 .. R - 1

ReadStates == {"none", "CONNECTING", "LISTEN", "WAITING", "READING", "RECEIVE",
               "PURGING", "CANCEL", "DISCARD", "DISCONNECTING", "FLUSH"}

\* The buffer k steps of pNext after buffer s, for k in 0 .. N.
Plus(s, k) == IF s + k >= N THEN s + k - N ELSE s + k

\* Chunk a buffer would deliver: none while the request is outstanding, failed
\* or forced to 0 bytes.
Item(s) == IF st[s] \in {"arrived", "known"} THEN data[s] ELSE 0

-----------------------------------------------------------------------------
(* The application's thread *)

Init ==
  /\ get = 0 /\ ready = 0 /\ paused = FALSE /\ purge = FALSE /\ quit = FALSE
  /\ rd = "none" /\ deq = 0 /\ enq = 0 /\ busy = 0
  /\ stack = [i \in Events |-> i]
  /\ hev = [s \in Slots |-> 0]
  /\ st = [s \in Slots |-> "zero"]
  /\ data = [s \in Slots |-> 0]
  /\ ctrl = FALSE /\ app = "closed" /\ after = "close"
  /\ conn = "none" /\ pipe = <<>> /\ sent = 0 /\ cmds = 0 /\ opens = 0
  /\ held = N /\ fresh = TRUE /\ last = 0 /\ lost = FALSE /\ stale = 0

\* OpenTuner: allocate the ring; the channel is reset by whoever closed it.
OpenTuner ==
  /\ app = "closed"
  /\ app' = "open"
  /\ UNCHANGED <<ring, local, bufs, client, hist, quit, ctrl, after, cmds>>

\* SetChannel and CloseTuner begin by ResetChannel, which signals m_hQuitEvent
\* and joins both threads.
ResetBegin(goal) ==
  /\ app = "open"
  /\ goal = "set" => opens < MaxOpen
  /\ app' = "resetting" /\ after' = goal /\ quit' = TRUE
  /\ held' = N /\ fresh' = TRUE
  /\ UNCHANGED <<ring, local, bufs, client, ctrl, cmds, last, lost, stale>>

\* Both threads are joined: the events are destroyed and the ring is cleared.
\* CloseTuner then frees it; SetChannel creates pipe and threads, or fails.
ResetEnd ==
  /\ app = "resetting" /\ rd = "none" /\ ~ctrl
  /\ get' = 0 /\ ready' = 0 /\ purge' = FALSE /\ quit' = FALSE
  /\ lost' = (lost \/ ready # 0)
  /\ pipe' = <<>>
  /\ \/ /\ after = "close"
        /\ app' = "closed" /\ conn' = "none"
        /\ UNCHANGED <<local, ctrl, opens>>
     \/ /\ after = "set"                          \* CreateNamedPipe fails
        /\ app' = "open" /\ conn' = "none"
        /\ UNCHANGED <<local, ctrl, opens>>
     \/ /\ after = "set"
        /\ app' = "open" /\ conn' = "listen" /\ opens' = opens + 1
        /\ ctrl' = TRUE /\ rd' = "CONNECTING"
        /\ deq' = 0 /\ enq' = 0 /\ busy' = 0 /\ stack' = [i \in Events |-> i]
  /\ UNCHANGED <<paused, bufs, sent, after, cmds, held, fresh, last, stale>>

\* Slip: the count goes down and the pointer stays.
TakeBufferStays == get' = get /\ ready' = ready - 1

TakeBuffer == get' = Plus(get, 1) /\ ready' = ready - 1

\* GetTsStream with a buffer available; a paused receiver gives 0 bytes and
\* keeps the buffer.
GetTsStream ==
  /\ app = "open" /\ ready # 0
  /\ fresh' = TRUE
  /\ IF paused
       THEN /\ held' = N
            /\ UNCHANGED <<get, ready, last>>
       ELSE /\ held' = get
            /\ TakeBuffer
            /\ last' = IF Item(get) # 0 THEN Item(get) ELSE last
  /\ UNCHANGED <<paused, purge, local, bufs, client, quit, ctrl, app, after, cmds,
                 lost, stale>>

\* GetTsStream with nothing to take.
GetTsStreamEmpty ==
  /\ app = "open" /\ ready = 0
  /\ held' = N /\ fresh' = TRUE
  /\ UNCHANGED <<ring, local, bufs, client, quit, ctrl, app, after, cmds, last, lost,
                 stale>>

\* PurgeTsStream, called under the lock by the application or by PURGE.
PurgeTsStream ==
  /\ cmds < MaxCmd /\ cmds' = cmds + 1
  /\ get' = Plus(get, ready) /\ ready' = 0
  /\ purge' = (rd # "none" \/ purge)
  /\ lost' = (lost \/ ready # 0)
  /\ stale' = 0
  /\ UNCHANGED <<paused, local, bufs, client, quit, ctrl, app, after, last>>

\* IBonDriver::PurgeTsStream: the caller gives up the buffer it held.
AppPurge ==
  /\ app = "open" /\ PurgeTsStream
  /\ held' = N /\ fresh' = TRUE

-----------------------------------------------------------------------------
(* The control thread: CtrlPipeMain and ProcessPipeMessage.  Its pipe has a *)
(* connection of its own, which is not modelled: a request may come at any  *)
(* time the thread lives.                                                   *)

CtrlPurge ==
  /\ ctrl /\ PurgeTsStream
  /\ held' = held /\ fresh' = FALSE

CtrlPause(b) ==
  /\ ctrl /\ cmds < MaxCmd
  /\ cmds' = cmds + 1 /\ paused' = b
  /\ UNCHANGED <<get, ready, purge, local, bufs, client, hist, quit, ctrl, app, after>>

CtrlExit ==
  /\ ctrl /\ quit /\ ctrl' = FALSE
  /\ UNCHANGED <<ring, local, bufs, client, hist, quit, app, after, cmds>>

-----------------------------------------------------------------------------
(* The read thread: ReadPipeMain *)

\* EXIT: the handle is closed, the kernel drops what it held and ends the requests.
Exit ==
  /\ rd' = "none" /\ conn' = "none" /\ pipe' = <<>>
  /\ st' = [s \in Slots |-> IF st[s] = "pending" THEN "error" ELSE st[s]]
  /\ lost' = (lost \/ busy # 0 \/ pipe # <<>>)
  /\ UNCHANGED <<ring, deq, enq, busy, stack, hev, data, sent, opens, quit, ctrl,
                 app, after, cmds, held, fresh, last, stale>>

\* Slip: the sleep on a full ring does not watch the quit event.
QuitSeenAwake == \/ rd = "LISTEN"
                 \/ rd = "READING" /\ busy = R /\ st[deq] # "known"

\* The waits that watch the quit event.
QuitSeen == \/ rd = "LISTEN" \/ rd = "WAITING"
            \/ rd = "READING" /\ busy = R /\ st[deq] # "known"

ReadExit == quit /\ QuitSeen /\ Exit

\* ConnectNamedPipe: the client is already there, or the thread waits for one.
Connect ==
  /\ rd = "CONNECTING"
  /\ \/ conn = "open" /\ rd' = "READING" /\ conn' = conn
     \/ conn \in {"none", "listen"} /\ rd' = "LISTEN" /\ conn' = "listen"
  /\ UNCHANGED <<ring, deq, enq, busy, stack, bufs, pipe, sent, opens, hist, quit, ctrl,
                 app, after, cmds>>

\* ConnectNamedPipe gives ERROR_NO_DATA, for a client that came and went
\* before the call: the "Unexpected Error!" exit.
ConnectNoData ==
  /\ rd = "CONNECTING" /\ conn = "closed"
  /\ Exit

\* The outstanding ConnectNamedPipe completes.
Connected ==
  /\ rd = "LISTEN" /\ conn # "listen" /\ ~quit
  /\ rd' = "READING"
  /\ UNCHANGED <<ring, deq, enq, busy, stack, bufs, client, hist, quit, ctrl, app,
                 after, cmds>>

\* SLEEP_ON_FULL elapses.
WaitOver ==
  /\ rd = "WAITING" /\ ~quit
  /\ rd' = "READING"
  /\ UNCHANGED <<ring, deq, enq, busy, stack, bufs, client, hist, quit, ctrl, app,
                 after, cmds>>

\* Slips: no buffer is kept back, and the count of the ring is ignored.
RoomForReadAll == ready + busy < N
RoomForReadAny == TRUE

\* One buffer is kept for what GetTsStream returned.
RoomForRead == ready + busy < N - 1

RingFull ==
  /\ rd = "READING" /\ busy # R /\ ~RoomForRead
  /\ rd' = "WAITING"
  /\ UNCHANGED <<ring, deq, enq, busy, stack, bufs, client, hist, quit, ctrl, app,
                 after, cmds>>

\* One ReadFile into buffer enq, with an event from the stack: it returns data
\* the kernel already has, stays outstanding, or fails on a broken pipe.
PostRead ==
  /\ rd = "READING" /\ busy # R /\ RoomForRead
  /\ hev' = [hev EXCEPT ![enq] = stack[busy]]
  /\ \/ /\ pipe # <<>>
        /\ data' = [data EXCEPT ![enq] = Head(pipe)]
        /\ st' = [st EXCEPT ![enq] = "known"]
        /\ pipe' = Tail(pipe)
        /\ enq' = Plus(enq, 1) /\ busy' = busy + 1
        /\ rd' = rd
     \/ /\ pipe = <<>> /\ conn = "open"
        /\ st' = [st EXCEPT ![enq] = "pending"]
        /\ enq' = Plus(enq, 1) /\ busy' = busy + 1
        /\ UNCHANGED <<rd, data, pipe>>
     \/ /\ pipe = <<>> /\ conn # "open"
        /\ rd' = "DISCONNECTING"
        /\ UNCHANGED <<st, data, pipe, enq, busy>>
  /\ UNCHANGED <<ring, deq, stack, conn, sent, opens, hist, quit, ctrl, app, after, cmds>>

\* With all requests posted the thread waits for quit, purge and the oldest
\* request, in this order; a request already known to hold data only lets a
\* purge go first.
AwaitPurge ==
  /\ rd = "READING" /\ busy = R /\ purge
  /\ quit => st[deq] = "known"
  /\ purge' = FALSE
  /\ rd' = "PURGING"
  /\ UNCHANGED <<get, ready, paused, deq, enq, busy, stack, bufs, client, hist, quit,
                 ctrl, app, after, cmds>>

\* Slip: a finished request is taken before the purge event is looked at.
PurgeWaits == FALSE

PurgeFirst == purge

\* Slip: the wait misses a request that finishes later.
FinishedNow(s) == FALSE

Finished(s) == st[s] = "arrived" /\ ~quit

AwaitDone ==
  /\ rd = "READING" /\ busy = R /\ ~PurgeFirst
  /\ \/ st[deq] = "known" /\ st' = st
     \/ Finished(deq) /\ st' = [st EXCEPT ![deq] = "known"]
  /\ rd' = "RECEIVE"
  /\ UNCHANGED <<ring, deq, enq, busy, stack, hev, data, client, hist, quit, ctrl, app,
                 after, cmds>>

AwaitError ==
  /\ rd = "READING" /\ busy = R /\ ~purge /\ ~quit
  /\ st[deq] = "error"
  /\ rd' = "DISCONNECTING"
  /\ UNCHANGED <<ring, deq, enq, busy, stack, bufs, client, hist, quit, ctrl, app,
                 after, cmds>>

PushEvent == stack' = [stack EXCEPT ![busy - 1] = hev[deq]]

\* Give back the event of the oldest request and step past it.
PopRequest ==
  /\ PushEvent
  /\ busy' = busy - 1
  /\ deq' = Plus(deq, 1)

\* The oldest request becomes retrievable.
Receive ==
  /\ rd = "RECEIVE"
  /\ PopRequest
  /\ ready' = ready + 1
  /\ stale' = IF purge THEN stale + 1 ELSE stale
  /\ rd' = "READING"
  /\ UNCHANGED <<get, paused, purge, enq, bufs, client, quit, ctrl, app, after, cmds,
                 held, fresh, last, lost>>

PurgeReady ==
  /\ rd = "PURGING"
  /\ get' = Plus(get, ready) /\ ready' = 0
  /\ lost' = (lost \/ ready # 0)
  /\ fresh' = FALSE
  /\ rd' = "CANCEL"
  /\ UNCHANGED <<paused, purge, deq, enq, busy, stack, bufs, client, quit, ctrl, app,
                 after, cmds, held, last, stale>>

\* CancelIo ends the outstanding requests and leaves finished ones alone; when
\* it fails the client is disconnected.
CancelRequests ==
  /\ rd = "CANCEL"
  /\ \/ /\ st' = [s \in Slots |-> IF st[s] = "pending" THEN "error" ELSE st[s]]
        /\ rd' = "DISCARD"
     \/ /\ st' = st
        /\ rd' = "DISCONNECTING"
  /\ UNCHANGED <<ring, deq, enq, busy, stack, hev, data, client, hist, quit, ctrl, app,
                 after, cmds>>

\* Slip: discarding a request leaves m_pIoGetReq behind.
SkipBufferNot == get' = get

SkipBuffer == get' = Plus(get, 1)

\* A cancelled or finished request counts as already taken.
DiscardOne ==
  /\ rd = "DISCARD" /\ busy # 0
  /\ PopRequest
  /\ SkipBuffer
  /\ lost' = TRUE /\ fresh' = FALSE
  /\ UNCHANGED <<ready, paused, purge, rd, enq, bufs, client, quit, ctrl, app, after,
                 cmds, held, last, stale>>

DiscardEnd ==
  /\ rd = "DISCARD" /\ busy = 0
  /\ rd' = "READING"
  /\ UNCHANGED <<ring, deq, enq, busy, stack, bufs, client, hist, quit, ctrl, app,
                 after, cmds>>

\* DisconnectNamedPipe.
Disconnect ==
  /\ rd = "DISCONNECTING"
  /\ conn' = "none" /\ pipe' = <<>>
  /\ lost' = (lost \/ pipe # <<>> \/ busy # 0)
  /\ st' = [s \in Slots |-> IF st[s] = "pending" THEN "error" ELSE st[s]]
  /\ rd' = "FLUSH"
  /\ UNCHANGED <<ring, deq, enq, busy, stack, hev, data, sent, opens, quit, ctrl, app,
                 after, cmds, held, fresh, last, stale>>

\* A request that is still in the ring becomes retrievable with 0 bytes.
FlushOne ==
  /\ rd = "FLUSH" /\ busy # 0
  /\ st' = [st EXCEPT ![deq] = "zero"]
  /\ PopRequest
  /\ ready' = ready + 1
  /\ UNCHANGED <<get, paused, purge, rd, enq, hev, data, client, hist, quit, ctrl, app,
                 after, cmds>>

FlushEnd ==
  /\ rd = "FLUSH" /\ busy = 0
  /\ rd' = "CONNECTING"
  /\ UNCHANGED <<ring, deq, enq, busy, stack, bufs, client, hist, quit, ctrl, app,
                 after, cmds>>

-----------------------------------------------------------------------------
(* The client and the kernel *)

ClientConnect ==
  /\ conn = "listen" /\ opens < MaxOpen
  /\ conn' = "open" /\ opens' = opens + 1
  /\ UNCHANGED <<ring, local, bufs, pipe, sent, hist, quit, ctrl, app, after, cmds>>

\* A write completes the oldest outstanding request or waits in the kernel.
ClientWrite ==
  /\ conn = "open" /\ sent < MaxChunk
  /\ sent' = sent + 1
  /\ \/ \E k \in 0 .. busy - 1 :
          /\ st[Plus(deq, k)] = "pending"
          /\ \A j \in 0 .. k - 1 : st[Plus(deq, j)] # "pending"
          /\ st' = [st EXCEPT ![Plus(deq, k)] = "arrived"]
          /\ data' = [data EXCEPT ![Plus(deq, k)] = sent + 1]
          /\ pipe' = pipe
     \/ /\ \A k \in 0 .. busy - 1 : st[Plus(deq, k)] # "pending"
        /\ Len(pipe) < PipeCap
        /\ pipe' = Append(pipe, sent + 1)
        /\ UNCHANGED <<st, data>>
  /\ UNCHANGED <<ring, local, hev, conn, opens, hist, quit, ctrl, app, after, cmds>>

\* The client closes its handle: outstanding requests fail, data it has
\* written stays readable.
ClientClose ==
  /\ conn = "open"
  /\ conn' = "closed"
  /\ st' = [s \in Slots |-> IF st[s] = "pending" THEN "error" ELSE st[s]]
  /\ UNCHANGED <<ring, local, hev, data, pipe, sent, opens, hist, quit, ctrl, app,
                 after, cmds>>

-----------------------------------------------------------------------------
AppStep == \/ OpenTuner \/ GetTsStream \/ GetTsStreamEmpty \/ AppPurge \/ ResetEnd
           \/ \E goal \in {"set", "close"} : ResetBegin(goal)

CtrlStep == CtrlPurge \/ CtrlExit \/ \E b \in BOOLEAN : CtrlPause(b)

ReadStep == \/ ReadExit \/ Connect \/ ConnectNoData \/ Connected
            \/ WaitOver \/ RingFull \/ PostRead
            \/ AwaitPurge \/ AwaitDone \/ AwaitError \/ Receive
            \/ PurgeReady \/ CancelRequests \/ DiscardOne \/ DiscardEnd
            \/ Disconnect \/ FlushOne \/ FlushEnd

ClientStep == ClientConnect \/ ClientWrite \/ ClientClose

Next == AppStep \/ CtrlStep \/ ReadStep \/ ClientStep

Spec == Init /\ [][Next]_vars

-----------------------------------------------------------------------------
(* Properties *)

RingType ==
  /\ get \in Slots /\ ready \in 0 .. N - 1
  /\ paused \in BOOLEAN /\ purge \in BOOLEAN /\ quit \in BOOLEAN

ThreadType ==
  /\ rd \in ReadStates /\ deq \in Slots /\ enq \in Slots /\ busy \in 0 .. R
  /\ stack \in [Events -> Events]

BufferType ==
  /\ hev \in [Slots -> Events]
  /\ st \in [Slots -> {"pending", "arrived", "known", "error", "zero"}]
  /\ data \in [Slots -> Nat]

ClientType ==
  /\ ctrl \in BOOLEAN /\ app \in {"closed", "open", "resetting"}
  /\ after \in {"set", "close"}
  /\ conn \in {"none", "listen", "open", "closed"}
  /\ pipe \in Seq(Nat) /\ sent \in Nat /\ cmds \in Nat /\ opens \in Nat

HistoryType ==
  /\ held \in 0 .. N /\ fresh \in BOOLEAN /\ last \in Nat /\ lost \in BOOLEAN
  /\ stale \in Nat

\* Every variable has its type: pointers stay in the ring, m_dwReadyReqNum below
\* its size, and no more requests are counted than there are events.
TypeOK == RingType /\ ThreadType /\ BufferType /\ ClientType /\ HistoryType

\* Requests in flight, as far as anyone but a dead thread is concerned.
InFlight == IF rd = "none" THEN 0 ELSE busy

\* The three pointers, kept by different threads and moved under different
\* locks, always delimit adjacent runs of the ring: retrievable buffers from
\* m_pIoGetReq, requests from pIoDeq, free buffers from pIoEnq, one of them spare.
RingAligned ==
  /\ ready + InFlight <= N - 1
  /\ rd # "none" => deq = Plus(get, ready) /\ enq = Plus(deq, busy)

\* No two outstanding requests share an event, and none of them has an event
\* that the next ReadFile would take from hEventStack.
EventsDistinct ==
  rd # "none" =>
    /\ \A i, j \in busy .. R - 1 : i # j => stack[i] # stack[j]
    /\ \A i, j \in 0 .. busy - 1 :
         i # j => hev[Plus(deq, i)] # hev[Plus(deq, j)]
    /\ \A i \in 0 .. busy - 1, j \in busy .. R - 1 : hev[Plus(deq, i)] # stack[j]

\* The read thread's own view is consistent with what the other threads do to
\* the ring: the pointers delimit adjacent runs, and so each event belongs to one
\* request.
RingSound == RingAligned /\ EventsDistinct

\* No request is outstanding on the buffer GetTsStream returned last, as long as
\* no purge has moved the ring in the meantime.
HeldReservedNoPurge ==
  fresh /\ held # N => \A k \in 0 .. InFlight - 1 : Plus(deq, k) # held

\* Places between the client and the application, in the order of delivery: the
\* buffers of the ring from m_pIoGetReq on, then what the kernel holds.
Places == 1 .. ready + InFlight + Len(pipe)

\* The chunk at a place, or 0.
ChunkAt(i) == IF i <= ready + InFlight THEN Item(Plus(get, i - 1))
                                       ELSE pipe[i - (ready + InFlight)]

Queued == {ChunkAt(i) : i \in Places} \ {0}

\* What is queued is newer than what was delivered, and each chunk stands once, in
\* the client's order, whatever purges and disconnections discard.  Until one of
\* them, or a reset, discards something, no chunk is missing.
NothingLost ==
  /\ Queued \subseteq last + 1 .. sent
  /\ \A i, j \in Places :
       i < j /\ ChunkAt(i) # 0 /\ ChunkAt(j) # 0 => ChunkAt(i) < ChunkAt(j)
  /\ ~lost => last + 1 .. sent \subseteq Queued

\* After PurgeTsStream at most one buffer becomes retrievable before the read
\* thread has carried out the purge (the TODO before Receive).
StaleAtMostOne == stale <= 1

\* The buffers GetTsStream can return, as the chunks they carry.
Avail == [i \in 1 .. ready |->
            IF st[Plus(get, i - 1)] = "known" THEN data[Plus(get, i - 1)] ELSE 0]

\* GetTsStream sees a bounded FIFO queue whose chunks come in the client's order.
Queue == INSTANCE StreamQueue
  WITH Capacity <- N - 1, Chunks <- 1 .. MaxChunk, avail <- Avail, last <- last
IsQueue == Queue!Spec

\* Chunks that are on their way leave the ring, delivered or discarded, unless
\* the receiver stays paused.
Delivered ==
  <>[]~paused => \A c \in 1 .. MaxChunk : c \in Queued ~> c \notin Queued

\* SetChannel and CloseTuner return: the read thread sees the quit event even
\* while data keep arriving, where its wait does not look at it.
ResetReturns == app = "resetting" ~> app # "resetting"

-----------------------------------------------------------------------------
\* The threads are scheduled and the application keeps asking for data; the
\* client and the user owe nothing.
Fairness ==
  /\ WF_vars(ReadStep)
  /\ WF_vars(CtrlExit)
  /\ WF_vars(ResetEnd)
  /\ WF_vars(GetTsStream)

FairSpec == Spec /\ Fairness
=============================================================================
