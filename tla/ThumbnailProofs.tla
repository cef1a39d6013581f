---------------------------- MODULE ThumbnailProofs ----------------------------
(***************************************************************************)
(* Proofs about Thumbnail for any number of files, positions, widths and   *)
(* messages and any size of the cache.  Every thread that was started and  *)
(* has not ended is known to the preview, as the one in use or as one that *)
(* was stopped, so that when Destroy has waited for those no thread is     *)
(* left (TInv).  What the preview asked for last is in the request slot,   *)
(* being made, in the result slot with a message on its way, or settled    *)
(* (PInv), so that no request is lost and no image of another file or      *)
(* width is kept.                                                          *)
(***************************************************************************)
EXTENDS Thumbnail, TLAPS

\* A thread of a file that was opened is in use, stopped, or has ended.
KnownThread(t) == t = current \/ t \in stopped \/ Ended(t)

ThreadsKnown ==
  /\ \A t \in Threads : (t > opened => worker[t].at = "new") /\ (t <= opened => KnownThread(t))
  /\ ui # "on" => current = 0
  /\ ui = "off" => stopped = {}

\* The types of everything but the cache, which no thread looks at.
Plain == ThreadTypes /\ FileTypes /\ FlagTypes /\ KeyTypes

TInv == Plain /\ ThreadsKnown

\* The slots and requests of a thread that has nothing to do.
LEMMA NoneTyped ==
  /\ NoRequest \in Requests /\ NoImage \in Images
  /\ Idle \in Slots
BY DEF NoRequest, NoImage, Requests, Images, Idle, Slots

\* It holds when the plugin is loaded.
LEMMA TInvInit == Init => TInv
<1> SUFFICES ASSUME Init PROVE TInv
  OBVIOUS
<1>1. ThreadTypes
  <2>1. [at |-> "new", req |-> NoRequest] \in Works /\ Idle \in Slots
    BY NoneTyped DEF Works
  <2>2. [gen |-> None, file |-> 0, bad |-> FALSE] \in Decoders
    BY DEF Decoders
  <2> QED
    BY <2>1, <2>2 DEF Init, ThreadTypes
<1>2. FileTypes /\ FlagTypes /\ KeyTypes
  <2>1. FileTypes
    BY ThumbnailAssumption DEF Init, FileTypes
  <2>2. FlagTypes
    BY Zenon DEF Init, FlagTypes
  <2>3. KeyTypes
    BY DEF Init, KeyTypes
  <2> QED
    BY <2>1, <2>2, <2>3
<1>3. ThreadsKnown
  BY ThumbnailAssumption DEF Init, ThreadsKnown, Threads
<1> QED
  BY <1>1, <1>2, <1>3 DEF TInv, Plain

\* Closing keeps the thread that was in use, unless it has ended.
LEMMA ClosesKnown ==
  ASSUME TInv, NEW n, CloseFor(n)
  PROVE  /\ stopped' \subseteq 1 .. opened
         /\ Told \in [Threads -> Slots]
         /\ \A t \in Threads : t <= opened => t \in stopped' \/ Ended(t)
<1>1. \A t : t \in stopped' <=> (t \in stopped \/ (t = current /\ current # 0)) /\ ~Ended(t)
  BY DEF CloseFor, Reap, Keep
<1>2. /\ current \in 0 .. opened /\ stopped \subseteq 1 .. opened /\ opened \in Nat
      /\ \A t \in Threads : t <= opened => KnownThread(t)
  BY ThumbnailAssumption DEF TInv, Plain, FileTypes, ThreadsKnown
<1>3. stopped' \subseteq 1 .. opened
  <2> SUFFICES ASSUME NEW t \in stopped' PROVE t \in 1 .. opened
    OBVIOUS
  <2>1. t \in stopped \/ (t = current /\ current # 0)
    BY <1>1
  <2>2. CASE t \in stopped
    BY <1>2, <2>2
  <2>3. CASE t = current /\ current # 0
    BY <1>2, <2>3
  <2> QED
    BY <2>1, <2>2, <2>3
<1>4. \A t \in Threads : t <= opened => t \in stopped' \/ Ended(t)
  BY <1>1, <1>2 DEF KnownThread, Threads
<1>5. Told \in [Threads -> Slots]
  <2>1. /\ shared \in [Threads -> Slots]
        /\ shared[current] \in Slots \/ current \notin Threads
    BY DEF TInv, Plain, ThreadTypes
  <2>2. \A h \in Slots : Tell(h) \in Slots
    BY NoneTyped DEF Tell, Slots
  <2> QED
    BY <2>2 DEF Told, TInv, Plain, ThreadTypes
<1> QED
  BY <1>3, <1>4, <1>5

\* Opening and closing a file, and disabling and enabling the plugin.
LEMMA OpensKeep ==
  ASSUME TInv, Open \/ Close \/ Destroy \/ DestroyEnd \/ Enable
  PROVE  TInv'
<1>1. /\ ThreadTypes /\ FileTypes /\ FlagTypes /\ KeyTypes /\ ThreadsKnown
      /\ MaxThreads \in Nat \ {0} /\ 0 \in 0 .. MaxMsgs
  BY ThumbnailAssumption DEF TInv, Plain
<1>2. CASE Open
  <2>1. /\ ui = "on" /\ opened < MaxThreads /\ opened' = opened + 1 /\ CloseFor(opened + 1)
        /\ unsupported' = FALSE /\ current' = opened + 1 /\ shared' = Told
        /\ worker' = [worker EXCEPT ![opened + 1].at = "wait"]
        /\ UNCHANGED <<ui, decoder, msgs, shows>>
    BY <1>2 DEF Open
  <2>2. /\ stopped' \subseteq 1 .. opened
        /\ Told \in [Threads -> Slots]
        /\ \A t \in Threads : t <= opened => t \in stopped' \/ Ended(t)
    BY <2>1, ClosesKnown
  <2>3. opened + 1 \in Threads /\ opened \in Nat
    BY <1>1, <2>1 DEF ThreadTypes, FileTypes, KeyTypes, Threads
  <2>4. Plain'
    <3>1. ThreadTypes'
      <4>1. worker' \in [Threads -> Works]
        BY <1>1, <2>1, <2>3 DEF ThreadTypes, Works
      <4> QED
        BY <1>1, <2>1, <2>2, <4>1 DEF ThreadTypes
    <3>2. FileTypes'
      BY <1>1, <2>1, <2>2, <2>3 DEF FileTypes, CloseFor
    <3>3. FlagTypes'
      BY Zenon, <1>1, <2>1, <2>2, <2>3 DEF FlagTypes, CloseFor
    <3>4. KeyTypes'
      BY <1>1, <2>1, <2>2, <2>3 DEF KeyTypes, CloseFor
    <3> QED
      BY <3>1, <3>2, <3>3, <3>4 DEF Plain
  <2>5. ThreadsKnown'
    <3>1. ASSUME NEW t \in Threads
          PROVE  /\ t > opened' => worker'[t].at = "new"
                 /\ t <= opened' => KnownThread(t)'
      <4>1. CASE t = opened + 1
        BY <2>1, <2>3, <4>1 DEF KnownThread
      <4>2. CASE t # opened + 1
        <5>1. worker'[t] = worker[t] /\ t \in Nat
          BY <1>1, <2>1, <4>2 DEF ThreadTypes, FileTypes, KeyTypes, Threads
        <5>2. t > opened' => t > opened
          BY <2>1, <2>3, <5>1
        <5>3. t <= opened' => t <= opened
          BY <2>1, <2>3, <4>2, <5>1
        <5> QED
          BY <1>1, <2>2, <5>1, <5>2, <5>3 DEF ThreadsKnown, KnownThread, Ended
      <4> QED
        BY <4>1, <4>2
    <3> QED
      BY <2>1, <3>1 DEF ThreadsKnown
  <2> QED
    BY <2>4, <2>5 DEF TInv
<1>3. CASE Close \/ Destroy
  <2>1. /\ ui = "on" /\ CloseFor(0) /\ current' = 0 /\ shared' = Told
        /\ ui' \in {"on", "stopping"}
        /\ UNCHANGED <<opened, unsupported, worker, decoder, msgs, shows>>
    BY <1>3 DEF Close, Destroy
  <2>2. /\ stopped' \subseteq 1 .. opened
        /\ Told \in [Threads -> Slots]
        /\ \A t \in Threads : t <= opened => t \in stopped' \/ Ended(t)
    BY <2>1, ClosesKnown
  <2>3. Plain'
    <3>1. ThreadTypes'
      BY <1>1, <2>1, <2>2 DEF ThreadTypes, CloseFor
    <3>2. FileTypes'
      BY <1>1, <2>1, <2>2 DEF FileTypes, CloseFor
    <3>3. FlagTypes'
      BY Zenon, <1>1, <2>1, <2>2 DEF FlagTypes, CloseFor
    <3>4. KeyTypes'
      BY <1>1, <2>1, <2>2 DEF KeyTypes, CloseFor
    <3> QED
      BY <3>1, <3>2, <3>3, <3>4 DEF Plain
  <2>4. ThreadsKnown'
    BY <1>1, <2>1, <2>2 DEF ThreadsKnown, KnownThread, Ended
  <2> QED
    BY <2>3, <2>4 DEF TInv
<1>4. CASE DestroyEnd
  <2>1. /\ ui = "stopping" /\ (\A t \in stopped : Ended(t)) /\ ui' = "off" /\ stopped' = {}
        /\ msgs' = 0 /\ UNCHANGED <<preview, current, shared, worker, decoder, shows>>
    BY <1>4 DEF DestroyEnd
  <2>2. Plain'
    <3>1. ThreadTypes'
      BY <1>1, <2>1 DEF ThreadTypes, preview
    <3>2. FileTypes'
      BY <1>1, <2>1 DEF FileTypes, preview
    <3>3. FlagTypes'
      BY Zenon, <1>1, <2>1 DEF FlagTypes, preview
    <3>4. KeyTypes'
      BY <1>1, <2>1 DEF KeyTypes, preview
    <3> QED
      BY <3>1, <3>2, <3>3, <3>4 DEF Plain
  <2>3. ThreadsKnown'
    BY <1>1, <2>1 DEF ThreadsKnown, KnownThread, Ended, preview
  <2> QED
    BY <2>2, <2>3 DEF TInv
<1>5. CASE Enable
  <2>1. ui' = "on" /\ UNCHANGED <<preview, threads, msgs, shows>>
    BY <1>5 DEF Enable
  <2>2. Plain'
    <3>1. ThreadTypes'
      BY <1>1, <2>1 DEF ThreadTypes, preview, threads
    <3>2. FileTypes'
      BY <1>1, <2>1 DEF FileTypes, preview, threads
    <3>3. FlagTypes'
      BY Zenon, <1>1, <2>1 DEF FlagTypes, preview, threads
    <3>4. KeyTypes'
      BY <1>1, <2>1 DEF KeyTypes, preview, threads
    <3> QED
      BY <3>1, <3>2, <3>3, <3>4 DEF Plain
  <2>3. ThreadsKnown'
    BY <1>1, <2>1 DEF ThreadsKnown, KnownThread, Ended, preview, threads
  <2> QED
    BY <2>2, <2>3 DEF TInv
<1> QED
  BY <1>2, <1>3, <1>4, <1>5

\* A request, and a thread that wakes, leave the rest of the slot.
LEMMA AskedTyped == ASSUME NEW h \in Slots, NEW r \in Requests PROVE Ask(h, r) \in Slots
  BY Zenon DEF Ask, Slots

LEMMA WokenTyped == ASSUME NEW h \in Slots PROVE [h EXCEPT !.event = FALSE] \in Slots
  BY Zenon DEF Slots

\* Pointing at positions and taking results does nothing to threads.
LEMMA ShowsKeep ==
  ASSUME TInv, Hide \/ OnResult \/ \E k \in Keys, w \in Widths : Show(k, w)
  PROVE  TInv'
<1>1. /\ ThreadTypes /\ FileTypes /\ FlagTypes /\ KeyTypes /\ ThreadsKnown
      /\ MaxThreads \in Nat \ {0} /\ MaxMsgs \in Nat /\ MaxShows \in Nat
  BY ThumbnailAssumption DEF TInv, Plain
<1>2. UNCHANGED <<ui, opened, current, stopped, worker>>
  BY DEF Hide, OnResult, Show, threads
<1>3. ThreadsKnown'
  BY <1>1, <1>2 DEF ThreadsKnown, KnownThread, Ended
<1>4. CASE Hide
  BY <1>1, <1>3, <1>4 DEF Hide, threads, ThreadTypes, FileTypes, FlagTypes, KeyTypes, Plain, TInv
<1>5. ASSUME NEW k \in Keys, NEW w \in Widths, Show(k, w) PROVE TInv'
  <2> DEFINE r == [gen |-> generation, file |-> file, key |-> k, width |-> w]
  <2>1. r \in Requests
    BY <1>1 DEF Requests, ThreadTypes, FileTypes, KeyTypes
  <2>2. RequestedAt(w) \in Keys \union {None}
    BY <1>1 DEF RequestedAt, ThreadTypes, FileTypes, KeyTypes
  <2>3. /\ shared' \in {shared, [shared EXCEPT ![current] = Ask(@, r)]}
        /\ shown' \in {k, shown, None} /\ requested' \in {k, RequestedAt(w)}
        /\ failed' \in BOOLEAN /\ shows < MaxShows /\ shows' = shows + 1
        /\ width' = w /\ key' = k /\ visible' = TRUE
        /\ UNCHANGED <<ui, file, opened, generation, unsupported, current, stopped, worker,
                       decoder, msgs>>
    BY <1>5 DEF Show
  <2> HIDE DEF r
  <2>4. shared' \in [Threads -> Slots]
    <3>1. shared \in [Threads -> Slots]
      BY <1>1 DEF ThreadTypes
    <3>2. \A h \in Slots : Ask(h, r) \in Slots
      BY <2>1, AskedTyped, Zenon
    <3> QED
      BY ONLY <2>3, <3>1, <3>2, SMTT(30)
  <2>5. Plain'
    <3>1. ThreadTypes'
      BY <1>1, <2>2, <2>3, <2>4 DEF ThreadTypes
    <3>2. FileTypes'
      BY <1>1, <2>2, <2>3, <2>4 DEF FileTypes
    <3>3. FlagTypes'
      BY Zenon, <1>1, <2>2, <2>3, <2>4 DEF FlagTypes
    <3>4. KeyTypes'
      BY <1>1, <2>2, <2>3, <2>4 DEF KeyTypes
    <3> QED
      BY <3>1, <3>2, <3>3, <3>4 DEF Plain
  <2> QED
    BY <1>3, <2>5 DEF TInv
<1>6. CASE OnResult
  <2>1. /\ shared' \in {shared, [shared EXCEPT ![current].result = NoImage]}
        /\ msgs > 0 /\ msgs' = msgs - 1
        /\ shown' \in {shown, key} /\ unsupported' \in {unsupported, TRUE}
        /\ visible' \in {visible, FALSE} /\ failed' \in {failed, TRUE, FALSE}
        /\ UNCHANGED <<ui, file, opened, generation, width, key, requested, current, stopped,
                       worker, decoder, shows>>
    BY <1>1, <1>6 DEF OnResult, Accept, ThreadTypes, FileTypes, KeyTypes
  <2>2. shared' \in [Threads -> Slots]
    BY <1>1, <2>1, NoneTyped DEF ThreadTypes, Slots
  <2>3. Plain'
    <3>1. ThreadTypes'
      BY <1>1, <2>1, <2>2 DEF ThreadTypes
    <3>2. FileTypes'
      BY <1>1, <2>1, <2>2 DEF FileTypes
    <3>3. FlagTypes'
      BY Zenon, <1>1, <2>1, <2>2 DEF FlagTypes
    <3>4. KeyTypes'
      BY <1>1, <2>1, <2>2 DEF KeyTypes
    <3> QED
      BY <3>1, <3>2, <3>3, <3>4 DEF Plain
  <2> QED
    BY <1>3, <2>3 DEF TInv
<1> QED
  BY <1>4, <1>5, <1>6

\* What a step of a thread may do.
Goes(t) ==
  /\ UNCHANGED <<ui, preview, current, stopped, shows>>
  /\ worker[t].at \in {"wait", "woken", "run", "post"}
  /\ worker' \in [Threads -> Works]
  /\ worker'[t].at # "new"
  /\ \A u \in Threads : u # t => worker'[u] = worker[u]
  /\ shared' \in [Threads -> Slots]
  /\ decoder' \in [Threads -> Decoders]
  /\ msgs' \in 0 .. MaxMsgs

\* A thread goes on or ends; it starts no other.
LEMMA ThreadKeeps == ASSUME TInv, NEW t \in Threads, ThreadProc(t) PROVE TInv'
<1>1. ThreadTypes /\ FileTypes /\ FlagTypes /\ KeyTypes /\ ThreadsKnown /\ MaxMsgs \in Nat
  BY ThumbnailAssumption DEF TInv, Plain
<1>2. Goes(t)
  <2>1. CASE Wake(t)
    <3>1. shared \in [Threads -> Slots] /\ worker \in [Threads -> Works]
      BY <1>1 DEF ThreadTypes
    <3>2. shared' \in [Threads -> Slots]
      <4>1. \A h \in Slots : [h EXCEPT !.event = FALSE] \in Slots
        BY WokenTyped, Zenon
      <4>2. shared' = [shared EXCEPT ![t] = [shared[t] EXCEPT !.event = FALSE]]
        BY <2>1 DEF Wake
      <4> QED
        BY ONLY <3>1, <4>1, <4>2, t \in Threads, SMTT(30)
    <3>3. /\ worker' \in [Threads -> Works] /\ worker'[t].at = "woken"
          /\ \A u \in Threads : u # t => worker'[u] = worker[u]
      <4>1. \A h \in Works : /\ [h EXCEPT !.at = "woken"] \in Works
                             /\ [h EXCEPT !.at = "woken"].at = "woken"
        BY SMTT(30) DEF Works
      <4>2. worker' = [worker EXCEPT ![t] = [worker[t] EXCEPT !.at = "woken"]]
        BY <2>1 DEF Wake
      <4> QED
        BY ONLY <3>1, <4>1, <4>2, t \in Threads, SMTT(30)
    <3> QED
      BY <1>1, <2>1, <3>2, <3>3, SMTT(30) DEF Wake, ThreadTypes, FileTypes, Goes
  <2>2. CASE Take(t)
    <3>1. shared[t].req \in Requests /\ shared[t].req.gen \in Nat /\ shared[t].req.file \in Nat
      BY <1>1 DEF ThreadTypes, Slots, Requests
    <3>2. /\ worker[t].at = "woken" /\ UNCHANGED <<ui, preview, current, stopped, msgs, shows>>
          /\ \/ /\ worker' = [worker EXCEPT ![t] = Gone]
                /\ shared' = [shared EXCEPT ![t] = Idle] /\ UNCHANGED decoder
             \/ worker' = [worker EXCEPT ![t].at = "wait"] /\ UNCHANGED <<shared, decoder>>
             \/ /\ shared' = [shared EXCEPT ![t].requested = FALSE, ![t].req = NoRequest]
                /\ worker' = [worker EXCEPT ![t] = [at |-> "run", req |-> shared[t].req]]
                /\ \/ UNCHANGED decoder
                   \/ \E bad \in BOOLEAN :
                        decoder' = [decoder EXCEPT ![t] = [gen |-> shared[t].req.gen,
                                                           file |-> shared[t].req.file, bad |-> bad]]
      BY <2>2 DEF Take
    <3>3. /\ shared \in [Threads -> Slots] /\ worker \in [Threads -> Works]
          /\ decoder \in [Threads -> Decoders] /\ msgs' \in 0 .. MaxMsgs
      BY <1>1, <3>2 DEF ThreadTypes, FileTypes
    <3>4. /\ Gone \in Works /\ Gone.at = "ended"
          /\ [at |-> "run", req |-> shared[t].req] \in Works
          /\ \A w \in Works : [w EXCEPT !.at = "wait"] \in Works
      BY <3>1, NoneTyped DEF Gone, Works
    <3>5. /\ worker' \in [Threads -> Works] /\ worker'[t].at # "new"
          /\ \A u \in Threads : u # t => worker'[u] = worker[u]
      BY <3>2, <3>3, <3>4 DEF Works
    <3>6. \A h \in Slots : [h EXCEPT !.requested = FALSE, !.req = NoRequest] \in Slots
      BY NoneTyped DEF Slots
    <3>7. shared' \in [Threads -> Slots]
      <4>1. CASE shared' = [shared EXCEPT ![t].requested = FALSE, ![t].req = NoRequest]
        <5>1. [shared[t] EXCEPT !.requested = FALSE, !.req = NoRequest] \in Slots
          BY <3>3, <3>6
        <5>2. shared' = [shared EXCEPT ![t] = [shared[t] EXCEPT !.requested = FALSE, !.req = NoRequest]]
          BY <3>3, <4>1
        <5> QED
          BY <3>3, <5>1, <5>2
      <4>2. CASE shared' = [shared EXCEPT ![t] = Idle] \/ shared' = shared
        BY <3>3, <4>2, NoneTyped
      <4> QED
        BY <3>2, <4>1, <4>2
    <3>8. \A bad \in BOOLEAN :
            [gen |-> shared[t].req.gen, file |-> shared[t].req.file, bad |-> bad] \in Decoders
      BY <3>1 DEF Decoders
    <3>9. decoder' \in [Threads -> Decoders]
      BY <3>2, <3>3, <3>8
    <3> QED
      BY <3>2, <3>3, <3>5, <3>7, <3>9 DEF Goes
  <2>3. ASSUME NEW s \in 0 .. 2, Finish(t, s) PROVE Goes(t)
    <3> DEFINE r == worker[t].req
               i == [gen |-> r.gen, file |-> decoder[t].file, key |-> r.key,
                     width |-> IF s = 0 THEN r.width ELSE 0, status |-> s]
    <3>1. i \in Images
      BY <1>1 DEF ThreadTypes, Works, Decoders, Requests, Images
    <3>2. /\ worker[t].at = "run" /\ decoder' = [decoder EXCEPT ![t].bad = s = 2]
          /\ \/ worker' = [worker EXCEPT ![t] = Gone] /\ shared' = [shared EXCEPT ![t] = Idle]
             \/ /\ worker' = [worker EXCEPT ![t].at = "post"]
                /\ shared' = [shared EXCEPT ![t] = Published(@, i)]
          /\ UNCHANGED <<ui, preview, current, stopped, msgs, shows>>
      BY <2>3 DEF Finish
    <3> HIDE DEF i
    <3>3. /\ shared \in [Threads -> Slots] /\ worker \in [Threads -> Works]
          /\ decoder \in [Threads -> Decoders] /\ msgs' \in 0 .. MaxMsgs
      BY <1>1, <3>2 DEF ThreadTypes, FileTypes
    <3>4. /\ Gone \in Works /\ Gone.at = "ended"
          /\ \A w \in Works : [w EXCEPT !.at = "post"] \in Works
      BY NoneTyped DEF Gone, Works
    <3>5. /\ worker' \in [Threads -> Works] /\ worker'[t].at # "new"
          /\ \A u \in Threads : u # t => worker'[u] = worker[u]
      BY <3>2, <3>3, <3>4, SMTT(30) DEF Works
    <3>6. \A h \in Slots : Published(h, i) \in Slots
      BY <3>1 DEF Published, Slots
    <3>7. shared' \in [Threads -> Slots]
      BY <3>2, <3>3, <3>6, NoneTyped
    <3>8. \A d \in Decoders, b \in BOOLEAN : [d EXCEPT !.bad = b] \in Decoders
      BY DEF Decoders
    <3>9. decoder' \in [Threads -> Decoders]
      <4>1. PICK b \in BOOLEAN : b = (s = 2)
        OBVIOUS
      <4>2. decoder' = [decoder EXCEPT ![t].bad = b]
        BY <3>2, <4>1
      <4> QED
        BY <3>3, <3>8, <4>2
    <3> QED
      BY <3>2, <3>3, <3>5, <3>7, <3>9 DEF Goes
  <2>4. CASE Abort(t)
    BY <1>1, <2>4, NoneTyped DEF Abort, ThreadTypes, FileTypes, Slots, Works, Decoders,
             Waits, Goes
  <2>5. CASE Post(t)
    BY <1>1, <2>5, NoneTyped DEF Post, ThreadTypes, FileTypes, Slots, Works, Decoders,
             Waits, Goes
  <2> QED
    BY <2>1, <2>2, <2>3, <2>4, <2>5 DEF ThreadProc
<1>3. Plain'
  <2>1. ThreadTypes'
    BY <1>1, <1>2 DEF ThreadTypes, preview, Goes
  <2>2. FileTypes'
    BY <1>1, <1>2 DEF FileTypes, preview, Goes
  <2>3. FlagTypes'
    BY Zenon, <1>1, <1>2 DEF FlagTypes, preview, Goes
  <2>4. KeyTypes'
    BY <1>1, <1>2 DEF KeyTypes, preview, Goes
  <2> QED
    BY <2>1, <2>2, <2>3, <2>4 DEF Plain
<1>4. ThreadsKnown'
  <2>1. ASSUME NEW u \in Threads
        PROVE  (u > opened' => worker'[u].at = "new") /\ (u <= opened' => KnownThread(u)')
    <3>1. opened' = opened /\ current' = current /\ stopped' = stopped
      BY <1>2 DEF preview, Goes
    <3>2. CASE u # t
      BY <1>1, <1>2, <3>1, <3>2 DEF ThreadsKnown, KnownThread, Ended, Goes
    <3>3. CASE u = t
      <4>1. ~(u > opened) /\ u \in Nat /\ opened \in Nat
        BY <1>1, <1>2, <3>3 DEF ThreadsKnown, Threads, ThreadTypes, FileTypes, KeyTypes, Goes
      <4>2. u = current \/ u \in stopped
        BY <1>1, <1>2, <3>3, <4>1 DEF ThreadsKnown, KnownThread, Ended, Goes
      <4> QED
        BY <3>1, <4>1, <4>2 DEF KnownThread
    <3> QED
      BY <3>2, <3>3
  <2> QED
    BY <1>1, <1>2, <2>1 DEF ThreadsKnown, Goes
<1> QED
  BY <1>3, <1>4 DEF TInv

\* Every step keeps it.
LEMMA TInvStep == TInv /\ [Next]_vars => TInv'
<1> SUFFICES ASSUME TInv, [Next]_vars PROVE TInv'
  OBVIOUS
<1>1. CASE UNCHANGED vars
  BY <1>1 DEF vars, preview, threads, TInv, Plain, ThreadTypes, FileTypes, FlagTypes, KeyTypes,
           ThreadsKnown, KnownThread, Ended
<1>2. CASE Open \/ Close \/ Destroy \/ DestroyEnd \/ Enable
  BY <1>2, OpensKeep
<1>3. CASE Hide \/ OnResult \/ \E k \in Keys, w \in Widths : Show(k, w)
  BY <1>3, ShowsKeep
<1>4. ASSUME NEW t \in Threads, ThreadProc(t) PROVE TInv'
  BY <1>4, ThreadKeeps
<1> QED
  BY <1>1, <1>2, <1>3, <1>4 DEF Next

\* And it always holds.
LEMMA TInvHolds == Spec => []TInv
<1>1. Init => TInv
  BY TInvInit
<1>2. TInv /\ [Next]_vars => TInv'
  BY TInvStep
<1> QED
  BY <1>1, <1>2, PTL DEF Spec

\* Once Destroy has waited for the threads that were stopped (m_stoppedThreads), no
\* thread is left that would run code of the unloaded plugin.
THEOREM NoThreadStays == Spec => []NoThreadLeft
<1>1. TInv => NoThreadLeft
  <2> SUFFICES ASSUME TInv, ui = "off", NEW t \in Threads
               PROVE  worker[t].at \in {"new", "ended"}
    BY DEF NoThreadLeft
  <2>1. t \in Nat \ {0} /\ opened \in Nat /\ current = 0 /\ stopped = {}
    BY ThumbnailAssumption DEF TInv, Plain, FileTypes, ThreadsKnown, Threads
  <2>2. t > opened \/ t <= opened
    BY <2>1
  <2> QED
    BY <2>1, <2>2 DEF TInv, ThreadsKnown, KnownThread, Ended
<1> QED
  BY <1>1, TInvHolds, PTL

-----------------------------------------------------------------------------
(* What was asked for last *)

\* A thread that was not started knows of nothing.
Unstarted == \A t \in Threads : t > opened => shared[t] = Idle /\ decoder[t].gen = None

\* What the slots h, the work w and the decoder d of the thread in use are about: this
\* file, and in the request slot what was asked for last.
CarriesIn(h, w, d) ==
  /\ ~h.stop
  /\ h.requested => /\ requested \in Keys
                    /\ h.req = [gen |-> generation, file |-> file, key |-> requested, width |-> width]
  /\ w.at = "run" => w.req.key \in Keys /\ w.req.gen = generation /\ d.gen = generation
  /\ d.gen # None => d.gen = generation /\ d.file = file
  /\ h.result # NoImage => /\ h.result.gen = generation /\ h.result.file = file
                           /\ h.result.key \in Keys

Carries == current # 0 => CarriesIn(shared[current], worker[current], decoder[current])

\* Nothing more comes of what was asked for last.
Settled == requested \in DOMAIN cache \/ failed \/ unsupported

\* How far it has got: not taken, being made, in the result slot, or settled.
LastIn(h, w) ==
  \/ h.requested
  \/ w.at = "run" /\ w.req.key = requested /\ w.req.width = width
  \/ /\ w.at # "run" /\ h.result # NoImage /\ h.result.key = requested
     /\ h.result.width = IF h.result.status = 0 THEN width ELSE 0
     /\ w.at = "post" \/ msgs > 0
  \/ w.at # "run" /\ h.result = NoImage /\ Settled

Last == requested # None => current # 0 /\ LastIn(shared[current], worker[current])

\* The image that is pointed at is shown or was asked for last.
Pointed ==
  /\ current = file
  /\ visible => file # 0 /\ ~unsupported /\ key \in Keys
  /\ visible => IF key \in DOMAIN cache THEN shown = key ELSE key = requested

PInv == Unstarted /\ Carries /\ Last /\ Pointed /\ RightImage /\ CacheTypes

\* It holds when the plugin is loaded.
LEMMA PInvInit == Init => PInv
<1> SUFFICES ASSUME Init PROVE PInv
  OBVIOUS
<1>1. Unstarted
  BY DEF Init, Unstarted
<1>2. Carries /\ Last /\ Pointed
  BY DEF Init, Carries, Last, Pointed
<1>3. RightImage /\ CacheTypes
  BY DEF Init, RightImage, CacheTypes, NoImages
<1> QED
  BY <1>1, <1>2, <1>3 DEF PInv

\* What concerns the preview alone survives what leaves the preview alone.
LEMMA PreviewFrame ==
  ASSUME Pointed, RightImage, CacheTypes, UNCHANGED <<preview, current>>
  PROVE  Pointed' /\ RightImage' /\ CacheTypes'
BY DEF Pointed, RightImage, CacheTypes, preview

\* What another thread does is nothing to the one in use.
LEMMA OwnFrame ==
  ASSUME Carries, Last, UNCHANGED <<preview, current>>, msgs > 0 => msgs' > 0,
         current # 0 => /\ shared'[current] = shared[current] /\ worker'[current] = worker[current]
                        /\ decoder'[current] = decoder[current]
  PROVE  Carries' /\ Last'
<1>1. Carries'
  BY DEF Carries, CarriesIn, preview
<1>2. Last'
  BY DEF Last, LastIn, Settled, preview
<1> QED
  BY <1>1, <1>2

\* With no thread in use and nothing asked for there is nothing to know.
LEMMA ClosedKnows ==
  ASSUME CloseFor(0), current' = 0
  PROVE  Carries' /\ Last' /\ Pointed' /\ RightImage' /\ CacheTypes'
<1>1. Carries' /\ Last' /\ Pointed'
  BY DEF CloseFor, Carries, Last, Pointed
<1>2. RightImage' /\ CacheTypes'
  BY DEF CloseFor, RightImage, CacheTypes, NoImages
<1> QED
  BY <1>1, <1>2

\* Opening and closing files.
LEMMA OpensTell ==
  ASSUME TInv, PInv, Open \/ Close \/ Destroy \/ DestroyEnd \/ Enable
  PROVE  PInv'
<1>1. /\ ThreadTypes /\ FileTypes /\ KeyTypes /\ ThreadsKnown /\ MaxThreads \in Nat
      /\ Unstarted /\ Carries /\ Last /\ Pointed /\ RightImage /\ CacheTypes
  BY ThumbnailAssumption DEF TInv, Plain, PInv
<1>2. \A t \in Threads : t > opened => Told[t] = shared[t]
  BY <1>1 DEF Told, FileTypes, ThreadTypes, Threads
<1>3. CASE Open
  <2>1. /\ opened' = opened + 1 /\ CloseFor(opened + 1) /\ current' = opened + 1
        /\ shared' = Told /\ worker' = [worker EXCEPT ![opened + 1].at = "wait"]
        /\ decoder' = decoder /\ opened + 1 \in Threads /\ opened + 1 > opened /\ opened \in Nat
    BY <1>1, <1>3 DEF Open, FileTypes, Threads
  <2>2. Unstarted'
    BY <1>1, <1>2, <2>1 DEF Unstarted, Threads
  <2>3. /\ shared'[opened + 1] = Idle /\ worker'[opened + 1].at = "wait"
        /\ decoder'[opened + 1].gen = None
    BY <1>1, <1>2, <2>1 DEF Unstarted, ThreadTypes, Works
  <2>4. Carries'
    BY <2>1, <2>3 DEF Carries, CarriesIn, Idle, CloseFor
  <2>5. Last' /\ Pointed'
    BY <2>1 DEF CloseFor, Last, Pointed
  <2>6. RightImage' /\ CacheTypes'
    BY <2>1 DEF CloseFor, RightImage, CacheTypes, NoImages
  <2> QED
    BY <2>2, <2>4, <2>5, <2>6 DEF PInv
<1>4. CASE Close \/ Destroy
  <2>1. /\ CloseFor(0) /\ current' = 0 /\ opened' = opened /\ shared' = Told
        /\ decoder' = decoder
    BY <1>4 DEF Close, Destroy
  <2>2. Unstarted'
    BY <1>1, <1>2, <2>1 DEF Unstarted
  <2> QED
    BY <2>1, <2>2, ClosedKnows DEF PInv
<1>5. CASE DestroyEnd \/ Enable
  <2>1. UNCHANGED <<preview, current, shared, worker, decoder>> /\ (msgs' = msgs \/ ui = "stopping")
    BY <1>5 DEF DestroyEnd, Enable, threads
  <2>2. Unstarted'
    BY <1>1, <2>1 DEF Unstarted, preview
  <2>3. Carries' /\ Last'
    <3>1. CASE msgs' = msgs
      BY <1>1, <2>1, <3>1, OwnFrame
    <3>2. CASE ui = "stopping"
      <4>1. current = 0
        BY <1>1, <3>2 DEF ThreadsKnown
      <4> QED
        BY <1>1, <2>1, <4>1 DEF Carries, Last, preview
    <3> QED
      BY <2>1, <3>1, <3>2
  <2> QED
    BY <1>1, <2>1, <2>2, <2>3, PreviewFrame DEF PInv
<1> QED
  BY <1>3, <1>4, <1>5

\* Hiding the image.
LEMMA HideTells == ASSUME PInv, Hide PROVE PInv'
<1>1. Unstarted /\ Carries /\ Last /\ Pointed /\ RightImage /\ CacheTypes
  BY DEF PInv
<1>2. Unstarted' /\ Carries' /\ Last'
  BY <1>1 DEF Hide, threads, Unstarted, Carries, CarriesIn, Last, LastIn, Settled
<1>3. Pointed' /\ RightImage' /\ CacheTypes'
  BY <1>1 DEF Hide, threads, Pointed, RightImage, CacheTypes
<1> QED
  BY <1>2, <1>3 DEF PInv

\* The order of use is one of the positions in the cache.
LEMMA NewestIn ==
  ASSUME CacheTypes, NEW S, NEW k \in S
  PROVE  Newest(k, S) \subseteq S \X S
<1>1. SUFFICES ASSUME NEW p \in Newest(k, S) PROVE p \in S \X S
  OBVIOUS
<1>2. CASE p \in (S \ {k}) \X {k}
  BY <1>2
<1>3. CASE p \in older /\ p[1] \in S /\ p[2] \in S
  <2>1. p \in (DOMAIN cache) \X (DOMAIN cache)
    BY <1>3 DEF CacheTypes
  <2>2. p = <<p[1], p[2]>>
    BY <2>1
  <2> QED
    BY <1>3, <2>2
<1> QED
  BY <1>1, <1>2, <1>3 DEF Newest

\* Pointing at a position whose image is there.
LEMMA ShowsHit ==
  ASSUME TInv, PInv, NEW k \in Keys, NEW w \in Widths, Show(k, w), w = width, k \in DOMAIN cache
  PROVE  PInv'
<1>1. /\ Unstarted /\ Carries /\ Last /\ Pointed /\ RightImage /\ CacheTypes
  BY DEF PInv
<1>2. /\ file # 0 /\ ~unsupported /\ width' = width /\ key' = k /\ shown' = k
      /\ cache' = cache /\ older' = Newest(k, DOMAIN cache) /\ requested' = requested
      /\ failed' = failed /\ shared' = shared
      /\ UNCHANGED <<ui, file, opened, generation, unsupported, current, stopped, worker,
                     decoder, msgs>>
  <2>1. RequestedAt(w) = requested
    BY DEF RequestedAt
  <2>2. failed \in BOOLEAN
    BY DEF TInv, Plain, FlagTypes
  <2>3. failed' = (failed /\ ~FALSE)
    BY Zenon DEF Show
  <2>4. failed' = failed
    BY Zenon, <2>2, <2>3
  <2> QED
    BY <2>1, <2>4 DEF Show
<1>3. Unstarted' /\ Carries' /\ Last'
  BY <1>1, <1>2 DEF Unstarted, Carries, CarriesIn, Last, LastIn, Settled
<1>4. Pointed' /\ RightImage'
  BY <1>1, <1>2 DEF Pointed, RightImage
<1>5. CacheTypes'
  BY <1>1, <1>2, NewestIn DEF CacheTypes
<1> QED
  BY <1>3, <1>4, <1>5 DEF PInv

\* Pointing at a position that was asked for last.
LEMMA ShowsAgain ==
  ASSUME TInv, PInv, NEW k \in Keys, NEW w \in Widths, Show(k, w),
         ~(w = width /\ k \in DOMAIN cache), k = RequestedAt(w)
  PROVE  PInv'
<1>1. /\ Unstarted /\ Carries /\ Last /\ Pointed /\ RightImage /\ CacheTypes
  BY DEF PInv
<1>2. w = width /\ requested = k /\ k \notin DOMAIN cache
  BY ThumbnailAssumption DEF RequestedAt, None
<1>3. /\ file # 0 /\ ~unsupported /\ width' = width /\ key' = k /\ shown' = shown
      /\ cache' = cache /\ older' = older /\ requested' = requested /\ shared' = shared
      /\ UNCHANGED <<ui, file, opened, generation, unsupported, current, stopped, worker,
                     decoder, msgs>>
  BY <1>2 DEF Show, RequestedAt
<1>4. failed' = failed
  <2>1. failed \in BOOLEAN
    BY DEF TInv, Plain, FlagTypes
  <2>2. failed' = (failed /\ ~FALSE)
    BY Zenon DEF Show
  <2> QED
    BY Zenon, <2>1, <2>2
<1>5. Unstarted' /\ Carries' /\ Last'
  BY <1>1, <1>3, <1>4 DEF Unstarted, Carries, CarriesIn, Last, LastIn, Settled
<1>6. Pointed' /\ RightImage' /\ CacheTypes'
  BY <1>1, <1>2, <1>3 DEF Pointed, RightImage, CacheTypes
<1> QED
  BY <1>5, <1>6 DEF PInv

\* Pointing at a position whose image is asked for.
LEMMA ShowsAsk ==
  ASSUME TInv, PInv, NEW k \in Keys, NEW w \in Widths, Show(k, w),
         ~(w = width /\ k \in DOMAIN cache), k # RequestedAt(w)
  PROVE  PInv'
<1> DEFINE r == [gen |-> generation, file |-> file, key |-> k, width |-> w]
<1>1. /\ Unstarted /\ Carries /\ Last /\ Pointed /\ RightImage /\ CacheTypes
      /\ ThreadTypes /\ FileTypes
  BY DEF PInv, TInv, Plain
<1>2. /\ file # 0 /\ ~unsupported /\ width' = w /\ key' = k
      /\ cache' = (IF w = width THEN cache ELSE NoImages)
      /\ older' = (IF w = width THEN older ELSE {}) /\ requested' = k
      /\ shared' = [shared EXCEPT ![current] = Ask(@, r)]
      /\ UNCHANGED <<ui, file, opened, generation, unsupported, current, stopped, worker,
                     decoder, msgs>>
  BY DEF Show
<1>3. /\ current = file /\ current # 0 /\ current \in Threads /\ current <= opened
  BY <1>1, <1>2, ThumbnailAssumption DEF Pointed, FileTypes, Threads
<1>4. shared[current] \in Slots /\ shared'[current] = Ask(shared[current], r)
  BY <1>1, <1>2, <1>3 DEF ThreadTypes
<1>5. /\ shared'[current].req = r /\ shared'[current].requested
      /\ shared'[current].result = shared[current].result
      /\ shared'[current].stop = shared[current].stop
  BY <1>4 DEF Ask, Slots
<1>6. Unstarted'
  <2>1. \A t \in Threads : t > opened => t # current
    BY <1>1, <1>3 DEF FileTypes, Threads
  <2> QED
    BY <1>1, <1>2, <2>1 DEF Unstarted, ThreadTypes
<1>7. Carries'
  BY <1>1, <1>2, <1>3, <1>5 DEF Carries, CarriesIn
<1>8. Last'
  BY <1>2, <1>3, <1>5 DEF Last, LastIn
<1>9. Pointed' /\ RightImage' /\ CacheTypes'
  <2>1. CASE w = width
    BY <1>1, <1>2, <2>1 DEF Pointed, RightImage, CacheTypes
  <2>2. CASE w # width
    <3>1. cache' = NoImages /\ older' = {} /\ DOMAIN NoImages = {}
      BY <1>2, <2>2 DEF NoImages
    <3> QED
      BY <1>1, <1>2, <3>1 DEF Pointed, RightImage, CacheTypes, NoImages
  <2> QED
    BY <2>1, <2>2
<1> QED
  BY <1>6, <1>7, <1>8, <1>9 DEF PInv

\* What is thrown away is not the image that is shown.
LEMMA KeptIs == ASSUME NEW S PROVE Kept(S) \subseteq S /\ (shown \in S => shown \in Kept(S))
BY DEF Kept

\* An image is put into the cache.
LEMMA AddedEntry ==
  ASSUME CacheTypes, RightImage, NEW i, AddEntry(i), i.key \in Keys, i.file = file, i.width = width,
         file \in Nat, width \in Widths \union {0},
         UNCHANGED <<file, width>>
  PROVE  /\ CacheTypes' /\ RightImage' /\ i.key \in DOMAIN cache'
         /\ DOMAIN cache' \subseteq DOMAIN cache \union {i.key}
         /\ shown \in DOMAIN cache => shown \in DOMAIN cache'
<1> DEFINE S == Kept(DOMAIN cache \ {i.key}) \union {i.key}
<1>1. /\ cache' = [k \in S |-> IF k = i.key THEN [file |-> i.file, width |-> i.width] ELSE cache[k]]
      /\ older' = Newest(i.key, S)
  BY DEF AddEntry
<1>2. /\ S \subseteq (DOMAIN cache) \union {i.key} /\ i.key \in S
      /\ shown \in DOMAIN cache => shown \in S
  BY KeptIs
<1> HIDE DEF S
<1>3. DOMAIN cache' = S
  BY <1>1
<1>4. \A k \in S : /\ k \in Keys /\ cache'[k].file = file /\ cache'[k].width = width
                   /\ cache'[k] \in [file : Nat, width : Widths \union {0}]
  BY <1>1, <1>2 DEF CacheTypes, RightImage
<1>5. older' \subseteq S \X S
  BY <1>1, <1>2, NewestIn
<1>6. cache' \in [S -> [file : Nat, width : Widths \union {0}]]
  BY <1>1, <1>4
<1>7. CacheTypes'
  BY <1>3, <1>4, <1>5, <1>6 DEF CacheTypes
<1>8. RightImage'
  BY <1>3, <1>4 DEF RightImage
<1> QED
  BY <1>2, <1>3, <1>7, <1>8

\* Taking the result, when it is of no use or there is none.
LEMMA ResultUnused ==
  ASSUME TInv, PInv, OnResult, UNCHANGED <<unsupported, visible, cache, older, shown, failed>>,
         \/ current = 0
         \/ shared[current].result = NoImage
         \/ shared[current].result.status = 0 /\ shared[current].result.width # width
  PROVE  PInv'
<1>1. /\ Unstarted /\ Carries /\ Last /\ Pointed /\ RightImage /\ CacheTypes
      /\ ThreadTypes /\ FileTypes
  BY DEF PInv, TInv, Plain
<1>2. /\ shared' = IF current = 0 THEN shared ELSE [shared EXCEPT ![current].result = NoImage]
      /\ UNCHANGED <<preview, current, worker, decoder>>
  BY DEF OnResult, preview
<1>3. Unstarted'
  <2>1. \A t \in Threads : t > opened => t # current \/ current = 0
    BY <1>1 DEF FileTypes, Threads
  <2> QED
    BY <1>1, <1>2, <2>1 DEF Unstarted, ThreadTypes, preview
<1>4. CASE current = 0
  BY <1>1, <1>2, <1>3, <1>4, PreviewFrame DEF PInv, Carries, Last, preview
<1>5. CASE current # 0
  <2>1. current \in Threads /\ shared[current] \in Slots
    BY <1>1, <1>5, ThumbnailAssumption DEF FileTypes, ThreadTypes, Threads
  <2>2. /\ shared'[current].result = NoImage /\ shared'[current].requested = shared[current].requested
        /\ shared'[current].req = shared[current].req /\ shared'[current].stop = shared[current].stop
    BY <1>1, <1>2, <1>5, <2>1 DEF ThreadTypes, Slots
  <2>3. Carries'
    BY <1>1, <1>2, <1>5, <2>2 DEF Carries, CarriesIn, preview
  <2>4. Last'
    BY <1>1, <1>2, <1>5, <2>2 DEF Last, LastIn, Settled, preview
  <2> QED
    BY <1>1, <1>2, <1>3, <2>3, <2>4, PreviewFrame DEF PInv
<1> QED
  BY <1>4, <1>5

\* Taking the result of the thread in use.
LEMMA ResultUsed ==
  ASSUME TInv, PInv, OnResult, NEW i, i = shared[current].result, current # 0, i # NoImage,
         UNCHANGED <<file, opened, generation, width, key, requested, current, worker, decoder>>,
         shared' = [shared EXCEPT ![current].result = NoImage],
         \/ /\ i.status = 2 /\ unsupported' = TRUE /\ visible' = FALSE
            /\ UNCHANGED <<cache, older, shown, failed>>
         \/ i.status # 2 /\ (i.status = 0 => Fits(i)) /\ Accept(i)
  PROVE  PInv'
<1>1. /\ Unstarted /\ Carries /\ Last /\ Pointed /\ RightImage /\ CacheTypes
      /\ ThreadTypes /\ FileTypes /\ KeyTypes
  BY DEF PInv, TInv, Plain
<1>2. current \in Threads /\ shared[current] \in Slots /\ current <= opened
  BY <1>1, ThumbnailAssumption DEF FileTypes, ThreadTypes, Threads
<1>3. /\ shared'[current].result = NoImage /\ shared'[current].requested = shared[current].requested
      /\ shared'[current].req = shared[current].req /\ shared'[current].stop = shared[current].stop
  BY <1>1, <1>2 DEF ThreadTypes, Slots
<1>4. i.gen = generation /\ i.file = file /\ i.key \in Keys /\ i.status \in 0 .. 2
  BY <1>1, <1>2 DEF Carries, CarriesIn, Slots, Images
<1>5. Unstarted'
  <2>1. \A t \in Threads : t > opened => t # current
    BY <1>1, <1>2 DEF FileTypes, Threads
  <2> QED
    BY <1>1, <2>1 DEF Unstarted, ThreadTypes
<1>6. Carries'
  BY <1>1, <1>3 DEF Carries, CarriesIn
<1>7. CASE i.status = 2
  <2>1. /\ unsupported' = TRUE /\ visible' = FALSE /\ UNCHANGED <<cache, older, shown, failed>>
    BY <1>7
  <2>2. Last'
    BY <1>1, <1>3, <2>1 DEF Last, LastIn, Settled
  <2>3. Pointed' /\ RightImage' /\ CacheTypes'
    BY <1>1, <2>1 DEF Pointed, RightImage, CacheTypes
  <2> QED
    BY <1>5, <1>6, <2>2, <2>3 DEF PInv
<1>8. CASE i.status = 0
  <2>1. /\ i.width = width /\ AddEntry(i) /\ unsupported' = unsupported /\ visible' = visible
        /\ shown' = (IF i.key = key /\ visible THEN key ELSE shown)
    BY <1>8 DEF Accept, Remembered, Fits
  <2>2. failed => failed'
    <3>1. i.status # 2
      BY <1>8
    <3>2. Accept(i)
      BY Zenon, <3>1
    <3>3. failed' = (failed \/ (i.status = 1 /\ i.key = requested))
      BY Zenon, <3>2 DEF Accept
    <3> QED
      BY Zenon, <3>3
  <2>3. file \in Nat /\ width \in Widths \union {0}
    BY <1>1, ThumbnailAssumption DEF FileTypes, KeyTypes
  <2>4. /\ CacheTypes' /\ RightImage' /\ i.key \in DOMAIN cache'
        /\ DOMAIN cache' \subseteq DOMAIN cache \union {i.key}
        /\ shown \in DOMAIN cache => shown \in DOMAIN cache'
    BY <1>1, <1>4, <2>1, <2>3, AddedEntry
  <2>5. Last'
    <3>1. CASE requested = None
      BY <3>1 DEF Last
    <3>2. CASE requested # None /\ (shared[current].requested \/ worker[current].at = "run")
      BY <1>1, <1>3, <3>2 DEF Last, LastIn
    <3>3. CASE requested # None /\ ~shared[current].requested /\ worker[current].at # "run"
      <4>1. i.key = requested
        BY <1>1, <3>3 DEF Last, LastIn
      <4> QED
        BY <1>3, <2>4, <3>3, <4>1 DEF Last, LastIn, Settled
    <3> QED
      BY <3>1, <3>2, <3>3
  <2>6. Pointed'
    <3>1. visible => file # 0 /\ ~unsupported /\ key \in Keys /\ current = file
      BY <1>1 DEF Pointed
    <3>2. ASSUME visible PROVE IF key \in DOMAIN cache' THEN shown' = key ELSE key = requested
      <4>1. CASE i.key = key
        BY <2>1, <2>4, <3>2, <4>1
      <4>2. CASE i.key # key
        <5>1. CASE key \in DOMAIN cache
          BY <1>1, <2>1, <2>4, <3>2, <4>2, <5>1 DEF Pointed
        <5>2. CASE key \notin DOMAIN cache
          BY <1>1, <2>4, <3>2, <4>2, <5>2 DEF Pointed
        <5> QED
          BY <5>1, <5>2
      <4> QED
        BY <4>1, <4>2
    <3> QED
      BY <1>1, <2>1, <3>1, <3>2 DEF Pointed
  <2> QED
    BY <1>5, <1>6, <2>4, <2>5, <2>6 DEF PInv
<1>9. CASE i.status = 1
  <2>1. /\ UNCHANGED <<cache, older>> /\ unsupported' = unsupported /\ visible' = visible
        /\ shown' = (IF i.key = key /\ visible THEN key ELSE shown)
    BY <1>9 DEF Accept, Remembered
  <2>2. (failed => failed') /\ (i.key = requested => failed')
    <3>1. i.status # 2
      BY <1>9
    <3>2. Accept(i)
      BY Zenon, <3>1
    <3>3. failed' = (failed \/ (i.status = 1 /\ i.key = requested))
      BY Zenon, <3>2 DEF Accept
    <3> QED
      BY Zenon, <1>9, <3>3
  <2>3. Last'
    BY <1>1, <1>3, <2>1, <2>2 DEF Last, LastIn, Settled
  <2>4. Pointed' /\ RightImage' /\ CacheTypes'
    BY <1>1, <2>1 DEF Pointed, RightImage, CacheTypes
  <2> QED
    BY <1>5, <1>6, <2>3, <2>4 DEF PInv
<1> QED
  BY <1>4, <1>7, <1>8, <1>9

LEMMA ResultTells == ASSUME TInv, PInv, OnResult PROVE PInv'
<1> DEFINE i == IF current = 0 THEN NoImage ELSE shared[current].result
           mine == i # NoImage /\ i.gen = generation
<1>1. /\ UNCHANGED <<file, opened, generation, width, key, requested, current, worker, decoder>>
      /\ shared' = IF current = 0 THEN shared ELSE [shared EXCEPT ![current].result = NoImage]
      /\ \/ /\ mine /\ i.status = 2 /\ unsupported' = TRUE /\ visible' = FALSE
            /\ UNCHANGED <<cache, older, shown, failed>>
         \/ mine /\ i.status # 2 /\ (i.status = 0 => Fits(i)) /\ Accept(i)
         \/ /\ ~mine \/ (i.status = 0 /\ ~Fits(i))
            /\ UNCHANGED <<unsupported, visible, cache, older, shown, failed>>
  BY DEF OnResult
<1>2. i # NoImage => mine /\ current # 0 /\ i = shared[current].result
  BY DEF PInv, Carries, CarriesIn
<1> HIDE DEF i
<1>3. CASE /\ mine
           /\ \/ /\ i.status = 2 /\ unsupported' = TRUE /\ visible' = FALSE
                 /\ UNCHANGED <<cache, older, shown, failed>>
              \/ i.status # 2 /\ (i.status = 0 => Fits(i)) /\ Accept(i)
  BY <1>1, <1>2, <1>3, ResultUsed
<1>4. CASE /\ ~mine \/ (i.status = 0 /\ ~Fits(i))
           /\ UNCHANGED <<unsupported, visible, cache, older, shown, failed>>
  <2>1. \/ current = 0 \/ shared[current].result = NoImage
        \/ shared[current].result.status = 0 /\ shared[current].result.width # width
    <3>1. CASE i = NoImage
      BY <3>1 DEF i
    <3>2. CASE i # NoImage
      BY <1>2, <1>4, <3>2 DEF Fits
    <3> QED
      BY <3>1, <3>2
  <2> QED
    BY <1>4, <2>1, ResultUnused
<1> QED
  BY <1>1, <1>3, <1>4

-----------------------------------------------------------------------------
(* The thread in use and its result *)

\* The thread in use wakes, or posts the message.
LEMMA OwnIdles ==
  ASSUME TInv, PInv, current # 0, Wake(current) \/ Post(current) \/ Abort(current)
  PROVE  Carries' /\ Last'
<1>1. /\ Carries /\ Last /\ ThreadTypes /\ FileTypes /\ MaxMsgs \in Nat \ {0}
  BY ThumbnailAssumption DEF PInv, TInv, Plain
<1>2. /\ current \in Threads /\ shared[current] \in Slots /\ worker[current] \in Works
  BY <1>1, ThumbnailAssumption DEF FileTypes, ThreadTypes, Threads
<1>3. UNCHANGED <<preview, current, decoder>>
  BY DEF Wake, Post, Abort
<1>4. /\ shared'[current].result = shared[current].result
      /\ shared'[current].requested = shared[current].requested
      /\ shared'[current].req = shared[current].req /\ shared'[current].stop = shared[current].stop
  BY <1>1, <1>2 DEF Wake, Post, Abort, ThreadTypes, Slots
<1>5. worker'[current].at # "run"
  BY <1>1, <1>2 DEF Wake, Post, Abort, ThreadTypes, Works, Waits
<1>6. Carries'
  BY <1>1, <1>3, <1>4, <1>5 DEF Carries, CarriesIn, preview
<1>7. CASE Wake(current)
  <2>1. worker[current].at = "wait" /\ msgs' = msgs
    BY <1>7 DEF Wake
  <2>2. Last'
    BY <1>1, <1>3, <1>4, <1>5, <2>1 DEF Last, LastIn, Settled, preview
  <2> QED
    BY <1>6, <2>2
<1>8. CASE Post(current)
  <2>1. worker[current].at = "post" /\ msgs' > 0
    BY <1>1, <1>8 DEF Post, FileTypes
  <2>2. Last'
    BY <1>1, <1>3, <1>4, <1>5, <2>1 DEF Last, LastIn, Settled, preview
  <2> QED
    BY <1>6, <2>2
<1>9. CASE Abort(current)
  <2>1. shared[current].requested
    BY <1>1, <1>9 DEF Abort, Superseded, Carries, CarriesIn
  <2>2. Last'
    BY <1>1, <1>3, <1>4, <2>1 DEF Last, LastIn, Settled, preview
  <2> QED
    BY <1>6, <2>2
<1> QED
  BY <1>7, <1>8, <1>9

\* The thread in use takes what was asked for last.
LEMMA OwnTakes ==
  ASSUME TInv, PInv, current # 0, Take(current)
  PROVE  Carries' /\ Last'
<1> DEFINE r == shared[current].req
<1>1. /\ Carries /\ Last /\ ThreadTypes /\ FileTypes
  BY DEF PInv, TInv, Plain
<1>2. /\ current \in Threads /\ shared[current] \in Slots /\ worker[current] \in Works
      /\ ~shared[current].stop
  BY <1>1, ThumbnailAssumption DEF FileTypes, ThreadTypes, Threads, Carries, CarriesIn
<1>3. UNCHANGED <<preview, current, msgs>> /\ worker[current].at = "woken"
  BY DEF Take
<1>4. CASE ~shared[current].requested
  <2>1. worker' = [worker EXCEPT ![current].at = "wait"] /\ UNCHANGED <<shared, decoder>>
    BY <1>2, <1>4 DEF Take
  <2>2. worker'[current].at = "wait"
    BY <1>1, <1>2, <2>1 DEF ThreadTypes, Works
  <2>3. Carries'
    BY <1>1, <1>3, <2>1, <2>2 DEF Carries, CarriesIn, preview
  <2>4. Last'
    BY <1>1, <1>3, <2>1, <2>2 DEF Last, LastIn, Settled, preview
  <2> QED
    BY <2>3, <2>4
<1>5. CASE shared[current].requested
  <2>1. /\ shared' = [shared EXCEPT ![current].requested = FALSE, ![current].req = NoRequest]
        /\ worker' = [worker EXCEPT ![current] = [at |-> "run", req |-> r]]
        /\ \/ decoder[current].gen = r.gen /\ decoder' = decoder
           \/ \E bad \in BOOLEAN :
                decoder' = [decoder EXCEPT ![current] = [gen |-> r.gen, file |-> r.file, bad |-> bad]]
    BY <1>2, <1>5 DEF Take
  <2>2. /\ r.gen = generation /\ r.file = file /\ r.key = requested /\ r.width = width
        /\ requested \in Keys
    BY <1>1, <1>5 DEF Carries, CarriesIn
  <2>3. worker'[current] = [at |-> "run", req |-> r]
    BY <1>1, <1>2, <2>1 DEF ThreadTypes
  <2>4. /\ shared'[current].result = shared[current].result
        /\ shared'[current].requested = FALSE /\ shared'[current].stop = shared[current].stop
    BY <1>1, <1>2, <2>1 DEF ThreadTypes, Slots
  <2>5. decoder'[current].gen = generation /\ decoder'[current].file = file
    <3>1. decoder \in [Threads -> Decoders] /\ generation # None
      BY <1>1 DEF ThreadTypes, FileTypes, None
    <3>2. CASE decoder[current].gen = r.gen /\ decoder' = decoder
      BY <1>1, <2>2, <3>1, <3>2 DEF Carries, CarriesIn
    <3>3. CASE \E bad \in BOOLEAN :
                 decoder' = [decoder EXCEPT ![current] = [gen |-> r.gen, file |-> r.file, bad |-> bad]]
      BY <1>2, <2>2, <3>1, <3>3
    <3> QED
      BY <2>1, <3>2, <3>3
  <2> HIDE DEF r
  <2>6. Carries'
    BY <1>1, <1>3, <2>2, <2>3, <2>4, <2>5 DEF Carries, CarriesIn, preview
  <2>7. Last'
    BY <1>3, <2>2, <2>3, <1>1 DEF Last, LastIn, preview
  <2> QED
    BY <2>6, <2>7
<1> QED
  BY <1>4, <1>5

\* The thread in use is done with an image.
LEMMA OwnFinishes ==
  ASSUME TInv, PInv, current # 0, NEW s \in 0 .. 2, Finish(current, s)
  PROVE  Carries' /\ Last'
<1> DEFINE r == worker[current].req
           i == [gen |-> r.gen, file |-> decoder[current].file, key |-> r.key,
                 width |-> IF s = 0 THEN r.width ELSE 0, status |-> s]
<1>1. /\ Carries /\ Last /\ ThreadTypes /\ FileTypes /\ None \notin Keys
  BY ThumbnailAssumption DEF PInv, TInv, Plain, None
<1>2. /\ current \in Threads /\ shared[current] \in Slots /\ worker[current] \in Works
      /\ ~shared[current].stop
  BY <1>1, ThumbnailAssumption DEF FileTypes, ThreadTypes, Threads, Carries, CarriesIn
<1>3. /\ UNCHANGED <<preview, current, msgs>> /\ worker[current].at = "run"
      /\ decoder' = [decoder EXCEPT ![current].bad = s = 2]
      /\ worker' = [worker EXCEPT ![current].at = "post"]
      /\ shared' = [shared EXCEPT ![current] = Published(@, i)]
  BY <1>2 DEF Finish
<1>4. r.key \in Keys /\ r.gen = generation /\ decoder[current].file = file /\ decoder[current].gen = generation
  <2>1. generation # None
    BY <1>1 DEF FileTypes, None
  <2> QED
    BY <1>1, <1>3, <2>1 DEF Carries, CarriesIn
<1>5. /\ i.gen = generation /\ i.file = file /\ i.key = r.key /\ i # NoImage
      /\ i.status = s /\ i.width = IF s = 0 THEN r.width ELSE 0
  <2>1. NoImage.key = None
    BY DEF NoImage
  <2>2. i.key = r.key
    OBVIOUS
  <2>3. i # NoImage
    BY <1>1, <1>4, <2>1, <2>2
  <2> QED
    BY <1>4, <2>3
<1> HIDE DEF i
<1>6. /\ shared'[current].result = i
      /\ shared'[current].requested = shared[current].requested
      /\ shared'[current].req = shared[current].req /\ shared'[current].stop = shared[current].stop
  BY <1>1, <1>2, <1>3 DEF ThreadTypes, Slots, Published
<1>7. worker'[current].at = "post"
  BY <1>1, <1>2, <1>3 DEF ThreadTypes, Works
<1>8. decoder'[current].gen = decoder[current].gen /\ decoder'[current].file = decoder[current].file
  <2>1. PICK b \in BOOLEAN : b = (s = 2)
    OBVIOUS
  <2>2. decoder' = [decoder EXCEPT ![current].bad = b]
    BY <1>3, <2>1
  <2> QED
    BY <1>1, <1>2, <2>2 DEF ThreadTypes, Decoders
<1>9. Carries'
  BY <1>1, <1>3, <1>4, <1>5, <1>6, <1>7, <1>8 DEF Carries, CarriesIn, preview
<1>10. Last'
  <2>1. requested # None => shared[current].requested \/ (r.key = requested /\ r.width = width)
    BY <1>1, <1>3 DEF Last, LastIn
  <2> HIDE DEF r
  <2> QED
    BY <1>3, <1>5, <1>6, <1>7, <2>1, <1>1 DEF Last, LastIn, preview
<1> QED
  BY <1>9, <1>10

\* What a thread does concerns itself alone.
LEMMA ThreadApart ==
  ASSUME TInv, NEW t \in Threads, ThreadProc(t)
  PROVE  /\ UNCHANGED <<preview, current>> /\ t <= opened /\ (msgs > 0 => msgs' > 0)
         /\ \A u \in Threads : u # t => /\ shared'[u] = shared[u] /\ worker'[u] = worker[u]
                                        /\ decoder'[u] = decoder[u]
<1>1. /\ ThreadTypes /\ FileTypes /\ ThreadsKnown
  BY DEF TInv, Plain
<1>2. UNCHANGED <<preview, current>> /\ worker[t].at # "new"
  BY DEF ThreadProc, Wake, Take, Finish, Abort, Post
<1>3. t <= opened
  BY <1>1, <1>2 DEF ThreadsKnown, Threads, FileTypes
<1>4. msgs > 0 => msgs' > 0
  BY <1>1 DEF ThreadProc, Wake, Take, Finish, Abort, Post, FileTypes
<1>5. ASSUME NEW u \in Threads, u # t
      PROVE  shared'[u] = shared[u] /\ worker'[u] = worker[u] /\ decoder'[u] = decoder[u]
  <2>1. CASE Wake(t) \/ Take(t) \/ Abort(t) \/ Post(t)
    BY <1>1, <1>5, <2>1 DEF Wake, Take, Abort, Post, ThreadTypes
  <2>2. ASSUME NEW s \in 0 .. 2, Finish(t, s)
        PROVE  shared'[u] = shared[u] /\ worker'[u] = worker[u] /\ decoder'[u] = decoder[u]
    <3>1. decoder'[u] = decoder[u]
      <4>1. PICK b \in BOOLEAN : b = (s = 2)
        OBVIOUS
      <4>2. decoder' = [decoder EXCEPT ![t].bad = b]
        BY <2>2, <4>1 DEF Finish
      <4> QED
        BY <1>1, <1>5, <4>2 DEF ThreadTypes
    <3> QED
      BY <1>1, <1>5, <2>2, <3>1 DEF Finish, ThreadTypes
  <2> QED
    BY <2>1, <2>2 DEF ThreadProc
<1> QED
  BY <1>2, <1>3, <1>4, <1>5

LEMMA ThreadTells == ASSUME TInv, PInv, NEW t \in Threads, ThreadProc(t) PROVE PInv'
<1>1. /\ Unstarted /\ Carries /\ Last /\ Pointed /\ RightImage /\ CacheTypes /\ FileTypes
  BY DEF PInv, TInv, Plain
<1>2. /\ UNCHANGED <<preview, current>> /\ t <= opened /\ (msgs > 0 => msgs' > 0)
      /\ \A u \in Threads : u # t => /\ shared'[u] = shared[u] /\ worker'[u] = worker[u]
                                     /\ decoder'[u] = decoder[u]
  BY ThreadApart
<1>3. Unstarted'
  <2>1. \A u \in Threads : u > opened => u # t
    BY <1>1, <1>2 DEF FileTypes, Threads
  <2> QED
    BY <1>1, <1>2, <2>1 DEF Unstarted, preview
<1>4. Carries' /\ Last'
  <2>1. CASE current # t
    <3>1. current # 0 => current \in Threads
      BY <1>1, ThumbnailAssumption DEF FileTypes, Threads
    <3> QED
      BY <1>1, <1>2, <2>1, <3>1, OwnFrame
  <2>2. CASE current = t
    <3>1. current # 0
      BY <2>2 DEF Threads
    <3> QED
      BY <2>2, <3>1, OwnIdles, OwnTakes, OwnFinishes DEF ThreadProc
  <2> QED
    BY <2>1, <2>2
<1> QED
  BY <1>1, <1>2, <1>3, <1>4, PreviewFrame DEF PInv

-----------------------------------------------------------------------------
\* Every step keeps it.
LEMMA PInvStep == TInv /\ PInv /\ [Next]_vars => PInv'
<1> SUFFICES ASSUME TInv, PInv, [Next]_vars PROVE PInv'
  OBVIOUS
<1>1. CASE UNCHANGED vars
  BY <1>1, OwnFrame, PreviewFrame DEF vars, threads, preview, PInv, Unstarted
<1>2. CASE Open \/ Close \/ Destroy \/ DestroyEnd \/ Enable
  BY <1>2, OpensTell
<1>3. CASE Hide \/ OnResult
  BY <1>3, HideTells, ResultTells
<1>4. ASSUME NEW k \in Keys, NEW w \in Widths, Show(k, w) PROVE PInv'
  BY <1>4, ShowsHit, ShowsAgain, ShowsAsk
<1>5. ASSUME NEW t \in Threads, ThreadProc(t) PROVE PInv'
  BY <1>5, ThreadTells
<1> QED
  BY <1>1, <1>2, <1>3, <1>4, <1>5 DEF Next

LEMMA PInvHolds == Spec => []PInv
<1>1. Init => PInv
  BY PInvInit
<1>2. TInv /\ PInv /\ [Next]_vars => PInv'
  BY PInvStep
<1> QED
  BY <1>1, <1>2, TInvHolds, PTL DEF Spec

\* The variables of the preview, its cache and its threads have their types.
THEOREM TypeCorrect == Spec => []TypeOK
<1>1. TInv /\ PInv => TypeOK
  BY DEF TInv, PInv, Plain, TypeOK
<1> QED
  BY <1>1, TInvHolds, PInvHolds, PTL

\* Whatever comes late, from the thread of another file or for another width, the
\* images that are kept are of the file that is open and of the window's width, and the
\* image that is pointed at is there, on its way or could not be made (OnResult, Show).
THEOREM ImagesAreRight == Spec => []ImagesRight
<1>1. TInv /\ PInv => NothingLost
  <2> SUFFICES ASSUME TInv, PInv, visible, key \notin DOMAIN cache
               PROVE  InFlight(key) \/ (failed /\ key = requested)
    BY Zenon DEF NothingLost, Missing
  <2>1. key = requested /\ key \in Keys /\ ~unsupported
    BY DEF PInv, Pointed
  <2>2. requested # None
    BY <2>1, ThumbnailAssumption DEF None
  <2>3. current # 0 /\ LastIn(shared[current], worker[current])
    BY <2>2 DEF PInv, Last
  <2>4. shared[current].requested =>
          shared[current].req.key = requested /\ shared[current].req.width = width
    BY <2>3 DEF PInv, Carries, CarriesIn
  <2> QED
    BY <2>1, <2>3, <2>4 DEF LastIn, Settled, InFlight
<1>2. PInv => RightImage
  BY DEF PInv
<1> QED
  BY <1>1, <1>2, TInvHolds, PInvHolds, PTL DEF ImagesRight
=============================================================================
