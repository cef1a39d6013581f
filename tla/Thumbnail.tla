-------------------------------- MODULE Thumbnail --------------------------------
(***************************************************************************)
(* The thumbnails of the seek bar: CThumbnailPreview, on the window's      *)
(* thread, keeps the images and asks for those that are missing;           *)
(* CThumbnailGenerator makes them on a thread of its own for each file     *)
(* that is opened.  The thread has a slot for one request, which a newer   *)
(* one replaces, and one for a result; it posts a message when the result  *)
(* is there.  When the file is closed the thread is told to stop and is    *)
(* waited for only when the plugin is disabled.                            *)
(***************************************************************************)
EXTENDS Integers, FiniteSets

CONSTANTS
  Keys,        \* positions of the seek bar, a step apart (KeyOf)
  Widths,      \* widths of a thumbnail, by the window's DPI
  CacheMax,    \* m_cacheMax
  MaxThreads,  \* bound: files opened
  MaxShows,    \* bound: times the cursor moves
  MaxMsgs      \* bound: WM_THUMBNAIL_READY in the queue

ASSUME ThumbnailAssumption ==
  /\ Keys # {} /\ Keys \subseteq Nat /\ Widths # {} /\ Widths \subseteq Nat \ {0}
  /\ CacheMax \in Nat \ {0} /\ MaxThreads \in Nat \ {0} /\ MaxShows \in Nat /\ MaxMsgs \in Nat \ {0}

None == -1
Threads == 1 .. MaxThreads

VARIABLES
  ui,           \* on, stopping (Destroy waits for the threads), or off
  file,         \* m_path: the number of the file, 0 without
  opened,       \* files opened so far
  generation,   \* m_generation
  unsupported,  \* m_fUnsupported
  width,        \* m_width
  key,          \* m_key
  shown,        \* m_shownKey
  requested,    \* m_requestedKey
  visible,      \* the window is shown
  cache,        \* m_cache
  older,        \* lastUsed: the pairs of which the first was used before the second
  current,      \* m_hThread and m_shared, 0 without
  stopped,      \* m_stoppedThreads
  shared,       \* SHARED of each thread
  worker,       \* where each thread is, and what it works on
  decoder,      \* the decoder of each thread
  msgs,         \* WM_THUMBNAIL_READY posted and not handled
  failed,       \* history: no image could be made of what was asked for last
  shows         \* bound

preview == <<file, opened, generation, unsupported, width, key, shown, requested, visible, cache, older,
             failed>>
threads == <<current, stopped, shared, worker, decoder>>
vars == <<ui, preview, threads, msgs, shows>>

NoRequest == [gen |-> 0, file |-> 0, key |-> None, width |-> 0]
NoImages  == [k \in {} |-> 0]
NoImage   == [gen |-> 0, file |-> 0, key |-> None, width |-> 0, status |-> 0]

\* A request is newer than the one the thread works on whenever requested is set, and is
\* read only then.
Idle == [stop |-> FALSE, req |-> NoRequest, requested |-> FALSE, result |-> NoImage, event |-> FALSE]

Init ==
  /\ ui = "on" /\ file = 0 /\ opened = 0 /\ generation = 0 /\ unsupported = FALSE
  /\ width = 0 /\ key = None /\ shown = None /\ requested = None /\ visible = FALSE
  /\ cache = NoImages /\ older = {} /\ failed = FALSE /\ current = 0 /\ stopped = {}
  /\ shared = [t \in Threads |-> Idle]
  /\ worker = [t \in Threads |-> [at |-> "new", req |-> NoRequest]]
  /\ decoder = [t \in Threads |-> [gen |-> None, file |-> 0, bad |-> FALSE]]
  /\ msgs = 0 /\ shows = 0

Ended(t) == worker[t].at = "ended"

-----------------------------------------------------------------------------
(* The preview: opening and closing *)

\* Slip: the handle of a thread that is not waited for is forgotten.
KeepNone(s, t) == s

\* A thread that is not waited for now is kept to be waited for later.
Keep(s, t) == s \union {t}

\* Slip: the thread is told and not woken.
TellOnly(h) == [h EXCEPT !.stop = TRUE, !.result = NoImage]

\* Stop tells the thread and wakes it.
Tell(h) == [h EXCEPT !.stop = TRUE, !.result = NoImage, !.event = TRUE]

Reap(s) == {t \in s : ~Ended(t)}

\* Close, for a new file (n) or none (0).
CloseFor(n) ==
  /\ file' = n /\ generation' = generation + 1
  /\ requested' = None /\ shown' = None /\ visible' = FALSE
  /\ cache' = NoImages /\ older' = {}
  /\ failed' = FALSE /\ UNCHANGED <<width, key>>
  /\ stopped' = Reap(IF current = 0 THEN stopped ELSE Keep(stopped, current))

Told == IF current = 0 THEN shared ELSE [shared EXCEPT ![current] = Tell(@)]

\* Open a file of a supported kind.
Open ==
  /\ ui = "on" /\ opened < MaxThreads
  /\ opened' = opened + 1 /\ CloseFor(opened + 1) /\ unsupported' = FALSE
  /\ current' = opened + 1 /\ shared' = Told
  /\ worker' = [worker EXCEPT ![opened + 1].at = "wait"]
  /\ UNCHANGED <<ui, decoder, msgs, shows>>

\* Close, or Open of a file of another kind or when no thread can be started.
Close ==
  /\ ui = "on" /\ file # 0 /\ CloseFor(0)
  /\ current' = 0 /\ shared' = Told
  /\ UNCHANGED <<ui, opened, unsupported, worker, decoder, msgs, shows>>

\* Destroy waits for every thread that was stopped.
Destroy ==
  /\ ui = "on" /\ ui' = "stopping" /\ CloseFor(0)
  /\ current' = 0 /\ shared' = Told
  /\ UNCHANGED <<opened, unsupported, worker, decoder, msgs, shows>>

DestroyEnd ==
  /\ ui = "stopping" /\ \A t \in stopped : Ended(t)
  /\ ui' = "off" /\ stopped' = {} /\ msgs' = 0
  /\ UNCHANGED <<preview, current, shared, worker, decoder, shows>>

\* The plugin is enabled again, if a file can still be opened (a bound).
Enable ==
  /\ ui = "off" /\ opened < MaxThreads /\ generation < 2 * MaxThreads /\ ui' = "on"
  /\ UNCHANGED <<preview, threads, msgs, shows>>

-----------------------------------------------------------------------------
(* The preview: pointing at a position *)

\* What counts as asked for: nothing once the width changes.
RequestedAt(w) == IF w = width THEN requested ELSE None

\* The order of use when the positions of S are in the cache and k was used last.
Newest(k, S) ==
  {p \in older : p[1] \in S \ {k} /\ p[2] \in S \ {k}} \union ((S \ {k}) \X {k})

\* Slip: a request that replaces another does not wake the thread.
AskOnce(h, r) == [h EXCEPT !.req = r, !.requested = TRUE, !.event = h.event \/ h.result = NoImage]

\* Request replaces the one the thread has not begun.
Ask(h, r) == [h EXCEPT !.req = r, !.requested = TRUE, !.event = TRUE]

\* Show the image of a position, or ask for it and go on showing the one before.
Show(k, w) ==
  /\ ui = "on" /\ file # 0 /\ ~unsupported /\ shows < MaxShows /\ shows' = shows + 1
  /\ width' = w /\ key' = k /\ visible' = TRUE
  /\ LET hit == w = width /\ k \in DOMAIN cache
         ask == ~hit /\ k # RequestedAt(w)
     IN /\ cache' = IF w = width THEN cache ELSE NoImages
        /\ older' = IF hit THEN Newest(k, DOMAIN cache) ELSE IF w = width THEN older ELSE {}
        /\ shown' = IF hit THEN k ELSE IF w = width THEN shown ELSE None
        /\ requested' = IF ask THEN k ELSE RequestedAt(w)
        /\ failed' = (failed /\ ~ask)
        /\ shared' = IF ask THEN [shared EXCEPT ![current] =
                       Ask(@, [gen |-> generation, file |-> file, key |-> k, width |-> w])]
                     ELSE shared
  /\ UNCHANGED <<ui, file, opened, generation, unsupported, current, stopped, worker, decoder, msgs>>

Hide ==
  /\ ui = "on" /\ visible /\ visible' = FALSE
  /\ UNCHANGED <<ui, file, opened, generation, unsupported, width, key, shown, requested, cache, older,
                 failed, threads, msgs, shows>>

-----------------------------------------------------------------------------
(* The preview: a result *)

\* What is left of the images of S when the least recently used but the one that is shown
\* are thrown away until there is room for one more, or only that one is left.
Kept(S) ==
  {k \in S : k = shown \/ Cardinality({j \in S : j = shown \/ <<j, k>> \notin older}) < CacheMax}

\* One more image, or one in the place of the one of the same position.
AddEntry(i) ==
  LET S == Kept(DOMAIN cache \ {i.key}) \union {i.key} IN
  /\ cache' = [k \in S |-> IF k = i.key THEN [file |-> i.file, width |-> i.width] ELSE cache[k]]
  /\ older' = Newest(i.key, S)

\* An image made for another width is of no use.
Fits(i) == i.width = width

\* An image that could not be made is not remembered (nor is one for which there is no
\* bitmap, which is like one that could not be made).
Remembered(i) == i.status = 0

\* An image for the preview.
Accept(i) ==
  /\ IF Remembered(i) THEN AddEntry(i) ELSE UNCHANGED <<cache, older>>
  /\ failed' = (failed \/ (i.status = 1 /\ i.key = requested))
  /\ shown' = IF i.key = key /\ visible THEN key ELSE shown
  /\ UNCHANGED <<unsupported, visible>>

\* The message that a result is there; it may have been taken already.
OnResult ==
  /\ ui = "on" /\ msgs > 0 /\ msgs' = msgs - 1
  /\ LET i == IF current = 0 THEN NoImage ELSE shared[current].result
         mine == i # NoImage /\ i.gen = generation
     IN /\ shared' = IF current = 0 THEN shared ELSE [shared EXCEPT ![current].result = NoImage]
        /\ \/ /\ mine /\ i.status = 2
              /\ unsupported' = TRUE /\ visible' = FALSE /\ UNCHANGED <<cache, older, shown, failed>>
           \/ mine /\ i.status # 2 /\ (i.status = 0 => Fits(i)) /\ Accept(i)
           \/ /\ ~mine \/ (i.status = 0 /\ ~Fits(i))
              /\ UNCHANGED <<unsupported, visible, cache, older, shown, failed>>
  /\ UNCHANGED <<ui, file, opened, generation, width, key, requested, current, stopped, worker, decoder, shows>>

-----------------------------------------------------------------------------
(* The thread *)

\* A thread that ends lets go of its SHARED.
Gone == [at |-> "ended", req |-> NoRequest]
Waits == [at |-> "wait", req |-> NoRequest]

\* The event resets itself; the lock is taken afterwards.
Wake(t) ==
  /\ worker[t].at = "wait" /\ shared[t].event
  /\ shared' = [shared EXCEPT ![t].event = FALSE]
  /\ worker' = [worker EXCEPT ![t].at = "woken"]
  /\ UNCHANGED <<ui, preview, current, stopped, decoder, msgs, shows>>

\* Take the request, if the event was not for one that was taken before; the file is
\* opened for the first of a generation.
Take(t) ==
  /\ worker[t].at = "woken"
  /\ LET h == shared[t] r == shared[t].req IN
     \/ /\ h.stop
        /\ worker' = [worker EXCEPT ![t] = Gone] /\ shared' = [shared EXCEPT ![t] = Idle]
        /\ UNCHANGED decoder
     \/ /\ ~h.stop /\ ~h.requested
        /\ worker' = [worker EXCEPT ![t].at = "wait"] /\ UNCHANGED <<shared, decoder>>
     \/ /\ ~h.stop /\ h.requested
        /\ shared' = [shared EXCEPT ![t].requested = FALSE, ![t].req = NoRequest]
        /\ worker' = [worker EXCEPT ![t] = [at |-> "run", req |-> r]]
        /\ IF decoder[t].gen = r.gen THEN UNCHANGED decoder
           ELSE \E bad \in BOOLEAN : decoder' = [decoder EXCEPT ![t] = [gen |-> r.gen, file |-> r.file, bad |-> bad]]
  /\ UNCHANGED <<ui, preview, current, stopped, msgs, shows>>

\* Slip: taking the result forgets the request that came meanwhile.
PublishedAlone(h, i) == [h EXCEPT !.result = i, !.requested = FALSE]

\* The result replaces one that was not taken.
Published(h, i) == [h EXCEPT !.result = i]

Superseded(t) == shared[t].stop \/ shared[t].requested

\* Generate ends with a status: made, not here, or not of this file at all, which it
\* then remembers.
Finish(t, status) ==
  /\ worker[t].at = "run" /\ (decoder[t].bad => status = 2)
  /\ decoder' = [decoder EXCEPT ![t].bad = status = 2]
  /\ LET r == worker[t].req
         i == [gen |-> r.gen, file |-> decoder[t].file, key |-> r.key,
               width |-> IF status = 0 THEN r.width ELSE 0, status |-> status]
     IN IF shared[t].stop
        THEN worker' = [worker EXCEPT ![t] = Gone] /\ shared' = [shared EXCEPT ![t] = Idle]
        ELSE worker' = [worker EXCEPT ![t].at = "post"] /\ shared' = [shared EXCEPT ![t] = Published(@, i)]
  /\ UNCHANGED <<ui, preview, current, stopped, msgs, shows>>

\* Generate notices that it was superseded.
Abort(t) ==
  /\ worker[t].at = "run" /\ ~decoder[t].bad /\ Superseded(t)
  /\ worker' = [worker EXCEPT ![t] = Waits]
  /\ UNCHANGED <<ui, preview, current, stopped, shared, decoder, msgs, shows>>

\* With MaxMsgs messages on their way one more finds nothing: there is one slot.
Post(t) ==
  /\ worker[t].at = "post" /\ msgs' = IF msgs < MaxMsgs THEN msgs + 1 ELSE msgs
  /\ worker' = [worker EXCEPT ![t] = Waits]
  /\ UNCHANGED <<ui, preview, current, stopped, shared, decoder, shows>>

ThreadProc(t) == Wake(t) \/ Take(t) \/ (\E s \in 0 .. 2 : Finish(t, s)) \/ Abort(t) \/ Post(t)

-----------------------------------------------------------------------------
Next ==
  \/ Open \/ Close \/ Destroy \/ DestroyEnd \/ Enable \/ Hide \/ OnResult
  \/ \E k \in Keys, w \in Widths : Show(k, w)
  \/ \E t \in Threads : ThreadProc(t)

Spec == Init /\ [][Next]_vars

\* The threads run, the window handles its messages, a wait that can end does.
FairSpec == Spec /\ WF_vars(OnResult) /\ WF_vars(DestroyEnd) /\ \A t \in Threads : WF_vars(ThreadProc(t))

-----------------------------------------------------------------------------
(* Properties *)

Requests == [gen : Nat, file : Nat, key : Keys \union {None}, width : Widths \union {0}]
Images == [gen : Nat, file : Nat, key : Keys \union {None}, width : Widths \union {0}, status : 0 .. 2]

Slots == [stop : BOOLEAN, req : Requests, requested : BOOLEAN, result : Images, event : BOOLEAN]
Works == [at : {"new", "wait", "woken", "run", "post", "ended"}, req : Requests]
Decoders == [gen : Nat \union {None}, file : Nat, bad : BOOLEAN]

ThreadTypes ==
  shared \in [Threads -> Slots] /\ worker \in [Threads -> Works] /\ decoder \in [Threads -> Decoders]
FileTypes ==
  /\ ui \in {"on", "stopping", "off"} /\ opened \in 0 .. MaxThreads /\ file \in {0, opened}
  /\ generation \in Nat /\ current \in 0 .. opened /\ stopped \subseteq 1 .. opened
  /\ msgs \in 0 .. MaxMsgs /\ shows \in 0 .. MaxShows
FlagTypes == unsupported \in BOOLEAN /\ visible \in BOOLEAN /\ failed \in BOOLEAN
KeyTypes ==
  /\ width \in Widths \union {0} /\ key \in Keys \union {None}
  /\ shown \in Keys \union {None} /\ requested \in Keys \union {None}

CacheTypes ==
  /\ cache \in [DOMAIN cache -> [file : Nat, width : Widths \union {0}]]
  /\ DOMAIN cache \subseteq Keys /\ older \subseteq (DOMAIN cache) \X (DOMAIN cache)

\* Every variable has its type.
TypeOK == ThreadTypes /\ FileTypes /\ FlagTypes /\ KeyTypes /\ CacheTypes

\* What is shown belongs to the file that is open and has the width of the window, although
\* images come late, from threads of other files and for other widths.
RightImage == \A k \in DOMAIN cache : cache[k].file = file /\ cache[k].width = width

\* A result or request for position k that still will get to the preview.
InFlight(k) ==
  LET h == shared[current] w == worker[current] IN
  /\ current # 0
  /\ \/ h.requested /\ h.req.key = k /\ h.req.width = width
     \/ w.at = "run" /\ w.req.key = k /\ w.req.width = width /\ ~h.requested
     \/ h.result # NoImage /\ h.result.key = k /\ h.result.width \in {width, 0}
        /\ (w.at = "post" \/ msgs > 0)

Missing == visible /\ key \notin DOMAIN cache

\* A position that is pointed at and has no image is being worked on, or it was asked for last
\* and its image could not be made: no request is lost between the slots and the cache.  (The
\* comment in OnResult, ThumbnailPreview.cpp:188, has such a position asked for again when the
\* cursor leaves it and comes back; but Show does not, before another has been asked for.)
NothingLost == Missing => InFlight(key) \/ (failed /\ key = requested)

\* The images that are asked for come, and no others.
ImagesRight == RightImage /\ NothingLost

\* Once Destroy is done no thread is left that would run code of the unloaded plugin.
NoThreadLeft == ui = "off" => \A t \in Threads : worker[t].at \in {"new", "ended"}

\* Destroy does not wait for ever.
DestroyReturns == (ui = "stopping") ~> (ui = "off")

\* What was asked for is answered, unless something else is asked for.
Answered ==
  \A k \in Keys : (ui = "on" /\ InFlight(k) /\ requested = k) ~> ~(ui = "on" /\ InFlight(k) /\ requested = k)
=============================================================================
