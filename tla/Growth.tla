--------------------------------- MODULE Growth ---------------------------------
(***************************************************************************)
(* Playing a file that is being recorded (the first part of                *)
(* CTsSender::Send, for files opened shared for writing): from the file's  *)
(* size, looked at now and then, the sender decides whether it grows, how  *)
(* long it is by now, and whether to read ahead; the thread that calls it  *)
(* plays no faster near the end.  A recorder writes as long as it records, *)
(* and may pause; one that reserves room ahead gives the rest back when it *)
(* is done.                                                                *)
(***************************************************************************)
EXTENDS Integers, FiniteSetsExt

CONSTANTS
  Recorded,   \* how much may be recorded when the file is opened, in units of time
  Rate,       \* bytes recorded in a unit of time
  Second,     \* units of time in a second
  RenewSize,  \* RENEW_SIZE_INTERVAL
  RenewFsr,   \* RENEW_FSR_INTERVAL
  BufSize,    \* bytes that are read ahead
  Calls,      \* times from one call of Send to the next
  Speeds,     \* speeds, 1 is normal
  Backs,      \* how far before the end is sought, in units of time
  Reserve,    \* bytes that are reserved at a time
  BreakMax,   \* bound on the pauses and resumptions of the recorder
  TimeMax     \* bound on the time

\* Calls follow each other within some time.
GrowthAssumption ==
  /\ Recorded \subseteq Nat \ {0} /\ Rate \in Nat \ {0} /\ Second \in Nat \ {0}
  /\ RenewSize \in Nat \ {0} /\ RenewFsr \in Nat \ {0} /\ BufSize \in Nat \ {0}
  /\ Calls \subseteq Nat \ {0} /\ \E d \in Calls : \A c \in Calls : c <= d
  /\ Speeds \subseteq Nat \ {0} /\ Backs \subseteq Nat
  /\ Reserve \in Nat \ {0} /\ BreakMax \in Nat /\ TimeMax \in Nat

VARIABLES
  content, reserves, recording,  \* what is recorded, in bytes; what the recorder does
  fileState, fileSize, duration, \* m_fileState, m_fileSize, m_duration
  sinceSize, sinceDur, sinceFsr, \* since m_renewSizeTick, m_renewDurTick, m_renewFsrTick
  forceSync,                     \* m_fForceSyncRead
  played, speed,                 \* how far the sender has read, and how fast
  now, breaks,                   \* history: the time; pauses and resumptions
  judged                         \* history: how to read was decided since the last seek

recorder == <<content, reserves, recording>>
lengths  == <<fileState, fileSize, duration, sinceSize, sinceDur>>
vars     == <<recorder, lengths, sinceFsr, forceSync, played, speed, now, breaks, judged>>

\* The file's size, with the room that is reserved.
Size(bytes, on) == IF reserves /\ on THEN (bytes \div Reserve + 1) * Reserve ELSE bytes

\* Open finds out the length; the end of a file with room reserved it finds by searching.
Init ==
  /\ content \in {t * Rate : t \in Recorded} /\ reserves \in BOOLEAN /\ recording \in BOOLEAN
  /\ reserves => recording
  /\ fileState = (IF reserves THEN "special" ELSE "maybe")
  /\ fileSize = Size(content, recording) /\ duration = content \div Rate
  /\ sinceSize = 0 /\ sinceDur = 0 /\ sinceFsr = 0 /\ forceSync = FALSE
  /\ played = 0 /\ speed = 1
  /\ now = 0 /\ breaks = 0 /\ judged = FALSE

-----------------------------------------------------------------------------
(* One call of Send *)

\* Slip: the length stays too long.
RestoredNot(length) == length

\* When the file turns out not to grow, what was added meanwhile is taken back.
Restored(length) == IF fileState = "extending" THEN length - RenewSize ELSE length

\* The size is looked at again.
Looks(d) == sinceSize + d >= RenewSize
Stops(d, size) == Looks(d) /\ fileState # "special" /\ size = fileSize

Watch(d, size) ==
  /\ fileState' = CASE Stops(d, size) -> "fixed"
                    [] Looks(d) /\ fileState = "special" /\ size < fileSize -> "fixed"
                    [] Looks(d) /\ fileState # "special" /\ size # fileSize -> "extending"
                    [] OTHER -> fileState
  /\ fileSize' = (IF Looks(d) THEN size ELSE fileSize)
  /\ sinceSize' = (IF Looks(d) THEN 0 ELSE sinceSize + d)

\* As long as it grows, the length does with the time; before the first look the time
\* is kept.
Lengthen(d, size) ==
  LET known == IF Stops(d, size) THEN Restored(duration) ELSE duration
  IN  \/ /\ fileState' = "maybe"
         /\ duration' = known /\ sinceDur' = sinceDur + d
      \/ /\ fileState' = "fixed"
         /\ duration' = known /\ sinceDur' = 0
      \/ /\ fileState' \in {"extending", "special"}
         /\ duration' = known + sinceDur + d /\ sinceDur' = 0

\* Bytes left to the end, which with room reserved is known by the length only.
Remain(size) ==
  IF fileState' = "special" THEN duration' * Rate - played' ELSE size - played'

\* GetRate: bytes in a second.
GetRate(size) ==
  IF fileState' = "special" THEN Rate * Second ELSE (size * Second) \div duration'

\* Seconds before the end where reading ahead ends, and three more where it begins.
Margin == IF fileState' = "special" THEN 6 ELSE 3
\* Slip: the buffer that is read ahead is forgotten.
NearUnbuffered(size) == Remain(size) < Margin * GetRate(size)

Near(size) == Remain(size) < BufSize + Margin * GetRate(size)
Far(size)  == Remain(size) > BufSize + (Margin + 3) * GetRate(size)

Decide(d, size) ==
  \/ /\ sinceFsr + d < RenewFsr
     /\ sinceFsr' = sinceFsr + d
     /\ UNCHANGED <<forceSync, judged>>
  \/ /\ sinceFsr + d >= RenewFsr
     /\ forceSync' = (fileState' # "fixed" /\ (IF forceSync THEN ~Far(size) ELSE Near(size)))
     /\ sinceFsr' = 0 /\ judged' = (fileState' # "fixed")

\* The sender reads on, or it is paused or the receiver has enough.
ReadOn(d) ==
  played' \in {played, Min({content', played + d * Rate * speed})}

\* The thread goes back to normal speed three seconds before the end.
Slow ==
  speed' = IF fileState' # "fixed" /\ played' > (duration' - 3 * Second) * Rate
           THEN 1 ELSE speed

\* A call, d after the last one.
Send(d) ==
  /\ now + d <= TimeMax /\ now' = now + d
  /\ content' = (IF recording THEN content + d * Rate ELSE content)
  /\ LET size == Size(content', recording)
     IN  ReadOn(d) /\ Watch(d, size) /\ Lengthen(d, size) /\ Decide(d, size) /\ Slow
  /\ UNCHANGED <<reserves, recording, breaks>>

-----------------------------------------------------------------------------
(* The recorder and the user *)

\* The recorder pauses or goes on; when it has reserved room, it is done.
Break ==
  /\ breaks < BreakMax /\ (reserves => recording)
  /\ recording' = ~recording /\ breaks' = breaks + 1
  /\ UNCHANGED <<content, reserves, lengths, sinceFsr, forceSync, played, speed, now, judged>>

Seek(t) ==
  /\ t * Rate <= content /\ played' = content - t * Rate
  /\ judged' = FALSE
  /\ UNCHANGED <<recorder, lengths, sinceFsr, forceSync, speed, now, breaks>>

SetSpeed(s) ==
  /\ speed' = s
  /\ UNCHANGED <<recorder, lengths, sinceFsr, forceSync, played, now, breaks, judged>>

Next ==
  \/ Break
  \/ \E d \in Calls : Send(d)
  \/ \E t \in Backs : Seek(t)
  \/ \E s \in Speeds : SetSpeed(s)

Spec == Init /\ [][Next]_vars

-----------------------------------------------------------------------------
(* Properties *)

\* Room was reserved and given back since the size was last seen, and the file is no
\* smaller than it was then: that is not noticed, now or later.
Unnoticed == fileState = "special" /\ ~recording /\ fileSize <= content

\* What a pause or a resumption costs until it is noticed.
CheckCost == RenewSize + Max(Calls) - 1

\* How far off the length is, in time.
Off == LET m == duration - content \div Rate IN Max({m, -m})

\* The length of a file that grows is off by less than the interval at which its size
\* is looked at, for each pause and resumption of the recorder, and once more as long
\* as a pause was not noticed.
LengthTracks ==
  fileState # "maybe" /\ ~Unnoticed
    => Off <= (breaks + (IF fileState # "fixed" /\ ~recording THEN 1 ELSE 0)) * CheckCost

\* Reading ahead stays clear of the end of a file that grows, at double speed as well,
\* from the first decision after a seek on, as long as the length, of which the rate is
\* reckoned, is not half as much again as it should be.
AheadInside ==
  /\ ~forceSync /\ judged /\ fileState # "fixed" /\ ~Unnoticed
  /\ 2 * Off <= content \div Rate
  => content - played >= BufSize
=============================================================================
