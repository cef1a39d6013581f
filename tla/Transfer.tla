-------------------------------- MODULE Transfer --------------------------------
(***************************************************************************)
(* Transferring a transport stream (CTsSender::ReadToPcr, RotateBuffer and *)
(* FilterEitPacket): the sender goes through the packets up to the next    *)
(* clock, sends what it went through, and reads on.  A read may end        *)
(* anywhere within a packet; what is left of the buffer is carried over in *)
(* front of the next one, so that the buffer is always one run of bytes    *)
(* [m_head, m_tail) of the file, and m_tail where the reader stands.       *)
(* Schedule tables (EIT) are not sent, and their packets' counters closed  *)
(* up.  The reader is SequentialReader: a read gives nothing at the end of *)
(* the file, or when it fails, at any time.                                *)
(***************************************************************************)
EXTENDS Integers, SequencesExt

CONSTANTS
  Recordings, \* sequences of packets
  Written,    \* bytes of a file that may be written at first, all of it besides
  UnitSize,   \* m_unitSize
  ReadLengths,  \* bytes that a read may return
  SendMax,    \* BON_UDP_TSDATASIZE - 1880
  Interval,   \* MAX_SEND_INTERVAL, in packets
  SyncLen,    \* packets in sync that resync wants to see, 8 in the code
  ResyncMax,  \* RESYNC_FAILURE_LIMIT
  Limit,      \* READ_TO_PCR_LIMIT_PACKETS
  PidsMax,    \* PCR_PIDS_MAX
  Elects, Replaces,  \* clocks after which a PID is referred to: 3, or 5 when another is
  CcMod       \* values of a continuity counter

\* A packet: the PID of its clock; whether it is one of an EIT that begins a table
\* (of the schedule, or present and following), goes on with it, or has no payload;
\* whether its first byte is what it should be.
Packets ==
  [clock : {"a", "b", "none"}, eit : {"schedule", "present", "on", "bare", "none"},
   sync : BOOLEAN]

TransferAssumption ==
  /\ Recordings \subseteq Seq(Packets)
  /\ Written \subseteq Nat /\ UnitSize \in Nat \ {0, 1} /\ ReadLengths \subseteq Nat \ {0}
  /\ SendMax \in Nat \ {0} /\ Interval \in Nat
  /\ SyncLen \in Nat \ {0, 1} /\ ResyncMax \in Nat \ {0} /\ Limit \in Nat \ {0}
  /\ PidsMax \in Nat /\ Elects \in Nat \ {0} /\ Replaces \in Nat \ {0}
  /\ CcMod \in Nat \ {0}

VARIABLES
  stream, size,   \* the file: its packets, and how many of its bytes are written
  step,           \* where ReadToPcr is: at a packet, resyncing again, reading, at its end
  mode,           \* who called it: open, send, seek, or restore
  left,           \* packets up to the limit
  misses,         \* i, resyncs that failed
  clock,          \* fPcr
  head, curr,     \* m_head, m_curr
  tail,           \* m_tail, the reader's position
  lastPos,        \* lastPos of a seek
  pcr, lastSent,  \* m_pcr, m_lastSentPcr: number of the clock's packet
  pcrPid, counts, \* m_pcrPid; m_pcrPids and m_pcrPidCounts
  filter,         \* m_fDropEitSchedule, m_fHasEitContinuityCounter and the counter
  sent, from,     \* history: what was sent since the last seek, and from where on
  lost, skips     \* history: bytes that a read without a result cost; resyncs

NoPos == -1

data   == <<stream, size>>
call   == <<mode, left, misses, clock>>
clocks == <<pcr, lastSent, pcrPid, counts>>
hist   == <<sent, from, lost, skips>>
vars   == <<data, step, call, head, curr, tail, lastPos, clocks, filter, hist>>

\* How far the file may be written.
Sizes == {n \in Written : n < Len(stream) * UnitSize} \union {Len(stream) * UnitSize}

NoCounts  == [p \in {} |-> 0]
NoFilter  == [drop |-> FALSE, cc |-> NoPos]

\* Open goes to the beginning, and refers to no PID yet.
Init ==
  /\ stream \in Recordings /\ size \in Sizes
  /\ step = "packet" /\ mode = "open" /\ left = Limit /\ misses = 0 /\ clock = FALSE
  /\ head = NoPos /\ curr = NoPos /\ tail = 0 /\ lastPos = 0
  /\ pcr = 0 /\ lastSent = 0 /\ pcrPid = "none" /\ counts = NoCounts
  /\ filter = NoFilter
  /\ sent = <<>> /\ from = 0 /\ lost = {} /\ skips = 0

-----------------------------------------------------------------------------
(* Packets *)

\* The bytes at p are a packet of the file, and not a part of two.
Aligned(p)  == p % UnitSize = 0
PacketAt(p) == stream[p \div UnitSize + 1]
InSync(p)   == Aligned(p) /\ p \div UnitSize < Len(stream) /\ PacketAt(p).sync

\* A part of two packets is taken for one of no EIT.
EitAt(p) == IF Aligned(p) THEN PacketAt(p).eit ELSE "none"

\* FilterEitPacket: whether the packet is dropped, and otherwise its new counter.
Drops(f, eit) == eit = "schedule" \/ (eit \in {"on", "bare"} /\ f.drop)

\* One packet through the filter, and out if it is not dropped.
Filter(f, p) ==
  LET eit == EitAt(p)
      cc  == IF f.cc = NoPos THEN 0 ELSE f.cc
  IN  IF Drops(f, eit) THEN [f EXCEPT !.drop = TRUE]
      ELSE IF eit \in {"none", "bare"} THEN [f EXCEPT !.out = Append(@, [at |-> p, cc |-> NoPos])]
      ELSE [drop |-> FALSE, cc |-> (cc + 1) % CcMod, out |-> Append(f.out, [at |-> p, cc |-> cc])]

\* All whole packets from h to c, and the filter after them.
Through(h, c) ==
  LET f[k \in 0 .. (c - h) \div UnitSize] ==
        IF k = 0 THEN [drop |-> filter.drop, cc |-> filter.cc, out |-> sent]
        ELSE Filter(f[k - 1], h + (k - 1) * UnitSize)
  IN  f[(c - h) \div UnitSize]

-----------------------------------------------------------------------------
(* RotateBuffer *)

Sends == mode = "send"

\* What was gone through, up to c, is sent, unless it was read on the way of a seek.
Transfer(c, lastPcr) ==
  IF Sends /\ c > head
  THEN LET t == Through(head, c)
       IN  filter' = [drop |-> t.drop, cc |-> t.cc] /\ sent' = t.out /\ lastSent' = lastPcr
  ELSE UNCHANGED <<filter, sent, lastSent>>

\* The packet at c and the first byte of the next one are in the buffer.
Enough(c) == c # NoPos /\ tail - c > UnitSize

\* Slip: what is left of the buffer is forgotten.
CarriedNone == tail

\* Where the next buffer begins: what is left is carried over in front of it.
Carried == IF curr = NoPos THEN tail ELSE curr

Readings == {"need", "resync", "behind"}

\* ReadToPcr goes on: to the packet there is now, to a further resync, or to the next
\* packet if it met no clock and not the limit.
After(reading, fPcr, n) ==
  CASE reading = "need" -> "packet"
    [] reading = "resync" -> IF misses = ResyncMax THEN "end" ELSE "again"
    [] reading = "behind" -> IF fPcr \/ n = 0 THEN "end" ELSE "packet"

\* Another program writes the file.  It makes a difference when the reader is at the
\* end, or the file is opened anew.
Grow ==
  /\ (step \in Readings /\ tail = size) \/ step = "closed"
  /\ size' \in {n \in Sizes : n > size}
  /\ UNCHANGED <<stream, step, call, head, curr, tail, lastPos, clocks, filter, hist>>

\* A read of n bytes, which may have to be followed by another one.
Read(n) ==
  /\ step \in Readings /\ n <= size - tail
  /\ head' = Carried /\ curr' = Carried /\ tail' = tail + n
  /\ step' = IF tail' - curr' > UnitSize THEN After(step, clock, left) ELSE step
  /\ UNCHANGED <<data, call, lastPos, clocks, filter, hist>>

\* The end of the file, or an error.
ReadNothing ==
  /\ step \in Readings
  /\ head' = NoPos /\ curr' = NoPos
  /\ step' = IF step = "behind" THEN After(step, clock, left) ELSE "end"
  /\ lost' = lost \union Carried .. tail - 1
  /\ UNCHANGED <<data, call, tail, lastPos, clocks, filter, sent, from, skips>>

-----------------------------------------------------------------------------
(* ReadToPcr *)

NeedMore ==
  /\ step = "packet" /\ ~Enough(curr)
  /\ Transfer(curr, pcr)
  /\ head' = curr /\ step' = "need"
  /\ UNCHANGED <<data, call, curr, tail, lastPos, pcr, pcrPid, counts, from, lost, skips>>

AtPacket == step = "packet" /\ Enough(curr)
Synced   == InSync(curr) /\ InSync(curr + UnitSize)

\* resync: where enough packets follow each other.
Places ==
  {b \in curr .. tail - SyncLen * UnitSize - 1 :
     \A k \in 0 .. SyncLen - 1 : InSync(b + k * UnitSize)}

Resync ==
  /\ (AtPacket /\ ~Synced) \/ step = "again"
  /\ skips' = skips + 1
  /\ \/ /\ Places # {}
        /\ curr' = Min(Places) /\ step' = "packet"
        /\ UNCHANGED <<head, misses, filter, sent, lastSent>>
     \/ /\ Places = {}
        /\ Transfer(tail, pcr)
        /\ head' = tail /\ curr' = tail /\ step' = "resync"
        /\ misses' = IF step = "again" THEN misses + 1 ELSE 1
  /\ UNCHANGED <<data, mode, left, clock, tail, lastPos, pcr, pcrPid, counts, from, lost>>

\* Which PID's clocks are referred to after one of p.
Counted(p) ==
  CASE p \in DOMAIN counts -> [counts EXCEPT ![p] = @ + 1]
    [] p \notin DOMAIN counts /\ Cardinality(DOMAIN counts) < PidsMax -> counts @@ (p :> 1)
    [] OTHER -> counts

Elected(p) ==
  IF p \in DOMAIN counts /\ Counted(p)[p] >= (IF pcrPid = "none" THEN Elects ELSE Replaces)
  THEN p ELSE pcrPid

\* A packet's clock, at c, is counted and, if it is referred to, taken.
Clocked(c) ==
  LET p == PacketAt(c).clock
      new == IF p \in {"none", pcrPid} THEN pcrPid ELSE Elected(p)
  IN  /\ pcrPid' = new
      /\ \/ /\ p # "none" /\ p = new
            /\ counts' = NoCounts /\ pcr' = c \div UnitSize /\ clock' = TRUE
         \/ /\ p = "none" \/ p # new
            /\ counts' = (IF p = "none" THEN counts ELSE Counted(p))
            /\ UNCHANGED <<pcr, clock>>

\* Too much to keep, or from too long ago.
Due(c) == c - head >= SendMax \/ (Sends /\ pcr' - lastSent >= Interval)

\* One packet is gone through.
Packet ==
  LET c == curr + UnitSize IN
  /\ AtPacket /\ Synced
  /\ Clocked(curr) /\ left' = left - 1 /\ curr' = c
  /\ \/ /\ Due(c)
        /\ Transfer(c, pcr')
        /\ head' = c /\ step' = IF Enough(c) THEN After("behind", clock', left') ELSE "behind"
     \/ /\ ~Due(c)
        /\ step' = After("behind", clock', left')
        /\ UNCHANGED <<head, filter, sent, lastSent>>
  /\ UNCHANGED <<data, mode, misses, tail, lastPos, from, lost, skips>>

-----------------------------------------------------------------------------
(* Calls *)

Called(m) == step' = "packet" /\ mode' = m /\ left' = Limit /\ misses' = 0 /\ clock' = FALSE

\* Seek did not come to a clock, and goes back to where the reader was.
GoBack ==
  /\ step = "end" /\ mode = "seek" /\ ~clock
  /\ Called("restore") /\ head' = NoPos /\ curr' = NoPos /\ tail' = lastPos /\ lastPos' = 0
  /\ UNCHANGED <<data, clocks, filter, hist>>

\* The call is over; Open closes a file whose beginning has no clock.
Return ==
  /\ step = "end" /\ ~(mode = "seek" /\ ~clock)
  /\ step' = IF mode = "open" /\ ~clock THEN "closed" ELSE "idle"
  /\ lastSent' = IF ~Sends /\ clock THEN pcr ELSE lastSent
  /\ from' = IF Sends THEN from ELSE IF curr = NoPos THEN tail ELSE head
  /\ lost' = IF Sends THEN lost ELSE {}
  /\ left' = 0 /\ misses' = 0 /\ clock' = FALSE /\ lastPos' = 0
  /\ UNCHANGED <<data, mode, head, curr, tail, pcr, pcrPid, counts, filter, sent, skips>>

Send ==
  /\ step = "idle" /\ Called("send")
  /\ UNCHANGED <<data, head, curr, tail, lastPos, clocks, filter, hist>>

\* A file that was closed is opened again.
Open ==
  /\ step = "closed" /\ Called("open")
  /\ head' = NoPos /\ curr' = NoPos /\ tail' = 0
  /\ pcrPid' = "none" /\ counts' = NoCounts
  /\ filter' = NoFilter /\ sent' = <<>> /\ lost' = {} /\ skips' = 0
  /\ UNCHANGED <<data, lastPos, pcr, lastSent, from>>

\* By packets from the beginning, or from the end as it is now.
Seek(to) ==
  /\ step = "idle" /\ (Aligned(to) \/ Aligned(size - to))
  /\ Called("seek") /\ head' = NoPos /\ curr' = NoPos /\ tail' = to /\ lastPos' = tail
  /\ filter' = NoFilter /\ sent' = <<>> /\ lost' = {} /\ skips' = 0
  /\ UNCHANGED <<data, clocks, from>>

Next ==
  \/ Grow \/ ReadNothing \/ NeedMore \/ Resync \/ Packet \/ GoBack \/ Return \/ Open \/ Send
  \/ \E n \in ReadLengths : Read(n)
  \/ \E to \in 0 .. size : Seek(to)

Spec == Init /\ [][Next]_vars

-----------------------------------------------------------------------------
(* Properties *)

\* Up to where bytes were sent, dropped, or lost.
End == IF curr = NoPos THEN tail ELSE head

Units == {u.at : u \in ToSet(sent)}
Bytes == UNION {p .. p + UnitSize - 1 : p \in Units}
Whole == {p \in from .. End - UnitSize : Aligned(p) /\ p \notin lost}

\* A packet of a table of the schedule whose beginning was there.
OfSchedule(p) ==
  \E q \in Whole :
    /\ q <= p /\ PacketAt(q).eit = "schedule" /\ PacketAt(p).eit # "none"
    /\ \A r \in Whole : q < r /\ r <= p => PacketAt(r).eit # "present"

\* Of an undamaged file every packet is sent, but for those of the schedule and the
\* last one of a buffer behind which a read gave nothing; each resync costs less than
\* a packet more.
NothingMissed ==
  /\ skips = 0 => Units = {p \in Whole : ~OfSchedule(p)}
  /\ Cardinality({b \in from .. End - 1 : b \notin Bytes /\ b \notin lost
                    /\ ~(b \div UnitSize < Len(stream) /\ PacketAt(b).eit # "none")})
       <= skips * (UnitSize - 1)

\* Nothing is sent twice or out of order.
InOrder == \A k \in 1 .. Len(sent) - 1 : sent[k].at + UnitSize <= sent[k + 1].at

\* The counters of the tables that are sent have no gap.
Numbered == {k \in 1 .. Len(sent) : sent[k].cc # NoPos}
Continuous ==
  \A j, k \in Numbered :
    j < k /\ Numbered \cap j + 1 .. k - 1 = {} => sent[k].cc = (sent[j].cc + 1) % CcMod

\* What was sent since the last seek is what follows there, whatever the reads returned.
SentRight == mode = "send" => NothingMissed /\ InOrder /\ Continuous
=============================================================================
