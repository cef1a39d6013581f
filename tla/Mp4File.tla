-------------------------------- MODULE Mp4File --------------------------------
(***************************************************************************)
(* CReadOnlyMpeg4File: an MP4 file read as the transport stream it is      *)
(* remultiplexed into.  The stream exists only as blocks of 100 ms; opening*)
(* the file computes, without reading a sample, how many packets each      *)
(* block takes and where every continuity counter starts in it, and        *)
(* reading makes one block at a time from those figures.  The two must     *)
(* agree, or every position after the disagreement is wrong.               *)
(*                                                                         *)
(* With a PSI/SI archive beside the file (CPsiArchiveReader) the tables    *)
(* come from it: a list of chunks read front to back, in which a block of  *)
(* an earlier time is found by going back.                                 *)
(*                                                                         *)
(* A position counts packets of 188 bytes.  A packet is its pid, its       *)
(* continuity counter and which packet it is of its source.                *)
(***************************************************************************)
EXTENDS Integers, Sequences, FiniteSets, SequencesExt, TLC

CONSTANTS
  Files,          \* the files that may be opened, see Mp4
  ReadSizes,      \* packets a read asks for
  SeekTimes,      \* times (ms) that are sought
  BlockMsec,      \* the length of a block (100)
  CaptionForward, \* CAPTION_FORWARD_MSEC (500)
  CcMod,          \* a continuity counter's range (16)
  EitPeriod,      \* blocks from one EIT to the next (10)
  TotPeriod,      \* blocks from one TOT to the next (20)
  BlockListMax,   \* BLOCK_LIST_SIZE_MAX (1000000)
  PsiMax,         \* PSI_MAX_STREAMS (32)
  Wrap            \* the range of the archive's clock (0x40000000)

VIDEO_PID == 256
AUDIO1_PID == 272
CAPTION_PID == 304
PMT_PID == 496
PCR_PID == 511
DISPLACED_PID == 7680
NULL_PID == 8191

(***************************************************************************)
(* A file: its tracks (video, then at most two audio ones) with the packets*)
(* each sample takes and its time, its captions and its archive.  The times*)
(* of a track are a table, or the multiples of delta when that is not 0.   *)
(* An archive is the list of its time entries, chunk after chunk, each     *)
(* chunk closed by "end".  Captions are in the order of their times.       *)
(***************************************************************************)
Track == [scale : Nat, delta : Nat, times : Seq(Nat), packs : Seq(Nat)]
Caption == [time : Nat, packs : Nat]
Code == [pid : Nat, packs : Nat, pmt : Nat, id : Nat]
Entry == [kind : {"unknown", "absolute", "relative", "end"},
          t : Nat, codes : Seq(Code)]
Mp4 == [tracks : Seq(Track), captions : Seq(Caption), psi : Seq(Entry)]

FilesAssumption ==
  /\ \A n \in {BlockMsec, CcMod, EitPeriod, TotPeriod, BlockListMax, Wrap} : n \in Nat \ {0}
  /\ {CaptionForward, PsiMax} \cup SeekTimes \subseteq Nat /\ ReadSizes \subseteq Nat \ {0}
  /\ \A f \in Files :
       /\ f \in Mp4 /\ Len(f.tracks) \in 1 .. 3
       /\ \A i \in 1 .. Len(f.tracks) :
            LET t == f.tracks[i]
            IN  t.scale > 0 /\ (t.delta > 0 \/ Len(t.times) = Len(t.packs))

VARIABLES
  mp4,        \* the open file
  blockList,  \* m_blockList: pos and the counters each block starts from
  psiInfo,    \* m_psiCounterInfoMap: pids, where each goes, its counters
  blk,        \* m_blockInfo: the block the position is in
  cache,      \* m_blockCache: its packets, or none
  ptr,        \* m_pointer: the position in it
  psi,        \* the archive reader
  out,        \* history: what the last call returned, if it was a Read
  image       \* history: every block as a fresh reader makes it

vars == <<mp4, blockList, psiInfo, blk, cache, ptr, psi, out, image>>

\* The last call was no read, or one that failed.
NotRead == <<[read |-> FALSE]>>

\* What the first numbers of s are together; and sequences joined.
Sums(s) ==
  LET f[i \in 0 .. Len(s)] == IF i = 0 THEN 0 ELSE f[i - 1] + s[i] IN f
Sum(s) == Sums(s)[Len(s)]
Flats(ss) ==
  LET f[i \in 0 .. Len(ss)] == IF i = 0 THEN <<>> ELSE f[i - 1] \o ss[i] IN f
Flat(ss) == Flats(ss)[Len(ss)]
Packs(s) == [i \in 1 .. Len(s) |-> s[i].packs]

-----------------------------------------------------------------------------
(* The tracks                                                              *)

\* The track's time at which block k begins; samples count from 0.
Bound(t, k) == (k * t.scale) \div 10
SampleTime(t, i) == IF t.delta > 0 THEN i * t.delta ELSE t.times[i + 1]

\* The samples InitializeBlockList has passed when it comes to block k.
Passed(t, k) ==
  Cardinality({i \in 0 .. Len(t.packs) - 1 : SampleTime(t, i) < Bound(t, k)})

\* Slip: the division rounds down.
FirstDown(t, k) ==
  IF t.delta > 0 THEN Bound(t, k) \div t.delta ELSE Passed(t, k)

\* The sample ReadCurrentBlock begins block k with: by division or search.
First(t, k) ==
  IF t.delta > 0 THEN (Bound(t, k) + t.delta - 1) \div t.delta ELSE Passed(t, k)

Before(packs, i) == Sums(packs)[i]

\* The packets of the samples from i to j - 1, numbered within the track.
Carry(pid, cc, packs, i, j) ==
  [n \in 1 .. Before(packs, j) - Before(packs, i) |->
     [pid |-> pid, cc |-> (cc + n - 1) % CcMod, n |-> Before(packs, i) + n - 1]]

TrackPid(i) == IF i = 1 THEN VIDEO_PID ELSE AUDIO1_PID + i - 2

\* The captions of block k are those of CaptionForward later.
CaptionsUpTo(f, k) ==
  Cardinality({i \in 1 .. Len(f.captions) :
                 f.captions[i].time < k * BlockMsec + CaptionForward})

\* Where InitializeBlockList stands in them when it comes to block k.
CaptionsPassed(f, k) == IF k = 0 THEN 0 ELSE CaptionsUpTo(f, k)

\* The last entry of m_blockList, which holds nothing: no sample is left.
LastBlock(f) ==
  LET done(k) == \A i \in 1 .. Len(f.tracks) :
                   Passed(f.tracks[i], k) = Len(f.tracks[i].packs)
  IN  CHOOSE k \in 0 .. BlockListMax - 1 :
        /\ done(k) \/ k = BlockListMax - 1
        /\ \A j \in 0 .. k - 1 : ~done(j)

-----------------------------------------------------------------------------
(* Opening: the archive's list of codes                                    *)

\* The clock of the archive counts from its first absolute time, and wraps.
FirstTime(events) ==
  LET abs == SelectSeq(events, LAMBDA e : e.kind = "absolute")
  IN  IF abs = <<>> THEN 0 ELSE abs[1].t
Msec(events, t) == (Wrap + t - FirstTime(events)) % Wrap
Unknown == -1

Own == {VIDEO_PID, AUDIO1_PID, AUDIO1_PID + 1, CAPTION_PID, PMT_PID, PCR_PID}

\* Where a pid goes that one of the file's own, or an earlier one, occupies.
MappedPid(pid, used) ==
  IF pid \notin Own \cup used THEN pid
  ELSE CHOOSE m \in DISPLACED_PID + 1 .. NULL_PID :
         /\ m \notin Own \cup used \cup {pid}
         /\ \A k \in DISPLACED_PID + 1 .. m - 1 : k \in Own \cup used \cup {pid}

\* A section counts in the block that is being counted, not in one passed.
Timely(b, last) == b = last

\* One code of the list: a section of pid at msec.  acc.last is
\* readingBlockIndex, acc.size what the sections add to each block.
CountCode(acc, msec, code) ==
  LET b == msec \div BlockMsec
      n == Cardinality(DOMAIN acc.size) - 1
      met == acc.last < b
      starts == IF met /\ b <= n
                THEN [p \in DOMAIN acc.start |->
                        [acc.start[p] EXCEPT ![b] = acc.cc[p]]]
                ELSE acc.start
      last == IF met THEN b ELSE acc.last
      known == code.pid \in DOMAIN acc.cc
      fits == known \/ Cardinality(DOMAIN acc.cc) < PsiMax
      used == {acc.mapped[p] : p \in DOMAIN acc.mapped}
      with(f, v) == IF known THEN f ELSE (code.pid :> v) @@ f
      cc == with(acc.cc, 0)
  IN  IF code.pid # 0 /\ Timely(b, last) /\ b <= n /\ fits
      THEN [last |-> last,
            size |-> [acc.size EXCEPT ![b] = @ + code.packs],
            mapped |-> with(acc.mapped, MappedPid(code.pid, used)),
            start |-> with(starts, [k \in 0 .. n |-> 0]),
            cc |-> [cc EXCEPT ![code.pid] = (@ + code.packs) % CcMod],
            curr |-> acc.curr]
      ELSE [acc EXCEPT !.last = last, !.start = starts]

\* One entry of the time list.
CountEntry(events, acc, e) ==
  CASE e.kind = "absolute" -> [acc EXCEPT !.curr = e.t]
    [] e.kind \in {"unknown", "end"} -> [acc EXCEPT !.curr = Unknown]
    [] e.kind = "relative" /\ acc.curr = Unknown -> acc
    [] OTHER ->
         LET t == acc.curr + e.t
         IN  FoldLeft(LAMBDA a, code : CountCode(a, Msec(events, t), code),
                      [acc EXCEPT !.curr = t], e.codes)

CountSections(f) ==
  FoldLeft(LAMBDA a, e : CountEntry(f.psi, a, e),
           [last |-> 0, size |-> [k \in 0 .. LastBlock(f) |-> 0],
            mapped |-> <<>>, start |-> <<>>, cc |-> <<>>, curr |-> Unknown],
           f.psi)

-----------------------------------------------------------------------------
(* Opening: the list of blocks                                             *)

\* The packets that every block has: with an archive PAT, PCR and PMT,
\* without one PAT, NIT, SDT, PMT and PCR, and an EIT or a TOT now and then.
BaseSize(f, k) ==
  IF f.psi # <<>> THEN 2 + CcMod
  ELSE 5 + (IF k % EitPeriod = EitPeriod - 1 THEN 1 ELSE 0)
         + (IF k % TotPeriod = 0 THEN 1 ELSE 0)

BlockSize(f, sections, k) ==
  BaseSize(f, k) + sections.size[k]
  + Sum([i \in 1 .. Len(f.tracks) |->
           LET t == f.tracks[i]
           IN  Before(t.packs, Passed(t, k + 1)) - Before(t.packs, Passed(t, k))])
  + Before(Packs(f.captions), CaptionsPassed(f, k + 1))
  - Before(Packs(f.captions), CaptionsPassed(f, k))

\* Positions are the sums of the sizes before them.
BlockList(f, sections) ==
  [k \in 0 .. LastBlock(f) |->
     [pos |-> Before([j \in 1 .. LastBlock(f) |-> BlockSize(f, sections, j - 1)], k),
      counter |-> [i \in 1 .. Len(f.tracks) |->
                     Before(f.tracks[i].packs, Passed(f.tracks[i], k)) % CcMod],
      counterC |-> Before(Packs(f.captions), CaptionsPassed(f, k)) % CcMod]]

-----------------------------------------------------------------------------
(* The archive reader.  chunk is the entry m_chunkFileOffset begins with, 0*)
(* when there is none to go on from; reading and begin are                 *)
(* m_readingTimeMsec and m_chunkBeginTimeMsec, next the entry m_timeListIndex*)
(* stands at, pat and oldPat the last PAT seen (its PMT's pid) and the one *)
(* of the chunks before, 0 when none.                                      *)

Opened == [chunk |-> 0, reading |-> Wrap, begin |-> -1, next |-> 1,
           curr |-> Unknown, pat |-> 0, oldPat |-> 0]

Chunks(events) == {1} \cup {i + 1 : i \in {j \in 1 .. Len(events) - 1 :
                                              events[j].kind = "end"}}

\* Slip: going back within the chunk forgets to go to its start.
GoBackNowhere(r, b) ==
  IF r.chunk > 0 /\ b > r.reading THEN r
  ELSE IF r.chunk > 0 /\ b >= r.begin
  THEN [r EXCEPT !.reading = r.begin - 1, !.begin = -1]
  ELSE [Opened EXCEPT !.chunk = 1, !.reading = -1]

\* A time not after the last one read is found by going back: to the start of
\* the chunk when it is not before that, else to the start of the archive.
GoBack(r, b) ==
  IF r.chunk > 0 /\ b > r.reading THEN r
  ELSE IF r.chunk > 0 /\ b >= r.begin
  THEN [r EXCEPT !.reading = r.begin - 1, !.begin = -1, !.next = r.chunk,
                 !.curr = Unknown, !.pat = r.oldPat]
  ELSE [Opened EXCEPT !.chunk = 1, !.reading = -1]

\* A section is passed on when its time is known and not before b.
PassedOn(msec, b) == msec # Unknown /\ msec >= b

\* The sections of one relative entry at msec, or unknown when it has no time:
\* those of the time asked for are passed on, the PAT before the first one.
PassCodes(a, msec, b, codes) ==
  FoldLeft(LAMBDA x, code :
             IF code.pid = 0 THEN [x EXCEPT !.r.pat = code.pmt]
             ELSE IF ~PassedOn(msec, b) THEN x
             ELSE [x EXCEPT !.calls =
                     @ \o (IF ~x.sent /\ x.r.pat # 0
                           THEN <<[pid |-> 0, packs |-> 1, pmt |-> x.r.pat, id |-> 0]>>
                           ELSE <<>>) \o <<code>>,
                   !.sent = @ \/ x.r.pat # 0],
           a, codes)

\* One entry: a time past the end stops the reading before it, and the PAT is
\* passed on if nothing was.  a.stop says the reading is over.
ReadEntry(events, a, e, b, end) ==
  LET t == a.r.curr + e.t
      msec == IF a.r.curr = Unknown THEN Unknown ELSE Msec(events, t)
      past == msec # Unknown /\ a.r.reading < msec
      seen == IF past
              THEN [a EXCEPT !.r.reading = msec, !.r.curr = t, !.r.next = @ + 1,
                             !.r.begin = IF @ < 0 THEN msec ELSE @]
              ELSE [a EXCEPT !.r.next = @ + 1,
                             !.r.curr = IF msec = Unknown THEN Unknown ELSE t]
      over == a.r.next = Len(events)
  IN  CASE e.kind = "absolute" -> [a EXCEPT !.r.curr = e.t, !.r.next = @ + 1]
        [] e.kind = "unknown" -> [a EXCEPT !.r.curr = Unknown, !.r.next = @ + 1]
        [] e.kind = "end" ->
             [a EXCEPT !.r = [@ EXCEPT !.chunk = IF over THEN 0 ELSE a.r.next + 1,
                                       !.next = @ + 1, !.oldPat = a.r.pat,
                                       !.begin = IF over THEN @ ELSE -1,
                                       !.curr = IF over THEN @ ELSE Unknown],
                       !.stop = over]
        [] e.kind = "relative" /\ past /\ msec >= end ->
             [a EXCEPT !.stop = TRUE,
                       !.calls = @ \o IF ~a.sent /\ a.r.pat # 0
                                      THEN <<[pid |-> 0, packs |-> 1,
                                              pmt |-> a.r.pat, id |-> 0]>>
                                      ELSE <<>>]
        [] OTHER -> PassCodes(seen, msec, b, e.codes)

\* CPsiArchiveReader::Read: the sections it passes on, and the reader afterwards.
Passing(r) == [r |-> r, calls |-> <<>>, sent |-> FALSE, stop |-> FALSE]
PsiRead(events, r, b, end) ==
  IF r.chunk = 0 /\ b > r.reading THEN Passing(r)
  ELSE FoldLeft(LAMBDA x, e : IF x.stop THEN x ELSE ReadEntry(events, x, e, b, end),
                Passing(GoBack(r, b)),
                SubSeq(events, GoBack(r, b).next, Len(events)))

-----------------------------------------------------------------------------
(* Making a block                                                          *)

One(pid, cc, n) == <<[pid |-> pid, cc |-> cc % CcMod, n |-> n]>>

\* The tables of a file without an archive.
OwnTables(k) ==
  One(0, k, k) \o One(16, k, k) \o One(17, k, k) \o One(PMT_PID, k, k)
  \o (IF k % EitPeriod = EitPeriod - 1
      THEN One(18, k \div EitPeriod, k \div EitPeriod) ELSE <<>>)
  \o (IF k % TotPeriod = 0 THEN One(20, k \div TotPeriod, k \div TotPeriod) ELSE <<>>)

\* A section the archive reader passes on, once for each packet; after the
\* first one of the PMT comes the file's own, in a full turn of the counter.
AddSection(info, x, code, k) ==
  IF code.pid = 0
  THEN IF x.pat THEN x
       ELSE [x EXCEPT !.pat = TRUE, !.pmtPid = code.pmt, !.made = @ \o One(0, k, k)]
  ELSE IF code.pid \notin DOMAIN info.mapped THEN x
  ELSE LET sent == [n \in 1 .. code.packs |->
                      [pid |-> info.mapped[code.pid],
                       cc |-> (x.cc[code.pid] + n) % CcMod, n |-> code.id + n - 1]]
           pmt == ~x.pmt /\ code.pid = x.pmtPid
       IN  [x EXCEPT !.cc[code.pid] = (@ + code.packs) % CcMod, !.pmt = @ \/ pmt,
                     !.made = @ \o sent \o
                       IF pmt THEN [n \in 1 .. CcMod |->
                                      [pid |-> PMT_PID, cc |-> n - 1,
                                       n |-> k * CcMod + n - 1]]
                       ELSE <<>>]

Sections(info, calls, k) ==
  FoldLeft(LAMBDA x, code : AddSection(info, x, code, k),
           [made |-> <<>>, pat |-> FALSE, pmt |-> FALSE, pmtPid |-> 0,
            cc |-> [p \in DOMAIN info.start |-> info.start[p][k]]], calls).made

Size(list, k) == list[k + 1].pos - list[k].pos

\* Filled with null packets up to the size that was computed.
Padded(made, size) ==
  made \o [n \in 1 .. Max({size - Len(made), 0}) |-> [pid |-> NULL_PID, cc |-> 0, n |-> 0]]

Samples(f, list, k) ==
  Flat([i \in 1 .. Len(f.tracks) |->
          LET t == f.tracks[i]
          IN  Carry(TrackPid(i), list[k].counter[i], t.packs,
                    Min({First(t, k), Len(t.packs)}), Passed(t, k + 1))])

Captions(f, list, k) ==
  Carry(CAPTION_PID, list[k].counterC, Packs(f.captions),
        CaptionsUpTo(f, k), CaptionsUpTo(f, k + 1))

\* ReadCurrentBlock for block k, given what the archive reader passes on: the
\* packets made, and the archive reader.
Block(f, list, info, read, k) ==
  [cache |-> Padded((IF f.psi = <<>> THEN OwnTables(k) ELSE Sections(info, read.calls, k))
                    \o One(PCR_PID, 0, k) \o Samples(f, list, k) \o Captions(f, list, k),
                    Size(list, k)),
   r |-> read.r]

ReadCurrentBlock(f, list, info, r, k) ==
  Block(f, list, info,
        IF f.psi = <<>> THEN Passing(r)
        ELSE PsiRead(f.psi, r, k * BlockMsec, (k + 1) * BlockMsec), k)

\* What the file would be if each block were made by a reader just opened.
Image(f, list, info) ==
  Flat([k \in 1 .. Cardinality(DOMAIN list) - 1 |->
          ReadCurrentBlock(f, list, info, Opened, k - 1).cache])

-----------------------------------------------------------------------------
(* Reading and seeking                                                     *)

End == Cardinality(DOMAIN blockList) - 1
GetSize == blockList[End].pos
Pos == blockList[blk].pos + ptr

\* The block a position is in; the last one for a position past the end.
BlockOf(p) == CHOOSE k \in 0 .. End :
                /\ blockList[k].pos <= p
                /\ k < End => p < blockList[k + 1].pos

\* Up to n packets are taken from the block, which is left when its end is
\* reached.
Take(x, block, n) ==
  LET m == Min({n, Len(block.cache) - x.ptr})
      left == x.ptr + m >= Len(block.cache)
  IN  [out |-> x.out \o SubSeq(block.cache, x.ptr + 1, x.ptr + m),
       r |-> block.r,
       blk |-> IF left THEN x.blk + 1 ELSE x.blk,
       cache |-> IF left THEN <<>> ELSE block.cache,
       ptr |-> IF left THEN 0 ELSE x.ptr + m]

\* One turn of Read's loop: the block is made if it is not there.
Turn(x, n) ==
  IF Len(x.out) >= n \/ (x.cache = <<>> /\ x.blk = End) THEN x
  ELSE Take(x, IF x.cache # <<>> THEN [cache |-> x.cache, r |-> x.r]
               ELSE ReadCurrentBlock(mp4, blockList, psiInfo, x.r, x.blk),
            n - Len(x.out))

Becomes(x) ==
  /\ out' = x.out /\ psi' = x.r /\ blk' = x.blk /\ cache' = x.cache /\ ptr' = x.ptr
  /\ UNCHANGED <<mp4, blockList, psiInfo, image>>

\* The turns; after one for each block there is nothing more.
Turns(n) ==
  LET f[i \in 0 .. End + 1] ==
        IF i = 0 THEN [out |-> <<>>, r |-> psi, blk |-> blk, cache |-> cache, ptr |-> ptr]
        ELSE Turn(f[i - 1], n)
  IN  f
Read(n) == Becomes(Turns(n)[End + 1])

\* SetPointer: the block stays made when the position remains in it.
SetPointer(p) ==
  /\ blk' = BlockOf(p)
  /\ cache' = IF BlockOf(p) = blk THEN cache ELSE <<>>
  /\ ptr' = p - blockList[BlockOf(p)].pos
  /\ out' = NotRead
  /\ UNCHANGED <<mp4, blockList, psiInfo, psi, image>>

\* A seek to a time goes to the start of its block, or to the end.
BytesFromMsec(msec) == blockList[Min({msec \div BlockMsec, End})].pos

Seek == \E msec \in SeekTimes : SetPointer(BytesFromMsec(msec))

\* Other moves: a few packets back or on (what ReadToPcr has read too much),
\* and past the end.
Move == \E p \in ({Pos - 1, Pos + 1} \cap 0 .. GetSize) \cup {GetSize + 1} : SetPointer(p)

-----------------------------------------------------------------------------

Lists(sections) ==
  /\ blockList = BlockList(mp4, sections)
  /\ psiInfo = [mapped |-> sections.mapped, start |-> sections.start]

\* Open has computed the lists and stands at the beginning.
Init ==
  /\ mp4 \in Files
  /\ Lists(CountSections(mp4))
  /\ blk = 0 /\ cache = <<>> /\ ptr = 0
  /\ psi = Opened /\ out = <<>>
  /\ image = Image(mp4, blockList, psiInfo)

Next ==
  \/ \E n \in ReadSizes : Read(n)
  \/ Seek
  \/ Move

Spec == Init /\ [][Next]_vars

-----------------------------------------------------------------------------

\* The packets of some pids, in their order.
Picked(pids) ==
  Flat([i \in 1 .. Len(image) |-> IF image[i].pid \in pids THEN <<image[i]>> ELSE <<>>])
Of(pid) == Picked({pid})

\* The packets of a pid are all there, in their order, and their continuity
\* counters go on from block to block.
Whole(pid, total, cc) ==
  /\ Len(Of(pid)) = total
  /\ \A j \in 1 .. total : Of(pid)[j].n = j - 1 /\ Of(pid)[j].cc = (cc + j - 1) % CcMod

\* No caption is in the first CaptionForward: such a one is counted in block 0
\* and made in none, for the search for those of block 0 begins behind it.
NoneEarly(f) == \A i \in 1 .. Len(f.captions) : f.captions[i].time >= CaptionForward

\* The stream holds every caption up to what its last block looks forward to:
\* all those that InitializeBlockList counted, sent early as in a broadcast.
CaptionsMade ==
  Whole(CAPTION_PID, Before(Packs(mp4.captions), CaptionsUpTo(mp4, End)), 0)

\* The stream holds every sample of the file once, every caption if none is
\* early (one that is early is lost), and as many packets of sections as the
\* archive's list counted, each pid on its own: what each block begins with,
\* found by a division or a search, is what the one before ended with, and the
\* counters are those computed when opening.
AllMade ==
  /\ \A i \in 1 .. Len(mp4.tracks) : Whole(TrackPid(i), Sum(mp4.tracks[i].packs), 0)
  /\ NoneEarly(mp4) => CaptionsMade
  /\ \A p \in DOMAIN psiInfo.mapped :
       LET pid == psiInfo.mapped[p] IN Whole(pid, Len(Of(pid)), 1)
  /\ LET counted == CountSections(mp4).size
     IN  Len(Picked({psiInfo.mapped[p] : p \in DOMAIN psiInfo.mapped}))
           = Sum([k \in 1 .. End |-> counted[k - 1]])

\* The file is what its blocks are together: a read returns what is at its
\* position, whatever was read and sought before (SetPointer's cached block,
\* the archive reader's going back).  So the archive reader never passes on a
\* section that was not counted for the block: the block would be longer than
\* the room it was given, and what follows it would not be where it is sought.
Plain == INSTANCE PlainFile WITH data <- image, pos <- Pos
IsPlainFile == Plain!Spec
=============================================================================
