------------------------------ MODULE SenderFile -------------------------------
(***************************************************************************)
(* The file a sender reads (CTsSender::m_file): an MP4 file, an MMT/TLV    *)
(* recording or a transport stream, by the path's extension.  The first    *)
(* two are converted while they are read and know their times; in the last *)
(* a time is searched for by the clocks it carries ("ts"), its packets     *)
(* are read, filtered and sent ("packets"), and it may still be recorded   *)
(* ("growing").                                                            *)
(***************************************************************************)
EXTENDS Integers, Sequences

CONSTANTS
  Kinds,  \* the kinds of files that are opened
  \* Mp4File
  Files, ReadSizes, SeekTimes, BlockMsec, CaptionForward, CcMod, EitPeriod, TotPeriod,
  BlockListMax, PsiMax, Wrap,
  \* MmtsFile
  Movies, ChunkSize, TsReadSizes, MovieTimes, RewindSize,
  \* SeekSearch
  Last, Gap, Steps, Wanted, Second, Tol, Store, Tries,
  \* Transfer
  Recordings, Written, UnitSize, ReadLengths, SendMax, Interval, SyncLen, ResyncMax, Limit, PidsMax,
  Elects, Replaces,
  \* Growth
  Recorded, Rate, RenewSize, RenewFsr, BufSize, Calls, Speeds, Backs, Reserve, BreakMax, TimeMax

VARIABLES
  kind,
  mp4, blockList, psiInfo, blk, cache, ptr, psi,
  movie, conv, output, offset, position, sought, rewind,
  clk, at, pos, prev, msec, next, rate, tries, phase, found, goal,
  stream, size, step, mode, left, misses, clock, head, curr, tail, lastPos, pcr, lastSent,
  pcrPid, counts, filter, sent, from, lost, skips,
  content, reserves, recording, fileState, fileSize, duration, sinceSize, sinceDur, sinceFsr,
  forceSync, played, speed, now, breaks, judged,
  out, image

forMp4 == <<mp4, blockList, psiInfo, blk, cache, ptr, psi>>
forMmts == <<movie, conv, output, offset, position, sought, rewind>>
forTs == <<clk, at, pos, prev, msec, next, rate, tries, phase, found, goal>>
forPackets == <<stream, size, step, mode, left, misses, clock, head, curr, tail, lastPos, pcr,
                lastSent, pcrPid, counts, filter, sent, from, lost, skips>>
forGrowing == <<content, reserves, recording, fileState, fileSize, duration, sinceSize, sinceDur,
                sinceFsr, forceSync, played, speed, now, breaks, judged>>
read == <<out, image>>
vars == <<kind, forMp4, forMmts, forTs, forPackets, forGrowing, read>>

Mp4 == INSTANCE Mp4File
Mmts == INSTANCE MmtsFile
Ts == INSTANCE SeekSearch WITH i <- tries
Sending == INSTANCE Transfer
Growing == INSTANCE Growth

ASSUME FileAssumption ==
  /\ Kinds \subseteq {"mp4", "mmts", "ts", "packets", "growing"}
  /\ Mp4!FilesAssumption /\ Mmts!MoviesAssumption /\ Ts!SeekAssumption
  /\ Sending!TransferAssumption /\ Growing!GrowthAssumption

\* What belongs to the other kinds is not there.
NoMp4 ==
  /\ mp4 = 0 /\ blockList = 0 /\ psiInfo = 0 /\ blk = 0 /\ cache = 0 /\ ptr = 0
  /\ psi = 0
NoMmts ==
  /\ movie = 0 /\ conv = 0 /\ output = 0 /\ offset = 0 /\ position = 0 /\ sought = 0
  /\ rewind = 0
NoTs ==
  /\ clk = 0 /\ at = 0 /\ pos = 0 /\ prev = 0 /\ msec = 0 /\ next = 0 /\ rate = 0
  /\ tries = 0 /\ phase = "none" /\ found = FALSE /\ goal = 0
NoPackets ==
  /\ stream = 0 /\ size = 0 /\ step = "none" /\ mode = "none" /\ left = 0 /\ misses = 0
  /\ clock = FALSE /\ head = 0 /\ curr = 0 /\ tail = 0 /\ lastPos = 0 /\ pcr = 0 /\ lastSent = 0
  /\ pcrPid = "none" /\ counts = 0 /\ filter = 0 /\ sent = 0 /\ from = 0 /\ lost = 0 /\ skips = 0
NotGrowing ==
  /\ content = 0 /\ reserves = FALSE /\ recording = FALSE /\ fileState = "none" /\ fileSize = 0
  /\ duration = 0 /\ sinceSize = 0 /\ sinceDur = 0 /\ sinceFsr = 0 /\ forceSync = FALSE
  /\ played = 0 /\ speed = 0 /\ now = 0 /\ breaks = 0 /\ judged = FALSE
NothingRead == out = <<>> /\ image = <<>>

Init ==
  /\ kind \in Kinds
  /\ \/ kind = "mp4" /\ Mp4!Init /\ NoMmts /\ NoTs /\ NoPackets /\ NotGrowing
     \/ kind = "mmts" /\ Mmts!Init /\ NoMp4 /\ NoTs /\ NoPackets /\ NotGrowing
     \/ kind = "ts" /\ Ts!Init /\ NoMp4 /\ NoMmts /\ NoPackets /\ NotGrowing /\ NothingRead
     \/ kind = "packets" /\ Sending!Init /\ NoMp4 /\ NoMmts /\ NoTs /\ NotGrowing /\ NothingRead
     \/ kind = "growing" /\ Growing!Init /\ NoMp4 /\ NoMmts /\ NoTs /\ NoPackets /\ NothingRead

Next ==
  /\ \/ kind = "mp4" /\ Mp4!Next /\ UNCHANGED <<forMmts, forTs, forPackets, forGrowing>>
     \/ kind = "mmts" /\ Mmts!Next /\ UNCHANGED <<forMp4, forTs, forPackets, forGrowing>>
     \/ kind = "ts" /\ Ts!Next /\ UNCHANGED <<forMp4, forMmts, forPackets, forGrowing, read>>
     \/ kind = "packets" /\ Sending!Next /\ UNCHANGED <<forMp4, forMmts, forTs, forGrowing, read>>
     \/ kind = "growing" /\ Growing!Next /\ UNCHANGED <<forMp4, forMmts, forTs, forPackets, read>>
  /\ UNCHANGED kind

Spec == Init /\ [][Next]_vars

-----------------------------------------------------------------------------
(* What the modules of the kinds say of them.                              *)

\* The stream made of an MP4 file has every sample and section once, every
\* caption if none is early, and unbroken counters.
AllMade == kind = "mp4" => Mp4!AllMade

\* The window of converted bytes reaches back as far as may be given back.
WindowReaches == kind = "mmts" => Mmts!WindowReaches

\* A recording is cut as its edit list says.
CutRight == kind = "mmts" => Mmts!CutRight

\* A seek that succeeds in a transport stream is just before its goal.
SeekLands == kind = "ts" => Ts!Landed

\* And in a steady stream the search finds what is there.
SeekFinds == kind = "ts" => Ts!Found

\* The packets that are sent are those that follow, filtered, whatever a read returns.
SentRight == kind = "packets" => Sending!SentRight

\* The length of a file that grows is right as far as it can be.
LengthTracks == kind = "growing" => Growing!LengthTracks

\* And reading ahead stays clear of its end.
AheadInside == kind = "growing" => Growing!AheadInside

\* A converted file is one of bytes: a read returns what is at the position,
\* whatever was read, sought, given back, joined or failed before.
Plain == INSTANCE PlainFile WITH
  data <- image,
  pos <- CASE kind = "mp4" -> Mp4!Pos [] kind = "mmts" -> position [] OTHER -> 0
IsPlainFile == Plain!Spec
=============================================================================
