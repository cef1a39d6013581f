------------------------------- MODULE MmtsFile --------------------------------
(***************************************************************************)
(* CReadOnlyMmtsFile: an MMT/TLV recording converted to a transport stream *)
(* while it is read, whole or by an edit list (.mmtsedit) that strings     *)
(* segments of it together.  The converted bytes have no position of their *)
(* own: they are counted from the last seek, and only those of a window    *)
(* that Read keeps can be gone back to.  The window has to hold what the   *)
(* read-ahead may give back (SetRewindSize) across input chunks and across *)
(* the joins of segments.                                                  *)
(*                                                                         *)
(* The converter is dantto4k's; what TvtPlay puts around it is here: the   *)
(* gate that keeps or drops the fragments of an access unit, and the end   *)
(* of a segment.  A recording is its fragments in file order; the demuxer's*)
(* own state is left out, it gets whole fragments.                         *)
(***************************************************************************)
EXTENDS Integers, Sequences, FiniteSets, FiniteSetsExt

CONSTANTS
  Movies,      \* the recordings, with their maps and edit lists, see Movie
  ChunkSize,   \* fragments one input read takes (INPUT_CHUNK_SIZE)
  TsReadSizes, \* packets a read asks for
  MovieTimes,  \* times that are sought
  RewindSize   \* what the read-ahead may give back

(***************************************************************************)
(* A fragment of an access unit (stream 0 is the video, pts -1 is none) and*)
(* the packets it becomes, or a loss the demuxer reports for its stream.   *)
(* points are the map's random access points; firstPts what the recording's*)
(* times begin at; a segment is a range of the source and where the program*)
(* has it.                                                                 *)
(***************************************************************************)
Fragment == [stream : Nat, pts : Int, first : BOOLEAN, last : BOOLEAN,
             packs : Nat, lost : BOOLEAN]
Point == [time : Nat, offset : Nat]
Segment == [start : Nat, end : Nat, program : Nat]
Movie == [frags : Seq(Fragment), points : Seq(Point), segments : Seq(Segment),
          firstPts : Nat, duration : Nat]

\* What LoadMap and LoadEdit check and compute; and of an access unit only the first
\* fragment has a time (MmtsEditGate keeps its decision for those without).
MoviesAssumption ==
  /\ ChunkSize \in Nat \ {0} /\ RewindSize \in Nat \ {0} /\ TsReadSizes \subseteq Nat \ {0}
  /\ Movies \subseteq Movie
  /\ \A m \in Movies :
       /\ \A i \in 1 .. Len(m.frags) : m.frags[i].pts >= 0 => m.frags[i].first
       /\ \A i \in 1 .. Len(m.points) : m.points[i].offset <= Len(m.frags)
       /\ \A i \in 1 .. Len(m.segments) :
            /\ m.segments[i].start < m.segments[i].end
            /\ i = 1 => m.segments[i].program = 0
            /\ i > 1 => m.segments[i].program =
                          m.segments[i - 1].program
                          + m.segments[i - 1].end - m.segments[i - 1].start

VARIABLES
  movie,     \* the open recording
  conv,      \* where the conversion is, see Conversion
  output,    \* m_output: the window
  offset,    \* m_outputOffset: the position in it
  position,  \* m_position: from the last seek on
  sought,    \* m_seekMsec: where that was, -1 before the first
  rewind,    \* m_rewindSize
  out,       \* history: what the last call returned, if it was a Read
  image      \* history: all that is converted from the last seek on

vars == <<movie, conv, output, offset, position, sought, rewind, out, image>>

\* The last call was no read, or one that failed.
NotRead == <<[read |-> FALSE]>>

Video == 0
NoSegment == 0

(***************************************************************************)
(* The conversion: the next fragment of the input, m_editCurrentSegment    *)
(* (from 1), m_eof, the gate's decision for the access unit each stream is *)
(* in, and m_segmentComplete.                                              *)
(***************************************************************************)
Streams(m) == {m.frags[i].stream : i \in 1 .. Len(m.frags)}
Undecided(m) == [s \in Streams(m) |-> "none"]

\* The last point not after msec; points are in the order of their times.
FindSourceOffset(m, msec) ==
  LET passed == {i \in 1 .. Len(m.points) : m.points[i].time <= msec}
  IN  IF passed = {} THEN 0 ELSE m.points[Cardinality(passed)].offset

\* Slip: the gate keeps the decisions of the segment before.
StartAtKeeping(m, segment, msec) ==
  [next |-> FindSourceOffset(m, msec), segment |-> segment, eof |-> FALSE,
   gate |-> [s \in Streams(m) |-> "in"], complete |-> FALSE]

\* Reset clears the gate, and SetEditSegment sets its range.
StartAt(m, segment, msec) ==
  [next |-> FindSourceOffset(m, msec), segment |-> segment, eof |-> FALSE,
   gate |-> Undecided(m), complete |-> FALSE]

Duration(m) ==
  IF m.segments = <<>> THEN m.duration
  ELSE LET s == m.segments[Len(m.segments)] IN s.program + s.end - s.start

\* The time of a source and of the program; the gate's range is of the former.
From(m, s) == m.firstPts + m.segments[s].start
Till(m, s) == m.firstPts + m.segments[s].end
Shift(m, s) == m.segments[s].start - m.segments[s].program

\* The gate's decision for a fragment: by its time, or as for those before it.
Decision(m, segment, gate, f) ==
  IF f.pts < 0 THEN IF f.first THEN "none" ELSE gate[f.stream]
  ELSE IF f.pts >= From(m, segment) /\ f.pts < Till(m, segment) THEN "in" ELSE "out"

Packets(m, segment, i) ==
  [k \in 1 .. m.frags[i].packs |->
     [segment |-> segment, frag |-> i, part |-> k,
      at |-> IF m.frags[i].pts < 0 THEN -1
             ELSE IF segment = NoSegment THEN m.frags[i].pts
             ELSE m.frags[i].pts - Shift(m, segment)]]

\* One fragment through the handler: x is the gate, whether the segment is complete,
\* and what was made.
Convert(m, segment, x, i) ==
  LET f == m.frags[i]
      d == Decision(m, segment, x.gate, f)
  IN  IF segment = NoSegment
      THEN [x EXCEPT !.made = IF f.lost THEN @ ELSE @ \o Packets(m, segment, i)]
      ELSE IF f.lost THEN [x EXCEPT !.gate[f.stream] = "none"]
      ELSE [gate |-> [x.gate EXCEPT ![f.stream] = IF f.last THEN "none" ELSE d],
            complete |-> x.complete \/ (f.stream = Video /\ f.pts >= Till(m, segment)),
            made |-> IF d = "in" THEN x.made \o Packets(m, segment, i) ELSE x.made]

\* The fragments of the input one after the other.
Converted(m, c) ==
  LET f[k \in 0 .. Len(m.frags) - c.next] ==
        IF k = 0 THEN [gate |-> c.gate, complete |-> c.complete, made |-> <<>>]
        ELSE Convert(m, c.segment, f[k - 1], c.next + k)
  IN  f

\* AdvanceEditSegment: the next segment, or the end after the last one.
NextSegment(m, c) ==
  IF c.segment = Len(m.segments) THEN [c EXCEPT !.eof = TRUE]
  ELSE StartAt(m, c.segment + 1, m.segments[c.segment + 1].start)

\* One turn of FillOutput's loop: the next segment when this one is complete
\* or the input ends, else a chunk of input is converted.
Turn(m, c) ==
  LET n == Min({ChunkSize, Len(m.frags) - c.next})
      x == Converted(m, c)[n]
  IN  IF c.segment # NoSegment /\ (c.complete \/ c.next = Len(m.frags))
      THEN [c |-> NextSegment(m, c), made |-> <<>>]
      ELSE IF c.next = Len(m.frags) THEN [c |-> [c EXCEPT !.eof = TRUE], made |-> <<>>]
      ELSE [c |-> [c EXCEPT !.next = c.next + n, !.gate = x.gate, !.complete = x.complete],
            made |-> x.made]

\* No conversion takes more turns: each takes in a fragment, or a segment is over.
TurnsMax(m) == (Len(m.segments) + 1) * (Len(m.frags) + 1)

\* The conversion after each turn from c on, and all that was made by then.
Course(m, c) ==
  LET f[k \in 0 .. TurnsMax(m)] ==
        IF k = 0 THEN [c |-> c, made |-> <<>>]
        ELSE LET x == f[k - 1]
                 t == Turn(m, x.c)
             IN  IF x.c.eof THEN x ELSE [c |-> t.c, made |-> x.made \o t.made]
  IN  f

\* All that is converted from here on.
Rest(m, c) == Course(m, c)[TurnsMax(m)].made

-----------------------------------------------------------------------------
(* Reading                                                                 *)

\* Slip: only the packets not read yet are kept.
TrimmedAll(w) == <<>>

\* What stays of the window when new output comes: the last rewind packets.
Trimmed(w) == SubSeq(w, Len(w) - Min({rewind, Len(w)}) + 1, Len(w))

\* FillOutput: turns until there is something to read, or nothing more.
Enough(x) == x.c.eof \/ x.made # <<>>
Turns ==
  IF offset < Len(output) THEN 0
  ELSE CHOOSE k \in 0 .. TurnsMax(movie) :
         /\ Enough(Course(movie, conv)[k])
         /\ \A j \in 0 .. k - 1 : ~ Enough(Course(movie, conv)[j])

\* New output follows what stays, from where it is read; one chunk of it at most is
\* returned, and nothing at the end.
ReadAfter(x, n) ==
  LET stays == IF x.made = <<>> THEN output ELSE Trimmed(output)
      start == IF x.made = <<>> THEN offset ELSE Len(stays)
      count == Min({Len(stays \o x.made) - start, n})
  IN  /\ conv' = x.c /\ output' = stays \o x.made /\ offset' = start + count
      /\ position' = position + count
      /\ out' = SubSeq(output', start + 1, start + count)
      /\ UNCHANGED <<movie, sought, rewind, image>>
Read(n) == ReadAfter(Course(movie, conv)[Turns], n)

\* The input cannot be read, or moved in to the next segment, in some turn;
\* what was converted before it stays.
ReadFails ==
  \E k \in 0 .. Turns - 1 :
    /\ conv' = Course(movie, conv)[k].c /\ out' = NotRead
    /\ UNCHANGED <<movie, output, offset, position, sought, rewind, image>>

-----------------------------------------------------------------------------
(* Seeking                                                                 *)

\* The segment that has a time of the program, and where in the source it is.
SegmentAt(m, msec) ==
  CHOOSE i \in 1 .. Len(m.segments) :
    /\ i = Len(m.segments) \/ msec < m.segments[i + 1].program
    /\ i > 1 => msec >= m.segments[i].program
SourceTime(m, msec) ==
  LET s == m.segments[SegmentAt(m, msec)] IN s.start + msec - s.program

ConversionAt(m, msec) ==
  IF msec = Duration(m)
  THEN [StartAt(m, IF m.segments = <<>> THEN NoSegment ELSE Len(m.segments), msec)
          EXCEPT !.eof = TRUE]
  ELSE IF m.segments = <<>> THEN StartAt(m, NoSegment, msec)
  ELSE StartAt(m, SegmentAt(m, msec), SourceTime(m, msec))

\* Back at 0 while the window still begins there: nothing is converted again.
FromWindow(msec) ==
  msec = 0 /\ sought = 0 /\ output # <<>> /\ position = offset

SeekToMsec(msec) ==
  /\ msec \in 0 .. Duration(movie)
  /\ position' = 0 /\ offset' = 0 /\ out' = NotRead
  /\ IF FromWindow(msec) THEN UNCHANGED <<conv, output, sought, image>>
     ELSE /\ conv' = ConversionAt(movie, msec)
          /\ output' = <<>>
          /\ sought' = msec
          /\ image' = Rest(movie, conv')
  /\ UNCHANGED <<movie, rewind>>

\* SetPointer: only in the window, or to 0, which begins the recording again.
SetPointer(target) ==
  IF target # position /\ target \notin position - offset .. position - offset + Len(output)
  THEN IF target = 0 THEN SeekToMsec(0)
       ELSE out' = NotRead /\ UNCHANGED <<movie, conv, output, offset, position,
                                          sought, rewind, image>>
  ELSE /\ offset' = offset + target - position /\ position' = target /\ out' = NotRead
       /\ UNCHANGED <<movie, conv, output, sought, rewind, image>>

-----------------------------------------------------------------------------

\* Open has sought 0.
Init ==
  /\ movie \in Movies
  /\ conv = ConversionAt(movie, 0)
  /\ output = <<>> /\ offset = 0 /\ position = 0 /\ sought = 0 /\ rewind = 0
  /\ out = <<>> /\ image = Rest(movie, conv)

\* CTsSender::Open: the first packets are read before there is a read-ahead,
\* and then sought again.
Probe == rewind = 0 /\ position = 0 /\ \E n \in TsReadSizes : Read(n)

SetupBuffer ==
  /\ rewind = 0 /\ rewind' = RewindSize
  /\ UNCHANGED <<movie, conv, output, offset, position, sought, out, image>>

\* The read-ahead gives back at most what it holds.
GiveBack == \E d \in 1 .. rewind : d <= position /\ SetPointer(position - d)

Next ==
  \/ Probe
  \/ SetupBuffer
  \/ /\ rewind > 0
     /\ \/ \E n \in TsReadSizes : Read(n)
        \/ ReadFails
        \/ GiveBack
        \/ SetPointer(0)
        \/ \E msec \in MovieTimes : SeekToMsec(msec)

Spec == Init /\ [][Next]_vars

-----------------------------------------------------------------------------

\* The window reaches back over what the read-ahead may have taken, or to the
\* last seek: its bytes can be given back across chunks and joins of segments,
\* or the next read would go on too far (Flush does not look whether SetPointer
\* failed, and the probe of Open is sought again).
WindowReaches ==
  \/ position = offset
  \/ Len(output) >= rewind

\* The fragments of stream st from the one that begins the access unit i is in.
Begun(st, i) ==
  LET firsts == {j \in 1 .. i : movie.frags[j].stream = st /\ movie.frags[j].first}
  IN  {j \in 1 .. i : movie.frags[j].stream = st /\ firsts # {} /\ \A g \in firsts : g <= j}

\* The fragments whose packets of segment s are in a list.
Made(list, s) == {list[k].frag : k \in {j \in 1 .. Len(list) : list[j].segment = s}}

\* A packet's time is in the program's range of its segment.
InRange(x) ==
  LET s == movie.segments[x.segment]
  IN  x.at >= 0 => x.at \in movie.firstPts + s.program
                            .. movie.firstPts + s.program + s.end - s.start - 1

\* Of the access unit of a packet nothing up to it is missing or lost.
Whole(list, x) ==
  LET begun == Begun(movie.frags[x.frag].stream, x.frag)
  IN  /\ begun # {}
      /\ \A j \in begun : /\ ~ movie.frags[j].lost
                          /\ movie.frags[j].packs > 0 => j \in Made(list, x.segment)

\* The order of the segments, and in them that of the source.
Before(x, y) ==
  \/ x.segment < y.segment
  \/ /\ x.segment = y.segment
     /\ x.frag < y.frag \/ (x.frag = y.frag /\ x.part < y.part)

\* Where the conversion of a segment begins, from what was sought on, and where it
\* ends in the program.
BeginOf(s) ==
  FindSourceOffset(movie, IF movie.segments[s].program <= sought THEN SourceTime(movie, sought)
                          ELSE movie.segments[s].start)
EndOf(s) == movie.segments[s].program + movie.segments[s].end - movie.segments[s].start

\* The video of a segment, up to the first that is past its end.
Belongs(s, i) ==
  LET f == movie.frags[i]
  IN  /\ f.stream = Video /\ ~ f.lost /\ f.packs > 0 /\ f.pts >= From(movie, s)
      /\ \A j \in BeginOf(s) + 1 .. i :
           movie.frags[j].stream = Video => movie.frags[j].pts < Till(movie, s)

\* The program is cut as the edit list says.  What a segment gives has its
\* times in the program's range of it and comes in the order of the segments
\* and the source; of an access unit there is nothing without its beginning,
\* and nothing past a loss; and the video of a segment is all there, from the
\* point before what was sought, up to the first that is past its end.
CutRight ==
  /\ \A k \in 1 .. Len(image) :
       image[k].segment # NoSegment =>
         /\ InRange(image[k]) /\ Whole(image, image[k])
         /\ k > 1 => Before(image[k - 1], image[k])
  /\ \A s \in 1 .. Len(movie.segments) : sought < EndOf(s) =>
       \A i \in BeginOf(s) + 1 .. Len(movie.frags) : Belongs(s, i) => i \in Made(image, s)

\* A read returns what follows what was read, whatever was given back, failed
\* or joined meanwhile, and nothing only at the end.
Plain == INSTANCE PlainFile WITH data <- image, pos <- position
IsPlainFile == Plain!Spec
=============================================================================
