--------------------------------- MODULE MCMp4 ---------------------------------
(* Files to open: see the bounds in the README. *)
EXTENDS Mp4File

Pat(pmt) == [pid |-> 0, packs |-> 1, pmt |-> pmt, id |-> 0]
Sec(pid, packs, id) == [pid |-> pid, packs |-> packs, pmt |-> 0, id |-> id]
Rel(t, codes) == [kind |-> "relative", t |-> t, codes |-> codes]
Abs(t) == [kind |-> "absolute", t |-> t, codes |-> <<>>]
NoTime == [kind |-> "unknown", t |-> 0, codes |-> <<>>]
ChunkEnd == [kind |-> "end", t |-> 0, codes |-> <<>>]

Video == [scale |-> 24, delta |-> 3, times |-> <<>>, packs |-> <<2, 1, 3, 1>>]
Audio == [scale |-> 48, delta |-> 0, times |-> <<0, 5, 9, 14>>, packs |-> <<1, 1, 0, 1>>]

\* Sound that ends before the video, its times by division.
Short == [scale |-> 48, delta |-> 6, times |-> <<>>, packs |-> <<1, 2>>]

\* A video with sound and captions and no archive.
Captioned == [tracks |-> <<Video, Audio>>,
              captions |-> << [time |-> 500, packs |-> 1], [time |-> 790, packs |-> 2],
                              [time |-> 800, packs |-> 1] >>,
              psi |-> <<>>]

\* The same with a caption in the first CaptionForward.
Early == [Captioned EXCEPT !.captions = <<[time |-> 200, packs |-> 3]>> \o @]

\* An archive of two chunks that meet within a block: pids the file uses
\* itself or moves to, times that go back, and sections without a time.
Archived ==
  [tracks |-> <<[Video EXCEPT !.packs = <<2, 1, 1, 1>>]>>, captions |-> <<>>,
   psi |-> << Abs(1000),
              Rel(0, <<Pat(1281), Sec(1281, 1, 0), Sec(256, 2, 0)>>),
              Rel(120, <<Pat(1281), Sec(1281, 1, 1), Sec(7681, 1, 0)>>),
              Rel(60, <<Sec(256, 1, 2)>>), ChunkEnd,
              Abs(1190), Rel(0, <<Pat(1281), Sec(1281, 1, 2)>>),
              Rel(130, <<Sec(1281, 1, 3)>>),
              Abs(1150), Rel(0, <<Sec(256, 1, 100)>>),
              Abs(1330), Rel(0, <<Sec(7681, 1, 1)>>),
              NoTime, Rel(0, <<Pat(1281), Sec(1281, 1, 101)>>), ChunkEnd >>]

\* An archive with a pause between its chunks.
Paused ==
  [tracks |-> <<[Video EXCEPT !.packs = <<1, 1, 1, 1>>]>>, captions |-> <<>>,
   psi |-> << Abs(1000), Rel(0, <<Pat(1281), Sec(1281, 1, 0)>>),
              Rel(120, <<Sec(1281, 1, 1)>>), ChunkEnd,
              Abs(1350), Rel(0, <<Pat(1281), Sec(1281, 1, 2)>>), ChunkEnd >>]

\* Every archive of two chunks with two sections each at these times, the first
\* later than any before in the second chunk being in the block of the latest
\* of the first chunk, or there being none.
Times == {0, 60, 120, 250}
Joined(a, b, c, d) ==
  LET at(t) == (Wrap + t - a) % Wrap
      m == at(b)
      later == SelectSeq(<<at(c), at(d)>>, LAMBDA t : t > m)
  IN  later # <<>> => later[1] \div BlockMsec = m \div BlockMsec
TimesOf(a, b, c, d) ==
  [tracks |-> <<[Video EXCEPT !.packs = <<1, 1, 1>>]>>, captions |-> <<>>,
   psi |-> << Abs(1000 + a), Rel(0, <<Sec(7681, 1, 0), Pat(1281)>>),
              Abs(1000 + b), Rel(0, <<Sec(1281, 1, 0)>>), ChunkEnd,
              Abs(1000 + c), Rel(0, <<Pat(1281), Sec(256, 2, 0)>>),
              Abs(1000 + d), Rel(0, <<Sec(7682, 1, 0)>>), ChunkEnd >>]

MCFiles ==
  {Captioned, Early, [Captioned EXCEPT !.tracks = <<Video, Short>>], Archived}
  \cup {[Captioned EXCEPT !.tracks = <<[Video EXCEPT !.scale = s, !.delta = d]>>]
          : s \in {25, 30}, d \in {1, 2, 5}}
  \cup {TimesOf(x[1], x[2], x[3], x[4])
          : x \in {y \in Times \X Times \X Times \X Times : Joined(y[1], y[2], y[3], y[4])}}
MCPaused == {Paused}
=============================================================================
