------------------------------- MODULE MCMmts ----------------------------------
(* Recordings and edit lists to open: see the bounds in the README. *)
EXTENDS MmtsFile

\* A fragment that begins an access unit has its time; one that follows has none.
Unit(stream, pts, packs) ==
  [stream |-> stream, pts |-> pts, first |-> TRUE, last |-> TRUE, packs |-> packs, lost |-> FALSE]
Begin(stream, pts, packs) == [Unit(stream, pts, packs) EXCEPT !.last = FALSE]
More(stream) == [Unit(stream, -1, 1) EXCEPT !.first = FALSE, !.last = FALSE]
End(stream) == [More(stream) EXCEPT !.last = TRUE]
Untimed(stream) == Unit(stream, -1, 1)
Loss(stream) == [Unit(stream, -1, 0) EXCEPT !.lost = TRUE]
Audio == 1

\* One of the points is within an access unit.
Recording ==
  [frags |-> << Begin(Video, 10, 2), End(Video), Unit(Audio, 11, 1), Unit(Video, 12, 0),
                Begin(Video, 14, 1), More(Video), Unit(Audio, 13, 1), End(Video),
                Begin(Video, 15, 1), Loss(Video), End(Video),
                Begin(Video, 16, 2), Unit(Audio, 17, 1), End(Video), Untimed(Audio),
                Unit(Video, 19, 1), Unit(Video, 18, 1), Unit(Audio, 19, 1) >>,
   points |-> << [time |-> 0, offset |-> 0], [time |-> 4, offset |-> 4],
                 [time |-> 5, offset |-> 6], [time |-> 6, offset |-> 11] >>,
   segments |-> <<>>, firstPts |-> 10, duration |-> 10]

Cut(a, b) == [start |-> a, end |-> b, program |-> 0]
After(s, a, b) ==
  Append(s, [start |-> a, end |-> b,
             program |-> s[Len(s)].program + s[Len(s)].end - s[Len(s)].start])

Ends == {0, 2, 5, 7, 10}
Cuts == {x \in Ends \X Ends : x[1] < x[2]}
Edited(segments) == [Recording EXCEPT !.segments = segments]

MCMovies ==
  {Recording, Edited(After(After(<<Cut(6, 7)>>, 1, 3), 2, 9))}
  \cup {Edited(<<Cut(x[1], x[2])>>) : x \in Cuts}
  \cup {Edited(After(<<Cut(x[1], x[2])>>, y[1], y[2])) : x \in Cuts, y \in Cuts}
=============================================================================
