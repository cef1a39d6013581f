------------------------------ MODULE SeekSearch ------------------------------
(***************************************************************************)
(* Seeking by a time in a transport stream (CTsSender::Seek(int)): the     *)
(* clocks that the stream carries tell where one is, and only the average  *)
(* rate tells where to go.  The search tries at most Tries places, with a  *)
(* rate that is corrected, until it is not more than Tol away from Tol     *)
(* before the goal; from there the stream is read clock by clock.          *)
(*                                                                         *)
(* A file is its clocks, Gap bytes apart.  Times are in ticks.  Clocks     *)
(* that go back or jump stand for recordings that were cut or wrapped.     *)
(***************************************************************************)
EXTENDS Integers, FiniteSetsExt

CONSTANTS
  Last,     \* number of the last clock; the first is 0
  Gap,      \* bytes from one clock to the next
  Steps,    \* ticks from one clock to the next
  Wanted,   \* by how many ticks the user moves, forwards or backwards
  Second,   \* ticks in 1000 ms
  Tol,      \* ticks in 3000 ms
  Store,    \* INITIAL_STORE_MSEC
  Tries     \* attempts, 6 in the code

SeekAssumption ==
  /\ Last \in Nat \ {0} /\ Gap \in Nat \ {0}
  /\ Steps \subseteq Int /\ Wanted \subseteq Nat
  /\ Second \in Nat \ {0} /\ Tol \in Nat /\ Store \in 0 .. Tol /\ Tries \in Nat

Clocks == 0 .. Last
Size   == (Last + 1) * Gap

VARIABLES
  clk,     \* the clocks of the file
  at,      \* the clock read last (m_pcr)
  pos,     \* the position the next attempt starts from
  prev,    \* prevPcr, the clock that msec counts from
  msec,    \* what is left to move
  next,    \* nextMsec while reading up to the goal
  rate,    \* bytes per 1000 ms
  i,       \* attempts so far
  phase,   \* "search", "forward", "end" or "done"
  found,   \* the result, once phase is "end" or "done"
  goal     \* history: the clock the user asked for

file == <<clk, goal>>
vars == <<clk, at, pos, prev, msec, next, rate, i, phase, found, goal>>

\* Division as in C, towards zero.
Quot(a, b) == IF a < 0 THEN -((-a) \div b) ELSE a \div b

\* The clocks of a file, from the ticks between them.
ClocksOf(steps) ==
  LET c[k \in Clocks] == IF k = 0 THEN 0 ELSE c[k - 1] + steps[k] IN c

\* GetRate, the average over the file; without its limits, and with one second
\* of the file for the rate it supposes when the duration is not positive.
GetRate(c) ==
  LET duration == c[Last] - c[0]
  IN  IF duration <= 0 THEN Size ELSE (Size * Second) \div duration

\* ReadToPcr from a position: the first clock at or behind it, if there is one.
FirstClock(p) == (p + Gap - 1) \div Gap

\* The user moves.  Playback has read clock at, and the reader is somewhere
\* between it and the next one.
Init ==
  /\ \E steps \in [1 .. Last -> Steps] : clk = ClocksOf(steps)
  /\ at \in Clocks /\ pos \in {at * Gap + 1, (at + 1) * Gap}
  /\ prev = clk[at] /\ rate = GetRate(clk)
  /\ \E d \in Wanted : \E w \in {d, -d} : msec = w - Tol /\ goal = prev + w
  /\ next = 0 /\ i = 0 /\ phase = "search" /\ found = FALSE

Return(result) == phase' = "done" /\ found' = result

Outside(m) == m < -Tol \/ Tol < m

Searching == phase = "search" /\ i < Tries /\ Outside(msec)

NoFurther == \/ msec < 0 /\ pos <= rate
             \/ msec > 0 /\ pos >= Size - rate * 2

\* There is nothing left in this direction, which counts as success.
AtAnEnd ==
  /\ Searching /\ NoFurther
  /\ phase' = "end" /\ found' = TRUE
  /\ UNCHANGED <<file, at, pos, prev, msec, next, rate, i>>

\* Where the rate says the place is; not beyond 2000 ms before the end.
Approx == Max({0, Min({pos + Quot(rate * msec, Second), Size - rate * 2})})

\* From m to n it went too far: by more than half of the distance.
Overshot(m, n) ==
  /\ Outside(n)
  /\ (m < 0 /\ n > Quot(-m, 2)) \/ (m > 0 /\ n < Quot(-m, 2))

FellShort(m, n) == (m < 0 /\ n * 2 < m) \/ (m > 0 /\ n * 2 > m)

\* Slip: an attempt that went too far is made again at the same rate.
SlowerNot == rate

Slower == (rate * 2) \div 3
Faster == (rate * 3) \div 2

\* Slip: the clock the distance counts from stays that of the start.
KeepPos(a, c) == pos' = a /\ prev' = prev

\* The search goes on from position a, whose clock is c.
Keep(a, c) == pos' = a /\ prev' = c

\* No clock behind the place: Seek(__int64) goes back to where the reader was,
\* behind the clock read last, and reads on to the next.
AttemptFails ==
  /\ Searching /\ ~NoFurther /\ FirstClock(Approx) > Last
  /\ Return(FALSE)
  /\ at' = Min({at + 1, Last})
  /\ UNCHANGED <<file, pos, prev, msec, next, rate, i>>

\* Seek(__int64) to the place reads its clock.  An attempt that went too far is
\* made again from the old position with a lower rate.
Attempt ==
  LET c == FirstClock(Approx)
      n == msec - (clk[c] - prev)
  IN
  /\ Searching /\ ~NoFurther /\ c <= Last
  /\ at' = c /\ i' = i + 1
  /\ \/ /\ Overshot(msec, n)
        /\ rate' = Slower
        /\ UNCHANGED <<pos, prev, msec>>
     \/ /\ ~Overshot(msec, n)
        /\ Keep(Approx, clk[c]) /\ msec' = n
        /\ rate' = IF FellShort(msec, n) THEN Faster ELSE rate
  /\ UNCHANGED <<file, next, phase, found>>

Ahead == msec + Tol

\* The place is near enough, or the attempts are used up.
SearchEnds ==
  /\ phase = "search" /\ ~Searching
  /\ \/ /\ Outside(msec)
        /\ Return(FALSE)
        /\ UNCHANGED <<msec, next>>
     \/ /\ ~Outside(msec)
        /\ phase' = "forward" /\ msec' = Ahead /\ next' = Ahead
        /\ UNCHANGED found
  /\ UNCHANGED <<file, at, pos, prev, rate, i>>

\* Read on to the next clock, unless the goal is near enough.
Forward ==
  /\ phase = "forward" /\ Store < next /\ next <= msec /\ at < Last
  /\ at' = at + 1
  /\ next' = msec - (clk[at + 1] - prev)
  /\ UNCHANGED <<file, pos, prev, msec, rate, i, phase, found>>

ForwardEnds ==
  /\ phase = "forward" /\ next <= Store
  /\ Return(TRUE)
  /\ UNCHANGED <<file, at, pos, prev, msec, next, rate, i>>

\* The clocks went back or there are no more: back to the position kept, or,
\* where no clock is behind it, to the present one.
ForwardFails ==
  /\ phase = "forward" /\ Store < next /\ (next > msec \/ at = Last)
  /\ Return(FALSE)
  /\ at' = IF FirstClock(pos) <= Last THEN FirstClock(pos) ELSE Min({at + 1, Last})
  /\ UNCHANGED <<file, pos, prev, msec, next, rate, i>>

\* The seek has returned.
Returned == phase \in {"end", "done"} /\ UNCHANGED vars

Next == \/ AtAnEnd \/ AttemptFails \/ Attempt \/ SearchEnds
        \/ Forward \/ ForwardEnds \/ ForwardFails \/ Returned

Spec == Init /\ [][Next]_vars

-----------------------------------------------------------------------------
(* Properties *)

\* When the seek returns true at a clock (and not at an end of the file), that
\* clock is at most INITIAL_STORE_MSEC before the goal, and behind that place by
\* no more than one clock: whichever attempts were kept or made again, and even
\* in a file whose clocks go back, the time moved was counted without a gap.
Landed ==
  phase = "done" /\ found =>
    \E s \in Steps \union {Store} : clk[at] - (goal - Store) \in 0 .. s

\* A stream whose clocks rise, and lie no farther apart than 2000 ms at the
\* average rate.
Steady ==
  /\ \A k \in 1 .. Last : clk[k - 1] <= clk[k]
  /\ Gap <= GetRate(clk) * 2

\* In such a stream a goal that the stream reaches is found, or an end of the
\* file is: six attempts and the corrections of the rate are enough, and reading
\* on does not fail, unless the rate was lowered so far that 2000 ms of it are
\* less than from one clock to the next (a place that near the end has none).
Found ==
  /\ Steady /\ goal <= clk[Last]
  /\ phase \in {"end", "done"} /\ Gap <= rate * 2
  => found
=============================================================================
