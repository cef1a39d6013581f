------------------------------- MODULE PlainFile -------------------------------
(***************************************************************************)
(* What every IReadOnlyFile promises, whatever it makes its bytes from     *)
(* (ReadOnlyFile.h): what is read depends on the position alone, a read    *)
(* moves the position over what it returned, and nothing else but a seek   *)
(* moves it.  A file that is converted while it is read holds what the     *)
(* conversion makes from where it was last begun.                          *)
(***************************************************************************)
EXTENDS Naturals, Sequences

VARIABLES
  data,   \* what the file holds
  pos,    \* where it is read next
  out     \* what the last read returned, when that was the last call

pvars == <<data, pos, out>>

NotRead == <<[read |-> FALSE]>>

\* A read may return less than was asked for, but only what follows pos, and
\* nothing only at the end.
Read ==
  /\ \E n \in 1 .. Len(data) :
       /\ pos + n <= Len(data) /\ out' = SubSeq(data, pos + 1, pos + n)
       /\ pos' = pos + n
  /\ UNCHANGED data

ReadNothing == pos >= Len(data) /\ out' = <<>> /\ UNCHANGED <<data, pos>>

\* A seek, or a read that fails, which leaves the position where it is.
Move == pos' \in Nat /\ out' = NotRead /\ UNCHANGED data

\* The conversion is begun elsewhere.
Restart == pos' = 0 /\ out' = NotRead

Next == Read \/ ReadNothing \/ Move \/ Restart

Spec == pos = 0 /\ out = <<>> /\ [][Next]_pvars
=============================================================================
