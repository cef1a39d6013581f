------------------------------ MODULE StreamQueue ------------------------------
(***************************************************************************)
(* What the receiver promises to the application that calls GetTsStream: a *)
(* bounded first-in first-out queue of buffers.  A buffer is the serial    *)
(* number of the chunk it carries, or 0 when it carries no data.  Chunks   *)
(* enter in the order the client wrote them; a purge empties the queue.    *)
(***************************************************************************)
EXTENDS Naturals, Sequences

CONSTANTS
  Capacity,  \* buffers the queue can hold
  Chunks     \* serial numbers of chunks

VARIABLES
  avail,   \* the buffers GetTsStream can return, oldest first
  last     \* the last chunk it returned

qvars == <<avail, last>>

Init == avail = <<>> /\ last = 0

\* A buffer becomes retrievable; its chunk is newer than all before it.
Publish ==
  \E x \in Chunks \union {0} :
    /\ Len(avail) < Capacity
    /\ x # 0 => x > last /\ \A i \in DOMAIN avail : avail[i] < x
    /\ avail' = Append(avail, x)
    /\ last' = last

Take ==
  /\ avail # <<>>
  /\ avail' = Tail(avail)
  /\ last' = IF Head(avail) # 0 THEN Head(avail) ELSE last

Purge == avail' = <<>> /\ last' = last

Next == Publish \/ Take \/ Purge

Spec == Init /\ [][Next]_qvars
=============================================================================
