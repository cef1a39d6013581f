---------------------------- MODULE SequentialReader ----------------------------
(***************************************************************************)
(* What CBufferedFileReader promises to the sender: reading ahead cannot   *)
(* be noticed.  Each read returns the bytes that follow those of the read  *)
(* before it, the bytes it returned stay as they are until the next call,  *)
(* and the position moves otherwise only where the sender puts it.         *)
(***************************************************************************)
EXTENDS Naturals

CONSTANT B        \* bytes a buffer holds

VARIABLES
  pos,    \* where the sender has read up to
  held,   \* the bytes it was given last: where they begin and how many
  call    \* what it has asked for: none, sync (a read), seek, or setup

rvars == <<pos, held, call>>

Init == pos \in Nat /\ held.len = 0 /\ call = "setup"

Ask ==
  /\ call' \in {"sync", "seek", "setup"}
  /\ call = "none" /\ UNCHANGED <<pos, held>>

\* A read returns nothing at the end of the file or when it fails.
Deliver ==
  /\ call \in {"none", "sync"} /\ call' = "none"
  /\ \E n \in 0 .. B : held' = [from |-> pos, len |-> n] /\ pos' = pos + n

Move ==
  /\ call \in {"seek", "setup"} /\ call' \in {"none", call}
  /\ pos' \in Nat
  /\ held' = held \/ (call = "setup" /\ held'.len = 0)

Next == Ask \/ Deliver \/ Move

Spec == Init /\ [][Next]_rvars
=============================================================================
