-------------------------------- MODULE MCFiles --------------------------------
(* Files of each kind: those of MCMp4 and MCMmts, clocks at two speeds and one *)
(* that goes back, and streams of packets with tables before, between and      *)
(* behind those of the schedule, damage, and clocks of two PIDs.               *)
EXTENDS SenderFile

Mp4s == INSTANCE MCMp4 WITH Files <- {}
Mmtss == INSTANCE MCMmts WITH Movies <- {}

MCFiles == Mp4s!MCFiles
MCMovies == Mmtss!MCMovies
MCSteps == {-8, 1, 8}

A == [clock |-> "a", eit |-> "none", sync |-> TRUE]
B == [clock |-> "b", eit |-> "none", sync |-> TRUE]
Table(e) == [clock |-> "none", eit |-> e, sync |-> TRUE]
Damaged  == [clock |-> "none", eit |-> "none", sync |-> FALSE]
Schedule == Table("schedule")
Present  == Table("present")
On       == Table("on")

MCStreams ==
  {<<A, Schedule, On, Present, A, A>>, <<A, Present, On, Schedule, A, A>>,
   <<A, On, Present, On, A, A>>, <<A, On, Schedule, Table("bare"), A, A>>,
   <<A, A, B, Table("bare"), B, B, B>>, <<A, A, Damaged, Present, B, A, B>>,
   <<A, A, Present, Damaged, On, A, A>>}
=============================================================================
