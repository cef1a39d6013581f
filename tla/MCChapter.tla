-------------------------------- MODULE MCChapter --------------------------------
(***************************************************************************)
(* Two players of one video for TLC; they are interchangeable.             *)
(***************************************************************************)
EXTENDS ChapterSync, TLC

CONSTANTS p1, p2

Players == Permutations({p1, p2})
=============================================================================
