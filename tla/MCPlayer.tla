------------------------------- MODULE MCPlayer -------------------------------
(* Small instances of Player: one chapter that jumps ahead, and none. *)
EXTENDS Player, TLC

MCWatched == {1}
MCJump == 1 :> 2
NoWatched == {}
NoJump == [c \in {} |-> 0]

\* What happens by itself after one command, with every option; two commands in
\* a row for a player that plays to the end and stays open.
Jumping == {o \in Options : o.jump}
Quiet == [all |-> FALSE, single |-> FALSE, auto |-> FALSE, jump |-> FALSE]
MCBegins == [opt : Jumping, cmds : {1}] \union [opt : {Quiet}, cmds : {2}]
TwoCommands == [opt : Jumping, cmds : {2}]
=============================================================================
