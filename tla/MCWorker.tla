------------------------------ MODULE MCWorker ------------------------------
(* An instance of Worker for TLC: a press, a press that lifts the one       *)
(* before, a lift, and a press that the song never lifts.                   *)
EXTENDS Worker

Press == [up |-> FALSE, down |-> TRUE]
Mixed == [up |-> TRUE, down |-> TRUE]
Lift  == [up |-> TRUE, down |-> FALSE]

MCSong == <<Press, Mixed, Lift, Press>>
=============================================================================
