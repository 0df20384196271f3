-------------------------------- MODULE Floor --------------------------------
(***************************************************************************)
(* What the talk-back promises, without its clocks, goroutines or outputs: *)
(* one viewer at a time asks for the room's loudspeaker, only whoever      *)
(* asked is given the floor, and the floor is put down before anybody else *)
(* asks for it.                                                            *)
(***************************************************************************)
CONSTANTS Viewers, Nobody

VARIABLES holder, asker

Init == holder = Nobody /\ asker = Nobody

Ask(v) == holder = Nobody /\ asker = Nobody /\ asker' = v /\ UNCHANGED holder

Grant(v) == asker = v /\ holder' = v /\ asker' = Nobody

Refuse == asker # Nobody /\ asker' = Nobody /\ UNCHANGED holder

PutDown == holder # Nobody /\ holder' = Nobody /\ UNCHANGED asker

Next == Refuse \/ PutDown \/ \E v \in Viewers : Ask(v) \/ Grant(v)

Spec == Init /\ [][Next]_<<holder, asker>>
=============================================================================
