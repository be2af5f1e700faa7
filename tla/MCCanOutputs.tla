---------------------------- MODULE MCCanOutputs ----------------------------
(* Small instances of CanOutputs: a light and a dimmer sharing a frame and  *)
(* a third item in a frame of its own, or two frames of one item.           *)
EXTENDS CanOutputs
CONSTANTS i1, i2, i3
MCItems == {i1, i2, i3}
MCFrameOf == [i \in MCItems |-> IF i = i3 THEN 2 ELSE 1]
MCTwoItems == {i1, i3}
MCTwoFrameOf == [i \in MCTwoItems |-> IF i = i3 THEN 2 ELSE 1]
=============================================================================
