---------------------------- MODULE LatestValue ----------------------------
(***************************************************************************)
(* What the CAN output path promises, seen from a node's pins.  The daemon *)
(* keeps a table of output values; from time to time it takes a snapshot   *)
(* of all the values that share a frame and sends it; snapshots of a frame *)
(* arrive in the order they were taken, each at most once, and one may be  *)
(* lost.  So a pin never shows a mixture of two moments and never goes     *)
(* back to a snapshot older than the one it shows.                         *)
(***************************************************************************)
EXTENDS Naturals, Sequences

CONSTANTS Items,     \* the output items (a bit or a word of a frame)
          Frames,    \* the output frames
          FrameOf,   \* the frame each item lives in
          Values,    \* the values an item takes
          Off,       \* the value every item starts with
          Depth      \* snapshots of one frame under way at a time

VARIABLES value,     \* what the daemon wants
          chan,      \* per frame, the snapshots under way, oldest first
          nodeOut    \* what the pins show

lvVars == <<value, chan, nodeOut>>

Members(f) == {i \in Items : FrameOf[i] = f}
Snapshot(f) == [i \in Members(f) |-> value[i]]

LVInit == /\ value = [i \in Items |-> Off]
          /\ chan = [f \in Frames |-> <<>>]
          /\ nodeOut = [i \in Items |-> Off]

(* The daemon changes its mind about one item, or restarts and forgets all. *)
Want == /\ \/ \E i \in Items, v \in Values : value' = [value EXCEPT ![i] = v]
           \/ value' = [i \in Items |-> Off]
        /\ UNCHANGED <<chan, nodeOut>>

Take(f) == /\ Len(chan[f]) < Depth
           /\ chan' = [chan EXCEPT ![f] = Append(@, Snapshot(f))]
           /\ UNCHANGED <<value, nodeOut>>

(* An item is set and its frame taken in the same handler. *)
WantAndTake(f) ==
  /\ Len(chan[f]) < Depth
  /\ \E i \in Members(f), v \in Values :
       /\ value' = [value EXCEPT ![i] = v]
       /\ chan' = [chan EXCEPT ![f] = Append(@, Snapshot(f)')]
  /\ UNCHANGED nodeOut

Lose(f) == /\ chan[f] # <<>>
           /\ chan' = [chan EXCEPT ![f] = SubSeq(@, 1, Len(@) - 1)]
           /\ UNCHANGED <<value, nodeOut>>

Show(f) == /\ chan[f] # <<>>
           /\ nodeOut' = [i \in Items |-> IF FrameOf[i] = f THEN Head(chan[f])[i]
                                                            ELSE nodeOut[i]]
           /\ chan' = [chan EXCEPT ![f] = Tail(@)]
           /\ UNCHANGED value

LVNext == \/ Want
          \/ \E f \in Frames : Take(f) \/ WantAndTake(f) \/ Lose(f) \/ Show(f)

LVSpec == LVInit /\ [][LVNext]_lvVars
=============================================================================
