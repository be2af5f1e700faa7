------------------------------ MODULE MCBoiler ------------------------------
(* The pump and the set-points share the OpenTherm thread and nothing else: *)
(* each behaviour has messages for one of the two, and all flames.          *)
EXTENDS Boiler

VARIABLE focus
MCInit == Init /\ focus \in {"pump", "setpoints"}
MCNext ==
  /\ UNCHANGED focus
  /\ \/ Loop
     \/ \E t \in Threads : PumpStep(t) /\ UNCHANGED <<loop, setpoint, req>>
     \/ focus = "pump" /\ \E c \in PumpMsgs : PumpMsg(c)
     \/ focus = "setpoints" /\ \/ \E q \in Requests : Request(q)
                                \/ \E k \in Kinds, v \in Temps \cup {NaN} : SetTemp(k, v)
MCSpec == MCInit /\ [][MCNext]_<<vars, focus>> /\ Fairness
=============================================================================
