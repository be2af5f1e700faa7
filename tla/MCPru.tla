-------------------------------- MODULE MCPru --------------------------------
(* What hangs on the PRU, one part per behaviour: the daemon's measurement  *)
(* and its search, and the firmware's one-wire and OpenTherm machines.      *)
EXTENDS OneWire, OwSearch, PruOneWire, PruOpenTherm

VARIABLE part
pruVars == <<vars, searchVars, pruOwVars, otVars, part>>

MCRom(ones) == [i \in 0..(RomBits - 1) |-> IF i \in ones THEN 1 ELSE 0]
MCValid == {MCRom({}), MCRom({0, 1}), MCRom({0, 2}), MCRom({1, 2})}
MCPredefined == {MCRom({}), MCRom({0, 1})}

Parts == {"meas", "search", "ow", "ot"}
MCInit ==
  /\ part \in Parts
  /\ Init /\ PruOwInit /\ OtInit
  /\ OwSearchInit
  /\ part # "search" => wired = {} /\ rc = MCRom({})
  /\ part # "ow" => ~present

Only(p, A, others) == part = p /\ A /\ UNCHANGED <<others, part>>
Meas(A)   == Only("meas", A, <<searchVars, pruOwVars, otVars>>)
Search(A) == Only("search", A, <<vars, pruOwVars, otVars>>)
Ow(A)     == Only("ow", A, <<vars, searchVars, otVars>>)
Ot(A)     == Only("ot", A, <<vars, searchVars, pruOwVars>>)

MCNext == Meas(Next) \/ Search(OwSearchNext) \/ Ow(PruOwNext) \/ Ot(OtNext)
(* The parts' fairness; a behaviour has one part, so one WF serves four.    *)
MCSpec ==
  /\ MCInit /\ [][MCNext]_pruVars
  /\ WF_pruVars(Meas(Receive \/ Timeout))
  /\ WF_pruVars(Meas(Deliver)) /\ WF_pruVars(Meas(Operate(TRUE) \/ Shorted))
  /\ WF_pruVars(\/ Meas(Send) \/ Search(OwSearchStep) \/ Ow(Turn)
                \/ Ot(\E noise \in BOOLEAN : OtTick(noise)))

(* The types of all parts.                                                  *)
PruTypeOK == TypeOK /\ OwSearchTypeOK /\ PruOwTypeOK /\ OtTypeOK

(* What the firmware does on either wire is what it was told to, once, and  *)
(* leaves the wire fit for the next (ow_sm.c, opentherm_sm.c, main.c).      *)
PruSound == WireSound /\ RequestsSound

(* Whatever is begun on the PRU ends: a round of measurements, a search and *)
(* an operation on the wire, also on one that is short, broken or changing. *)
AllEnds ==
  []<>(CASE part = "meas" -> txn = 0 /\ step = 1
         [] part = "search" -> schSt \in {"compare", "started"}
         [] part = "ow" -> owSt = "idle"
         [] OTHER -> TRUE)

(* When the faults of the wire and of the reader stay away, every round     *)
(* reads every sensor, for no stale answer keeps the client out of step     *)
(* (presence); and the daemon comes to start if its sensors are there.  A   *)
(* request to the boiler is answered as soon as two polls see the same.     *)
Faulty == (part = "meas" /\ Fault) \/ (part = "search" /\ Unheard)
Recovered == CASE part = "meas" -> AllRead
               [] part = "search" -> Predefined \subseteq wired => schSt = "started"
               [] OTHER -> TRUE
Recovers == (<>[][~Faulty]_pruVars => <>[]Recovered) /\ OtAnswers
=============================================================================
