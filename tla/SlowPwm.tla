------------------------------ MODULE SlowPwm -------------------------------
(***************************************************************************)
(* The expander of the slow outputs (slowswi2cpwm): a worker thread drives *)
(* the heads of the valves by pulse width and two switched outputs, which  *)
(* the io thread sets under a lock.  Pins are the set of outputs that are  *)
(* on; time is in slots of the period and passes while the worker waits.   *)
(***************************************************************************)
EXTENDS Integers, FiniteSets

CONSTANTS
  Heads,    \* the channels of pulse width
  Switched, \* dig1Out, dig2Out
  Nrts      \* slots in a period

ASSUME SlowPwmAssumption == Nrts \in Nat \ {0} /\ Heads \cap Switched = {}

VARIABLES
  widths, switches, fini, \* set by the io thread under lck
  woken,                  \* cv was notified while the worker waits
  wkPc, newval,           \* the worker; what it is about to write
  at, to, isT0,           \* slots since next - period; the next deadline, is it next
  schedule, chto,         \* ends of pulses to come; of each channel (Nrts: never, 0: past)
  pwmBits, pins,          \* pwm_bits; last_value, what the expander shows
  asked                   \* history: the widths when the period began

pwmVars == <<widths, switches, fini, woken, wkPc, newval, at, to, isT0, schedule, chto,
             pwmBits, pins, asked>>
shared == <<widths, switches, fini>>
plan == <<at, to, isT0, schedule, chto, pwmBits, asked>>

SlowPwmTypeOK ==
  /\ widths \in [Heads -> 0..Nrts] /\ switches \subseteq Switched /\ fini \in BOOLEAN
  /\ woken \in BOOLEAN /\ wkPc \in {"check", "looks", "waiting", "writing", "ended", "destroyed"}
  /\ newval \subseteq Heads \cup Switched /\ pins \subseteq Heads \cup Switched
  /\ at \in 0..Nrts /\ to \in 1..Nrts /\ isT0 \in BOOLEAN /\ schedule \subseteq 1..(Nrts - 1)
  /\ chto \in [Heads -> 0..Nrts] /\ pwmBits \subseteq Heads
  /\ asked \in [Heads -> 0..Nrts]
  /\ isT0 => to = Nrts /\ schedule = {}

SlowPwmInit ==
  /\ widths = [c \in Heads |-> 0] /\ switches = {} /\ fini = FALSE /\ woken = FALSE
  /\ wkPc = "check" /\ newval = {} /\ at = 0 /\ to = Nrts /\ isT0 = TRUE
  /\ schedule = {} /\ chto = [c \in Heads |-> Nrts] /\ pwmBits = {} /\ pins = {}
  /\ asked = [c \in Heads |-> 0]

-----------------------------------------------------------------------------
(* The io thread: update, which notifies nobody, dig1Out and dig2Out, and   *)
(* the destructor, which joins the worker before the expander's own turns   *)
(* all outputs off.                                                         *)
MutNotify == UNCHANGED woken
Notify == woken' = (wkPc = "waiting")

UpdateHead(c, w) ==
  /\ ~fini /\ widths' = [widths EXCEPT ![c] = w]
  /\ UNCHANGED <<switches, fini, woken, wkPc, newval, pins, plan>>
DigOut(s, v) ==
  /\ ~fini /\ switches' = IF v THEN switches \cup {s} ELSE switches \ {s}
  /\ Notify /\ UNCHANGED <<widths, fini, wkPc, newval, pins, plan>>
Destroy == /\ ~fini /\ fini' = TRUE /\ Notify
           /\ UNCHANGED <<widths, switches, wkPc, newval, pins, plan>>
Destroyed == /\ wkPc = "ended" /\ wkPc' = "destroyed" /\ pins' = {}
             /\ UNCHANGED <<shared, woken, newval, plan>>

-----------------------------------------------------------------------------
(* The worker writes when what it would show changes; last_value is what it *)
(* wrote.  When it is to finish it writes what the predicate looked at last *)
(* in this wait, all off when that is its first look.                       *)
CalcNewVal(bits) == bits \cup switches
ToWrite(val) == wkPc' = "writing" /\ newval' = val

Looks ==
  IF fini THEN ToWrite(IF wkPc = "looks" THEN {} ELSE pins) /\ UNCHANGED <<woken, plan>>
  ELSE /\ CalcNewVal(pwmBits) # pins /\ ToWrite(CalcNewVal(pwmBits))
       /\ UNCHANGED <<woken, plan>>

(* A deadline: the next period with all its pulses, or the end of some.     *)
MutLatest(ends) == CHOOSE t \in ends : \A u \in ends : t >= u
Earliest(ends) == CHOOSE t \in ends : \A u \in ends : t <= u
Wait(ends) ==
  /\ isT0' = (ends = {})
  /\ to' = IF ends = {} THEN Nrts ELSE Earliest(ends)
  /\ schedule' = ends \ {to'}

Starts ==
  LET partial == {c \in Heads : widths[c] \in 1..(Nrts - 1)}
  IN /\ pwmBits' = {c \in Heads : widths[c] > 0}
     /\ chto' = [c \in Heads |-> IF c \in partial \/ widths[c] = Nrts THEN widths[c] ELSE 0]
     /\ Wait({widths[c] : c \in partial})
     /\ at' = 0 /\ asked' = widths
Ends ==
  /\ pwmBits' = {c \in pwmBits : to < chto[c]}
  /\ Wait(schedule) /\ UNCHANGED <<chto, at, asked>>

Deadline ==
  /\ ~fini /\ CalcNewVal(pwmBits) = pins /\ wkPc = "waiting" /\ at >= to
  /\ IF isT0 THEN Starts ELSE Ends
  /\ IF CalcNewVal(pwmBits') # pins THEN ToWrite(CalcNewVal(pwmBits'))
                                    ELSE wkPc' = "check" /\ UNCHANGED newval
  /\ UNCHANGED woken

(* wait_until looks before it waits, when it is notified, and at the        *)
(* deadline; in between it gives up the lock, also for a deadline past.     *)
Waits == /\ ~fini /\ CalcNewVal(pwmBits) = pins /\ (wkPc = "looks" \/ woken)
         /\ wkPc' = "waiting" /\ woken' = FALSE /\ UNCHANGED <<newval, plan>>
Worker ==
  \/ /\ wkPc = "looks" \/ (wkPc = "waiting" /\ (woken \/ at >= to))
     /\ Looks \/ Deadline \/ Waits
     /\ UNCHANGED <<shared, pins>>
  \/ /\ wkPc = "check" /\ wkPc' = IF fini THEN "ended" ELSE "looks"
     /\ UNCHANGED <<shared, woken, newval, pins, plan>>
  \/ /\ wkPc = "writing" /\ pins' = newval /\ wkPc' = "check"
     /\ UNCHANGED <<shared, woken, newval, plan>>

Slot ==
  /\ wkPc = "waiting" /\ ~woken /\ at < to
  /\ at' = at + 1
  /\ UNCHANGED <<shared, woken, wkPc, newval, to, isT0, schedule, chto, pwmBits, pins, asked>>

SlowPwmNext ==
  \/ \E c \in Heads, w \in 0..Nrts : UpdateHead(c, w)
  \/ \E s \in Switched, v \in BOOLEAN : DigOut(s, v)
  \/ Destroy \/ Destroyed \/ Worker \/ Slot
SlowPwmSpec == SlowPwmInit /\ [][SlowPwmNext]_pwmVars
-----------------------------------------------------------------------------
(* While time passes a head is on for its share from the beginning of the   *)
(* period, the share it had been given by then, whatever comes meanwhile.   *)
Passing == wkPc = "waiting" /\ ~woken /\ at < to
PulsesRight == Passing => \A c \in Heads : (c \in pins) = (at < asked[c])

(* A switched output shows what it was set to; no notification is missed.   *)
SwitchesShown == Passing => pins \cap Switched = switches

(* The expander shows every output as it was asked for (the worker loop).   *)
OutputsRight == PulsesRight /\ SwitchesShown
=============================================================================
