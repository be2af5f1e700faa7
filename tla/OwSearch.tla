------------------------------ MODULE OwSearch ------------------------------
(***************************************************************************)
(* The search for sensors with which the daemon starts: OwThermNet::search *)
(* walks the tree of ROM codes, one triplet of the PRU per bit, and        *)
(* MeranieTeploty::MeranieTeploty compares what it found with the sensors  *)
(* it is configured for.  A triplet may fail or be misread.                *)
(***************************************************************************)
EXTENDS Integers, Sequences, FiniteSets, Functions

CONSTANTS
  RomBits,     \* bits of a ROM code: 64
  Valid,       \* the codes whose CRC is right
  Predefined,  \* reqsensors
  Misreads     \* bound: triplets misread in a search

Roms == [0..(RomBits - 1) -> {0, 1}]

(* The CRC notices as many misread bits.                                    *)
ASSUME OwSearchAssumption ==
  /\ RomBits \in Nat \ {0} /\ Valid \subseteq Roms /\ Predefined \subseteq Valid
  /\ Misreads \in {0, 1}
  /\ \A r, s \in Valid : r # s => \E i, j \in DOMAIN r : i # j /\ r[i] # s[i] /\ r[j] # s[j]

VARIABLES
  wired,                \* the sensors on the wire
  selected,             \* those that take part in this pass still
  schSt,                \* where the constructor is
  rc, bitidx,           \* search's locals
  lastBranch, lastZero,
  schFound,             \* tmp
  misread, noisy        \* history: triplets misread in this search; a fault in it

searchVars == <<wired, selected, schSt, rc, bitidx, lastBranch, lastZero, schFound, misread, noisy>>

OwSearchTypeOK ==
  /\ wired \subseteq Valid /\ selected \subseteq wired
  /\ schSt \in {"pass", "bits", "compare", "started", "thrown"}
  /\ rc \in Roms /\ bitidx \in 0..RomBits
  /\ lastBranch \in -1..(RomBits - 1) /\ lastZero \in -1..(RomBits - 1)
  /\ schFound \in Seq(Valid) /\ misread \in 0..Misreads /\ noisy \in BOOLEAN

(* rc is not initialised.                                                   *)
SearchFrom(st) ==
  /\ schSt' = st /\ rc' \in Roms /\ lastBranch' = -1 /\ schFound' = <<>>
  /\ misread' = 0 /\ noisy' = FALSE
OwSearchInit ==
  /\ wired \in SUBSET Valid /\ selected = {}
  /\ schSt = "pass" /\ rc \in Roms /\ bitidx = 0 /\ lastBranch = -1 /\ lastZero = -1
  /\ schFound = <<>> /\ misread = 0 /\ noisy = FALSE

-----------------------------------------------------------------------------
(* presence() and the SEARCH command open a pass, if there is a sensor.     *)
StartPass(ok) ==
  /\ schSt = "pass"
  /\ IF ok /\ wired # {}
       THEN schSt' = "bits" /\ selected' = wired /\ bitidx' = 0 /\ lastZero' = -1
       ELSE schSt' = "compare" /\ UNCHANGED <<selected, bitidx, lastZero>>
  /\ noisy' = (noisy \/ ~ok)
  /\ UNCHANGED <<wired, rc, lastBranch, schFound, misread>>

(* search_triplet: 0, both bits; 1, only ones; 2, only zeros; 3, nobody.    *)
Heard(i) == LET here == {s[i] : s \in selected}
            IN CASE here = {0, 1} -> 0 [] here = {1} -> 1 [] here = {0} -> 2 [] here = {} -> 3

MutDirection == bitidx = lastBranch    \* earlier branches are not kept
Direction == bitidx = lastBranch \/ (bitidx < lastBranch /\ rc[bitidx] = 1)
Expected(res) == bitidx = lastBranch => res = 0
Zero(res) == res = 0 /\ ~Direction

Give(list) == schSt' = "compare" /\ schFound' = list /\ UNCHANGED <<rc, bitidx, lastBranch, lastZero, selected>>
SearchBit(res) ==
  IF ~Expected(res) \/ res = 3 THEN Give(schFound)
  ELSE LET newval == IF res = 0 THEN Direction ELSE res = 1
       IN /\ rc' = [rc EXCEPT ![bitidx] = IF newval THEN 1 ELSE 0]
          /\ selected' = {s \in selected : s[bitidx] = rc'[bitidx]}
          /\ lastZero' = IF Zero(res) THEN bitidx ELSE lastZero
          /\ bitidx' = bitidx + 1
          /\ UNCHANGED <<schSt, lastBranch, schFound>>

ReadTriplet ==
  /\ schSt = "bits" /\ bitidx < RomBits
  /\ SearchBit(Heard(bitidx))
  /\ UNCHANGED <<wired, misread, noisy>>

Misread(res) ==
  /\ schSt = "bits" /\ bitidx < RomBits /\ misread < Misreads /\ res # Heard(bitidx)
  /\ SearchBit(res)
  /\ misread' = misread + 1 /\ noisy' = TRUE /\ UNCHANGED wired

MutChecked == TRUE
Checked == rc \in Valid
EndPass ==
  /\ schSt = "bits" /\ bitidx = RomBits
  /\ schFound' = IF Checked THEN Append(schFound, rc) ELSE schFound
  /\ lastBranch' = lastZero
  /\ schSt' = IF lastZero >= 0 THEN "pass" ELSE "compare"
  /\ UNCHANGED <<wired, selected, rc, bitidx, lastZero, misread, noisy>>

(* The constructor: a duplicate or a missing sensor ends the daemon ...     *)
MutUnmatched(list) == TRUE
Match(list) == Predefined \subseteq Range(list)
Compare ==
  /\ schSt = "compare"
  /\ schSt' = IF IsInjective(schFound) /\ Match(schFound) THEN "started" ELSE "thrown"
  /\ UNCHANGED <<wired, selected, rc, bitidx, lastBranch, lastZero, schFound, misread, noisy>>

(* ... which systemd starts again.                                          *)
SearchAgain ==
  /\ schSt = "thrown" /\ SearchFrom("pass")
  /\ UNCHANGED <<wired, selected, bitidx, lastZero>>

Unheard == StartPass(FALSE) \/ \E res \in 0..3 : Misread(res)
OwSearchStep == StartPass(TRUE) \/ ReadTriplet \/ EndPass \/ Compare \/ SearchAgain
OwSearchNext == OwSearchStep \/ Unheard
OwSearchSpec == OwSearchInit /\ [][OwSearchNext]_searchVars
OwSearchFairness == WF_searchVars(OwSearchStep)
-----------------------------------------------------------------------------
(* A search without a fault finds every sensor, and each of them once.      *)
FindsAll ==
  schSt \in {"compare", "started"} /\ ~noisy =>
    Len(schFound) = Cardinality(wired) /\ Range(schFound) = wired

(* A misread triplet may hide sensors, but none is found that is not there: *)
(* a wrong turn leads to a branch where nobody answers, to a fork that is   *)
(* none, or to a wrong CRC.  One may be found twice, and that is noticed.   *)
NoneInvented == Range(schFound) \subseteq wired

(* The daemon starts only with every sensor it is configured for.           *)
StartsComplete == schSt = "started" => Predefined \subseteq wired /\ IsInjective(schFound)

(* The search finds what is there, invents nothing, and the daemon does not *)
(* start without its sensors (search, the constructor of MeranieTeploty).   *)
SearchTrue == FindsAll /\ NoneInvented /\ StartsComplete
=============================================================================
