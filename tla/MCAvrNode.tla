------------------------------ MODULE MCAvrNode ------------------------------
(* Four nodes: two inputs in one frame; two thermometers in frames of their *)
(* own; an SHT11; an SCD41.                                                 *)
EXTENDS AvrNode
CONSTANTS d1, d2, t1, t2, ht, co2, m1, m2, m3
MCObjs == {d1, d2, t1, t2, ht, co2}
MCConfs == {{d1, d2}, {t1, t2}, {ht}, {co2}}
MCUnstable == {{d1, d2}}
MCMobOf == [o \in MCObjs |-> IF o \in {d1, d2} THEN m1 ELSE IF o = t2 THEN m3 ELSE m2]
MCTherms == <<t1, t2>>
MCTempsOf == <<{11}, {21}>>
=============================================================================
