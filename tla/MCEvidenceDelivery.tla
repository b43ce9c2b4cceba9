------------------------- MODULE MCEvidenceDelivery ------------------------
(* EvidenceDelivery with the evidence of the run.                          *)
EXTENDS EvidenceDelivery

CONSTANTS e1, e2, t1, w1, w2

MCTypeOf == [e \in Evidence |-> t1]

(* e2 was observed later than e1.                                          *)
MCObserved == [e \in Evidence |-> IF e = e1 THEN 0 ELSE 1]
=============================================================================
