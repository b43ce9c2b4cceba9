------------------------ MODULE MCEvidenceIngestion ------------------------
(* EvidenceIngestion with the envelopes the sources of the run send.       *)
EXTENDS EvidenceIngestion, TLC

CONSTANTS s1, k1, k2, u1, u2, r1, r2

Envelope(event, key, seq, nonce, observed, expires) ==
  [event |-> event, key |-> key, seq |-> seq, nonce |-> nonce,
   observed |-> observed, expires |-> expires, subject |-> u1,
   source |-> s1, content |-> event, digest |-> event, signer |-> key,
   kind |-> "device", shape |-> "valid"]

MCKind == [s \in Sources |-> "device"]

(* What the service refuses before the guard.                              *)
MCRefused ==
  LET first == Envelope("v1", k1, 1, "n1", 1, 3)
  IN  {[first EXCEPT !.shape = "malformed"],
       [first EXCEPT !.shape = "oversized"],
       [first EXCEPT !.kind = "identity"],
       [first EXCEPT !.digest = "v2"],
       [first EXCEPT !.signer = k2]}

(* Two epochs; a reused event, a reused nonce, a lower sequence and an     *)
(* earlier observation, depending on which comes first.                    *)
MCEnvelopes ==
  MCRefused \cup
  {Envelope("v1", k1, 3, "n2", 1, 3),
   Envelope("v2", k1, 2, "n1", 0, 2),
   Envelope("v3", k1, 2, "n1", 2, 4),
   Envelope("v1", k2, 2, "n1", 2, 4)}

(* The requests are interchangeable.                                       *)
Symmetry == Permutations(Requests)
=============================================================================
