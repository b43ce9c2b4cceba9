---------------------- MODULE CertificateLifecycleProofs ---------------------
(***************************************************************************)
(* Proofs about certificates: renewals form chains, what is recorded was   *)
(* confirmed and can be published, no accepting verdict outlives what it   *)
(* was read from, and a trust effect is applied once, for any number of    *)
(* callers, certificates, keys and requests.                               *)
(***************************************************************************)
EXTENDS CertificateLifecycle, FiniteSetTheorems, TLAPS

----------------------------------------------------------------------------
(* The inductive invariant                                                 *)

(* The certificate a call is about: none for an issuance, a recorded one   *)
(* for a renewal or a revocation.                                          *)
TargetOK(call) ==
  IF call.request.op = "issue" THEN call.of = None ELSE call.of \in Recorded

(* What the issuer signed or revoked for a call is this call's alone until *)
(* it is in the inventory.  The last two parameters are what the issuer    *)
(* signed and revoked so far.                                              *)
CallOK(c, call, last, revoked) ==
  /\ call.pc # "idle" => TargetOK(call)
  /\ call.pc = "signed" =>
       /\ call.request.op # "revoke"
       /\ call.certificate \in (1..last) \ Recorded
       /\ \A d \in Clients \ {c} :
            client[d].pc = "signed" => client[d].certificate # call.certificate
  /\ call.pc = "confirmed" => call.request.op = "revoke" /\ call.of \in revoked

CallsInv == \A c \in Clients : CallOK(c, client[c], signed, refused)

(* A row names an event of the log and a recorded predecessor; a revoked   *)
(* certificate was revoked at the issuer.                                  *)
RowsInv ==
  \A x \in Recorded :
    /\ x <= signed /\ cert[x].last \in DOMAIN events
    /\ cert[x].predecessor \in Recorded \cup {None}
    /\ cert[x].state = "revoked" => x \in refused

(* A certificate is superseded exactly when it has a successor, and has no *)
(* second one.                                                             *)
ChainsInv ==
  \A x \in Recorded :
    /\ cert[x].predecessor # None =>
         LET p == cert[cert[x].predecessor]
         IN  p.state = "superseded" /\ p.subject = cert[x].subject /\ p.key # cert[x].key
    /\ cert[x].state = "superseded" => \E y \in Recorded : cert[y].predecessor = x
    /\ \A y \in Recorded :
         cert[y].predecessor = cert[x].predecessor => x = y \/ cert[x].predecessor = None

(* Every event is one of a recorded certificate and can be published.      *)
EventOK(e) ==
  events[e].certificate \in Recorded /\ LifecycleRecordValid(ClaimedRecord(e))

EventsInv == \A e \in DOMAIN events : EventOK(e)

(* A verdict on an active certificate is no older than its lifetime.       *)
VerdictsInv ==
  /\ AcceptanceIsBounded
  /\ \A x \in Certificates :
       /\ cached[x] <= now + ResultLifetime
       /\ x \notin Recorded => cached[x] = 0

CertificatesInv ==
  /\ TypeOK /\ CallsInv /\ RowsInv /\ ChainsInv /\ EventsInv
  /\ VerdictsInv /\ EffectsOnce

----------------------------------------------------------------------------
(* Values                                                                  *)

LEMMA Numbers ==
  /\ Validity \in Nat \ {0} /\ Skew \in Nat /\ StatusTimeout \in Nat
  /\ ResultLifetime \in Nat \ {0} /\ MaxSigned \in Nat \ {0} /\ Instants \subseteq Nat
BY TimesAssumption

LEMMA RequestFields ==
  ASSUME NEW r \in Requests
  PROVE  /\ r.op \in Operations /\ r.actor \in Subjects /\ r.subject \in Subjects
         /\ r.key \in Keys
BY RequestsAssumption

(* A certificate is in the inventory exactly when it has a row.            *)
LEMMA RowOfRecorded ==
  ASSUME TypeOK
  PROVE  /\ \A x \in Recorded : x \in Certificates /\ cert[x] \in Row
         /\ \A x \in Certificates : cert[x] \in Row => x \in Recorded
         /\ \A x \in Certificates \ Recorded : cert[x].state = "absent"
         /\ None \notin Recorded
<1>1. \A x \in Certificates : cert[x] \in Row \/ cert[x] = Absent
  BY DEF TypeOK
<1>2. Absent.state = "absent" /\ \A row \in Row : row.state \in States
  BY DEF Absent, Row
<1>3. "absent" \notin States
  BY DEF States
<1>. QED
  BY <1>1, <1>2, <1>3, Numbers DEF Recorded, Certificates, None

(* A call that is not idle has the fields of its step.                     *)
LEMMA CallFields ==
  ASSUME TypeOK, NEW c \in Clients, client[c].pc # "idle"
  PROVE  /\ client[c].pc \in {"prepared", "signed", "confirmed"}
         /\ client[c].request \in Requests /\ client[c].at \in Nat
         /\ client[c].of \in Certificates \cup {None}
         /\ client[c].pc = "signed" =>
              client[c].certificate \in Certificates /\ client[c].key \in Keys
<1>1. client[c] \in Call \cup {Idle}
  BY DEF TypeOK
<1>2. client[c] \in Call
  BY <1>1 DEF Idle
<1>. QED
  BY <1>2 DEF Call

----------------------------------------------------------------------------
(* What a step leaves alone                                                *)

LEMMA InventoryKept ==
  ASSUME CertificatesInv, UNCHANGED inventory,
         signed' \in Nat, signed <= signed', refused \subseteq refused'
  PROVE  RowsInv' /\ ChainsInv' /\ EventsInv'
<1>1. UNCHANGED <<cert, events>> /\ Recorded' = Recorded
  BY DEF inventory, Recorded
<1>2. RowsInv'
  <2>1. \A x \in Recorded : x \in Nat /\ signed \in Nat
    BY RowOfRecorded, Numbers DEF CertificatesInv, TypeOK, Certificates
  <2>. QED
    BY <1>1, <2>1 DEF CertificatesInv, RowsInv
<1>3. ChainsInv'
  BY <1>1 DEF CertificatesInv, ChainsInv
<1>4. EventsInv'
  BY <1>1 DEF CertificatesInv, EventsInv, EventOK, ClaimedRecord, LifecycleRecordValid
<1>. QED
  BY <1>2, <1>3, <1>4

LEMMA VerdictsKept ==
  ASSUME CertificatesInv, UNCHANGED inventory, UNCHANGED <<now, cached>>
  PROVE  VerdictsInv'
<1>1. UNCHANGED <<cert, events>> /\ Recorded' = Recorded
  BY DEF inventory, Recorded
<1>. QED
  BY <1>1 DEF CertificatesInv, VerdictsInv, AcceptanceIsBounded

LEMMA EffectsKept ==
  ASSUME CertificatesInv, UNCHANGED feedback
  PROVE  EffectsOnce'
BY DEF CertificatesInv, EffectsOnce, feedback

LEMMA CallsKept ==
  ASSUME CertificatesInv, UNCHANGED inventory, UNCHANGED <<client, signed, refused>>
  PROVE  CallsInv'
<1>1. Recorded' = Recorded
  BY DEF inventory, Recorded
<1>. QED
  BY <1>1 DEF CertificatesInv, CallsInv, CallOK, TargetOK

(* A step of one call at most, which may use the issuer.                   *)
LEMMA CallStep ==
  ASSUME CertificatesInv, NEW c \in Clients, NEW call \in Call \cup {Idle},
         client' = [client EXCEPT ![c] = call],
         UNCHANGED <<now, tenant, inventory, cached, feedback>>,
         NEW last \in signed..MaxSigned, signed' = last,
         NEW revoked \in SUBSET (1..last), refused' = revoked, refused \subseteq revoked,
         CallOK(c, call, last, revoked)
  PROVE  CertificatesInv'
<1>1. TypeOK /\ signed \in Nat /\ last \in Nat /\ signed <= last
  BY Numbers DEF CertificatesInv, TypeOK
<1>2. UNCHANGED <<cert, events, member, issuer, published, actions, evidence, effects>>
      /\ Recorded' = Recorded
  BY DEF inventory, tenant, feedback, Recorded
<1>3. TypeOK'
  BY <1>1, <1>2, Numbers DEF TypeOK
<1>4. CallsInv'
  <2>. SUFFICES ASSUME NEW d \in Clients
                PROVE  CallOK(d, client[d], signed, refused)'
    BY DEF CallsInv
  <2>1. client'[c] = call /\ \A x \in Clients \ {c} : client'[x] = client[x]
    BY <1>1 DEF TypeOK
  <2>2. CASE d = c
    BY <1>2, <2>1, <2>2 DEF CallOK, TargetOK
  <2>3. CASE d # c
    <3>1. CallOK(d, client[d], signed, refused)
      BY DEF CertificatesInv, CallsInv
    <3>2. (1..signed) \subseteq (1..last)
      BY <1>1
    <3>3. client'[d] = client[d]
      BY <2>1, <2>3
    <3>4. client[d].pc = "signed" =>
            \A x \in Clients \ {d} :
              client'[x].pc = "signed" => client'[x].certificate # client[d].certificate
      BY <2>1, <2>3, <3>1 DEF CallOK
    <3>5. TargetOK(client[d])' <=> TargetOK(client[d])
      BY <1>2, <3>3 DEF TargetOK
    <3>6. client[d].pc = "signed" =>
            client[d].request.op # "revoke" /\ client[d].certificate \in (1..last) \ Recorded
      BY <3>1, <3>2 DEF CallOK
    <3>7. client[d].pc = "confirmed" =>
            client[d].request.op = "revoke" /\ client[d].of \in revoked
      BY <3>1 DEF CallOK
    <3>8. client[d].pc # "idle" => TargetOK(client[d])
      BY <3>1 DEF CallOK
    <3>. HIDE DEF TargetOK
    <3>. QED
      BY <1>2, <3>3, <3>4, <3>5, <3>6, <3>7, <3>8 DEF CallOK
  <2>. QED
    BY <2>2, <2>3
<1>. QED
  BY <1>1, <1>3, <1>4, InventoryKept, VerdictsKept, EffectsKept DEF CertificatesInv

----------------------------------------------------------------------------
(* Calls and the issuer                                                    *)

LEMMA BeginStep ==
  ASSUME CertificatesInv, NEW c \in Clients, NEW r \in Requests,
         NEW x \in Certificates \cup {None}, Begin(c, r, x),
         IF r.op = "issue" THEN x = None ELSE x \in Recorded
  PROVE  CertificatesInv'
<1>. DEFINE call == [pc |-> "prepared", request |-> r, of |-> x, at |-> now]
<1>1. TypeOK /\ now \in Nat /\ signed \in Nat /\ MaxSigned \in Nat
      /\ refused \in SUBSET (1..signed) /\ signed \in signed..MaxSigned
  BY Numbers DEF CertificatesInv, TypeOK
<1>2. call \in Call
  BY <1>1 DEF Call
<1>3. /\ call.pc = "prepared" /\ call.request = r /\ call.of = x
  OBVIOUS
<1>4. /\ client' = [client EXCEPT ![c] = call]
      /\ UNCHANGED <<now, tenant, inventory, cached, feedback>>
      /\ signed' = signed /\ refused' = refused
  BY DEF Begin
<1>. HIDE DEF call
<1>5. CallOK(c, call, signed, refused)
  BY <1>3 DEF CallOK, TargetOK
<1>. QED
  BY <1>1, <1>2, <1>4, <1>5, CallStep

LEMMA PrepareSteps ==
  ASSUME CertificatesInv, NEW c \in Clients, NEW r \in Requests,
         \/ PrepareIssuance(c, r)
         \/ \E x \in Recorded : PrepareRenewal(c, r, x) \/ PrepareRevocation(c, r, x)
  PROVE  CertificatesInv'
<1>1. \A x \in Recorded : x \in Certificates
  BY DEF Recorded
<1>. QED
  BY <1>1, BeginStep DEF PrepareIssuance, PrepareRenewal, PrepareRevocation

(* Each certificate is signed for one call.                                *)
LEMMA SignStep ==
  ASSUME CertificatesInv, NEW c \in Clients, NEW key \in Keys, SignCertificate(c, key)
  PROVE  CertificatesInv'
<1>. DEFINE call == [pc |-> "signed", request |-> client[c].request, of |-> client[c].of,
                     at |-> client[c].at, certificate |-> signed + 1, key |-> key]
<1>1. /\ TypeOK /\ signed \in Nat /\ MaxSigned \in Nat /\ signed < MaxSigned
      /\ refused \subseteq 1..signed /\ client[c].pc = "prepared"
      /\ client[c].request.op # "revoke"
      /\ CallOK(c, client[c], signed, refused)
  BY Numbers DEF CertificatesInv, TypeOK, CallsInv, SignCertificate
<1>2. /\ client[c].request \in Requests /\ client[c].at \in Nat
      /\ client[c].of \in Certificates \cup {None}
  BY <1>1, CallFields
<1>3. /\ signed + 1 \in signed..MaxSigned /\ signed + 1 \in Certificates
      /\ signed + 1 \in 1..(signed + 1)
      /\ refused \in SUBSET (1..(signed + 1))
  BY <1>1 DEF Certificates
<1>4. call \in Call
  BY <1>2, <1>3 DEF Call
<1>5. /\ client' = [client EXCEPT ![c] = call]
      /\ UNCHANGED <<now, tenant, inventory, cached, feedback>>
      /\ signed' = signed + 1 /\ refused' = refused
  BY <1>1 DEF SignCertificate, TypeOK
<1>6. /\ call.pc = "signed" /\ call.request = client[c].request /\ call.of = client[c].of
      /\ call.certificate = signed + 1
  OBVIOUS
<1>. HIDE DEF call
<1>7. signed + 1 \notin Recorded
  <2>1. \A x \in Recorded : x <= signed
    BY DEF CertificatesInv, RowsInv
  <2>. QED
    BY <1>1, <2>1
<1>8. \A d \in Clients : client[d].pc = "signed" => client[d].certificate # signed + 1
  BY <1>1 DEF CertificatesInv, CallsInv, CallOK
<1>9. TargetOK(call)
  BY <1>1, <1>6 DEF CallOK, TargetOK
<1>10. CallOK(c, call, signed + 1, refused)
  <2>. HIDE DEF TargetOK
  <2>. QED
    BY <1>1, <1>3, <1>6, <1>7, <1>8, <1>9 DEF CallOK
<1>. QED
  BY <1>3, <1>4, <1>5, <1>10, CallStep

LEMMA IssuerRevokes ==
  ASSUME CertificatesInv, NEW c \in Clients, NEW at \in now..(now + Skew),
         RevokeAtIssuer(c, at)
  PROVE  CertificatesInv'
<1>. DEFINE call == [pc |-> "confirmed", request |-> client[c].request,
                     of |-> client[c].of, at |-> at]
<1>1. /\ TypeOK /\ signed \in Nat /\ MaxSigned \in Nat /\ now \in Nat
      /\ signed \in signed..MaxSigned
      /\ refused \subseteq 1..signed /\ client[c].pc = "prepared"
      /\ client[c].request.op = "revoke"
      /\ CallOK(c, client[c], signed, refused)
  BY Numbers DEF CertificatesInv, TypeOK, CallsInv, RevokeAtIssuer
<1>2. /\ client[c].request \in Requests /\ at \in Nat
      /\ client[c].of \in Certificates \cup {None}
  BY <1>1, CallFields, Numbers
<1>3. call \in Call
  BY <1>2 DEF Call
<1>4. client[c].of \in Recorded /\ client[c].of \in 1..signed
  <2>1. client[c].of \in Recorded
    BY <1>1 DEF CallOK, TargetOK
  <2>2. \A x \in Recorded : x <= signed /\ x \in Certificates
    BY <1>1, RowOfRecorded DEF CertificatesInv, RowsInv
  <2>. QED
    BY <1>1, <2>1, <2>2 DEF Certificates
<1>. DEFINE revoked == refused \cup {client[c].of}
<1>5. revoked \in SUBSET (1..signed) /\ refused \subseteq revoked /\ client[c].of \in revoked
  BY <1>1, <1>4
<1>6. /\ client' = [client EXCEPT ![c] = call] /\ refused' = revoked
      /\ UNCHANGED <<now, tenant, inventory, cached, feedback>> /\ signed' = signed
  BY <1>1 DEF RevokeAtIssuer, TypeOK
<1>7. /\ call.pc = "confirmed" /\ call.request = client[c].request /\ call.of = client[c].of
  OBVIOUS
<1>. HIDE DEF call, revoked
<1>8. CallOK(c, call, signed, revoked)
  BY <1>1, <1>4, <1>5, <1>7 DEF CallOK, TargetOK
<1>. QED
  BY <1>1, <1>3, <1>5, <1>6, <1>8, CallStep

LEMMA AbandonStep ==
  ASSUME CertificatesInv, NEW c \in Clients, Abandon(c)
  PROVE  CertificatesInv'
<1>1. Idle.pc = "idle" /\ refused \in SUBSET (1..signed) /\ signed \in signed..MaxSigned
  BY Numbers DEF Idle, CertificatesInv, TypeOK
<1>2. CallOK(c, Idle, signed, refused)
  BY <1>1 DEF CallOK
<1>. QED
  BY <1>1, <1>2, CallStep DEF Abandon

----------------------------------------------------------------------------
(* Writes of the inventory                                                 *)

LogGrows == \A e \in DOMAIN events : events'[e] = events[e]

RowsStay ==
  \A x \in Recorded : x \in Recorded' /\ cert'[x].predecessor = cert[x].predecessor

(* What was there can still be published.                                  *)
LEMMA OldEvents ==
  ASSUME CertificatesInv, LogGrows, RowsStay, NEW e \in DOMAIN events
  PROVE  EventOK(e)'
<1>1. EventOK(e)
  BY DEF CertificatesInv, EventsInv
<1>2. /\ events'[e] = events[e]
      /\ cert'[events[e].certificate].predecessor = cert[events[e].certificate].predecessor
      /\ events[e].certificate \in Recorded'
  BY <1>1 DEF LogGrows, RowsStay, EventOK
<1>. QED
  BY <1>1, <1>2 DEF EventOK, ClaimedRecord, LifecycleRecordValid

LEMMA ChangedRow ==
  ASSUME NEW row \in Row, NEW state \in States, NEW event \in Nat \ {0}
  PROVE  /\ Changed(row, state, event) \in Row
         /\ Changed(row, state, event).state = state
         /\ Changed(row, state, event).last = event
         /\ Changed(row, state, event).predecessor = row.predecessor
         /\ Changed(row, state, event).subject = row.subject
         /\ Changed(row, state, event).key = row.key
         /\ Changed(row, state, event).until = row.until
<1>1. row.version + 1 \in Nat \ {0}
  BY DEF Row
<1>. QED
  BY <1>1 DEF Changed, Row

(* At most the writing call ends, and no other call has what it recorded.  *)
LEMMA CallsAfterRecord ==
  ASSUME CertificatesInv, UNCHANGED <<signed, refused>>, Recorded \subseteq Recorded',
         \A d \in Clients : client'[d] \in {client[d], Idle},
         \A d \in Clients : client'[d].pc = "signed" => client'[d].certificate \notin Recorded'
  PROVE  CallsInv'
<1>. SUFFICES ASSUME NEW d \in Clients
              PROVE  CallOK(d, client[d], signed, refused)'
  BY DEF CallsInv
<1>1. CallOK(d, client[d], signed, refused)
  BY DEF CertificatesInv, CallsInv
<1>2. Idle.pc = "idle"
  BY DEF Idle
<1>3. CASE client'[d] = Idle
  BY <1>2, <1>3 DEF CallOK
<1>4. CASE client'[d] = client[d]
  <2>1. client[d].pc # "idle" => TargetOK(client[d])'
    BY <1>1, <1>4 DEF CallOK, TargetOK
  <2>2. client[d].pc = "signed" =>
          /\ client[d].request.op # "revoke"
          /\ client[d].certificate \in (1..signed) \ Recorded'
          /\ \A x \in Clients \ {d} :
               client[x].pc = "signed" => client[x].certificate # client[d].certificate
    BY <1>1, <1>4 DEF CallOK
  <2>3. client[d].pc = "signed" =>
          \A x \in Clients \ {d} :
            client'[x].pc = "signed" => client'[x].certificate # client[d].certificate
    BY <1>2, <2>2
  <2>4. client[d].pc = "confirmed" =>
          client[d].request.op = "revoke" /\ client[d].of \in refused
    BY <1>1 DEF CallOK
  <2>. HIDE DEF TargetOK
  <2>. QED
    BY <1>4, <2>1, <2>2, <2>3, <2>4 DEF CallOK
<1>. QED
  BY <1>3, <1>4

(* The end of an active certificate that is not superseded.                *)
LEMMA EndedStep ==
  ASSUME CertificatesInv, NEW x \in Recorded, cert[x].state = "active",
         NEW state \in {"revoked", "expired"}, state = "revoked" => x \in refused,
         NEW r \in Requests \cup {Expiry}, NEW at \in Nat, at <= now,
         cert' = [cert EXCEPT ![x] = Changed(@, state, NextEvent)],
         events' = Append(events, Event(state, x, cert[x].last, r, at)),
         \A d \in Clients : client'[d] \in {client[d], Idle},
         client' \in [Clients -> Call \cup {Idle}],
         UNCHANGED <<now, tenant, signed, refused, cached, feedback>>
  PROVE  CertificatesInv'
<1>. DEFINE row == Changed(cert[x], state, NextEvent)
            event == Event(state, x, cert[x].last, r, at)
<1>1. /\ TypeOK /\ now \in Nat /\ events \in Seq(LifecycleEvent)
      /\ x \in Certificates /\ cert[x] \in Row
  BY RowOfRecorded, Numbers DEF CertificatesInv, TypeOK
<1>2. NextEvent = Len(events) + 1 /\ Len(events) \in Nat /\ NextEvent \in Nat \ {0}
      /\ DOMAIN events = 1..Len(events)
  BY <1>1 DEF NextEvent
<1>3. /\ row \in Row /\ row.state = state /\ row.last = NextEvent
      /\ row.predecessor = cert[x].predecessor /\ row.subject = cert[x].subject
      /\ row.key = cert[x].key /\ row.until = cert[x].until
  <2>1. state \in States /\ NextEvent \in Nat \ {0} /\ cert[x] \in Row
    BY <1>1, <1>2 DEF States
  <2>. QED
    BY <2>1, ChangedRow
<1>4. /\ event \in LifecycleEvent /\ event.certificate = x /\ event.recorded = now
      /\ event.occurred = at /\ event.type = state /\ event.cause = cert[x].last
      /\ event.cause # None
  BY <1>1 DEF Event, LifecycleEvent, Row, None
<1>5. /\ cert' = [cert EXCEPT ![x] = row] /\ events' = Append(events, event)
      /\ UNCHANGED <<member, issuer, published, actions, evidence, effects>>
  BY DEF tenant, feedback
<1>. HIDE DEF row, event
<1>6. /\ cert' \in [Certificates -> Row \cup {Absent}] /\ cert'[x] = row
      /\ \A y \in Certificates \ {x} : cert'[y] = cert[y]
  BY <1>1, <1>3, <1>5 DEF TypeOK
<1>7. /\ events' \in Seq(LifecycleEvent) /\ DOMAIN events' = 1..(Len(events) + 1)
      /\ \A e \in DOMAIN events : events'[e] = events[e]
      /\ events'[NextEvent] = event /\ DOMAIN events \subseteq DOMAIN events'
  BY <1>1, <1>2, <1>4, <1>5
<1>8. Recorded' = Recorded
  BY <1>3, <1>6 DEF Recorded, States
<1>9. TypeOK'
  BY <1>1, <1>5, <1>6, <1>7 DEF TypeOK
<1>10. CallsInv'
  <2>1. \A d \in Clients : client'[d].pc = "signed" => client'[d].certificate \notin Recorded
    BY DEF CertificatesInv, CallsInv, CallOK, Idle
  <2>. QED
    BY <1>8, <2>1, CallsAfterRecord
<1>11. RowsInv'
  <2>. SUFFICES ASSUME NEW y \in Recorded
                PROVE  /\ y <= signed /\ cert'[y].last \in DOMAIN events'
                       /\ cert'[y].predecessor \in Recorded \cup {None}
                       /\ cert'[y].state = "revoked" => y \in refused
    BY <1>8 DEF RowsInv
  <2>1. /\ y <= signed /\ cert[y].last \in DOMAIN events /\ y \in Certificates
        /\ cert[y].predecessor \in Recorded \cup {None}
        /\ cert[y].state = "revoked" => y \in refused
    BY <1>1, RowOfRecorded DEF CertificatesInv, RowsInv
  <2>. QED
    BY <1>2, <1>3, <1>6, <1>7, <2>1
<1>12. ChainsInv'
  <2>1. \A y \in Recorded :
          /\ y \in Certificates
          /\ cert'[y].predecessor = cert[y].predecessor /\ cert'[y].subject = cert[y].subject
          /\ cert'[y].key = cert[y].key
          /\ cert'[y].state = "superseded" <=> cert[y].state = "superseded"
    BY <1>1, <1>3, <1>6, RowOfRecorded
  <2>2. \A y \in Recorded : cert[y].predecessor \in Recorded \cup {None}
    BY DEF CertificatesInv, RowsInv
  <2>3. ChainsInv
    BY DEF CertificatesInv
  <2>. QED
    BY <1>8, <2>1, <2>2, <2>3 DEF ChainsInv
<1>13. EventsInv'
  <2>1. RowsStay /\ LogGrows
    BY <1>1, <1>3, <1>6, <1>7, <1>8, RowOfRecorded DEF RowsStay, LogGrows
  <2>2. events'[NextEvent] = event /\ cert'[x].predecessor = cert[x].predecessor
    BY <1>3, <1>6, <1>7
  <2>3. ASSUME NEW e \in {NextEvent} PROVE EventOK(e)'
    <3>1. events'[e] = event
      BY <2>2
    <3>. QED
      BY <1>4, <1>8, <3>1 DEF EventOK, ClaimedRecord, LifecycleRecordValid
  <2>4. \A e \in DOMAIN events' : e \in DOMAIN events \/ e = NextEvent
    BY <1>2, <1>7
  <2>. QED
    BY <2>1, <2>3, <2>4, OldEvents DEF EventsInv
<1>14. VerdictsInv'
  <2>1. AcceptanceIsBounded'
    <3>. SUFFICES ASSUME NEW y \in Recorded
                  PROVE  /\ cached[y] <= cert'[y].until
                         /\ cert'[y].state # "active" =>
                              cached[y] <= events'[cert'[y].last].recorded + ResultLifetime
      BY <1>8 DEF AcceptanceIsBounded
    <3>1. /\ cached[y] <= cert[y].until /\ cached[y] <= now + ResultLifetime
          /\ cert[y].state # "active" =>
               cached[y] <= events[cert[y].last].recorded + ResultLifetime
          /\ cert[y].last \in DOMAIN events /\ y \in Certificates
      BY <1>1, RowOfRecorded DEF CertificatesInv, VerdictsInv, AcceptanceIsBounded, RowsInv
    <3>2. CASE y = x
      BY <1>3, <1>4, <1>6, <1>7, <3>1, <3>2
    <3>3. CASE y # x
      BY <1>6, <1>7, <3>1, <3>3
    <3>. QED
      BY <3>2, <3>3
  <2>. QED
    BY <1>8, <2>1 DEF CertificatesInv, VerdictsInv
<1>. QED
  BY <1>9, <1>10, <1>11, <1>12, <1>13, <1>14, EffectsKept DEF CertificatesInv

LEMMA IdledCalls ==
  ASSUME TypeOK, NEW c \in Clients, client' = [client EXCEPT ![c] = Idle]
  PROVE  /\ client' \in [Clients -> Call \cup {Idle}] /\ client'[c] = Idle
         /\ \A d \in Clients \ {c} : client'[d] = client[d]
         /\ \A d \in Clients : client'[d] \in {client[d], Idle}
BY DEF TypeOK

LEMMA RevocationRecorded ==
  ASSUME CertificatesInv, NEW c \in Clients, RecordRevocation(c)
  PROVE  CertificatesInv'
<1>. DEFINE x == client[c].of
            r == client[c].request
            at == client[c].at
<1>1. /\ TypeOK /\ client[c].pc = "confirmed" /\ CallOK(c, client[c], signed, refused)
      /\ cert[x].state = "active" /\ at <= now
  BY DEF CertificatesInv, CallsInv, RecordRevocation, RevocationAdmitted, RevocationTarget,
         EventTimesOrdered
<1>2. r \in Requests /\ at \in Nat /\ x \in Recorded /\ x \in refused
  BY <1>1, CallFields DEF CallOK, TargetOK
<1>3. /\ cert' = [cert EXCEPT ![x] = Changed(@, "revoked", NextEvent)]
      /\ events' = Append(events, Event("revoked", x, cert[x].last, r, at))
      /\ client' = [client EXCEPT ![c] = Idle]
      /\ UNCHANGED <<now, tenant, signed, refused, cached, feedback>>
  BY DEF RecordRevocation
<1>4. /\ client' \in [Clients -> Call \cup {Idle}]
      /\ \A d \in Clients : client'[d] \in {client[d], Idle}
  BY <1>1, <1>3, IdledCalls
<1>. HIDE DEF x, r, at
<1>. QED
  BY <1>1, <1>2, <1>3, <1>4, EndedStep

LEMMA ExpirationRecorded ==
  ASSUME CertificatesInv, NEW x \in Recorded, RecordExpiration(x)
  PROVE  CertificatesInv'
<1>1. /\ now \in Nat /\ now <= now /\ cert[x].state = "active"
      /\ client' \in [Clients -> Call \cup {Idle}]
      /\ \A d \in Clients : client'[d] \in {client[d], Idle}
  BY Numbers DEF CertificatesInv, TypeOK, RecordExpiration
<1>2. /\ cert' = [cert EXCEPT ![x] = Changed(@, "expired", NextEvent)]
      /\ events' = Append(events, Event("expired", x, cert[x].last, Expiry, now))
      /\ UNCHANGED <<now, tenant, signed, refused, cached, feedback>>
  BY DEF RecordExpiration
<1>. QED
  BY <1>1, <1>2, EndedStep

(* The row of the certificate a call had signed is a new one.              *)
LEMMA SignedRow ==
  ASSUME CertificatesInv, NEW c \in Clients, client[c].pc = "signed"
  PROVE  /\ client[c].certificate \in Certificates \ Recorded
         /\ client[c].certificate <= signed /\ cached[client[c].certificate] = 0
         /\ IssuedRecord(c) \in Row /\ IssuedRecord(c).state = "active"
         /\ IssuedRecord(c).subject = client[c].request.subject
         /\ IssuedRecord(c).key = client[c].key
         /\ IssuedRecord(c).predecessor = client[c].of
         /\ IssuedRecord(c).last = NextEvent
         /\ NextEvent = Len(events) + 1 /\ Len(events) \in Nat /\ NextEvent \in Nat \ {0}
         /\ DOMAIN events = 1..Len(events)
         /\ TargetOK(client[c])
<1>1. /\ TypeOK /\ events \in Seq(LifecycleEvent) /\ signed \in Nat
      /\ CallOK(c, client[c], signed, refused)
  BY Numbers DEF CertificatesInv, TypeOK, CallsInv
<1>2. /\ client[c].request \in Requests /\ client[c].at \in Nat
      /\ client[c].of \in Certificates \cup {None}
      /\ client[c].certificate \in Certificates /\ client[c].key \in Keys
      /\ client[c].request.subject \in Subjects
  BY <1>1, CallFields, RequestFields
<1>3. /\ NextEvent = Len(events) + 1 /\ Len(events) \in Nat /\ NextEvent \in Nat \ {0}
      /\ DOMAIN events = 1..Len(events)
  BY <1>1 DEF NextEvent
<1>4. client[c].at + Validity \in Nat
  BY <1>2, Numbers
<1>5. client[c].certificate \in (1..signed) \ Recorded /\ TargetOK(client[c])
  BY <1>1 DEF CallOK
<1>6. cached[client[c].certificate] = 0
  BY <1>2, <1>5 DEF CertificatesInv, VerdictsInv
<1>7. /\ IssuedRecord(c) \in Row /\ IssuedRecord(c).state = "active"
      /\ IssuedRecord(c).subject = client[c].request.subject
      /\ IssuedRecord(c).key = client[c].key /\ IssuedRecord(c).predecessor = client[c].of
      /\ IssuedRecord(c).last = NextEvent
  <2>. HIDE DEF NextEvent
  <2>. QED
    BY <1>2, <1>3, <1>4 DEF IssuedRecord, Instruction, Row, States
<1>. QED
  BY <1>1, <1>2, <1>3, <1>5, <1>6, <1>7

(* No other call has the certificate that the writing call recorded.       *)
LEMMA OtherCalls ==
  ASSUME CertificatesInv, NEW c \in Clients, client[c].pc = "signed",
         client' = [client EXCEPT ![c] = Idle], UNCHANGED <<signed, refused>>,
         Recorded' = Recorded \cup {client[c].certificate}
  PROVE  CallsInv'
<1>1. \A d \in Clients : client'[d].pc = "signed" => client'[d].certificate \notin Recorded'
  <2>. SUFFICES ASSUME NEW d \in Clients, client'[d].pc = "signed"
                PROVE  client'[d].certificate \notin Recorded'
    OBVIOUS
  <2>1. d # c /\ client'[d] = client[d]
    BY IdledCalls DEF CertificatesInv, Idle
  <2>2. client[d].certificate \notin Recorded /\ client[d].certificate # client[c].certificate
    BY <2>1 DEF CertificatesInv, CallsInv, CallOK
  <2>. QED
    BY <2>1, <2>2
<1>2. \A d \in Clients : client'[d] \in {client[d], Idle}
  BY IdledCalls DEF CertificatesInv
<1>. QED
  BY <1>1, <1>2, CallsAfterRecord

LEMMA IssuanceRecorded ==
  ASSUME CertificatesInv, NEW c \in Clients, RecordIssuance(c)
  PROVE  CertificatesInv'
<1>. DEFINE x == client[c].certificate
            row == IssuedRecord(c)
            event == Event("issued", x, None, client[c].request, client[c].at)
<1>1. /\ TypeOK /\ client[c].pc = "signed" /\ client[c].request.op = "issue"
      /\ client[c].at <= now /\ events \in Seq(LifecycleEvent) /\ now \in Nat
  BY Numbers DEF CertificatesInv, TypeOK, RecordIssuance
<1>2. /\ x \in Certificates \ Recorded /\ x <= signed /\ cached[x] = 0
      /\ row \in Row /\ row.state = "active" /\ row.predecessor = None
      /\ row.last = NextEvent /\ row.until \in Nat
      /\ NextEvent = Len(events) + 1 /\ Len(events) \in Nat
      /\ NextEvent \in Nat \ {0} /\ DOMAIN events = 1..Len(events)
  <2>1. row \in Row => row.until \in Nat
    BY DEF Row
  <2>2. client[c].of = None
    BY <1>1, SignedRow DEF TargetOK
  <2>. QED
    BY <1>1, <2>1, <2>2, SignedRow
<1>3. client[c].request \in Requests /\ client[c].at \in Nat
  BY <1>1, CallFields
<1>4. /\ event \in LifecycleEvent /\ event.certificate = x /\ event.recorded = now
      /\ event.occurred = client[c].at /\ event.type = "issued" /\ event.cause = None
  BY <1>1, <1>2, <1>3 DEF Event, LifecycleEvent, None
<1>5. /\ cert' = [cert EXCEPT ![x] = row] /\ events' = Append(events, event)
      /\ client' = [client EXCEPT ![c] = Idle]
      /\ UNCHANGED <<now, member, issuer, signed, refused, cached, published, actions,
                     evidence, effects>>
  BY DEF RecordIssuance, tenant, feedback
<1>. HIDE DEF x, row, event
<1>6. /\ cert' \in [Certificates -> Row \cup {Absent}] /\ cert'[x] = row
      /\ \A y \in Certificates \ {x} : cert'[y] = cert[y]
  BY <1>1, <1>2, <1>5 DEF TypeOK
<1>7. /\ events' \in Seq(LifecycleEvent) /\ DOMAIN events' = 1..(Len(events) + 1)
      /\ \A e \in DOMAIN events : events'[e] = events[e]
      /\ events'[NextEvent] = event /\ DOMAIN events \subseteq DOMAIN events'
  BY <1>1, <1>2, <1>4, <1>5
<1>8. Recorded' = Recorded \cup {x}
  BY <1>2, <1>6 DEF Recorded
<1>9. TypeOK'
  BY <1>1, <1>5, <1>6, <1>7, IdledCalls DEF TypeOK
<1>10. CallsInv'
  BY <1>1, <1>5, <1>8, OtherCalls DEF x
<1>11. \A y \in Recorded : y \in Certificates \ {x} /\ cert'[y] = cert[y] /\ y # None
  BY <1>1, <1>2, <1>6, RowOfRecorded
<1>12. RowsInv'
  <2>. SUFFICES ASSUME NEW y \in Recorded'
                PROVE  /\ y <= signed /\ cert'[y].last \in DOMAIN events'
                       /\ cert'[y].predecessor \in Recorded' \cup {None}
                       /\ cert'[y].state = "revoked" => y \in refused
    BY <1>5 DEF RowsInv
  <2>1. CASE y = x
    BY <1>2, <1>6, <1>7, <2>1
  <2>2. CASE y # x
    <3>1. y \in Recorded /\ cert'[y] = cert[y]
      BY <1>8, <1>11, <2>2
    <3>. QED
      BY <1>7, <1>8, <3>1 DEF CertificatesInv, RowsInv
  <2>. QED
    BY <2>1, <2>2
<1>13. ChainsInv'
  <2>1. \A y \in Recorded : cert[y].predecessor \in Recorded \cup {None}
    BY DEF CertificatesInv, RowsInv
  <2>2. ChainsInv
    BY DEF CertificatesInv
  <2>3. cert'[x].predecessor = None /\ cert'[x].state = "active"
    BY <1>2, <1>6
  <2>. QED
    BY <1>8, <1>11, <2>1, <2>2, <2>3 DEF ChainsInv
<1>14. EventsInv'
  <2>1. RowsStay /\ LogGrows
    BY <1>7, <1>8, <1>11 DEF RowsStay, LogGrows
  <2>2. ASSUME NEW e \in {NextEvent} PROVE EventOK(e)'
    <3>1. events'[e] = event /\ cert'[x].predecessor = None /\ x \in Recorded'
      BY <1>2, <1>6, <1>7, <1>8
    <3>. QED
      BY <1>1, <1>4, <3>1 DEF EventOK, ClaimedRecord, LifecycleRecordValid
  <2>3. \A e \in DOMAIN events' : e \in DOMAIN events \/ e = NextEvent
    BY <1>2, <1>7
  <2>. QED
    BY <2>1, <2>2, <2>3, OldEvents DEF EventsInv
<1>15. VerdictsInv'
  <2>1. AcceptanceIsBounded'
    <3>. SUFFICES ASSUME NEW y \in Recorded'
                  PROVE  /\ cached[y] <= cert'[y].until
                         /\ cert'[y].state # "active" =>
                              cached[y] <= events'[cert'[y].last].recorded + ResultLifetime
      BY <1>5 DEF AcceptanceIsBounded
    <3>1. CASE y = x
      BY <1>2, <1>6, <3>1
    <3>2. CASE y # x
      <4>1. y \in Recorded /\ cert'[y] = cert[y]
        BY <1>8, <1>11, <3>2
      <4>2. events'[cert[y].last] = events[cert[y].last]
        BY <1>7, <4>1 DEF CertificatesInv, RowsInv
      <4>. QED
        BY <4>1, <4>2 DEF CertificatesInv, VerdictsInv, AcceptanceIsBounded
    <3>. QED
      BY <3>1, <3>2
  <2>. QED
    BY <1>5, <1>8, <2>1 DEF CertificatesInv, VerdictsInv
<1>. QED
  BY <1>5, <1>9, <1>10, <1>12, <1>13, <1>14, <1>15, EffectsKept DEF CertificatesInv, feedback

LEMMA TwoAppended ==
  ASSUME NEW S, NEW log \in Seq(S), NEW a \in S, NEW b \in S
  PROVE  /\ log \o <<a, b>> \in Seq(S) /\ DOMAIN (log \o <<a, b>>) = 1..(Len(log) + 2)
         /\ \A e \in DOMAIN log : (log \o <<a, b>>)[e] = log[e]
         /\ (log \o <<a, b>>)[Len(log) + 1] = a /\ (log \o <<a, b>>)[Len(log) + 2] = b
<1>1. /\ <<a, b>> \in Seq(S) /\ Len(<<a, b>>) = 2 /\ <<a, b>>[1] = a /\ <<a, b>>[2] = b
      /\ Len(log) \in Nat /\ DOMAIN log = 1..Len(log)
  OBVIOUS
<1>. QED
  BY <1>1

LEMMA RenewalRecorded ==
  ASSUME CertificatesInv, NEW c \in Clients, RecordRenewal(c)
  PROVE  CertificatesInv'
<1>. DEFINE x == client[c].certificate
            p == client[c].of
            row == IssuedRecord(c)
            old == Changed(cert[p], "superseded", NextEvent + 1)
            renewed == Event("renewed", x, cert[p].last, client[c].request, client[c].at)
            superseded == Event("superseded", p, NextEvent, client[c].request, client[c].at)
<1>1. /\ TypeOK /\ client[c].pc = "signed" /\ client[c].request.op = "renew"
      /\ client[c].at <= now /\ events \in Seq(LifecycleEvent) /\ now \in Nat
      /\ cert[p].state = "active" /\ cert[p].subject = client[c].request.subject
      /\ cert[p].key # client[c].key
  BY Numbers DEF CertificatesInv, TypeOK, RecordRenewal, PredecessorLocked
<1>2. /\ x \in Certificates \ Recorded /\ x <= signed /\ cached[x] = 0
      /\ row \in Row /\ row.state = "active" /\ row.predecessor = p
      /\ row.subject = client[c].request.subject /\ row.key = client[c].key
      /\ row.last = NextEvent /\ row.until \in Nat
      /\ NextEvent = Len(events) + 1 /\ Len(events) \in Nat
      /\ NextEvent \in Nat \ {0} /\ DOMAIN events = 1..Len(events)
      /\ p \in Recorded
  <2>1. row \in Row => row.until \in Nat
    BY DEF Row
  <2>2. p \in Recorded
    BY <1>1, SignedRow DEF TargetOK
  <2>. QED
    BY <1>1, <2>1, <2>2, SignedRow
<1>3. /\ client[c].request \in Requests /\ client[c].at \in Nat
      /\ p \in Certificates /\ cert[p] \in Row /\ p # None /\ p # x
      /\ cert[p].last \in Nat \ {0}
  <2>1. p \in Certificates /\ cert[p] \in Row /\ p # None /\ p # x
    BY <1>1, <1>2, RowOfRecorded
  <2>. QED
    BY <1>1, <2>1, CallFields DEF Row
<1>4. /\ old \in Row /\ old.state = "superseded" /\ old.last = NextEvent + 1
      /\ old.predecessor = cert[p].predecessor /\ old.subject = cert[p].subject
      /\ old.key = cert[p].key /\ old.until = cert[p].until
  <2>1. "superseded" \in States /\ NextEvent + 1 \in Nat \ {0} /\ cert[p] \in Row
    BY <1>2, <1>3 DEF States
  <2>. QED
    BY <2>1, ChangedRow
<1>5. /\ renewed \in LifecycleEvent /\ renewed.certificate = x /\ renewed.recorded = now
      /\ renewed.occurred = client[c].at /\ renewed.type = "renewed"
      /\ renewed.cause = cert[p].last
  BY <1>1, <1>2, <1>3 DEF Event, LifecycleEvent
<1>6. /\ superseded \in LifecycleEvent /\ superseded.certificate = p
      /\ superseded.recorded = now /\ superseded.occurred = client[c].at
      /\ superseded.type = "superseded" /\ superseded.cause = NextEvent
  BY <1>1, <1>2, <1>3 DEF Event, LifecycleEvent
<1>7. /\ cert' = [cert EXCEPT ![x] = row, ![p] = old]
      /\ events' = events \o <<renewed, superseded>>
      /\ client' = [client EXCEPT ![c] = Idle]
      /\ UNCHANGED <<now, member, issuer, signed, refused, cached, published, actions,
                     evidence, effects>>
  BY DEF RecordRenewal, RenewalEvents, tenant, feedback
<1>. HIDE DEF x, p, row, old, renewed, superseded
<1>8. /\ cert' \in [Certificates -> Row \cup {Absent}] /\ cert'[x] = row /\ cert'[p] = old
      /\ \A y \in Certificates \ {x, p} : cert'[y] = cert[y]
  BY <1>1, <1>2, <1>3, <1>4, <1>7 DEF TypeOK
<1>9. /\ events' \in Seq(LifecycleEvent) /\ DOMAIN events' = 1..(Len(events) + 2)
      /\ \A e \in DOMAIN events : events'[e] = events[e]
      /\ events'[NextEvent] = renewed /\ events'[NextEvent + 1] = superseded
      /\ DOMAIN events \subseteq DOMAIN events'
  <2>1. /\ events' \in Seq(LifecycleEvent) /\ DOMAIN events' = 1..(Len(events) + 2)
        /\ \A e \in DOMAIN events : events'[e] = events[e]
        /\ events'[Len(events) + 1] = renewed /\ events'[Len(events) + 2] = superseded
    BY <1>1, <1>5, <1>6, <1>7, TwoAppended
  <2>2. NextEvent + 1 = Len(events) + 2 /\ DOMAIN events \subseteq DOMAIN events'
    BY <1>2, <2>1
  <2>. QED
    BY <1>2, <2>1, <2>2
<1>10. Recorded' = Recorded \cup {x}
  BY <1>2, <1>4, <1>8 DEF Recorded
<1>11. TypeOK'
  BY <1>1, <1>7, <1>8, <1>9, IdledCalls DEF TypeOK
<1>12. CallsInv'
  BY <1>1, <1>7, <1>10, OtherCalls DEF x
<1>13. \A y \in Recorded :
         /\ y \in Certificates \ {x} /\ y # None
         /\ cert'[y].predecessor = cert[y].predecessor /\ cert'[y].subject = cert[y].subject
         /\ cert'[y].key = cert[y].key /\ cert'[y].until = cert[y].until
         /\ y # p => cert'[y] = cert[y]
  BY <1>1, <1>2, <1>4, <1>8, RowOfRecorded
<1>14. RowsInv'
  <2>. SUFFICES ASSUME NEW y \in Recorded'
                PROVE  /\ y <= signed /\ cert'[y].last \in DOMAIN events'
                       /\ cert'[y].predecessor \in Recorded' \cup {None}
                       /\ cert'[y].state = "revoked" => y \in refused
    BY <1>7 DEF RowsInv
  <2>1. CASE y = x
    BY <1>2, <1>8, <1>9, <1>10, <2>1
  <2>2. CASE y # x
    <3>1. y \in Recorded
      BY <1>10, <2>2
    <3>2. /\ y <= signed /\ cert[y].last \in DOMAIN events
          /\ cert[y].predecessor \in Recorded \cup {None}
          /\ cert[y].state = "revoked" => y \in refused
      BY <3>1 DEF CertificatesInv, RowsInv
    <3>3. CASE y = p
      BY <1>2, <1>4, <1>8, <1>9, <1>10, <3>2, <3>3
    <3>4. CASE y # p
      BY <1>9, <1>10, <1>13, <3>1, <3>2, <3>4
    <3>. QED
      BY <3>3, <3>4
  <2>. QED
    BY <2>1, <2>2
<1>15. ChainsInv'
  <2>1. \A y \in Recorded : cert[y].predecessor \in Recorded \cup {None}
    BY DEF CertificatesInv, RowsInv
  <2>2. ChainsInv
    BY DEF CertificatesInv
  <2>3. \A y \in Recorded : cert[y].predecessor # p
    BY <1>1, <1>2, <1>3, <2>2 DEF ChainsInv
  <2>. SUFFICES ASSUME NEW y \in Recorded'
                PROVE  /\ cert'[y].predecessor # None =>
                            LET q == cert'[cert'[y].predecessor]
                            IN  /\ q.state = "superseded" /\ q.subject = cert'[y].subject
                                /\ q.key # cert'[y].key
                       /\ cert'[y].state = "superseded" =>
                            \E z \in Recorded' : cert'[z].predecessor = y
                       /\ \A z \in Recorded' :
                            cert'[z].predecessor = cert'[y].predecessor =>
                              y = z \/ cert'[y].predecessor = None
    BY DEF ChainsInv
  <2>4. CASE y = x
    BY <1>1, <1>2, <1>4, <1>8, <1>10, <1>13, <2>3, <2>4
  <2>5. CASE y # x
    <3>1. y \in Recorded
      BY <1>10, <2>5
    <3>2. cert'[y].predecessor # None =>
            LET q == cert'[cert'[y].predecessor]
            IN  /\ q.state = "superseded" /\ q.subject = cert'[y].subject
                /\ q.key # cert'[y].key
      BY <1>13, <2>1, <2>2, <2>3, <3>1 DEF ChainsInv
    <3>3. cert'[y].state = "superseded" => \E z \in Recorded' : cert'[z].predecessor = y
      <4>1. CASE y = p
        BY <1>2, <1>8, <1>10, <4>1
      <4>2. CASE y # p
        BY <1>10, <1>13, <2>2, <3>1, <4>2 DEF ChainsInv
      <4>. QED
        BY <4>1, <4>2
    <3>4. ASSUME NEW z \in Recorded', cert'[z].predecessor = cert'[y].predecessor
          PROVE  y = z \/ cert'[y].predecessor = None
      <4>1. CASE z = x
        BY <1>2, <1>8, <1>13, <2>3, <3>1, <3>4, <4>1
      <4>2. CASE z # x
        BY <1>10, <1>13, <2>2, <3>1, <3>4, <4>2 DEF ChainsInv
      <4>. QED
        BY <4>1, <4>2
    <3>. QED
      BY <3>2, <3>3, <3>4
  <2>. QED
    BY <2>4, <2>5
<1>16. EventsInv'
  <2>1. RowsStay /\ LogGrows
    BY <1>9, <1>10, <1>13 DEF RowsStay, LogGrows
  <2>2. ASSUME NEW e \in {NextEvent} PROVE EventOK(e)'
    <3>1. events'[e] = renewed /\ cert'[x].predecessor = p /\ x \in Recorded'
      BY <1>2, <1>8, <1>9, <1>10
    <3>. QED
      BY <1>1, <1>3, <1>5, <3>1 DEF EventOK, ClaimedRecord, LifecycleRecordValid, None
  <2>3. ASSUME NEW e \in {NextEvent + 1} PROVE EventOK(e)'
    <3>1. events'[e] = superseded /\ p \in Recorded'
      BY <1>2, <1>9, <1>10
    <3>. QED
      BY <1>1, <1>2, <1>6, <3>1 DEF EventOK, ClaimedRecord, LifecycleRecordValid, None
  <2>4. \A e \in DOMAIN events' : e \in DOMAIN events \/ e = NextEvent \/ e = NextEvent + 1
    BY <1>2, <1>9
  <2>. QED
    BY <2>1, <2>2, <2>3, <2>4, OldEvents DEF EventsInv
<1>17. VerdictsInv'
  <2>1. AcceptanceIsBounded'
    <3>. SUFFICES ASSUME NEW y \in Recorded'
                  PROVE  /\ cached[y] <= cert'[y].until
                         /\ cert'[y].state # "active" =>
                              cached[y] <= events'[cert'[y].last].recorded + ResultLifetime
      BY <1>7 DEF AcceptanceIsBounded
    <3>1. CASE y = x
      BY <1>2, <1>8, <3>1
    <3>2. CASE y # x
      <4>1. /\ y \in Recorded /\ cached[y] <= cert[y].until /\ cached[y] <= now + ResultLifetime
            /\ cert[y].state # "active" =>
                 cached[y] <= events[cert[y].last].recorded + ResultLifetime
            /\ cert[y].last \in DOMAIN events
        BY <1>10, <1>13, <3>2
           DEF CertificatesInv, VerdictsInv, AcceptanceIsBounded, RowsInv
      <4>2. CASE y = p
        BY <1>4, <1>6, <1>8, <1>9, <4>1, <4>2
      <4>3. CASE y # p
        BY <1>9, <1>13, <4>1, <4>3
      <4>. QED
        BY <4>2, <4>3
    <3>. QED
      BY <3>1, <3>2
  <2>. QED
    BY <1>7, <1>10, <2>1 DEF CertificatesInv, VerdictsInv
<1>. QED
  BY <1>7, <1>11, <1>12, <1>14, <1>15, <1>16, <1>17, EffectsKept DEF CertificatesInv, feedback

----------------------------------------------------------------------------
(* Verdicts and time                                                       *)

(* A verdict is accepted on an active row only, and kept no longer than    *)
(* the lifetime of a result and the validity of the certificate.           *)
LEMMA ValidateStep ==
  ASSUME CertificatesInv, NEW x \in Recorded, NEW begun, ValidateStatus(x, begun)
  PROVE  CertificatesInv'
<1>1. /\ TypeOK /\ now \in Nat /\ ResultLifetime \in Nat /\ x \in Certificates
      /\ cert[x] \in Row
  BY RowOfRecorded, Numbers DEF CertificatesInv, TypeOK
<1>2. cert[x].state \in States /\ cert[x].until \in Nat
  BY <1>1 DEF Row
<1>3. cert[x].state = "active"
  <2>1. StatusReason(x) = "CERTIFICATE_ACTIVE"
    BY DEF ValidateStatus
  <2>2. CASE cert[x].state = "superseded"
    BY <2>1, <2>2 DEF StatusReason, LoadedStatus
  <2>3. CASE cert[x].state = "revoked"
    BY <2>1, <2>3 DEF StatusReason, LoadedStatus
  <2>4. CASE cert[x].state = "expired"
    BY <2>1, <2>4 DEF StatusReason, LoadedStatus
  <2>. QED
    BY <1>2, <2>2, <2>3, <2>4 DEF States
<1>4. /\ CacheDeadline(x) \in Nat /\ CacheDeadline(x) <= now + ResultLifetime
      /\ CacheDeadline(x) <= cert[x].until
  BY <1>1, <1>2 DEF CacheDeadline, LoadedStatus
<1>. DEFINE deadline == CacheDeadline(x)
<1>5. /\ cached' = [cached EXCEPT ![x] = deadline]
      /\ UNCHANGED <<now, tenant, signed, refused, inventory, client, feedback>>
  BY DEF ValidateStatus
<1>6. deadline \in Nat /\ deadline <= now + ResultLifetime /\ deadline <= cert[x].until
  BY <1>4
<1>. HIDE DEF deadline
<1>7. UNCHANGED <<cert, events, member, issuer, published, actions, evidence, effects>>
      /\ Recorded' = Recorded
  BY <1>5 DEF inventory, tenant, feedback, Recorded
<1>8. TypeOK'
  BY <1>1, <1>5, <1>6, <1>7 DEF TypeOK
<1>9. /\ cached'[x] = deadline
      /\ \A y \in Certificates \ {x} : cached'[y] = cached[y]
  BY <1>1, <1>5 DEF TypeOK
<1>10. VerdictsInv'
  <2>1. \A y \in Recorded : y \in Certificates
    BY DEF Recorded
  <2>. QED
    BY <1>3, <1>5, <1>6, <1>7, <1>9, <2>1 DEF CertificatesInv, VerdictsInv, AcceptanceIsBounded
<1>11. signed \in Nat /\ signed <= signed
  BY Numbers DEF CertificatesInv, TypeOK
<1>. QED
  BY <1>5, <1>8, <1>10, <1>11, InventoryKept, CallsKept, EffectsKept DEF CertificatesInv

LEMMA TickStep ==
  ASSUME CertificatesInv, Tick
  PROVE  CertificatesInv'
<1>1. /\ TypeOK /\ now \in Nat /\ now' \in Nat /\ now' > now /\ now' \in Instants
      /\ ResultLifetime \in Nat
      /\ cached' = [x \in Certificates |-> IF cached[x] > now' THEN cached[x] ELSE 0]
      /\ UNCHANGED <<tenant, signed, refused, inventory, client, feedback>>
  BY Numbers DEF CertificatesInv, TypeOK, Tick
<1>2. UNCHANGED <<cert, events, member, issuer, published, actions, evidence, effects>>
      /\ Recorded' = Recorded
  BY <1>1 DEF inventory, tenant, feedback, Recorded
<1>3. \A x \in Certificates : cached[x] \in Nat /\ cached'[x] \in {0, cached[x]}
  BY <1>1 DEF TypeOK
<1>4. cached' \in [Certificates -> Nat]
  BY <1>1, <1>3
<1>5. TypeOK'
  BY <1>1, <1>2, <1>4 DEF TypeOK
<1>6. VerdictsInv'
  <2>1. ASSUME NEW x \in Recorded
        PROVE  /\ cached'[x] <= cert[x].until
               /\ cert[x].state # "active" =>
                    cached'[x] <= events[cert[x].last].recorded + ResultLifetime
    <3>1. /\ x \in Certificates /\ cert[x] \in Row /\ events \in Seq(LifecycleEvent)
          /\ cert[x].last \in DOMAIN events
          /\ cached[x] <= cert[x].until
          /\ cert[x].state # "active" =>
               cached[x] <= events[cert[x].last].recorded + ResultLifetime
      BY <1>1, RowOfRecorded
         DEF CertificatesInv, RowsInv, VerdictsInv, AcceptanceIsBounded, TypeOK
    <3>2. cert[x].until \in Nat
      BY <3>1 DEF Row
    <3>3. events[cert[x].last] \in LifecycleEvent
      BY <3>1
    <3>4. events[cert[x].last].recorded \in Nat
      BY <3>3 DEF LifecycleEvent
    <3>. QED
      BY <1>1, <1>3, <3>1, <3>2, <3>4
  <2>2. ASSUME NEW x \in Certificates
        PROVE  /\ cached'[x] <= now' + ResultLifetime
               /\ x \notin Recorded => cached'[x] = 0
    <3>1. cached[x] <= now + ResultLifetime /\ (x \notin Recorded => cached[x] = 0)
      BY DEF CertificatesInv, VerdictsInv
    <3>. QED
      BY <1>1, <1>3, <3>1
  <2>. QED
    BY <1>2, <2>1, <2>2 DEF VerdictsInv, AcceptanceIsBounded
<1>7. signed \in Nat /\ signed <= signed
  BY Numbers DEF CertificatesInv, TypeOK
<1>. QED
  BY <1>1, <1>5, <1>6, <1>7, InventoryKept, CallsKept, EffectsKept DEF CertificatesInv

----------------------------------------------------------------------------
(* Events and trust effects                                                *)

(* A step of the feedback leaves certificates, calls and verdicts alone.   *)
LEMMA FeedbackStep ==
  ASSUME CertificatesInv, UNCHANGED <<now, tenant, signed, refused, inventory, client, cached>>,
         published' \subseteq DOMAIN events, actions' \subseteq DOMAIN events,
         DOMAIN evidence' = EventIds, effects' \in [EventIds -> Nat], EffectsOnce'
  PROVE  CertificatesInv'
<1>1. UNCHANGED <<cert, events, member, issuer>>
  BY DEF inventory, tenant
<1>2. TypeOK'
  BY <1>1 DEF CertificatesInv, TypeOK
<1>3. signed \in Nat /\ signed <= signed
  BY Numbers DEF CertificatesInv, TypeOK
<1>. QED
  BY <1>2, <1>3, InventoryKept, CallsKept, VerdictsKept DEF CertificatesInv

LEMMA PublishStep ==
  ASSUME CertificatesInv, NEW e \in DOMAIN events, PublishClaim(e) \/ MarkActionSucceeded(e)
  PROVE  CertificatesInv'
<1>1. /\ UNCHANGED <<now, tenant, signed, refused, inventory, client, cached, evidence, effects>>
      /\ published \subseteq published'
      /\ published' \subseteq DOMAIN events /\ actions' \subseteq DOMAIN events
  BY DEF PublishClaim, MarkActionSucceeded, CertificatesInv, TypeOK
<1>2. EffectsOnce'
  BY <1>1 DEF CertificatesInv, EffectsOnce
<1>. QED
  BY <1>1, <1>2, FeedbackStep DEF CertificatesInv, TypeOK

(* Evidence and effect of an event are recorded together, and the evidence *)
(* makes the next delivery a duplicate.                                    *)
LEMMA ConsumeStep ==
  ASSUME CertificatesInv, NEW e \in DOMAIN events, ConsumeFeedback(e)
  PROVE  CertificatesInv'
<1>1. /\ TypeOK /\ e \in Nat \ {0} /\ e \in published
      /\ UNCHANGED <<now, tenant, signed, refused, inventory, client, cached, published, actions>>
      /\ evidence' = [evidence EXCEPT ![e] = IF @ = NoEvidence THEN LifecycleEvidence(e) ELSE @]
      /\ effects' = IF Applied(e) THEN [effects EXCEPT ![e] = @ + 1] ELSE effects
  BY DEF CertificatesInv, TypeOK, ConsumeFeedback, Delivered
<1>2. LifecycleEvidence(e) # NoEvidence
  <2>1. LifecycleEvidence(e).event = e /\ NoEvidence.event = 0
    BY DEF LifecycleEvidence, NoEvidence, None
  <2>. QED
    BY <1>1, <2>1
<1>3. Applied(e) <=> evidence[e] = NoEvidence
  BY <1>2 DEF Applied, FeedbackOutcome
<1>4. /\ DOMAIN evidence' = EventIds
      /\ e \in EventIds => evidence'[e] # NoEvidence
      /\ \A f \in EventIds \ {e} : evidence'[f] = evidence[f]
  BY <1>1, <1>2 DEF TypeOK
<1>5. /\ effects' \in [EventIds -> Nat]
      /\ \A f \in EventIds \ {e} : effects'[f] = effects[f]
      /\ e \in EventIds => effects'[e] = IF evidence[e] = NoEvidence THEN effects[e] + 1
                                         ELSE effects[e]
  <2>1. effects \in [EventIds -> Nat]
    BY <1>1 DEF TypeOK
  <2>2. CASE evidence[e] = NoEvidence
    <3>1. effects' = [effects EXCEPT ![e] = effects[e] + 1]
      BY <1>1, <1>3, <2>2
    <3>2. e \in EventIds => effects[e] + 1 \in Nat
      BY <2>1
    <3>. QED
      BY <2>1, <2>2, <3>1, <3>2
  <2>3. CASE evidence[e] # NoEvidence
    BY <1>1, <1>3, <2>1, <2>3
  <2>. QED
    BY <2>2, <2>3
<1>6. EffectsOnce'
  BY <1>1, <1>4, <1>5 DEF CertificatesInv, EffectsOnce
<1>. QED
  BY <1>1, <1>4, <1>5, <1>6, FeedbackStep DEF TypeOK

----------------------------------------------------------------------------
(* The invariant                                                           *)

LEMMA TenantSteps ==
  ASSUME CertificatesInv,
         \/ \E s \in Leavers : SetMembership(s)
         \/ \E allowed \in {{}, Operations} : SetIssuer(allowed)
  PROVE  CertificatesInv'
<1>1. /\ UNCHANGED <<now, signed, refused, inventory, client, cached, feedback>>
      /\ member' \in [Subjects -> BOOLEAN] /\ issuer' \subseteq Operations
  <2>1. ASSUME NEW s \in Leavers, SetMembership(s)
        PROVE  member' \in [Subjects -> BOOLEAN] /\ issuer' = issuer
    <3>. DEFINE active == ~member[s]
    <3>1. active \in BOOLEAN /\ member \in [Subjects -> BOOLEAN]
      BY RequestsAssumption DEF CertificatesInv, TypeOK
    <3>2. member' = [member EXCEPT ![s] = active] /\ issuer' = issuer
      BY <2>1 DEF SetMembership
    <3>. HIDE DEF active
    <3>. QED
      BY <3>1, <3>2
  <2>. QED
    BY <2>1 DEF SetMembership, SetIssuer, CertificatesInv, TypeOK
<1>2. UNCHANGED <<cert, events, published, actions, evidence, effects>>
  BY <1>1 DEF inventory, feedback
<1>3. TypeOK'
  BY <1>1, <1>2 DEF CertificatesInv, TypeOK
<1>4. signed \in Nat /\ signed <= signed
  BY Numbers DEF CertificatesInv, TypeOK
<1>. QED
  BY <1>1, <1>3, <1>4, InventoryKept, CallsKept, VerdictsKept, EffectsKept DEF CertificatesInv

LEMMA CertificatesInit == Init => CertificatesInv
<1>. SUFFICES ASSUME Init PROVE CertificatesInv
  OBVIOUS
<1>1. Recorded = {}
  BY DEF Init, Recorded, Absent
<1>2. TypeOK
  BY Numbers, TimesAssumption DEF Init, TypeOK, Operations
<1>3. CallsInv
  BY DEF Init, CallsInv, CallOK, Idle
<1>4. RowsInv /\ ChainsInv
  BY <1>1 DEF RowsInv, ChainsInv
<1>5. EventsInv
  BY DEF Init, EventsInv
<1>6. VerdictsInv
  BY <1>1, Numbers DEF Init, VerdictsInv, AcceptanceIsBounded
<1>7. EffectsOnce
  BY DEF Init, EffectsOnce
<1>. QED
  BY <1>2, <1>3, <1>4, <1>5, <1>6, <1>7 DEF CertificatesInv

LEMMA CertificatesStep == CertificatesInv /\ [Next]_vars => CertificatesInv'
<1>. SUFFICES ASSUME CertificatesInv, [Next]_vars PROVE CertificatesInv'
  OBVIOUS
<1>1. ASSUME NEW c \in Clients, IssuanceStep(c) \/ RevocationStep(c) \/ Abandon(c)
      PROVE  CertificatesInv'
  BY <1>1, PrepareSteps, SignStep, IssuerRevokes, AbandonStep, IssuanceRecorded,
     RenewalRecorded, RevocationRecorded DEF IssuanceStep, RevocationStep
<1>2. ASSUME NEW x \in Recorded, NEW begun \in (now - StatusTimeout)..now,
             ValidateStatus(x, begun)
      PROVE  CertificatesInv'
  BY <1>2, ValidateStep
<1>3. CASE EventStep
  BY <1>3, ExpirationRecorded, PublishStep, ConsumeStep DEF EventStep
<1>4. CASE \/ \E s \in Leavers : SetMembership(s)
           \/ \E allowed \in {{}, Operations} : SetIssuer(allowed)
  BY <1>4, TenantSteps
<1>5. CASE Tick
  BY <1>5, TickStep
<1>6. CASE UNCHANGED vars
  <2>1. UNCHANGED <<now, tenant, signed, refused, inventory, client, cached, published,
                    actions, evidence, effects>>
    BY <1>6 DEF vars, tenant, inventory
  <2>2. EffectsOnce'
    BY <2>1 DEF CertificatesInv, EffectsOnce
  <2>. QED
    BY <2>1, <2>2, FeedbackStep DEF CertificatesInv, TypeOK
<1>. QED
  BY <1>1, <1>2, <1>3, <1>4, <1>5, <1>6 DEF Next

LEMMA Invariant == Spec => []CertificatesInv
BY CertificatesInit, CertificatesStep, PTL DEF Spec

----------------------------------------------------------------------------
(* What follows from it                                                    *)

(* The inventory, the log, the calls and the feedback keep values of the   *)
(* types their tables have.                                                *)
THEOREM TypeCorrect == Spec => []TypeOK
<1>1. CertificatesInv => TypeOK
  BY DEF CertificatesInv
<1>. QED
  BY <1>1, Invariant, PTL

(* The row lock on the predecessor and the check of its state under it     *)
(* leave one renewal of several: chains of certificates never fork.        *)
THEOREM LinearSuccession == Spec => []SuccessionIsLinear
<1>1. CertificatesInv => SuccessionIsLinear
  <2>. SUFFICES ASSUME CertificatesInv, NEW x \in Recorded
                PROVE  /\ cert[x].state = "superseded" => Cardinality(Successors(x)) = 1
                       /\ cert[x].state # "superseded" => Successors(x) = {}
                       /\ \A y \in Successors(x) :
                            cert[y].subject = cert[x].subject /\ cert[y].key # cert[x].key
    BY DEF SuccessionIsLinear
  <2>1. x # None
    BY RowOfRecorded DEF CertificatesInv
  <2>2. \A y \in Successors(x) :
          /\ y \in Recorded /\ cert[y].predecessor = x /\ cert[x].state = "superseded"
          /\ cert[y].subject = cert[x].subject /\ cert[y].key # cert[x].key
    BY <2>1 DEF CertificatesInv, ChainsInv, Successors
  <2>3. ASSUME cert[x].state = "superseded"
        PROVE  Cardinality(Successors(x)) = 1
    <3>1. PICK y \in Recorded : cert[y].predecessor = x
      BY <2>3 DEF CertificatesInv, ChainsInv
    <3>2. \A z \in Recorded : cert[z].predecessor = x => y = z
      BY <2>1, <3>1 DEF CertificatesInv, ChainsInv
    <3>3. Successors(x) = {y}
      BY <3>1, <3>2 DEF Successors
    <3>. QED
      BY <3>3, FS_Singleton
  <2>. QED
    BY <2>2, <2>3
<1>. QED
  BY <1>1, Invariant, PTL

(* The issuer answers before the inventory is written, and the checks of   *)
(* the writes are those of the event builder.                              *)
THEOREM RecordedConfirmed == Spec => []RecordedIsConfirmed
<1>1. CertificatesInv => RecordedIsConfirmed
  BY DEF CertificatesInv, RowsInv, EventsInv, EventOK, RecordedIsConfirmed
<1>. QED
  BY <1>1, Invariant, PTL

(* cacheableUntil: a verdict read just before a revocation is used no      *)
(* longer than the lifetime of a result after it.                          *)
THEOREM AcceptanceBounded == Spec => []AcceptanceIsBounded
<1>1. CertificatesInv => AcceptanceIsBounded
  BY DEF CertificatesInv, VerdictsInv
<1>. QED
  BY <1>1, Invariant, PTL

(* record_certificate_lifecycle_feedback applies the effect with the       *)
(* evidence, and finds the evidence at every further delivery.             *)
THEOREM EffectAppliedOnce == Spec => []EffectsOnce
<1>1. CertificatesInv => EffectsOnce
  BY DEF CertificatesInv
<1>. QED
  BY <1>1, Invariant, PTL

(* Every write of the inventory demands an active row, and a new row is    *)
(* one of a certificate that was not in the inventory.                     *)
THEOREM EndedForever == Spec => EndIsFinal
<1>1. CertificatesInv /\ [Next]_vars =>
        [\A x \in Recorded :
           /\ x \in Recorded'
           /\ cert[x].state # "active" => cert'[x] = cert[x]]_vars
  <2>. SUFFICES ASSUME CertificatesInv, [Next]_vars, NEW x \in Recorded
                PROVE  /\ x \in Recorded'
                       /\ cert[x].state # "active" => cert'[x] = cert[x]
    OBVIOUS
  <2>1. x \in Certificates /\ cert[x] \in Row
    BY RowOfRecorded DEF CertificatesInv
  <2>2. ASSUME UNCHANGED cert PROVE x \in Recorded' /\ cert'[x] = cert[x]
    BY <2>2 DEF Recorded
  <2>3. ASSUME NEW c \in Clients, RecordIssuance(c)
        PROVE  x \in Recorded' /\ cert'[x] = cert[x]
    <3>1. x # client[c].certificate
      BY <2>3, SignedRow DEF RecordIssuance
    <3>2. cert'[x] = cert[x]
      BY <2>1, <2>3, <3>1 DEF RecordIssuance, CertificatesInv, TypeOK
    <3>. QED
      BY <2>1, <3>2 DEF Recorded
  <2>4. ASSUME NEW y, NEW state \in States, NEW event \in Nat \ {0},
               cert[y].state = "active", x = y => cert'[x] = Changed(cert[x], state, event),
               x # y => cert'[x] = cert[x]
        PROVE  /\ x \in Recorded'
               /\ cert[x].state # "active" => cert'[x] = cert[x]
    <3>1. Changed(cert[x], state, event).state = state
      BY <2>1, ChangedRow
    <3>2. state # "absent"
      BY DEF States
    <3>. QED
      BY <2>1, <2>4, <3>1, <3>2 DEF Recorded
  <2>5. /\ NextEvent \in Nat \ {0} /\ NextEvent + 1 \in Nat \ {0}
        /\ "superseded" \in States /\ "revoked" \in States /\ "expired" \in States
    BY DEF CertificatesInv, TypeOK, NextEvent, States
  <2>6. cert \in [Certificates -> Row \cup {Absent}]
    BY DEF CertificatesInv, TypeOK
  <2>7. ASSUME NEW c \in Clients, RecordRenewal(c)
        PROVE  /\ x \in Recorded'
               /\ cert[x].state # "active" => cert'[x] = cert[x]
    <3>1. x # client[c].certificate
      BY <2>7, SignedRow DEF RecordRenewal
    <3>2. /\ cert[client[c].of].state = "active"
          /\ x = client[c].of => cert'[x] = Changed(cert[x], "superseded", NextEvent + 1)
          /\ x # client[c].of => cert'[x] = cert[x]
      BY <2>1, <2>6, <2>7, <3>1 DEF RecordRenewal, PredecessorLocked
    <3>. HIDE DEF NextEvent
    <3>. QED
      BY <2>4, <2>5, <3>2
  <2>8. ASSUME NEW c \in Clients, RecordRevocation(c)
        PROVE  /\ x \in Recorded'
               /\ cert[x].state # "active" => cert'[x] = cert[x]
    <3>1. /\ cert[client[c].of].state = "active"
          /\ x = client[c].of => cert'[x] = Changed(cert[x], "revoked", NextEvent)
          /\ x # client[c].of => cert'[x] = cert[x]
      BY <2>1, <2>6, <2>8 DEF RecordRevocation, RevocationAdmitted, RevocationTarget
    <3>. QED
      BY <2>4, <2>5, <3>1
  <2>9. ASSUME NEW y \in Recorded, RecordExpiration(y)
        PROVE  /\ x \in Recorded'
               /\ cert[x].state # "active" => cert'[x] = cert[x]
    <3>1. /\ cert[y].state = "active"
          /\ x = y => cert'[x] = Changed(cert[x], "expired", NextEvent)
          /\ x # y => cert'[x] = cert[x]
      BY <2>1, <2>6, <2>9 DEF RecordExpiration
    <3>. QED
      BY <2>4, <2>5, <3>1
  <2>10. \/ UNCHANGED cert
         \/ \E c \in Clients : RecordIssuance(c) \/ RecordRenewal(c) \/ RecordRevocation(c)
         \/ \E y \in Recorded : RecordExpiration(y)
    <3>1. ASSUME NEW c \in Clients, IssuanceStep(c) \/ RevocationStep(c) \/ Abandon(c)
          PROVE  \/ UNCHANGED cert
                 \/ RecordIssuance(c) \/ RecordRenewal(c) \/ RecordRevocation(c)
      BY <3>1 DEF IssuanceStep, RevocationStep, Abandon, PrepareIssuance, PrepareRenewal,
                  PrepareRevocation, Begin, SignCertificate, RevokeAtIssuer, inventory
    <3>2. CASE EventStep
      BY <3>2 DEF EventStep, PublishClaim, MarkActionSucceeded, ConsumeFeedback, inventory
    <3>3. CASE UNCHANGED vars
      BY <3>3 DEF vars
    <3>. QED
      BY <3>1, <3>2, <3>3
         DEF Next, ValidateStatus, SetMembership, SetIssuer, Tick, inventory
  <2>. QED
    BY <2>2, <2>3, <2>7, <2>8, <2>9, <2>10
<1>. QED
  BY <1>1, Invariant, PTL DEF Spec, EndIsFinal
=============================================================================
