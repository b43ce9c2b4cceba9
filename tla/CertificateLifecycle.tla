------------------------ MODULE CertificateLifecycle -----------------------
(***************************************************************************)
(* Client certificates of a tenant: issuance, renewal and revocation       *)
(* (packages/certificate-issuance, certificate-inventory,                  *)
(* certificate-revocation; migrations 007 to 010), expiry and the signed   *)
(* lifecycle events (packages/certificate-events, 011), status validation  *)
(* (packages/certificate-status, 028) and the feedback of the events to    *)
(* the trust service (services/trust/src/certificate-lifecycle-feedback,   *)
(* 036).                                                                   *)
(*                                                                         *)
(* A caller reads, calls the issuer and writes the inventory in separate   *)
(* steps; other callers, expiry, membership and issuer changes come in     *)
(* between, and a refusal, a failure or a crash ends the attempt anywhere. *)
(*                                                                         *)
(* Simplifications:                                                        *)
(*   - one tenant, one issuer and one profile; a certificate, its serial   *)
(*     number and fingerprint are the order in which it was signed;        *)
(*   - validity starts with the request, not a minute earlier;             *)
(*   - a retry carries the same request; one of a completed request, which *)
(*     is answered or ends in a conflict, is no step;                      *)
(*   - an issuer confirmation is identified by its request;                *)
(*   - claims of the event outbox are those of EvidenceDelivery: here one  *)
(*     step claims, publishes and marks, a failed one changes nothing.     *)
(***************************************************************************)
EXTENDS Integers, Sequences, FiniteSets

CONSTANTS
  Subjects,        \* members of the tenant
  Admins,          \* those with the role tenant-admin
  Keys,            \* public keys
  Leavers,         \* bound: members who may be suspended
  Requests,        \* requests: operation, actor, subject and key
  Clients,         \* calls in flight
  Validity,        \* requested validity
  Skew,            \* 2 s between the clocks of issuer and database
  StatusTimeout,   \* repositoryTimeoutMilliseconds
  ResultLifetime,  \* acceptedResultLifetimeSeconds
  MaxSigned,       \* bound: certificates that the issuer signs
  MaxRefused,      \* bound: certificates that the issuer revokes
  Instants         \* bound: instants at which something happens

Operations == {"issue", "renew", "revoke"}

ASSUME RequestsAssumption ==
  /\ Admins \subseteq Subjects /\ Leavers \subseteq Subjects
  /\ \A r \in Requests :
       /\ r.op \in Operations /\ r.actor \in Subjects
       /\ r.subject \in Subjects /\ r.key \in Keys
ASSUME TimesAssumption ==
  /\ Validity \in Nat \ {0} /\ {Skew, StatusTimeout} \subseteq Nat
  /\ {ResultLifetime, MaxSigned} \subseteq Nat \ {0}
  /\ MaxRefused \in Nat
  /\ Instants \subseteq Nat /\ 0 \in Instants

VARIABLES
  now,       \* clock_timestamp()
  member,    \* active memberships
  issuer,    \* operations allowed to the active issuer; none if inactive
  signed,    \* number of certificates the issuer signed
  refused,   \* certificates the issuer revoked
  cert,      \* identity.certificates
  events,    \* identity.certificate_lifecycle_events
  client,    \* the calls in flight
  cached,    \* cacheableUntil of the latest accepting verdict
  published, \* events whose outbox row is published
  actions,   \* events that a succeeded revocation action refers to
  evidence,  \* trust.certificate_lifecycle_evidence, by event
  effects    \* trust effects applied for each event

vars == <<now, member, issuer, signed, refused, cert, events, client, cached,
          published, actions, evidence, effects>>

tenant == <<member, issuer>>
inventory == <<cert, events>>
feedback == <<published, actions, evidence, effects>>

Certificates == 1..MaxSigned

None == 0

Absent == [state |-> "absent"]

Idle == [pc |-> "idle"]

(* The request an expiry's event is recorded under.                        *)
Expiry == [op |-> "expire"]

----------------------------------------------------------------------------
(* Types *)

States == {"active", "superseded", "revoked", "expired"}

\* A row of identity.certificates
Row ==
  [state : States, subject : Subjects, key : Keys, issued : Nat, until : Nat,
   predecessor : Certificates \cup {None}, request : Requests, last : Nat \ {0},
   version : Nat \ {0}]

\* A row of identity.certificate_lifecycle_events
LifecycleEvent ==
  [type : {"issued", "renewed", "superseded", "revoked", "expired"},
   certificate : Certificates, cause : Nat, request : Requests \cup {Expiry},
   occurred : Nat, recorded : Nat]

\* A call between two of its steps
Call ==
  [pc : {"prepared", "confirmed"}, request : Requests,
   of : Certificates \cup {None}, at : Nat] \cup
  [pc : {"signed"}, request : Requests, of : Certificates \cup {None}, at : Nat,
   certificate : Certificates, key : Keys]

----------------------------------------------------------------------------
(* Authority *)

(* A resolved context is one of an active member.                          *)
ContextActive(actor) == member[actor]

AuthorizedTarget(actor, subject) ==
  member[subject] /\ (subject = actor \/ actor \in Admins)

IssuerAllows(op) == op \in issuer

IssuerActive == issuer # {}

(* The last quarter of a certificate's validity.                           *)
WindowOpen(x, at) ==
  /\ at >= cert[x].issued /\ at < cert[x].until
  /\ 4 * (cert[x].until - at) <= cert[x].until - cert[x].issued

Completed(r) == \E e \in DOMAIN events : events[e].request = r

----------------------------------------------------------------------------
(* Signing *)

Begin(c, r, x) ==
  /\ client[c].pc = "idle"
  /\ ContextActive(r.actor)
  /\ client' = [client EXCEPT
       ![c] = [pc |-> "prepared", request |-> r, of |-> x, at |-> now]]
  /\ UNCHANGED <<now, tenant, signed, refused, inventory, cached, feedback>>

PrepareIssuance(c, r) ==
  /\ r.op = "issue"
  /\ AuthorizedTarget(r.actor, r.subject)
  /\ IssuerAllows("issue")
  /\ ~Completed(r)
  /\ Begin(c, r, None)

(* What renewal demands of the certificate it replaces.                    *)
Renewable(x, r, at) ==
  /\ cert[x].state = "active" /\ cert[x].subject = r.subject
  /\ WindowOpen(x, at)
  /\ cert[x].key # r.key

PrepareRenewal(c, r, x) ==
  /\ r.op = "renew"
  /\ AuthorizedTarget(r.actor, r.subject)
  /\ Renewable(x, r, now)
  /\ IssuerAllows("renew")
  /\ Begin(c, r, x)

(* What the issuer is told to sign; only a renewal names the key.          *)
Instruction(c) ==
  [subject |-> client[c].request.subject, issued |-> client[c].at,
   until |-> client[c].at + Validity,
   keys |-> IF client[c].request.op = "renew"
              THEN {client[c].request.key} ELSE Keys]

(* Verification of what it signed, with the given key.                     *)
VerifiedCertificate(c, key) == key \in Instruction(c).keys

(* One that fails it ends the call (Abandon) and is never seen again.      *)
SignCertificate(c, key) ==
  /\ client[c].pc = "prepared" /\ client[c].request.op # "revoke"
  /\ VerifiedCertificate(c, key)
  /\ signed < MaxSigned
  /\ signed' = signed + 1
  /\ client' = [client EXCEPT ![c] =
       [pc |-> "signed", request |-> @.request, of |-> @.of,
        at |-> @.at, certificate |-> signed + 1, key |-> key]]
  /\ UNCHANGED <<now, tenant, refused, inventory, cached, feedback>>

----------------------------------------------------------------------------
(* The inventory *)

Event(type, x, cause, r, occurred) ==
  [type |-> type, certificate |-> x, cause |-> cause, request |-> r,
   occurred |-> occurred, recorded |-> now]

NextEvent == Len(events) + 1

(* The row of a signed certificate and its first event.                    *)
IssuedRecord(c) ==
  [state |-> "active", subject |-> Instruction(c).subject,
   key |-> client[c].key, issued |-> Instruction(c).issued,
   until |-> Instruction(c).until, predecessor |-> client[c].of,
   request |-> client[c].request, last |-> NextEvent, version |-> 1]

(* A state change of certificate x, with the event that stands for it.     *)
Changed(row, state, event) ==
  [row EXCEPT !.state = state, !.last = event, !.version = @ + 1]

WriteAuthorized(r) ==
  /\ ContextActive(r.actor)
  /\ AuthorizedTarget(r.actor, r.subject)
  /\ IssuerActive

RecordIssuance(c) ==
  LET r == client[c].request
      x == client[c].certificate
  IN  /\ client[c].pc = "signed" /\ r.op = "issue"
      /\ WriteAuthorized(r)
      /\ ~Completed(r)
      /\ client[c].at <= now
      /\ cert' = [cert EXCEPT ![x] = IssuedRecord(c)]
      /\ events' = Append(events, Event("issued", x, None, r, client[c].at))
      /\ client' = [client EXCEPT ![c] = Idle]
      /\ UNCHANGED <<now, tenant, signed, refused, cached, feedback>>

\* An operator named Bug... is what a plausible mistake would turn the definition
\* after it into; no specification uses it.

BugPredecessorLocked(c) ==
  LET x == client[c].of
  IN  /\ cert[x].subject = client[c].request.subject
      /\ WindowOpen(x, client[c].at)
      /\ cert[x].key # client[c].key

(* The predecessor, under its row lock.                                    *)
PredecessorLocked(c) ==
  LET x == client[c].of
  IN  /\ cert[x].state = "active"
      /\ cert[x].subject = client[c].request.subject
      /\ WindowOpen(x, client[c].at)
      /\ cert[x].key # client[c].key

(* The renewal follows from the predecessor's last event, and its end from *)
(* the renewal.                                                            *)
RenewalEvents(c) ==
  LET r == client[c].request
      at == client[c].at
  IN  <<Event("renewed", client[c].certificate, cert[client[c].of].last, r, at),
        Event("superseded", client[c].of, NextEvent, r, at)>>

RecordRenewal(c) ==
  LET r == client[c].request
      x == client[c].certificate
      p == client[c].of
  IN  /\ client[c].pc = "signed" /\ r.op = "renew"
      /\ WriteAuthorized(r)
      /\ ~Completed(r)
      /\ PredecessorLocked(c)
      /\ client[c].at <= now
      /\ cert' = [cert EXCEPT ![x] = IssuedRecord(c),
                              ![p] = Changed(cert[p], "superseded", NextEvent + 1)]
      /\ events' = events \o RenewalEvents(c)
      /\ client' = [client EXCEPT ![c] = Idle]
      /\ UNCHANGED <<now, tenant, signed, refused, cached, feedback>>

----------------------------------------------------------------------------
(* Revocation *)

RevocationTarget(r, x) ==
  /\ cert[x].state = "active"
  /\ cert[x].subject = r.actor \/ r.actor \in Admins

(* A request that was not completed prepares its instruction.              *)
PrepareRevocation(c, r, x) ==
  /\ r.op = "revoke"
  /\ ~Completed(r)
  /\ RevocationTarget(r, x)
  /\ IssuerAllows("revoke")
  /\ Begin(c, r, x)

(* The issuer's clock runs up to Skew ahead.                               *)
ConfirmationValid(c, at) == at >= client[c].at /\ at <= now + Skew

RevokeAtIssuer(c, at) ==
  /\ client[c].pc = "prepared" /\ client[c].request.op = "revoke"
  /\ ConfirmationValid(c, at)
  /\ refused' = refused \cup {client[c].of}
  /\ Cardinality(refused') <= MaxRefused
  /\ client' = [client EXCEPT ![c] =
       [pc |-> "confirmed", request |-> @.request, of |-> @.of, at |-> at]]
  /\ UNCHANGED <<now, tenant, signed, inventory, cached, feedback>>

(* The checks of record_certificate_revocation.                            *)
RevocationAdmitted(c) ==
  LET r == client[c].request
      x == client[c].of
  IN  /\ ContextActive(r.actor)
      /\ ~Completed(r)
      /\ RevocationTarget(r, x)
      /\ client[c].at >= cert[x].issued /\ client[c].at < cert[x].until
      /\ client[c].at <= now + Skew
      /\ IssuerActive

BugEventTimesOrdered(occurred) == occurred <= now + Skew

(* The table's check that an event is not recorded before it occurred.     *)
EventTimesOrdered(occurred) == occurred <= now

RecordRevocation(c) ==
  LET r == client[c].request
      x == client[c].of
  IN  /\ client[c].pc = "confirmed"
      /\ RevocationAdmitted(c)
      /\ EventTimesOrdered(client[c].at)
      /\ cert' = [cert EXCEPT ![x] = Changed(@, "revoked", NextEvent)]
      /\ events' = Append(events, Event("revoked", x, cert[x].last, r, client[c].at))
      /\ client' = [client EXCEPT ![c] = Idle]
      /\ UNCHANGED <<now, tenant, signed, refused, cached, feedback>>

(* Denied, in conflict, failed or dead: the call ends.                     *)
Abandon(c) ==
  /\ client[c].pc # "idle"
  /\ client' = [client EXCEPT ![c] = Idle]
  /\ UNCHANGED <<now, tenant, signed, refused, inventory, cached, feedback>>

(* The event worker's expiry of a certificate that is due.                 *)
RecordExpiration(x) ==
  /\ cert[x].state = "active" /\ now >= cert[x].until
  /\ cert' = [cert EXCEPT ![x] = Changed(@, "expired", NextEvent)]
  /\ events' = Append(events, Event("expired", x, cert[x].last, Expiry, now))
  /\ UNCHANGED <<now, tenant, signed, refused, client, cached, feedback>>

----------------------------------------------------------------------------
(* Status validation *)

(* createPostgresCertificateStatusRepository: the row, or none.            *)
LoadedStatus(x) == [state |-> cert[x].state, until |-> cert[x].until]

PresentedValid(x, at) == at >= cert[x].issued /\ at < cert[x].until

StatusReason(x) ==
  LET state == LoadedStatus(x).state
  IN  CASE state = "absent"     -> "CERTIFICATE_UNKNOWN"
        [] state = "revoked"    -> "CERTIFICATE_REVOKED"
        [] state = "expired"    -> "CERTIFICATE_EXPIRED"
        [] state = "superseded" -> "CERTIFICATE_SUPERSEDED"
        [] OTHER                -> "CERTIFICATE_ACTIVE"

BugCacheDeadline(x) == cert[x].until

CacheDeadline(x) ==
  LET until == LoadedStatus(x).until
  IN  IF now + ResultLifetime < until THEN now + ResultLifetime ELSE until

(* A check that began at `begun` reads the row within its timeout.         *)
ValidateStatus(x, begun) ==
  /\ cert[x].state # "absent" /\ ContextActive(cert[x].subject)
  /\ begun \in (now - StatusTimeout)..now
  /\ PresentedValid(x, begun)
  /\ StatusReason(x) = "CERTIFICATE_ACTIVE"
  /\ CacheDeadline(x) > begun
  /\ cached' = [cached EXCEPT ![x] = CacheDeadline(x)]
  /\ UNCHANGED <<now, tenant, signed, refused, inventory, client, feedback>>

----------------------------------------------------------------------------
(* Lifecycle events *)

(* The claimed event with its certificate's validity and predecessor.      *)
ClaimedRecord(e) ==
  LET x == events[e].certificate
  IN  [type |-> events[e].type, state |-> IF events[e].type \in {"issued", "renewed"}
                                          THEN "active" ELSE events[e].type,
       certificate |-> x, cause |-> events[e].cause,
       occurred |-> events[e].occurred, recorded |-> events[e].recorded,
       supersedes |-> cert[x].predecessor]

(* What the event's builder demands of a record.                           *)
LifecycleRecordValid(record) ==
  /\ record.recorded >= record.occurred
  /\ record.cause = None <=> record.type = "issued"
  /\ record.type = "issued" => record.supersedes = None
  /\ record.type = "renewed" => record.supersedes # None

(* The signed envelope that is published.                                  *)
Envelope(e) ==
  [event |-> e, certificate |-> ClaimedRecord(e).certificate,
   cause |-> ClaimedRecord(e).cause, state |-> ClaimedRecord(e).state]

(* The oldest event waits in front.                                        *)
FirstPending(e) == e \notin published /\ 1..(e - 1) \subseteq published

PublishClaim(e) ==
  /\ FirstPending(e)
  /\ LifecycleRecordValid(ClaimedRecord(e))
  /\ published' = published \cup {e}
  /\ UNCHANGED <<now, tenant, signed, refused, inventory, client, cached, actions, evidence, effects>>

(* The worker of security actions reports the revocation it executed.      *)
MarkActionSucceeded(e) ==
  /\ events[e].type = "revoked" /\ e \notin actions
  /\ actions' = actions \cup {e}
  /\ UNCHANGED <<now, tenant, signed, refused, inventory, client, cached, published, evidence, effects>>

----------------------------------------------------------------------------
(* Trust feedback *)

EventEffects ==
  [issued     |-> [score |-> 100, terminal |-> FALSE],
   renewed    |-> [score |-> 100, terminal |-> FALSE],
   superseded |-> [score |-> 100, terminal |-> TRUE],
   revoked    |-> [score |-> 0,   terminal |-> TRUE],
   expired    |-> [score |-> 0,   terminal |-> TRUE]]

(* What the consumer derives from a verified envelope.                     *)
NormalizedFeedback(e) ==
  [event |-> Envelope(e).event, certificate |-> Envelope(e).certificate,
   cause |-> Envelope(e).cause, effect |-> EventEffects[events[e].type]]

NoEvidence == [event |-> None]

(* What PostgreSQL records of a published event.                           *)
LifecycleEvidence(e) ==
  [event |-> e, certificate |-> events[e].certificate,
   cause |-> events[e].cause, effect |-> EventEffects[events[e].type],
   action |-> events[e].type = "revoked" /\ e \in actions]

FeedbackOutcome(e) ==
  CASE evidence[e] = NoEvidence           -> "recorded"
    [] evidence[e] = LifecycleEvidence(e) -> "duplicate"
    [] OTHER                              -> "conflict"

(* The answer is the one the consumer derived.                             *)
FeedbackConfirmed(e) ==
  /\ evidence'[e].certificate = NormalizedFeedback(e).certificate
  /\ evidence'[e].cause = NormalizedFeedback(e).cause
  /\ evidence'[e].effect = NormalizedFeedback(e).effect

BugApplied(e) == TRUE

Applied(e) == FeedbackOutcome(e) = "recorded"

(* Messages come in the order of the stream, and again.                    *)
Delivered(e) == e \in published /\ \A f \in 1..(e - 1) : evidence[f] # NoEvidence

(* Evidence and trust effect of a delivery, in one transaction.            *)
ConsumeFeedback(e) ==
  /\ Delivered(e)
  /\ FeedbackOutcome(e) # "conflict"
  /\ evidence' = [evidence EXCEPT ![e] = IF @ = NoEvidence THEN LifecycleEvidence(e) ELSE @]
  /\ FeedbackConfirmed(e)
  /\ effects' = IF Applied(e) THEN [effects EXCEPT ![e] = @ + 1] ELSE effects
  /\ UNCHANGED <<now, tenant, signed, refused, inventory, client, cached, published, actions>>

----------------------------------------------------------------------------
(* Bound: one membership or the issuer is out of force at a time.          *)
Settled == issuer = Operations /\ \A s \in Subjects : member[s]

SetMembership(s) ==
  /\ member[s] => Settled
  /\ member' = [member EXCEPT ![s] = ~@]
  /\ UNCHANGED <<now, issuer, signed, refused, inventory, client, cached, feedback>>

(* The tenant's issuer mapping is changed, also to inactive.               *)
SetIssuer(allowed) ==
  /\ issuer # allowed
  /\ allowed # Operations => Settled
  /\ issuer' = allowed
  /\ UNCHANGED <<now, member, signed, refused, inventory, client, cached, feedback>>

(* Time passes; a verdict is not used beyond its deadline.                 *)
Tick ==
  /\ now' \in {t \in Instants : t > now /\ \A u \in Instants : u > now => t <= u}
  /\ cached' = [x \in Certificates |-> IF cached[x] > now' THEN cached[x] ELSE 0]
  /\ UNCHANGED <<tenant, signed, refused, inventory, client, feedback>>

(* Each certificate has at most two events.                                *)
EventIds == 1..(2 * MaxSigned)

Init ==
  /\ now = 0 /\ signed = 0
  /\ member = [s \in Subjects |-> TRUE]
  /\ issuer = Operations
  /\ refused = {} /\ events = <<>> /\ published = {} /\ actions = {}
  /\ cert = [x \in Certificates |-> Absent]
  /\ client = [c \in Clients |-> Idle]
  /\ cached = [x \in Certificates |-> 0]
  /\ evidence = [e \in EventIds |-> NoEvidence]
  /\ effects = [e \in EventIds |-> 0]

Recorded == {x \in Certificates : cert[x].state # "absent"}

(* The issuance service: issue and renew.                                  *)
IssuanceStep(c) ==
  \/ \E r \in Requests : PrepareIssuance(c, r)
  \/ \E r \in Requests, x \in Recorded : PrepareRenewal(c, r, x)
  \/ \E key \in Keys : SignCertificate(c, key)
  \/ RecordIssuance(c)
  \/ RecordRenewal(c)

(* The revocation service.                                                 *)
RevocationStep(c) ==
  \/ \E r \in Requests, x \in Recorded : PrepareRevocation(c, r, x)
  \/ \E at \in now..(now + Skew) : RevokeAtIssuer(c, at)
  \/ RecordRevocation(c)

EventStep ==
  \/ \E x \in Recorded : RecordExpiration(x)
  \/ \E e \in DOMAIN events : PublishClaim(e) \/ MarkActionSucceeded(e) \/ ConsumeFeedback(e)

Next ==
  \/ \E c \in Clients : IssuanceStep(c) \/ RevocationStep(c) \/ Abandon(c)
  \/ \E x \in Recorded, begun \in (now - StatusTimeout)..now : ValidateStatus(x, begun)
  \/ EventStep
  \/ \E s \in Leavers : SetMembership(s)
  \/ \E allowed \in {{}, Operations} : SetIssuer(allowed)
  \/ Tick

Spec == Init /\ [][Next]_vars

----------------------------------------------------------------------------
(* Properties *)

(* The tables and calls have values of their types.                        *)
TypeOK ==
  /\ now \in Instants /\ signed \in 0..MaxSigned
  /\ member \in [Subjects -> BOOLEAN] /\ issuer \subseteq Operations
  /\ refused \subseteq 1..signed
  /\ cert \in [Certificates -> Row \cup {Absent}]
  /\ events \in Seq(LifecycleEvent)
  /\ client \in [Clients -> Call \cup {Idle}]
  /\ cached \in [Certificates -> Nat]
  /\ published \subseteq DOMAIN events /\ actions \subseteq DOMAIN events
  /\ DOMAIN evidence = EventIds
  /\ effects \in [EventIds -> Nat]

Successors(x) == {y \in Recorded : cert[y].predecessor = x}

(* Renewals form chains and never fork, however many callers renew one     *)
(* certificate at a time: a superseded certificate has exactly one         *)
(* successor, any other none, and the successor belongs to the same        *)
(* subject and has another key (certificate-renewal.md).                   *)
SuccessionIsLinear ==
  \A x \in Recorded :
    /\ cert[x].state = "superseded" => Cardinality(Successors(x)) = 1
    /\ cert[x].state # "superseded" => Successors(x) = {}
    /\ \A y \in Successors(x) :
         cert[y].subject = cert[x].subject /\ cert[y].key # cert[x].key

(* The event that created certificate x.                                   *)
Creation(x) ==
  CHOOSE e \in DOMAIN events :
    events[e].certificate = x /\ events[e].type \in {"issued", "renewed"}

(* Each certificate's events are one causal chain to its current state:    *)
(* creation from the predecessor's creation, its end from its creation or, *)
(* when superseded, from the successor's, and the row names the last of    *)
(* them and counts them (signed-certificate-events.md).                    *)
CausalHistory ==
  \A x \in Recorded :
    LET own == {e \in DOMAIN events : events[e].certificate = x}
        last == events[cert[x].last]
    IN  /\ cert[x].version = Cardinality(own) /\ cert[x].last \in own
        /\ cert[x].version = 1 <=> cert[x].state = "active"
        /\ events[Creation(x)].cause = IF cert[x].predecessor = None
             THEN None ELSE Creation(cert[x].predecessor)
        /\ cert[x].state # "active" =>
             /\ last.type = cert[x].state
             /\ last.cause = IF last.type = "superseded"
                  THEN Creation(CHOOSE y \in Successors(x) : TRUE)
                  ELSE Creation(x)

(* A certificate is revoked in the inventory only after the issuer revoked *)
(* it, and whatever is recorded can be published: the builder accepts the  *)
(* record of every committed event.                                        *)
RecordedIsConfirmed ==
  /\ \A x \in Recorded : cert[x].state = "revoked" => x \in refused
  /\ \A e \in DOMAIN events : LifecycleRecordValid(ClaimedRecord(e))

(* No accepting verdict outlives the certificate, nor the end of its       *)
(* active state by more than the lifetime of a result, although checks,    *)
(* renewals, revocations and expiry run concurrently.                      *)
AcceptanceIsBounded ==
  \A x \in Recorded :
    /\ cached[x] <= cert[x].until
    /\ cert[x].state # "active" =>
         cached[x] <= events[cert[x].last].recorded + ResultLifetime

(* However often an event is delivered, its trust effect is applied once,  *)
(* with the evidence, and never before the event was published.            *)
EffectsOnce ==
  \A e \in EventIds :
    /\ effects[e] = IF evidence[e] = NoEvidence THEN 0 ELSE 1
    /\ effects[e] = 1 => e \in published

(* The end of a certificate is final: no late renewal, revocation or       *)
(* expiry changes the row of one that was superseded, revoked or expired,  *)
(* and no row ever leaves the inventory.                                   *)
EndIsFinal ==
  [][\A x \in Recorded :
       /\ x \in Recorded'
       /\ cert[x].state # "active" => cert'[x] = cert[x]]_vars

(* A confirmation within the trusted clock skew can be recorded            *)
(* (010_revocation_confirmation_time.sql).                                 *)
SkewIsTolerated ==
  \A c \in Clients :
    client[c].pc = "confirmed" /\ RevocationAdmitted(c) =>
      EventTimesOrdered(client[c].at)

(* Redelivery of recorded feedback returns duplicate                       *)
(* (certificate-lifecycle-trust-feedback.md).                              *)
RedeliveryIsDuplicate ==
  \A e \in published : evidence[e] # NoEvidence => FeedbackOutcome(e) = "duplicate"
=============================================================================
