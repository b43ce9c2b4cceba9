------------------------- MODULE EvidenceIngestion -------------------------
(***************************************************************************)
(* Signed evidence on its way in: the source and key registry              *)
(* (packages/evidence-sources, migrations 014 and 018), the ingestion      *)
(* service with its replay guard (services/evidence, 015, 016, 018) and    *)
(* the encrypted storage (017).                                            *)
(*                                                                         *)
(* A request reads the verification context in one transaction and is      *)
(* judged by the guard in a later one, which reads the rate clock before   *)
(* it waits for the source's row. Registry operations, other requests and  *)
(* time come in between.                                                   *)
(*                                                                         *)
(* Simplifications:                                                        *)
(*   - one tenant; a public key and its fingerprint are the key;           *)
(*   - evidence type and synthetic flag of an envelope are one value;      *)
(*   - rejections are answered, their append-only log is left out;         *)
(*   - the influence cap of a receipt is not modelled.                     *)
(***************************************************************************)
EXTENDS Integers, Sequences, FiniteSets

CONSTANTS
  Subjects,      \* members of the tenant
  Admins,        \* those with the role tenant-admin
  Sources,       \* sources the tenant planned
  Keys,          \* key pairs, each offered for a source at most once
  NoKey,
  Envelopes,     \* envelopes that sources send
  Requests,      \* ingestion requests in flight
  Kind,          \* evidence type and synthetic flag of a source
  MaxAge,        \* maximum_age_seconds of the sources
  Skew,          \* maximumFutureClockSkewSeconds
  Retention,     \* 30 days
  Window,        \* rate_limit_window_seconds
  Quotas,        \* values rate_limit_max_events is configured with
  Threshold,     \* rate_limit_suspension_threshold
  MaxTime        \* bound: last tick

ASSUME ActorsAssumption == Admins \subseteq Subjects
ASSUME KeysAssumption == NoKey \notin Keys
ASSUME LimitsAssumption ==
  /\ MaxAge \in Nat \ {0} /\ Skew \in Nat /\ Retention \in Nat
  /\ Window \in Nat \ {0} /\ MaxTime \in Nat
ASSUME QuotasAssumption == Quotas \subseteq Nat \ {0} /\ Threshold \in Nat \ {0}

VARIABLES
  now,      \* clock_timestamp()
  member,   \* active memberships
  source,   \* trust.evidence_sources
  keys,     \* trust.evidence_source_keys
  rate,     \* trust.evidence_source_rate_state
  receipts, \* trust.evidence_ingestion_receipts, in the order of acceptance
  stored,   \* trust.encrypted_evidence of the events
  req       \* the requests

ingestionVars == <<now, member, source, keys, rate, receipts, stored, req>>

registry == <<source, keys>>

----------------------------------------------------------------------------
(* Envelopes and records *)

Events == {e.event : e \in Envelopes}

ASSUME EnvelopesAssumption ==
  \A e \in Envelopes :
    /\ e.subject \in Subjects /\ e.source \in Sources /\ e.key \in Keys
    /\ {e.seq, e.observed, e.expires} \subseteq Nat
    /\ e.shape \in {"valid", "malformed", "oversized"}

NoRate == [start |-> 0, accepted |-> 0, limited |-> 0, exists |-> FALSE]

NoEvidence == [state |-> "none"]

NoRequest == [pc |-> "idle"]

----------------------------------------------------------------------------
(* The registry *)

(* A tenant administrator in a context of its own tenant.                  *)
RequireAdmin(a) == a \in Admins /\ member[a]

KeysOf(s) == {k \in Keys : keys[k].source = s}

ActiveKeys(s) == {k \in KeysOf(s) : keys[k].state = "active"}

(* Key material is enrolled once and never comes back.                     *)
NewKey(k) == keys[k].state = "none"

LatestVersion(s) ==
  CHOOSE v \in {keys[k].version : k \in KeysOf(s)} :
    \A k \in KeysOf(s) : keys[k].version <= v

(* What the service demands of the row a mutation returns.                 *)
MutationConfirmed(s, k) ==
  /\ source'[s].state = "active" /\ source'[s].key = k
  /\ keys'[k].version >= 1

RevocationConfirmed(s, k) ==
  keys'[k].state = "revoked" /\ source'[s].state \in {"active", "suspended"}

SuspensionConfirmed(s, state) == source'[s].state = state

Enrollable(s) ==
  source[s].state = "planned" /\ source[s].key = NoKey /\ KeysOf(s) = {}

Enroll(a, s, k) ==
  /\ RequireAdmin(a)
  /\ NewKey(k)
  /\ Enrollable(s)
  /\ keys' = [keys EXCEPT
       ![k] = [state |-> "active", source |-> s, version |-> 1]]
  /\ source' = [source EXCEPT ![s].state = "active", ![s].key = k]
  /\ MutationConfirmed(s, k)
  /\ UNCHANGED <<now, member, rate, receipts, stored, req>>

Rotatable(s) ==
  /\ source[s].state \in {"active", "suspended"}
  /\ KeysOf(s) # {}
  /\ source[s].state = "active" => ActiveKeys(s) # {}

Rotated(s, k) ==
  [x \in Keys |->
     IF x = k THEN [state |-> "active", source |-> s,
                    version |-> LatestVersion(s) + 1]
     ELSE IF x \in ActiveKeys(s)
       THEN [keys[x] EXCEPT !.state = "rotated"] ELSE keys[x]]

(* Ends the key epoch of an active or suspended source, whatever it was    *)
(* suspended for.                                                          *)
RotateKey(a, s, k) ==
  /\ RequireAdmin(a)
  /\ NewKey(k)
  /\ Rotatable(s)
  /\ keys' = Rotated(s, k)
  /\ source' = [source EXCEPT ![s].state = "active", ![s].key = k]
  /\ MutationConfirmed(s, k)
  /\ UNCHANGED <<now, member, rate, receipts, stored, req>>

Revocable(s, k) ==
  keys[k].source = s /\ keys[k].state \in {"active", "rotated"}

RevokeKey(a, s, k) ==
  /\ RequireAdmin(a)
  /\ Revocable(s, k)
  /\ keys' = [keys EXCEPT ![k].state = "revoked"]
  /\ source' = IF keys[k].state = "active"
       THEN [source EXCEPT ![s].state = "suspended", ![s].key = NoKey]
       ELSE source
  /\ RevocationConfirmed(s, k)
  /\ UNCHANGED <<now, member, rate, receipts, stored, req>>

(* Starts a new window.                                                    *)
ConfigureSafeguards(a, s, quota) ==
  /\ RequireAdmin(a)
  /\ source' = [source EXCEPT ![s].quota = quota]
  /\ rate' = [rate EXCEPT ![s] = NoRate]
  /\ UNCHANGED <<now, member, keys, receipts, stored, req>>

SetSuspension(s, state) ==
  /\ source' = [source EXCEPT ![s].state = state]
  /\ rate' = [rate EXCEPT ![s] = NoRate]
  /\ SuspensionConfirmed(s, state)
  /\ UNCHANGED <<now, member, keys, receipts, stored, req>>

Suspend(a, s) ==
  /\ RequireAdmin(a)
  /\ source[s].state = "active"
  /\ SetSuspension(s, "suspended")

(* Only with an active key that is still the source's verification key.    *)
Resume(a, s) ==
  /\ RequireAdmin(a)
  /\ source[s].state = "suspended"
  /\ source[s].key \in ActiveKeys(s)
  /\ SetSuspension(s, "active")

----------------------------------------------------------------------------
(* The replay guard *)

(* An envelope's tenant, subject, source and key, all active and bound.    *)
ContextActive(e) ==
  /\ member[e.subject]
  /\ source[e.source].state = "active"
  /\ keys[e.key].state = "active"
  /\ source[e.source].key = e.key

(* The receipts of the envelope's source and key, by their position, and   *)
(* the one the epoch's state row names: the newest of them.                *)
Epoch(e) ==
  {i \in DOMAIN receipts : receipts[i].source = e.source /\ receipts[i].key = e.key}

Newest(epoch) == receipts[CHOOSE i \in epoch : \A j \in epoch : j <= i]

(* Receive time, lifetime and age of an envelope.                          *)
FreshnessReason(e, time) ==
  IF e.observed >= e.expires THEN "TIME_WINDOW_INVALID"
  ELSE IF e.observed > time + Skew THEN "OBSERVED_IN_FUTURE"
  ELSE IF e.observed < time - MaxAge THEN "STALE"
  ELSE IF e.expires <= time THEN "EXPIRED"
  ELSE IF e.expires > e.observed + MaxAge THEN "TTL_EXCEEDED"
  ELSE "none"

\* An operator named Bug... is what a plausible mistake would turn the definition
\* after it into; no specification uses it.

(* Duplicates in the tenant, then in the epoch, then the order of it.      *)
BugReplayReason(e) ==
  LET epoch == Epoch(e)
      last  == Newest(epoch)
  IN  IF \E i \in epoch : receipts[i].event = e.event
        THEN "EVENT_REPLAYED"
      ELSE IF \E i \in epoch : receipts[i].nonce = e.nonce
        THEN "NONCE_REPLAYED"
      ELSE IF epoch = {} THEN "none"
      ELSE IF e.seq = last.seq THEN "SEQUENCE_REPLAYED"
      ELSE IF e.seq < last.seq THEN "SEQUENCE_REORDERED"
      ELSE IF e.observed < last.observed THEN "OBSERVATION_REORDERED"
      ELSE "none"

ReplayReason(e) ==
  LET epoch == Epoch(e)
      last  == Newest(epoch)
  IN  IF \E i \in DOMAIN receipts : receipts[i].event = e.event
        THEN "EVENT_REPLAYED"
      ELSE IF \E i \in epoch : receipts[i].nonce = e.nonce
        THEN "NONCE_REPLAYED"
      ELSE IF epoch = {} THEN "none"
      ELSE IF e.seq = last.seq THEN "SEQUENCE_REPLAYED"
      ELSE IF e.seq < last.seq THEN "SEQUENCE_REORDERED"
      ELSE IF e.observed < last.observed THEN "OBSERVATION_REORDERED"
      ELSE "none"

(* apply_evidence_replay_guard_without_flood_control                       *)
GuardReason(e, time) ==
  IF ~ContextActive(e) THEN "CONTEXT_NOT_FOUND"
  ELSE IF FreshnessReason(e, time) # "none" THEN FreshnessReason(e, time)
  ELSE ReplayReason(e)

(* The rate row a call works on: a new one, the window's, or a new window. *)
BugCurrentRate(s, time) ==
  IF ~rate[s].exists \/ time > rate[s].start + Window
    THEN [start |-> time, accepted |-> 0, limited |-> 0, exists |-> TRUE]
    ELSE rate[s]

CurrentRate(s, time) ==
  IF ~rate[s].exists \/ time >= rate[s].start + Window
    THEN [start |-> time, accepted |-> 0, limited |-> 0, exists |-> TRUE]
    ELSE rate[s]

(* The two constraints on the clock of the rate row: a call that read the  *)
(* clock before another one started the window cannot write it.            *)
RateTimeOrder(row, time) == time >= row.start

----------------------------------------------------------------------------
(* Encrypted storage *)

(* The protector binds the ciphertext to the event, its subject, its       *)
(* source and the hash of the signed content.                              *)
Protect(e) ==
  [event |-> e.event, subject |-> e.subject, source |-> e.source,
   content |-> e.content]

ProtectionBound(p, e) ==
  /\ p.event = e.event /\ p.subject = e.subject
  /\ p.source = e.source /\ p.content = e.content

StoredEvidence(e) ==
  [state |-> "active", evidence |-> Protect(e), until |-> now + Retention]

Erased(ev) == [state |-> "deleted", until |-> stored[ev].until]

(* The tenant and actor context of a storage transaction.                  *)
ActorContext(a) == member[a]

(* A row an active member may read: its subject or an administrator.       *)
Readable(a, ev) ==
  /\ ActorContext(a)
  /\ stored[ev].state = "active"
  /\ stored[ev].until > now
  /\ stored[ev].evidence.subject = a \/ a \in Admins

(* Decryption authenticates what the ciphertext was bound to.              *)
Unprotect(ev) == stored[ev].evidence

(* What the reader is given: the decrypted envelope, if it is the one the  *)
(* row is bound to.                                                        *)
Retrieve(a, ev) ==
  IF Readable(a, ev) /\ Unprotect(ev).event = ev
    THEN Unprotect(ev).content ELSE "none"

DeleteEvidence(a, ev) ==
  /\ RequireAdmin(a)
  /\ stored[ev].state = "active"
  /\ stored' = [stored EXCEPT ![ev] = Erased(ev)]
  /\ UNCHANGED <<now, member, source, keys, rate, receipts, req>>

Expired == {ev \in Events : stored[ev].state = "active" /\ stored[ev].until <= now}

PurgeExpired(a) ==
  /\ RequireAdmin(a)
  /\ Expired # {}
  /\ stored' = [ev \in Events |-> IF ev \in Expired THEN Erased(ev) ELSE stored[ev]]
  /\ UNCHANGED <<now, member, source, keys, rate, receipts, req>>

----------------------------------------------------------------------------
(* Ingestion *)

(* Whatever it was told, the requester may send the envelope again.        *)
Answered(r) == req' = [req EXCEPT ![r] = NoRequest]

(* The service looks at shape and sizes before anything else.              *)
EnvelopeReason(e) ==
  CASE e.shape = "malformed" -> "SCHEMA_INVALID"
    [] e.shape = "oversized" -> "TOO_LARGE"
    [] OTHER                 -> "none"

(* Does the context belong to the envelope?                                *)
BindingReason(e) == IF e.kind = Kind[e.source] THEN "none" ELSE "BINDING_INVALID"

SignatureReason(e) ==
  IF e.digest # e.content THEN "SIGNED_CONTENT_DIGEST_INVALID"
  ELSE IF e.signer # e.key THEN "SIGNATURE_INVALID"
  ELSE "none"

VerificationReason(e) ==
  IF ~ContextActive(e) THEN "CONTEXT_NOT_FOUND"
  ELSE IF BindingReason(e) # "none" THEN BindingReason(e)
  ELSE SignatureReason(e)

(* The service checks the envelope, the resolver reads its context in a    *)
(* transaction, and the service checks what was read.                      *)
Verify(r, e) ==
  /\ req[r].pc = "idle"
  /\ req' = [req EXCEPT ![r] =
       IF EnvelopeReason(e) = "none" /\ VerificationReason(e) = "none"
         THEN [pc |-> "guard", envelope |-> e, verified |-> now] ELSE NoRequest]
  /\ UNCHANGED <<now, member, source, keys, rate, receipts, stored>>

Receipt(e) ==
  [event |-> e.event, subject |-> e.subject, source |-> e.source,
   key |-> e.key, seq |-> e.seq, nonce |-> e.nonce, content |-> e.content,
   observed |-> e.observed, expires |-> e.expires, accepted |-> now]

(* Receipt, storage and rate in one transaction.                           *)
Accept(e, row) ==
  /\ receipts' = Append(receipts, Receipt(e))
  /\ stored' = [stored EXCEPT ![e.event] = StoredEvidence(e)]
  /\ ProtectionBound(stored'[e.event].evidence, e)
  /\ rate' = [rate EXCEPT ![e.source] = [row EXCEPT !.accepted = @ + 1]]
  /\ UNCHANGED source

(* Too many in the window; the source is suspended if this goes on.        *)
Limit(e, row) ==
  /\ rate' = [rate EXCEPT ![e.source] = [row EXCEPT !.limited = @ + 1]]
  /\ source' = IF row.limited + 1 >= Threshold
       THEN [source EXCEPT ![e.source].state = "suspended"] ELSE source
  /\ UNCHANGED <<receipts, stored>>

BugGuardOutcome(e, begun) ==
  LET row == CurrentRate(e.source, begun)
  IN  IF row.accepted >= source[e.source].quota THEN "RATE_LIMITED"
      ELSE IF FreshnessReason(e, now) # "none" THEN FreshnessReason(e, now)
      ELSE IF ReplayReason(e) = "none" THEN "accepted" ELSE ReplayReason(e)

GuardOutcome(e, begun) ==
  LET row == CurrentRate(e.source, begun)
  IN  IF ~ContextActive(e) THEN "CONTEXT_NOT_FOUND"
      ELSE IF row.accepted >= source[e.source].quota THEN "RATE_LIMITED"
      ELSE IF GuardReason(e, now) = "none" THEN "accepted"
      ELSE GuardReason(e, now)

(* The guard read its clock at begun, has waited for the row and commits;  *)
(* its answer arrives or is lost. A write against the order of the rate's  *)
(* clock aborts it.                                                        *)
ApplyGuard(r, begun) ==
  LET e       == req[r].envelope
      row     == CurrentRate(e.source, begun)
      outcome == GuardOutcome(e, begun)
  IN  /\ req[r].pc = "guard" /\ begun >= req[r].verified
      /\ outcome \in {"accepted", "RATE_LIMITED"} => RateTimeOrder(row, begun)
      /\ CASE outcome = "accepted"          -> Accept(e, row)
           [] outcome = "RATE_LIMITED"      -> Limit(e, row)
           [] outcome = "CONTEXT_NOT_FOUND" ->
                UNCHANGED <<source, rate, receipts, stored>>
           [] OTHER ->
                /\ rate' = [rate EXCEPT ![e.source] = row]
                /\ UNCHANGED <<source, receipts, stored>>
      /\ Answered(r)
      /\ UNCHANGED <<now, member, keys>>

(* A query fails, times out or is refused: nothing is committed.           *)
Unavailable(r) ==
  /\ req[r].pc = "guard"
  /\ Answered(r)
  /\ UNCHANGED <<now, member, source, keys, rate, receipts, stored>>

----------------------------------------------------------------------------
(* The in-memory guard of tests and single processes *)

(* What it keeps: suspended sources, rates, epochs and accepted events.    *)
MemoryView ==
  [suspended |-> {s \in Sources : source[s].state = "suspended"},
   rates     |-> rate,
   epochs    |-> [k \in Keys |->
     LET epoch == {i \in DOMAIN receipts : receipts[i].key = k}
     IN  [latest |-> IF epoch = {} THEN <<>>
                       ELSE <<Newest(epoch).seq, Newest(epoch).observed>>,
          nonces |-> {receipts[i].nonce : i \in epoch}]],
   events    |-> {receipts[i].event : i \in DOMAIN receipts}]

MemoryRate(view, s, time) ==
  IF ~view.rates[s].exists \/ time >= view.rates[s].start + Window
    THEN [start |-> time, accepted |-> 0, limited |-> 0, exists |-> TRUE]
    ELSE view.rates[s]

(* The chain of checks of applyReplayGuard.                                *)
MemoryReason(view, e, time) ==
  LET latest == view.epochs[e.key].latest
  IN  IF e.source \in view.suspended THEN "CONTEXT_NOT_FOUND"
      ELSE IF MemoryRate(view, e.source, time).accepted >= source[e.source].quota
        THEN "RATE_LIMITED"
      ELSE IF FreshnessReason(e, time) # "none" THEN FreshnessReason(e, time)
      ELSE IF e.event \in view.events THEN "EVENT_REPLAYED"
      ELSE IF e.nonce \in view.epochs[e.key].nonces THEN "NONCE_REPLAYED"
      ELSE IF latest # <<>> /\ e.seq = latest[1] THEN "SEQUENCE_REPLAYED"
      ELSE IF latest # <<>> /\ e.seq < latest[1] THEN "SEQUENCE_REORDERED"
      ELSE IF latest # <<>> /\ e.observed < latest[2] THEN "OBSERVATION_REORDERED"
      ELSE "accepted"

MemoryNext(view, e, time) ==
  LET row    == MemoryRate(view, e.source, time)
      reason == MemoryReason(view, e, time)
      kept   == [view EXCEPT !.rates[e.source] = row]
  IN  CASE reason = "accepted" ->
             [kept EXCEPT
               !.rates[e.source].accepted = @ + 1,
               !.epochs[e.key] = [latest |-> <<e.seq, e.observed>>,
                                  nonces |-> @.nonces \cup {e.nonce}],
               !.events = @ \cup {e.event}]
        [] reason = "RATE_LIMITED" ->
             [kept EXCEPT
               !.rates[e.source].limited = @ + 1,
               !.suspended = IF row.limited + 1 >= Threshold
                               THEN @ \cup {e.source} ELSE @]
        [] OTHER -> kept

----------------------------------------------------------------------------
(* A membership is suspended or restored elsewhere.                        *)
SetMembership(u) ==
  /\ u \notin Admins
  /\ member' = [member EXCEPT ![u] = ~member[u]]
  /\ UNCHANGED <<now, source, keys, rate, receipts, stored, req>>

IngestionTick ==
  /\ now < MaxTime
  /\ now' = now + 1
  /\ UNCHANGED <<member, source, keys, rate, receipts, stored, req>>

IngestionInit ==
  /\ now = 0
  /\ member = [u \in Subjects |-> TRUE]
  /\ \E quota \in Quotas :
       source = [s \in Sources |->
         [state |-> "planned", key |-> NoKey, quota |-> quota]]
  /\ keys = [k \in Keys |-> [state |-> "none", source |-> "none", version |-> 0]]
  /\ rate = [s \in Sources |-> NoRate]
  /\ receipts = <<>>
  /\ stored = [ev \in Events |-> NoEvidence]
  /\ req = [r \in Requests |-> NoRequest]

Administer ==
  \E a \in Subjects :
    \/ \E s \in Sources, k \in Keys :
         Enroll(a, s, k) \/ RotateKey(a, s, k) \/ RevokeKey(a, s, k)
    \/ \E s \in Sources :
         \/ Suspend(a, s)
         \/ Resume(a, s)
         \/ \E quota \in Quotas : ConfigureSafeguards(a, s, quota)
    \/ \E ev \in Events : DeleteEvidence(a, ev)
    \/ PurgeExpired(a)

Ingest ==
  \E r \in Requests :
    \/ \E e \in Envelopes : Verify(r, e)
    \/ \E begun \in 0..now : ApplyGuard(r, begun)
    \/ Unavailable(r)

IngestionNext == Administer \/ Ingest \/ IngestionTick \/ \E u \in Subjects : SetMembership(u)

IngestionSpec == IngestionInit /\ [][IngestionNext]_ingestionVars

----------------------------------------------------------------------------
(* Properties *)

(* The tables and the requests have the values of their columns.           *)
IngestionTypeOK ==
  /\ now \in 0..MaxTime
  /\ \A s \in Sources :
       /\ source[s].state \in {"planned", "active", "suspended"}
       /\ source[s].key \in Keys \cup {NoKey}
       /\ source[s].quota \in Quotas
       /\ Cardinality(ActiveKeys(s)) <= 1
  /\ \A k \in Keys : keys[k].state \in {"none", "active", "rotated", "revoked"}
  /\ \A ev \in Events : stored[ev].state \in {"none", "active", "deleted"}
  /\ \A r \in Requests :
       req[r].pc \in {"idle", "guard"}

(* Whatever came when, and over however many requests: an event is         *)
(* accepted once in the tenant, and within one key epoch nonces are fresh, *)
(* sequences rise and observations never go back (the guard's checks under *)
(* the source's row).                                                      *)
OrderedEpochs ==
  \A i, j \in DOMAIN receipts :
    i < j =>
      /\ receipts[i].event # receipts[j].event
      /\ receipts[i].key = receipts[j].key =>
           /\ receipts[i].nonce # receipts[j].nonce
           /\ receipts[i].seq < receipts[j].seq
           /\ receipts[i].observed <= receipts[j].observed

(* Evidence is accepted only while its source, its key and its subject are *)
(* active, although the service verified it under a context it read before *)
(* a rotation, a revocation, a suspension or the end of the membership.    *)
AcceptedWhileActive ==
  [][receipts' # receipts =>
       LET e == receipts'[Len(receipts')]
       IN  /\ member[e.subject]
           /\ source[e.source].state = "active"
           /\ ActiveKeys(e.source) = {e.key}]_ingestionVars

(* Accepted evidence and its encrypted copy appear together, whoever saw   *)
(* the answer: every receipt's content can be read by its subject until    *)
(* its retention ends, unless an administrator erased it, and nothing else *)
(* is stored (guard and storage share a transaction).                      *)
AcceptedIsKept ==
  /\ \A ev \in Events :
       (stored[ev].state # "none") <=>
         (\E i \in DOMAIN receipts : receipts[i].event = ev)
  /\ \A i \in DOMAIN receipts :
       LET row == stored[receipts[i].event]
       IN  /\ row.until = receipts[i].accepted + Retention
           /\ /\ row.state = "active" /\ now < row.until
              /\ member[receipts[i].subject]
              => Retrieve(receipts[i].subject, receipts[i].event)
                   = receipts[i].content

(* The database guard decides and moves as the in-memory guard of the same *)
(* interface does, in every state: same answer, same reason, same rates,   *)
(* epochs and suspension (a call that did not wait for the row).           *)
GuardsAgree ==
  [][\A r \in Requests :
       LET e == req[r].envelope
       IN  ApplyGuard(r, now) /\ ContextActive(e) =>
             /\ GuardOutcome(e, now) = MemoryReason(MemoryView, e, now)
             /\ MemoryView' = MemoryNext(MemoryView, e, now)]_ingestionVars
=============================================================================
