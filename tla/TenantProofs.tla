---------------------------- MODULE TenantProofs ----------------------------
(***************************************************************************)
(* Proofs about TenantLifecycle, for every set of administrators and       *)
(* contents, every tolerance of the clocks and every bound; and about      *)
(* ReviewConsole, for every bound.                                         *)
(***************************************************************************)
EXTENDS TenantLifecycle, ReviewConsole, SequenceTheorems, FiniteSetTheorems,
        TLAPS

----------------------------------------------------------------------------
(* The review console: types *)

CertificateRow ==
  [tenant : {"alpha", "beta"}, subject : Subjects,
   state : {"active", "superseded", "revoked"}, notBefore : Nat, renewalOf : Nat]

Component == 0..100
TrustRow == [identity : Component, device : Component, behaviour : Component,
             certificate : Component, compliance : Component]
ConsoleActions == {"profile:read", "record:read", "record:export", "admin-key:rotate"}
TransitionRow ==
  [action : ConsoleActions, stepUpSatisfied : BOOLEAN, components : TrustRow, at : Nat]

FeedActions ==
  ConsoleActions \cup {"certificate:issue", "certificate:renew", "certificate:revoke"}
AuditRow == [actor : Personas, action : FeedActions, outcome : {"allow", "deny"}]

ConsoleTypeInv ==
  /\ clock \in Nat
  /\ certificates \in Seq(CertificateRow)
  /\ transitions \in [Subjects -> TransitionRow]
  /\ auditEvents \in Seq(AuditRow)

(* A certificate is of its subject's tenant, and renews an older one.      *)
CertificateOrigin ==
  \A n \in DOMAIN certificates :
    /\ certificates[n].tenant = TenantOf[certificates[n].subject]
    /\ certificates[n].renewalOf < n

(* No transition is of a later time than the server's.                     *)
TransitionsPast == \A s \in Subjects : transitions[s].at <= clock

ConsoleInv == ConsoleTypeInv /\ CertificateOrigin /\ TransitionsPast /\ RenewalChain

LEMMA CertificateTyped ==
  ASSUME NEW s \in Subjects, NEW n \in Nat, NEW m \in Nat
  PROVE  /\ Certificate(s, n, m) \in CertificateRow
         /\ Certificate(s, n, m).tenant = TenantOf[s]
         /\ Certificate(s, n, m).subject = s
         /\ Certificate(s, n, m).state = "active"
         /\ Certificate(s, n, m).notBefore = n
         /\ Certificate(s, n, m).renewalOf = m
BY DEF Certificate, CertificateRow, TenantOf, Subjects

(* A denied attempt takes from every component, or leaves it.              *)
LEMMA ClampedLowers ==
  ASSUME NEW v \in Component, NEW d \in Int, d <= 0
  PROVE  Clamped(v + d) \in Component /\ Clamped(v + d) <= v
BY DEF Clamped, Component

TrustNames == {"identity", "device", "behaviour", "certificate", "compliance"}

LEMMA AdjustmentsLower ==
  ASSUME NEW scenario
  PROVE  \A c \in TrustNames : Adjustments(scenario)[c] \in Int /\ Adjustments(scenario)[c] <= 0
BY DEF Adjustments, TrustValues, TrustNames

(* The trust of a subject after a denied attempt                           *)
LEMMA LoweredTyped ==
  ASSUME ConsoleTypeInv, NEW p \in Personas, NEW scenario \in Scenarios
  PROVE  /\ Lowered(p, scenario) \in TransitionRow
         /\ Lowered(p, scenario).at = clock
         /\ \A c \in TrustNames :
              Lowered(p, scenario).components[c] <= transitions[p].components[c]
<1>. DEFINE components == transitions[p].components
            applied == IF Rejected(p, scenario) THEN "revoked-certificate" ELSE scenario
            lowered == [c \in DOMAIN components |->
                          Clamped(components[c] + Adjustments(applied)[c])]
<1>1. clock \in Nat /\ transitions[p] \in TransitionRow
  BY DEF ConsoleTypeInv, Personas
<1>2. components \in TrustRow
  BY <1>1 DEF TransitionRow
<1>3. DOMAIN components = TrustNames /\ \A c \in TrustNames : components[c] \in Component
  BY <1>2 DEF TrustRow, TrustNames
<1>. HIDE DEF applied
<1>4. \A c \in TrustNames :
        lowered[c] \in Component /\ lowered[c] <= components[c]
  BY <1>3, AdjustmentsLower, ClampedLowers
<1>5. lowered \in TrustRow
  <2>1. lowered \in [TrustNames -> Component]
    BY <1>3, <1>4
  <2>. HIDE DEF lowered
  <2>. QED
    BY <2>1 DEF TrustRow, TrustNames
<1>6. ActionOf(scenario) \in ConsoleActions
  BY DEF ActionOf, ConsoleActions
<1>7. Lowered(p, scenario) = [action |-> ActionOf(scenario), stepUpSatisfied |-> FALSE,
                              components |-> lowered, at |-> clock]
  BY DEF Lowered, Transition, applied
<1>. HIDE DEF lowered, components
<1>. QED
  BY <1>1, <1>4, <1>5, <1>6, <1>7 DEF TransitionRow, components

----------------------------------------------------------------------------
(* The review console: the inventory *)

WithState(n, state) == [certificates EXCEPT ![n].state = state]

(* Two rows that differ in their state at most                             *)
SameCertificate(c, d) ==
  /\ c.tenant = d.tenant /\ c.subject = d.subject
  /\ c.notBefore = d.notBefore /\ c.renewalOf = d.renewalOf

LEMMA WithStateTyped ==
  ASSUME ConsoleTypeInv, NEW n \in DOMAIN certificates,
         NEW state \in {"active", "superseded", "revoked"}
  PROVE  /\ WithState(n, state) \in Seq(CertificateRow)
         /\ Len(WithState(n, state)) = Len(certificates)
         /\ WithState(n, state)[n].state = state
         /\ \A m \in DOMAIN certificates :
              /\ SameCertificate(WithState(n, state)[m], certificates[m])
              /\ m # n => WithState(n, state)[m] = certificates[m]
<1>1. certificates \in Seq(CertificateRow) /\ DOMAIN certificates = 1..Len(certificates)
      /\ Len(certificates) \in Nat
  BY DEF ConsoleTypeInv
<1>2. certificates \in [1..Len(certificates) -> CertificateRow]
  BY <1>1
<1>3. PICK r : r = [certificates[n] EXCEPT !.state = state]
  OBVIOUS
<1>4. r \in CertificateRow /\ r.state = state /\ SameCertificate(r, certificates[n])
  BY <1>1, <1>2, <1>3 DEF CertificateRow, SameCertificate
<1>5. WithState(n, state) = [certificates EXCEPT ![n] = r]
  BY <1>3 DEF WithState
<1>6. WithState(n, state) \in [1..Len(certificates) -> CertificateRow]
  BY <1>1, <1>2, <1>4, <1>5
<1>7. WithState(n, state) \in Seq(CertificateRow) /\ Len(WithState(n, state)) = Len(certificates)
  BY <1>1, <1>6
<1>. QED
  BY <1>1, <1>2, <1>4, <1>5, <1>7 DEF SameCertificate

(* The inventory seq satisfies the chain (RenewalChain, for any sequence). *)
Successors(rows, n) == {m \in DOMAIN rows : rows[m].renewalOf = n}
Renews(rows, m, n) ==
  /\ m > n
  /\ rows[m].subject = rows[n].subject /\ rows[m].tenant = rows[n].tenant
  /\ rows[m].notBefore = rows[n].notBefore + 3
Chain(rows) ==
  \A n \in DOMAIN rows :
    /\ rows[n].state = "superseded" <=> Successors(rows, n) # {}
    /\ \A l, m \in Successors(rows, n) : l = m
    /\ \A m \in Successors(rows, n) : Renews(rows, m, n)

LEMMA ChainOfInventory == RenewalChain <=> Chain(certificates)
BY DEF RenewalChain, Chain, Successors, Renews

Origin(rows) ==
  \A n \in DOMAIN rows :
    rows[n].tenant = TenantOf[rows[n].subject] /\ rows[n].renewalOf < n

(* A certificate is issued, or renews the one that it supersedes.          *)
LEMMA AppendKeepsChain ==
  ASSUME NEW old \in Seq(CertificateRow), NEW rows \in Seq(CertificateRow),
         Chain(old), Origin(old), Len(rows) = Len(old),
         \A m \in DOMAIN old : SameCertificate(rows[m], old[m]),
         NEW c \in CertificateRow, c.state = "active", c.tenant = TenantOf[c.subject],
         \/ c.renewalOf = 0 /\ rows = old
         \/ /\ c.renewalOf \in DOMAIN old
            /\ old[c.renewalOf].state = "active" /\ rows[c.renewalOf].state = "superseded"
            /\ \A m \in DOMAIN old : m # c.renewalOf => rows[m] = old[m]
            /\ c.subject = old[c.renewalOf].subject
            /\ c.notBefore = old[c.renewalOf].notBefore + 3
  PROVE  Chain(Append(rows, c)) /\ Origin(Append(rows, c))
<1>. DEFINE new == Append(rows, c)
            k == Len(old) + 1
<1>1. /\ Len(old) \in Nat /\ DOMAIN old = 1..Len(old) /\ DOMAIN rows = 1..Len(old)
      /\ DOMAIN new = 1..k /\ new[k] = c
      /\ \A m \in 1..Len(old) : new[m] = rows[m]
  OBVIOUS
<1>2. \A m \in 1..Len(old) : SameCertificate(new[m], old[m])
  BY <1>1
<1>3. \A m \in 1..Len(old) : old[m].renewalOf \in Nat /\ old[m].renewalOf < m
  <2>1. \A m \in 1..Len(old) : old[m] \in CertificateRow
    BY <1>1
  <2>. QED
    BY <1>1, <2>1 DEF Origin, CertificateRow
<1>4. c.renewalOf \in 0..Len(old)
  BY <1>1
<1>. HIDE DEF new
<1>5. Origin(new)
  BY <1>1, <1>2, <1>4 DEF Origin, SameCertificate
<1>6. \A n \in 1..k : Successors(new, n) =
        IF n = k THEN {} ELSE Successors(old, n) \cup (IF n = c.renewalOf THEN {k} ELSE {})
  BY <1>1, <1>2, <1>3, <1>4 DEF Successors, SameCertificate
<1>7. ASSUME NEW n \in 1..k
      PROVE  /\ new[n].state = "superseded" <=> Successors(new, n) # {}
             /\ \A l, m \in Successors(new, n) : l = m
             /\ \A m \in Successors(new, n) : Renews(new, m, n)
  <2>1. CASE n = k
    BY <1>1, <1>6, <2>1
  <2>2. CASE n # k /\ n = c.renewalOf
    <3>1. n \in DOMAIN old /\ old[n].state = "active" /\ new[n].state = "superseded"
      BY <1>1, <2>2
    <3>2. Successors(old, n) = {}
      BY <3>1 DEF Chain
    <3>3. Successors(new, n) = {k}
      BY <1>6, <2>2, <3>2
    <3>4. Renews(new, k, n)
      <4>1. /\ c.subject = old[n].subject /\ c.notBefore = old[n].notBefore + 3
            /\ old[n].tenant = TenantOf[old[n].subject]
        BY <1>1, <2>2, <3>1 DEF Origin
      <4>2. SameCertificate(new[n], old[n])
        BY <1>1, <1>2, <3>1
      <4>3. k > n
        BY <1>1, <3>1
      <4>. QED
        BY <1>1, <4>1, <4>2, <4>3 DEF Renews, SameCertificate
    <3>. QED
      BY <3>1, <3>3, <3>4
  <2>3. CASE n # k /\ n # c.renewalOf
    <3>1. n \in DOMAIN old /\ new[n] = old[n]
      BY <1>1, <2>3
    <3>2. Successors(new, n) = Successors(old, n)
      BY <1>6, <2>3
    <3>3. \A m \in Successors(old, n) : SameCertificate(new[m], old[m])
      BY <1>1, <1>2 DEF Successors
    <3>4. \A m \in Successors(old, n) : Renews(new, m, n)
      BY <3>1, <3>3 DEF Chain, Renews, SameCertificate
    <3>. QED
      BY <3>1, <3>2, <3>4 DEF Chain
  <2>. QED
    BY <2>1, <2>2, <2>3
<1>8. Chain(new)
  BY <1>1, <1>7 DEF Chain
<1>. QED
  BY <1>5, <1>8 DEF new

(* A revocation changes no successor, and what it revokes was active.      *)
LEMMA RevokeKeepsChain ==
  ASSUME NEW old \in Seq(CertificateRow), NEW rows \in Seq(CertificateRow),
         Chain(old), Origin(old), Len(rows) = Len(old),
         \A m \in DOMAIN old : SameCertificate(rows[m], old[m]),
         NEW n \in DOMAIN old, old[n].state = "active", rows[n].state = "revoked",
         \A m \in DOMAIN old : m # n => rows[m] = old[m]
  PROVE  Chain(rows) /\ Origin(rows)
<1>1. DOMAIN rows = DOMAIN old
  OBVIOUS
<1>2. Origin(rows)
  BY <1>1 DEF Origin, SameCertificate
<1>3. \A m \in DOMAIN old : Successors(rows, m) = Successors(old, m)
  BY <1>1 DEF Successors, SameCertificate
<1>4. \A m \in DOMAIN old : rows[m].state = "superseded" <=> old[m].state = "superseded"
  BY <1>1
<1>5. \A l \in DOMAIN old : \A m \in Successors(old, l) : Renews(old, m, l) => Renews(rows, m, l)
  BY DEF Renews, SameCertificate, Successors
<1>. QED
  BY <1>1, <1>2, <1>3, <1>4, <1>5 DEF Chain

InventoryStep ==
  /\ certificates' \in Seq(CertificateRow)
  /\ Chain(certificates)' /\ Origin(certificates)'

LEMMA InventoryKept ==
  ASSUME ConsoleInv, [ConsoleNext]_consoleVars
  PROVE  InventoryStep
<1>1. /\ clock \in Nat /\ certificates \in Seq(CertificateRow)
      /\ Chain(certificates) /\ Origin(certificates)
  BY ChainOfInventory DEF ConsoleInv, ConsoleTypeInv, CertificateOrigin, Origin
<1>2. CASE UNCHANGED certificates
  BY <1>1, <1>2 DEF InventoryStep, Chain, Origin, Successors, Renews
<1>3. ASSUME NEW p \in Personas, NEW s \in Subjects, Issue(p, s)
      PROVE  InventoryStep
  <2>. DEFINE c == Certificate(s, clock, 0)
  <2>1. /\ c \in CertificateRow /\ c.state = "active" /\ c.renewalOf = 0
        /\ c.tenant = TenantOf[c.subject]
    BY <1>1, CertificateTyped
  <2>2. certificates' = Append(certificates, c)
    BY <1>3 DEF Issue
  <2>. HIDE DEF c
  <2>3. \A m \in DOMAIN certificates : SameCertificate(certificates[m], certificates[m])
    BY DEF SameCertificate
  <2>4. Chain(Append(certificates, c)) /\ Origin(Append(certificates, c))
    BY <1>1, <2>1, <2>3, AppendKeepsChain
  <2>. QED
    BY <1>1, <2>1, <2>2, <2>4 DEF InventoryStep, Chain, Origin, Successors, Renews
<1>4. ASSUME NEW p \in Personas, NEW n \in DOMAIN certificates, Renew(p, n)
      PROVE  InventoryStep
  <2>. DEFINE old == certificates[n]
              c == Certificate(old.subject, clock, n)
              rows == WithState(n, "superseded")
  <2>1. n \in Nat /\ old \in CertificateRow
    BY <1>1
  <2>2. /\ old.subject \in Subjects /\ old.notBefore \in Nat
    BY <2>1 DEF CertificateRow
  <2>3. /\ old.state = "active" /\ clock = old.notBefore + 3
        /\ certificates' = Append(rows, c)
    BY <1>1, <1>4, <2>2 DEF Renew, CertificatePermitted, RenewalWindowOpen, WithState
  <2>4. /\ c \in CertificateRow /\ c.state = "active" /\ c.renewalOf = n
        /\ c.tenant = TenantOf[c.subject] /\ c.subject = old.subject
        /\ c.notBefore = clock
    BY <1>1, <2>1, <2>2, CertificateTyped
  <2>5. /\ rows \in Seq(CertificateRow) /\ Len(rows) = Len(certificates)
        /\ rows[n].state = "superseded"
        /\ \A m \in DOMAIN certificates : SameCertificate(rows[m], certificates[m])
        /\ \A m \in DOMAIN certificates : m # n => rows[m] = certificates[m]
    BY WithStateTyped DEF ConsoleInv
  <2>. HIDE DEF c, rows
  <2>6. Chain(Append(rows, c)) /\ Origin(Append(rows, c))
    BY <1>1, <2>3, <2>4, <2>5, AppendKeepsChain
  <2>. QED
    BY <2>3, <2>4, <2>5, <2>6 DEF InventoryStep, Chain, Origin, Successors, Renews
<1>5. ASSUME NEW p \in Personas, NEW n \in DOMAIN certificates, Revoke(p, n)
      PROVE  InventoryStep
  <2>. DEFINE rows == WithState(n, "revoked")
  <2>1. certificates[n].state = "active" /\ certificates' = rows
    BY <1>5 DEF Revoke, CertificatePermitted, WithState
  <2>2. /\ rows \in Seq(CertificateRow) /\ Len(rows) = Len(certificates)
        /\ rows[n].state = "revoked"
        /\ \A m \in DOMAIN certificates : SameCertificate(rows[m], certificates[m])
        /\ \A m \in DOMAIN certificates : m # n => rows[m] = certificates[m]
    BY WithStateTyped DEF ConsoleInv
  <2>. HIDE DEF rows
  <2>3. Chain(rows) /\ Origin(rows)
    BY <1>1, <2>1, <2>2, RevokeKeepsChain
  <2>. QED
    BY <2>1, <2>2, <2>3 DEF InventoryStep, Chain, Origin, Successors, Renews
<1>. QED
  BY <1>2, <1>3, <1>4, <1>5 DEF ConsoleNext, RunScenario, ConsoleTick, consoleVars

----------------------------------------------------------------------------
(* The review console: trust, the feed and what explains a change *)

LEMMA ScenarioActions ==
  ASSUME NEW scenario \in Scenarios
  PROVE  ActionOf(scenario) \in FeedActions
BY DEF ActionOf, FeedActions, ConsoleActions

LEMMA FeedTyped ==
  ASSUME auditEvents \in Seq(AuditRow), NEW p \in Personas, NEW action \in FeedActions,
         NEW outcome \in {"allow", "deny"}, Audited(p, action, outcome)
  PROVE  /\ auditEvents' \in Seq(AuditRow)
         /\ Len(auditEvents') = Len(auditEvents) + 1
         /\ Head(auditEvents').actor = p /\ Head(auditEvents').outcome = outcome
<1>. DEFINE event == [actor |-> p, action |-> action, outcome |-> outcome]
<1>1. event \in AuditRow /\ event.actor = p /\ event.outcome = outcome
  BY DEF AuditRow
<1>2. auditEvents' = <<event>> \o auditEvents
  BY DEF Audited
<1>. HIDE DEF event
<1>3. <<event>> \in Seq(AuditRow) /\ Len(<<event>>) = 1
  BY <1>1
<1>4. /\ auditEvents' \in Seq(AuditRow)
      /\ Len(auditEvents') = 1 + Len(auditEvents)
      /\ auditEvents'[1] = event
  BY <1>2, <1>3, ConcatProperties
<1>5. Head(auditEvents') = auditEvents'[1]
  BY <1>4
<1>. QED
  BY <1>1, <1>4, <1>5

(* What the newest event says of a step                                    *)
Explained(p, outcome) ==
  /\ Len(auditEvents') = Len(auditEvents) + 1
  /\ Head(auditEvents').actor = p /\ Head(auditEvents').outcome = outcome

LEMMA FeedKept ==
  ASSUME ConsoleTypeInv, [ConsoleNext]_consoleVars
  PROVE  /\ auditEvents' \in Seq(AuditRow)
         /\ \A p \in Personas, s \in Subjects : Issue(p, s) => Explained(p, "allow")
         /\ \A p \in Personas : \A n \in DOMAIN certificates :
              Renew(p, n) \/ Revoke(p, n) => Explained(p, "allow")
         /\ \A p \in Personas, scenario \in Scenarios :
              RunScenario(p, scenario) /\ Denied(p, scenario) => Explained(p, "deny")
<1>1. auditEvents \in Seq(AuditRow)
  BY DEF ConsoleTypeInv
<1>2. ASSUME NEW p \in Personas, NEW s \in Subjects, Issue(p, s)
      PROVE  auditEvents' \in Seq(AuditRow) /\ Explained(p, "allow")
  <2>1. Audited(p, "certificate:issue", "allow")
    BY <1>2 DEF Issue
  <2>2. "certificate:issue" \in FeedActions
    BY DEF FeedActions
  <2>. QED
    BY <1>1, <2>1, <2>2, FeedTyped DEF Explained
<1>3. ASSUME NEW p \in Personas, NEW n \in DOMAIN certificates, Renew(p, n) \/ Revoke(p, n)
      PROVE  auditEvents' \in Seq(AuditRow) /\ Explained(p, "allow")
  <2>1. PICK action \in {"certificate:renew", "certificate:revoke"} :
          Audited(p, action, "allow")
    BY <1>3 DEF Renew, Revoke
  <2>2. action \in FeedActions
    BY DEF FeedActions
  <2>. QED
    BY <1>1, <2>1, <2>2, FeedTyped DEF Explained
<1>4. ASSUME NEW p \in Personas, NEW scenario \in Scenarios, RunScenario(p, scenario)
      PROVE  /\ auditEvents' \in Seq(AuditRow)
             /\ Denied(p, scenario) => Explained(p, "deny")
  <2>1. PICK outcome \in {"allow", "deny"} :
          /\ Audited(p, ActionOf(scenario), outcome)
          /\ Denied(p, scenario) => outcome = "deny"
    BY <1>4 DEF RunScenario
  <2>2. ActionOf(scenario) \in FeedActions
    BY ScenarioActions
  <2>. QED
    BY <1>1, <2>1, <2>2, FeedTyped DEF Explained
<1>5. ASSUME ConsoleTick \/ UNCHANGED consoleVars
      PROVE  auditEvents' \in Seq(AuditRow)
  BY <1>1, <1>5 DEF ConsoleTick, consoleVars
<1>6. auditEvents' \in Seq(AuditRow)
  BY <1>2, <1>3, <1>4, <1>5 DEF ConsoleNext
<1>. QED
  BY <1>2, <1>3, <1>4, <1>6

(* A subject's trust changes only in a denied attempt of its own.          *)
LowersTrust(p, scenario) ==
  /\ RunScenario(p, scenario) /\ Denied(p, scenario)
  /\ transitions' = [transitions EXCEPT ![p] = Lowered(p, scenario)]

LEMMA TrustSteps ==
  ASSUME [ConsoleNext]_consoleVars
  PROVE  \/ UNCHANGED <<clock, transitions>>
         \/ ConsoleTick /\ UNCHANGED transitions
         \/ \E p \in Personas, scenario \in Scenarios :
              LowersTrust(p, scenario) /\ UNCHANGED clock
BY DEF ConsoleNext, Issue, Renew, Revoke, RunScenario, Recorded, LowersTrust, ConsoleTick,
       consoleVars

LEMMA TrustTyped ==
  ASSUME ConsoleTypeInv, TransitionsPast, [ConsoleNext]_consoleVars
  PROVE  /\ clock' \in Nat
         /\ transitions' \in [Subjects -> TransitionRow]
         /\ TransitionsPast'
<1>1. clock \in Nat /\ transitions \in [Subjects -> TransitionRow]
  BY DEF ConsoleTypeInv
<1>2. CASE UNCHANGED <<clock, transitions>>
  BY <1>1, <1>2 DEF TransitionsPast
<1>3. CASE ConsoleTick /\ UNCHANGED transitions
  <2>1. \A s \in Subjects : transitions[s].at \in Nat
    BY <1>1 DEF TransitionRow
  <2>. QED
    BY <1>1, <1>3, <2>1 DEF ConsoleTick, TransitionsPast
<1>4. ASSUME NEW p \in Personas, NEW scenario \in Scenarios,
             LowersTrust(p, scenario), UNCHANGED clock
      PROVE  /\ clock' \in Nat
             /\ transitions' \in [Subjects -> TransitionRow]
             /\ TransitionsPast'
  <2>1. Lowered(p, scenario) \in TransitionRow /\ Lowered(p, scenario).at = clock
    BY LoweredTyped
  <2>2. transitions' = [transitions EXCEPT ![p] = Lowered(p, scenario)]
    BY <1>4 DEF LowersTrust
  <2>3. p \in Subjects
    BY DEF Personas
  <2>. QED
    BY <1>1, <1>4, <2>1, <2>2, <2>3 DEF TransitionsPast
<1>. QED
  BY <1>2, <1>3, <1>4, TrustSteps

LEMMA ConsoleStep == ConsoleInv /\ [ConsoleNext]_consoleVars => ConsoleInv'
<1>. SUFFICES ASSUME ConsoleInv, [ConsoleNext]_consoleVars PROVE ConsoleInv'
  OBVIOUS
<1>1. InventoryStep
  BY InventoryKept
<1>2. CertificateOrigin' /\ RenewalChain'
  BY <1>1 DEF InventoryStep, CertificateOrigin, Origin, RenewalChain, Chain, Successors, Renews
<1>3. /\ auditEvents' \in Seq(AuditRow)
      /\ clock' \in Nat /\ transitions' \in [Subjects -> TransitionRow] /\ TransitionsPast'
  BY FeedKept, TrustTyped DEF ConsoleInv
<1>. QED
  BY <1>1, <1>2, <1>3 DEF ConsoleInv, ConsoleTypeInv, InventoryStep

LEMMA ConsoleStarts == ConsoleInit => ConsoleInv
<1>. SUFFICES ASSUME ConsoleInit PROVE ConsoleInv
  OBVIOUS
<1>1. certificates = <<Certificate("alice", 1, 0), Certificate("maya", 3, 0),
                       Certificate("bob", 2, 0), Certificate("noah", 1, 0)>>
  BY DEF ConsoleInit, InitialCertificates
<1>2. \A s \in Subjects, n \in Nat :
        /\ Certificate(s, n, 0) \in CertificateRow
        /\ Certificate(s, n, 0).tenant = TenantOf[Certificate(s, n, 0).subject]
        /\ Certificate(s, n, 0).state = "active" /\ Certificate(s, n, 0).renewalOf = 0
  BY CertificateTyped
<1>3. /\ certificates \in Seq(CertificateRow) /\ DOMAIN certificates = 1..4
      /\ \A n \in 1..4 :
           /\ certificates[n].tenant = TenantOf[certificates[n].subject]
           /\ certificates[n].state = "active" /\ certificates[n].renewalOf = 0
  <2>1. \A s \in {"alice", "maya", "bob", "noah"}, n \in {1, 2, 3} :
          s \in Subjects /\ n \in Nat
    BY DEF Subjects
  <2>2. /\ certificates[1] = Certificate("alice", 1, 0)
        /\ certificates[2] = Certificate("maya", 3, 0)
        /\ certificates[3] = Certificate("bob", 2, 0)
        /\ certificates[4] = Certificate("noah", 1, 0)
        /\ Len(certificates) = 4
    BY <1>1
  <2>3. \A n \in 1..4 : \E s \in Subjects, m \in Nat : certificates[n] = Certificate(s, m, 0)
    BY <2>1, <2>2
  <2>4. \A n \in 1..4 : certificates[n] \in CertificateRow
    BY <1>2, <2>3
  <2>. QED
    BY <1>1, <1>2, <2>2, <2>3, <2>4
<1>4. transitions \in [Subjects -> TransitionRow] /\ TransitionsPast
  <2>1. transitions = InitialTransition /\ clock = 4
    BY DEF ConsoleInit, Start
  <2>2. \A s \in Subjects : InitialTransition[s].at = 4
    BY DEF InitialTransition, Subjects, Transition, Start
  <2>3. InitialTransition \in [Subjects -> TransitionRow]
    BY DEF InitialTransition, Subjects, Transition, TrustValues, TransitionRow, TrustRow,
           Component, ConsoleActions, Start
  <2>. QED
    BY <2>1, <2>2, <2>3 DEF TransitionsPast
<1>5. CertificateOrigin /\ RenewalChain
  BY <1>3 DEF CertificateOrigin, RenewalChain
<1>. QED
  BY <1>3, <1>4, <1>5 DEF ConsoleInit, ConsoleInv, ConsoleTypeInv, Start

THEOREM ConsoleInvariant == ConsoleSpec => []ConsoleInv
BY ConsoleStarts, ConsoleStep, PTL DEF ConsoleSpec

----------------------------------------------------------------------------
(* Every change is explained *)

(* The inventory changes by an administrator of the certificate's tenant.  *)
CertificateChangeExplained ==
  \A n \in DOMAIN certificates' :
    (n \in DOMAIN certificates => certificates'[n] # certificates[n]) =>
      /\ Len(auditEvents') = Len(auditEvents) + 1
      /\ Head(auditEvents').outcome = "allow"
      /\ IsAdministrator[Head(auditEvents').actor]
      /\ certificates'[n].tenant = TenantOf[Head(auditEvents').actor]

DeniedOf(s) ==
  /\ Len(auditEvents') = Len(auditEvents) + 1
  /\ Head(auditEvents').actor = s /\ Head(auditEvents').outcome = "deny"

TrustChangeExplained ==
  \A s \in Subjects :
    \/ UNCHANGED <<clock, transitions[s]>>
    \/ /\ Score(transitions[s].components) # Score(transitions[s].components)' =>
            /\ Score(transitions[s].components)' < Score(transitions[s].components)
            /\ DeniedOf(s)
       /\ CurrentDecision(s) # CurrentDecision(s)' =>
            DeniedOf(s) \/ CurrentDecision(s)' = "DENY"

LEMMA ChangesByParts ==
  [][CertificateChangeExplained /\ TrustChangeExplained]_consoleVars => ChangesAreExplained
<1>1. [CertificateChangeExplained /\ TrustChangeExplained]_consoleVars =>
        [LET event == Head(auditEvents')
             audited == Len(auditEvents') = Len(auditEvents) + 1
             changed == {n \in DOMAIN certificates' :
                           n \in DOMAIN certificates =>
                             certificates'[n] # certificates[n]}
         IN  /\ \A n \in changed :
                  /\ audited /\ event.outcome = "allow"
                  /\ IsAdministrator[event.actor]
                  /\ certificates'[n].tenant = TenantOf[event.actor]
             /\ \A s \in Subjects :
                  LET before == Score(transitions[s].components)
                      after == Score(transitions[s].components)'
                      denied == /\ audited /\ event.actor = s
                                /\ event.outcome = "deny"
                  IN  \/ UNCHANGED <<clock, transitions[s]>>
                      \/ /\ before # after => after < before /\ denied
                         /\ CurrentDecision(s) # CurrentDecision(s)' =>
                              denied \/ CurrentDecision(s)' = "DENY"]_consoleVars
  BY DEF CertificateChangeExplained, TrustChangeExplained, DeniedOf
<1>. QED
  BY <1>1, PTL DEF ChangesAreExplained

LEMMA CertificatesExplained ==
  ASSUME ConsoleInv, [ConsoleNext]_consoleVars
  PROVE  CertificateChangeExplained
<1>1. /\ clock \in Nat /\ certificates \in Seq(CertificateRow)
      /\ DOMAIN certificates = 1..Len(certificates)
      /\ \A n \in DOMAIN certificates :
           /\ certificates[n] \in CertificateRow
           /\ certificates[n].tenant = TenantOf[certificates[n].subject]
  BY DEF ConsoleInv, ConsoleTypeInv, CertificateOrigin
<1>2. CASE UNCHANGED certificates
  BY <1>2 DEF CertificateChangeExplained
<1>3. ASSUME NEW p \in Personas, NEW s \in Subjects, Issue(p, s)
      PROVE  CertificateChangeExplained
  <2>1. Explained(p, "allow")
    BY <1>3, FeedKept DEF ConsoleInv
  <2>2. TenantOf[s] = TenantOf[p] /\ IsAdministrator[p]
    BY <1>3 DEF Issue, CanManageSubject
  <2>3. /\ certificates' = Append(certificates, Certificate(s, clock, 0))
        /\ Certificate(s, clock, 0).tenant = TenantOf[s]
    BY <1>1, <1>3, CertificateTyped DEF Issue
  <2>. QED
    BY <1>1, <2>1, <2>2, <2>3 DEF CertificateChangeExplained, Explained
<1>4. ASSUME NEW p \in Personas, NEW n \in DOMAIN certificates, Renew(p, n) \/ Revoke(p, n)
      PROVE  CertificateChangeExplained
  <2>1. Explained(p, "allow")
    BY <1>4, FeedKept DEF ConsoleInv
  <2>2. TenantOf[certificates[n].subject] = TenantOf[p] /\ IsAdministrator[p]
    BY <1>4 DEF Renew, Revoke, CertificatePermitted, CanManageSubject
  <2>3. \A state \in {"superseded", "revoked"} :
          /\ WithState(n, state) \in Seq(CertificateRow)
          /\ Len(WithState(n, state)) = Len(certificates)
          /\ WithState(n, state)[n].tenant = TenantOf[p]
          /\ \A m \in DOMAIN certificates : m # n => WithState(n, state)[m] = certificates[m]
    BY <1>1, <2>2, WithStateTyped DEF ConsoleInv, SameCertificate
  <2>4. CASE Revoke(p, n)
    <3>. DEFINE rows == WithState(n, "revoked")
    <3>1. certificates' = rows
      BY <2>4 DEF Revoke, WithState
    <3>2. /\ rows \in Seq(CertificateRow) /\ Len(rows) = Len(certificates)
          /\ rows[n].tenant = TenantOf[p]
          /\ \A m \in DOMAIN certificates : m # n => rows[m] = certificates[m]
      BY <2>3
    <3>. HIDE DEF rows
    <3>. QED
      BY <1>1, <2>1, <2>2, <3>1, <3>2 DEF CertificateChangeExplained, Explained
  <2>5. CASE Renew(p, n)
    <3>. DEFINE rows == WithState(n, "superseded")
                c == Certificate(certificates[n].subject, clock, n)
    <3>1. certificates' = Append(rows, c)
      BY <2>5 DEF Renew, WithState
    <3>2. /\ rows \in Seq(CertificateRow) /\ Len(rows) = Len(certificates)
          /\ rows[n].tenant = TenantOf[p]
          /\ \A m \in DOMAIN certificates : m # n => rows[m] = certificates[m]
      BY <2>3
    <3>3. n \in Nat /\ certificates[n].subject \in Subjects
      BY <1>1 DEF CertificateRow
    <3>4. c.tenant = TenantOf[p]
      BY <1>1, <2>2, <3>3, CertificateTyped
    <3>. HIDE DEF rows, c
    <3>. QED
      BY <1>1, <2>1, <2>2, <3>1, <3>2, <3>4 DEF CertificateChangeExplained, Explained
  <2>. QED
    BY <1>4, <2>4, <2>5
<1>. QED
  BY <1>2, <1>3, <1>4 DEF ConsoleNext, RunScenario, ConsoleTick, consoleVars

(* A score is a sum of the components, with positive weights.              *)
LEMMA ScoreGrows ==
  ASSUME NEW c \in TrustRow, NEW d \in TrustRow, \A name \in TrustNames : d[name] <= c[name]
  PROVE  Score(d) <= Score(c) /\ Score(c) \in Int /\ Score(d) \in Int
<1>1. /\ c.identity \in Int /\ c.device \in Int /\ c.behaviour \in Int
      /\ c.certificate \in Int /\ c.compliance \in Int
      /\ d.identity \in Int /\ d.device \in Int /\ d.behaviour \in Int
      /\ d.certificate \in Int /\ d.compliance \in Int
  BY DEF TrustRow, Component
<1>2. /\ d.identity <= c.identity /\ d.device <= c.device /\ d.behaviour <= c.behaviour
      /\ d.certificate <= c.certificate /\ d.compliance <= c.compliance
  BY DEF TrustNames
<1>. QED
  BY <1>1, <1>2 DEF Score

LEMMA TrustExplained ==
  ASSUME ConsoleInv, [ConsoleNext]_consoleVars
  PROVE  TrustChangeExplained
<1>1. clock \in Nat /\ transitions \in [Subjects -> TransitionRow]
  BY DEF ConsoleInv, ConsoleTypeInv
<1>2. CASE UNCHANGED <<clock, transitions>>
  BY <1>2 DEF TrustChangeExplained
<1>3. CASE ConsoleTick /\ UNCHANGED transitions
  <2>. SUFFICES ASSUME NEW s \in Subjects
                PROVE  /\ Score(transitions[s].components)' = Score(transitions[s].components)
                       /\ CurrentDecision(s)' = "DENY"
    BY DEF TrustChangeExplained
  <2>1. transitions[s].at \in Nat /\ transitions[s].at <= clock
    BY <1>1 DEF ConsoleInv, TransitionsPast, TransitionRow
  <2>2. ~Fresh(transitions[s])'
    BY <1>1, <1>3, <2>1 DEF Fresh, ConsoleTick
  <2>. QED
    BY <1>3, <2>2 DEF CurrentDecision, Decision, Score
<1>4. ASSUME NEW p \in Personas, NEW scenario \in Scenarios,
             LowersTrust(p, scenario), UNCHANGED clock
      PROVE  TrustChangeExplained
  <2>. SUFFICES ASSUME NEW s \in Subjects, ~UNCHANGED <<clock, transitions[s]>>
                PROVE  /\ DeniedOf(s)
                       /\ Score(transitions[s].components) # Score(transitions[s].components)' =>
                            Score(transitions[s].components)' < Score(transitions[s].components)
    BY DEF TrustChangeExplained
  <2>1. /\ transitions' = [transitions EXCEPT ![p] = Lowered(p, scenario)]
        /\ RunScenario(p, scenario) /\ Denied(p, scenario)
    BY <1>4 DEF LowersTrust
  <2>2. s = p
    BY <1>1, <1>4, <2>1
  <2>3. transitions'[s] = Lowered(p, scenario)
    BY <1>1, <2>1, <2>2
  <2>4. Explained(p, "deny")
    BY <2>1, FeedKept DEF ConsoleInv
  <2>5. DeniedOf(s)
    BY <2>2, <2>4 DEF Explained, DeniedOf
  <2>. DEFINE c == transitions[p].components
              d == Lowered(p, scenario).components
  <2>6. /\ c \in TrustRow /\ d \in TrustRow
        /\ \A name \in TrustNames : d[name] <= c[name]
    BY <1>1, <2>2, LoweredTyped DEF ConsoleInv, TransitionRow
  <2>7. Score(d) <= Score(c) /\ Score(c) \in Int /\ Score(d) \in Int
    BY <2>6, ScoreGrows
  <2>8. Score(transitions[s].components)' = Score(d)
    BY <2>3 DEF Score
  <2>9. Score(transitions[s].components) = Score(c)
    BY <2>2
  <2>. HIDE DEF c, d
  <2>. QED
    BY <2>5, <2>7, <2>8, <2>9
<1>. QED
  BY <1>2, <1>3, <1>4, TrustSteps

(* A superseded certificate has one successor, issued in its last quarter. *)
THEOREM RenewalsChain == ConsoleSpec => []RenewalChain
<1>1. ConsoleInv => RenewalChain
  BY DEF ConsoleInv
<1>. QED
  BY <1>1, ConsoleInvariant, PTL

(* The newest event of the audit feed explains every change of the         *)
(* inventory and of a subject's trust and decision.                        *)
THEOREM EveryChangeExplained == ConsoleSpec => ChangesAreExplained
<1>1. ConsoleInv /\ [ConsoleNext]_consoleVars =>
        [CertificateChangeExplained /\ TrustChangeExplained]_consoleVars
  BY CertificatesExplained, TrustExplained
<1>. QED
  BY <1>1, ConsoleInvariant, ChangesByParts, PTL DEF ConsoleSpec

----------------------------------------------------------------------------
(* The tenant and its registry: types *)

LEMMA Bounds ==
  /\ Ahead \in Nat /\ Behind \in Nat /\ MaxTime \in Nat
  /\ First \in Nat /\ First > 0
BY TenantAssumption DEF First

(* A session that rolls back was asked of a version that there is.         *)
RollbackOfVersion ==
  \A a \in Administrators :
    Open(a, "rollback") => session[a].version \in DOMAIN registry

(* Nobody administers a retired tenant.                                    *)
RetiredIsClosed == tenant.retired => tenant.state = "suspended" /\ admins = {}

TenantTypeInv == TypeOK /\ RollbackOfVersion /\ RetiredIsClosed

LEMMA VersionOf ==
  ASSUME registry \in Seq(Version)
  PROVE  /\ Len(registry) \in Nat /\ DOMAIN registry = 1..Len(registry)
         /\ \A v \in DOMAIN registry : registry[v] \in Version
OBVIOUS

LEMMA OperationOf ==
  ASSUME TypeOK, NEW a \in Administrators,
         NEW do \in {"create", "activate", "rollback"}, Open(a, do)
  PROVE  session[a] \in Operation
BY DEF TypeOK, Open, Removal, Operation

LEMMA PreviousOf ==
  ASSUME registry \in Seq(Version)
  PROVE  /\ Previous \in Nat
         /\ Active # {} => Previous \in Active
         /\ Active = {} => Previous = 0
BY VersionOf DEF Previous, Active

SupersededRow(r, t) == [r EXCEPT !.state = "superseded", !.supersededAt = t]

LEMMA SupersededRowOf ==
  ASSUME NEW r \in Version, NEW t \in Times
  PROVE  /\ SupersededRow(r, t) \in Version
         /\ SupersededRow(r, t).state = "superseded"
         /\ SupersededRow(r, t).supersededAt = t
         /\ SupersededRow(r, t).content = r.content
         /\ SupersededRow(r, t).activatedAt = r.activatedAt
BY DEF SupersededRow, Version

LEMMA SupersedeOf ==
  ASSUME registry \in Seq(Version), NEW t \in Times
  PROVE  /\ Supersede(t) \in Seq(Version)
         /\ Len(Supersede(t)) = Len(registry)
         /\ \A v \in DOMAIN registry :
              Supersede(t)[v] = IF v \in Active THEN SupersededRow(registry[v], t)
                                ELSE registry[v]
<1>1. /\ Len(registry) \in Nat /\ DOMAIN registry = 1..Len(registry)
      /\ \A v \in 1..Len(registry) : registry[v] \in Version
  BY VersionOf
<1>2. Supersede(t) = [v \in 1..Len(registry) |->
                        IF v \in Active THEN SupersededRow(registry[v], t) ELSE registry[v]]
  BY <1>1 DEF Supersede, SupersededRow
<1>3. \A v \in 1..Len(registry) :
        (IF v \in Active THEN SupersededRow(registry[v], t) ELSE registry[v]) \in Version
  BY <1>1, SupersededRowOf
<1>4. Supersede(t) \in [1..Len(registry) -> Version]
  BY <1>2, <1>3
<1>. QED
  BY <1>1, <1>2, <1>4

(* What an administrator asks for is an operation once it has a time.      *)
LEMMA BeginTyped ==
  ASSUME TypeOK, RollbackOfVersion, NEW a \in Administrators, Begin(a)
  PROVE  /\ session' \in [Administrators -> {None} \cup Operation \cup Removal]
         /\ RollbackOfVersion'
<1>1. /\ registry \in Seq(Version) /\ now \in First..(First + MaxTime)
      /\ session \in [Administrators -> {None} \cup Operation \cup Removal]
  BY DEF TypeOK
<1>2. /\ Len(registry) \in Nat /\ DOMAIN registry = 1..Len(registry)
  BY <1>1, VersionOf
<1>3. PICK asked \in DraftRequests \cup PublishRequests \cup ActivationRequests
                       \cup RollbackRequests,
           t \in (now - Behind)..(now + Ahead) :
        session' = [session EXCEPT ![a] = [asked EXCEPT !.occurredAt = t]]
  BY DEF Begin
<1>4. t \in Times
  BY <1>1, Bounds DEF Times, First
<1>5. PICK do \in {"create", "activate", "rollback"}, v \in Nat,
           content \in Contents \cup {None} :
        /\ asked = Request(do, v, content)
        /\ do = "rollback" => v \in DOMAIN registry
  <2>1. CASE asked \in DraftRequests
    <3>1. PICK c \in Contents : asked = Request("create", 0, c)
      BY <2>1 DEF DraftRequests
    <3>. QED
      BY <3>1
  <2>2. CASE asked \in PublishRequests
    <3>1. PICK c \in Contents : asked = Request("create", Len(registry) + 1, c)
      BY <2>2 DEF PublishRequests
    <3>2. Len(registry) + 1 \in Nat
      BY <1>2
    <3>. QED
      BY <3>1, <3>2
  <2>3. CASE asked \in ActivationRequests
    <3>1. PICK v \in DOMAIN registry : asked = Request("activate", v, None)
      BY <2>3 DEF ActivationRequests, History
    <3>. QED
      BY <1>2, <3>1
  <2>4. CASE asked \in RollbackRequests
    <3>1. PICK v \in DOMAIN registry : asked = Request("rollback", v, None)
      BY <2>4 DEF RollbackRequests, History
    <3>. QED
      BY <1>2, <3>1
  <2>. QED
    BY <2>1, <2>2, <2>3, <2>4
<1>6. PICK r : r = [asked EXCEPT !.occurredAt = t]
  OBVIOUS
<1>7. /\ r \in Operation
      /\ r.do = "rollback" => r.version \in DOMAIN registry
  BY <1>4, <1>5, <1>6 DEF Request, Operation
<1>8. session' = [session EXCEPT ![a] = r] /\ registry' = registry
  BY <1>3, <1>6 DEF Begin
<1>. QED
  BY <1>1, <1>7, <1>8 DEF RollbackOfVersion, Open

----------------------------------------------------------------------------
(* The registry: a version enters into force *)

(* Version v enters into force at t, and replaces whatever was in force.   *)
Enters(old, new, v, t) ==
  /\ DOMAIN new = DOMAIN old \cup {v}
  /\ new[v].state = "active" /\ new[v].activatedAt = t /\ new[v].supersededAt = Never
  /\ v \in DOMAIN old =>
       old[v].state \in {"draft", "published"} /\ new[v].content = old[v].content
  /\ \A u \in DOMAIN old \ {v} :
       new[u] = IF old[u].state = "active" THEN SupersededRow(old[u], t) ELSE old[u]

LEMMA UnusedOf == TypeOK => Unused \in {"draft", "published"}
BY TenantAssumption DEF TypeOK, Unused

EnteredRow(r, t) ==
  [r EXCEPT !.state = "active", !.activatedAt = t, !.supersededAt = Never]

LEMMA EnteredRowOf ==
  ASSUME NEW r \in Version, NEW t \in Times
  PROVE  /\ EnteredRow(r, t) \in Version
         /\ EnteredRow(r, t).state = "active"
         /\ EnteredRow(r, t).activatedAt = t
         /\ EnteredRow(r, t).supersededAt = Never
         /\ EnteredRow(r, t).content = r.content
BY DEF EnteredRow, Version

LEMMA ActivateEnters ==
  ASSUME TenantTypeInv, NEW a \in Administrators, Activate(a)
  PROVE  /\ registry' \in Seq(Version)
         /\ session[a].version \in DOMAIN registry /\ session[a].occurredAt \in Times
         /\ FollowsPrevious(session[a].occurredAt)
         /\ Enters(registry, registry', session[a].version, session[a].occurredAt)
<1>. DEFINE v == session[a].version
            t == session[a].occurredAt
            S == Supersede(t)
            r == EnteredRow(S[v], t)
<1>1. TypeOK /\ registry \in Seq(Version) /\ Unused \in {"draft", "published"}
  BY UnusedOf DEF TenantTypeInv, TypeOK
<1>2. session[a] \in Operation
  BY <1>1, OperationOf DEF Activate
<1>3. t \in Times
  BY <1>2 DEF Operation
<1>4. /\ v \in DOMAIN registry /\ registry[v].state = Unused
      /\ FollowsPrevious(t)
      /\ registry' = [S EXCEPT ![v].state = "active", ![v].activatedAt = t,
                               ![v].supersededAt = Never]
  BY DEF Activate, Activatable
<1>5. /\ S \in Seq(Version) /\ Len(S) = Len(registry)
      /\ \A u \in DOMAIN registry :
           S[u] = IF u \in Active THEN SupersededRow(registry[u], t) ELSE registry[u]
  BY <1>1, <1>3, SupersedeOf
<1>6. /\ DOMAIN registry = 1..Len(registry) /\ Len(registry) \in Nat
      /\ \A u \in DOMAIN registry : registry[u] \in Version
  BY <1>1, VersionOf
<1>. HIDE DEF v, t, S
<1>7. S[v] = registry[v] /\ S[v] \in Version /\ DOMAIN S = DOMAIN registry
  BY <1>1, <1>4, <1>5, <1>6 DEF Active
<1>8. /\ r \in Version /\ r.state = "active" /\ r.activatedAt = t /\ r.supersededAt = Never
      /\ r.content = registry[v].content
  BY <1>3, <1>7, EnteredRowOf
<1>9. registry' = [S EXCEPT ![v] = r]
  BY <1>4, <1>7 DEF EnteredRow
<1>. HIDE DEF r
<1>10. registry' \in Seq(Version)
  <2>1. S \in [1..Len(registry) -> Version]
    BY <1>5
  <2>2. registry' \in [1..Len(registry) -> Version]
    BY <1>4, <1>6, <1>8, <1>9, <2>1
  <2>. QED
    BY <1>6, <2>2
<1>11. Enters(registry, registry', v, t)
  <2>1. \A u \in DOMAIN registry \ {v} : registry'[u] = S[u]
    BY <1>7, <1>9
  <2>2. registry'[v] = r /\ DOMAIN registry' = DOMAIN registry
    BY <1>4, <1>7, <1>9
  <2>. QED
    BY <1>1, <1>4, <1>5, <1>8, <2>1, <2>2 DEF Enters, Active
<1>. QED
  BY <1>3, <1>4, <1>10, <1>11 DEF v, t

LEMMA RollbackEnters ==
  ASSUME TenantTypeInv, NEW a \in Administrators, Rollback(a)
  PROVE  /\ registry' \in Seq(Version)
         /\ session[a].version \in DOMAIN registry /\ session[a].occurredAt \in Times
         /\ registry[session[a].version].state = "superseded"
         /\ Active # {} /\ FollowsPrevious(session[a].occurredAt)
         /\ Enters(registry, registry', Len(registry) + 1, session[a].occurredAt)
         /\ registry'[Len(registry) + 1].content = registry[session[a].version].content
         /\ Len(registry) + 1 \notin DOMAIN registry
<1>. DEFINE v == session[a].version
            t == session[a].occurredAt
            S == Supersede(t)
            k == Len(registry) + 1
            r == [content |-> registry[v].content, state |-> "active",
                  createdAt |-> t, activatedAt |-> t, supersededAt |-> Never]
<1>1. TypeOK /\ registry \in Seq(Version)
  BY DEF TenantTypeInv, TypeOK
<1>2. session[a] \in Operation
  BY <1>1, OperationOf DEF Rollback
<1>3. t \in Times /\ v \in DOMAIN registry
  BY <1>2 DEF Operation, Rollback, TenantTypeInv, RollbackOfVersion
<1>4. /\ registry[v].state = "superseded" /\ Active # {} /\ FollowsPrevious(t)
      /\ registry' = Append(S, r)
  BY DEF Rollback, Restored
<1>5. /\ S \in Seq(Version) /\ Len(S) = Len(registry)
      /\ \A u \in DOMAIN registry :
           S[u] = IF u \in Active THEN SupersededRow(registry[u], t) ELSE registry[u]
  BY <1>1, <1>3, SupersedeOf
<1>6. /\ DOMAIN registry = 1..Len(registry) /\ Len(registry) \in Nat
      /\ \A u \in DOMAIN registry : registry[u] \in Version
  BY <1>1, VersionOf
<1>. HIDE DEF v, t, S
<1>7. /\ r \in Version /\ r.state = "active" /\ r.activatedAt = t /\ r.supersededAt = Never
      /\ r.content = registry[v].content
  BY <1>3, <1>6 DEF Version
<1>. HIDE DEF r
<1>8. /\ registry' \in Seq(Version) /\ DOMAIN registry' = 1..k /\ registry'[k] = r
      /\ \A u \in 1..Len(registry) : registry'[u] = S[u]
      /\ k \notin DOMAIN registry
  BY <1>4, <1>5, <1>6, <1>7
<1>9. Enters(registry, registry', k, t)
  BY <1>5, <1>6, <1>7, <1>8 DEF Enters, Active
<1>. QED
  BY <1>3, <1>4, <1>7, <1>8, <1>9 DEF v, t

----------------------------------------------------------------------------
(* The ledger: an entry is appended *)

(* The log new is old, entries of replaced versions and then e.            *)
Extended(old, new, e) ==
  /\ Len(new) > Len(old)
  /\ \A i \in 1..Len(old) : new[i] = old[i]
  /\ \A i \in (Len(old) + 1)..(Len(new) - 1) : new[i].type = "superseded"
  /\ new[Len(new)] = e

LEMMA EntryTyped ==
  ASSUME NEW type \in {"created", "activated", "superseded", "rollback"},
         NEW version \in Nat, NEW previous \in Nat, NEW target \in Nat
  PROVE  /\ Entry(type, version, previous, target) \in Event
         /\ Entry(type, version, previous, target).type = type
         /\ Entry(type, version, previous, target).version = version
         /\ Entry(type, version, previous, target).previous = previous
         /\ Entry(type, version, previous, target).target = target
BY DEF Entry, Event

LEMMA AppendedIsExtended ==
  ASSUME NEW old \in Seq(Event), NEW e \in Event
  PROVE  Append(old, e) \in Seq(Event) /\ Extended(old, Append(old, e), e)
<1>1. /\ Append(old, e) \in Seq(Event) /\ Len(Append(old, e)) = Len(old) + 1
      /\ Len(old) \in Nat
      /\ \A i \in 1..Len(old) : Append(old, e)[i] = old[i]
      /\ Append(old, e)[Len(old) + 1] = e
  OBVIOUS
<1>. HIDE DEF Extended
<1>. QED
  BY <1>1 DEF Extended

LEMMA AppendedToLog ==
  ASSUME NEW log \in Seq(Event), NEW e \in Event
  PROVE  /\ log \o <<e>> \in Seq(Event) /\ Len(log \o <<e>>) = Len(log) + 1
         /\ \A i \in 1..Len(log) : (log \o <<e>>)[i] = log[i]
         /\ (log \o <<e>>)[Len(log) + 1] = e
<1>1. log \o <<e>> = Append(log, e)
  BY AppendIsConcat
<1>2. /\ Append(log, e) \in Seq(Event) /\ Len(Append(log, e)) = Len(log) + 1
      /\ \A i \in 1..Len(log) : Append(log, e)[i] = log[i]
      /\ Append(log, e)[Len(log) + 1] = e
  OBVIOUS
<1>. QED
  BY <1>1, <1>2

LEMMA ReplacedIsExtended ==
  ASSUME NEW old \in Seq(Event), NEW e \in Event, NEW S \in Seq(Event), Len(S) \in 0..1,
         \A i \in DOMAIN S : S[i].type = "superseded"
  PROVE  old \o S \o <<e>> \in Seq(Event) /\ Extended(old, old \o S \o <<e>>, e)
<1>. DEFINE mid == old \o S
<1>1. /\ mid \in Seq(Event) /\ Len(mid) = Len(old) + Len(S)
      /\ Len(old) \in Nat /\ Len(S) \in Nat
      /\ \A i \in 1..Len(old) : mid[i] = old[i]
      /\ \A i \in (Len(old) + 1)..Len(mid) : mid[i].type = "superseded"
  <2>1. /\ mid \in Seq(Event) /\ Len(mid) = Len(old) + Len(S)
        /\ \A i \in 1..Len(mid) : mid[i] = IF i <= Len(old) THEN old[i] ELSE S[i - Len(old)]
    BY ConcatProperties
  <2>2. \A i \in (Len(old) + 1)..Len(mid) : i - Len(old) \in DOMAIN S
    BY <2>1
  <2>. QED
    BY <2>1, <2>2
<1>. DEFINE new == mid \o <<e>>
<1>. HIDE DEF mid
<1>2. mid \in Seq(Event)
  BY <1>1
<1>3. /\ new \in Seq(Event) /\ Len(new) = Len(mid) + 1
      /\ \A i \in 1..Len(mid) : new[i] = mid[i]
      /\ new[Len(mid) + 1] = e
  BY <1>2, AppendedToLog, Zenon
<1>. HIDE DEF new
<1>4. Extended(old, new, e)
  BY <1>1, <1>3 DEF Extended
<1>. QED
  BY <1>3, <1>4 DEF mid, new

LEMMA SupersededLogged ==
  ASSUME TypeOK
  PROVE  /\ SupersededEntries \in Seq(Event) /\ Len(SupersededEntries) \in 0..1
         /\ \A i \in DOMAIN SupersededEntries : SupersededEntries[i].type = "superseded"
<1>1. Previous \in Nat
  BY PreviousOf DEF TypeOK
<1>2. CASE SupersededEntries = <<>>
  BY <1>2
<1>3. CASE SupersededEntries = <<Entry("superseded", Previous, Previous, 0)>>
  <2>1. PICK e : e = Entry("superseded", Previous, Previous, 0)
    OBVIOUS
  <2>2. e \in Event /\ e.type = "superseded"
    BY <1>1, <2>1, EntryTyped
  <2>3. SupersededEntries = <<e>>
    BY <1>3, <2>1
  <2>. QED
    BY <2>2, <2>3
<1>. QED
  BY <1>2, <1>3 DEF SupersededEntries

(* The entry that each operation leaves last                               *)
LEMMA CreateLogs ==
  ASSUME TenantTypeInv, NEW a \in Administrators, Create(a)
  PROVE  /\ ledger' \in Seq(Event) /\ ledger'[Len(ledger')].type = "created"
         /\ Extended(ledger, ledger', ledger'[Len(ledger')])
<1>1. ledger \in Seq(Event) /\ registry \in Seq(Version) /\ Previous \in Nat
  BY PreviousOf DEF TenantTypeInv, TypeOK
<1>2. PICK next \in Nat, previous \in Nat : ledger' = Append(ledger, Entry("created", next, previous, 0))
  BY <1>1 DEF Create
<1>3. PICK e : e = Entry("created", next, previous, 0)
  OBVIOUS
<1>4. e \in Event /\ e.type = "created"
  BY <1>3, EntryTyped
<1>5. ledger' \in Seq(Event) /\ Extended(ledger, ledger', e)
  BY <1>1, <1>2, <1>3, <1>4, AppendedIsExtended
<1>6. ledger'[Len(ledger')] = e
  BY <1>5 DEF Extended
<1>. QED
  BY <1>4, <1>5, <1>6

LEMMA ActivateLogs ==
  ASSUME TenantTypeInv, NEW a \in Administrators, Activate(a)
  PROVE  /\ ledger' \in Seq(Event)
         /\ \E e \in Event :
              /\ e.type = "activated" /\ e.version = session[a].version /\ e.previous = Previous
              /\ Extended(ledger, ledger', e)
<1>1. /\ TypeOK /\ ledger \in Seq(Event) /\ registry \in Seq(Version) /\ Previous \in Nat
  BY PreviousOf DEF TenantTypeInv, TypeOK
<1>2. PICK v \in Nat : v = session[a].version
  BY <1>1, OperationOf DEF Activate, Operation
<1>3. PICK e : e = Entry("activated", v, Previous, 0)
  OBVIOUS
<1>4. /\ e \in Event /\ e.type = "activated"
      /\ e.version = v /\ e.previous = Previous
  <2>1. PICK previous \in Nat : previous = Previous
    BY <1>1
  <2>2. e = Entry("activated", v, previous, 0)
    BY <1>3, <2>1
  <2>. QED
    BY <2>1, <2>2, EntryTyped
<1>5. ledger' = ledger \o SupersededEntries \o <<e>>
  BY <1>2, <1>3 DEF Activate
<1>6. ledger' \in Seq(Event) /\ Extended(ledger, ledger', e)
  BY <1>1, <1>4, <1>5, SupersededLogged, ReplacedIsExtended
<1>. QED
  BY <1>2, <1>4, <1>6

LEMMA RollbackLogs ==
  ASSUME TenantTypeInv, NEW a \in Administrators, Rollback(a)
  PROVE  /\ ledger' \in Seq(Event)
         /\ \E e \in Event :
              /\ e.type = "rollback" /\ e.version = Len(registry) + 1
              /\ e.previous = Previous /\ e.target = session[a].version
              /\ Extended(ledger, ledger', e)
<1>1. /\ TypeOK /\ ledger \in Seq(Event) /\ registry \in Seq(Version) /\ Previous \in Nat
  BY PreviousOf DEF TenantTypeInv, TypeOK
<1>2. session[a].version \in Nat /\ Len(registry) + 1 \in Nat
  BY <1>1, OperationOf, VersionOf DEF Rollback, Operation
<1>3. PICK e : e = Entry("rollback", Len(registry) + 1, Previous, session[a].version)
  OBVIOUS
<1>4. /\ e \in Event /\ e.type = "rollback" /\ e.version = Len(registry) + 1
      /\ e.previous = Previous /\ e.target = session[a].version
  <2>1. PICK next \in Nat, previous \in Nat, target \in Nat :
          next = Len(registry) + 1 /\ previous = Previous /\ target = session[a].version
    BY <1>1, <1>2
  <2>2. e = Entry("rollback", next, previous, target)
    BY <1>3, <2>1
  <2>3. /\ e \in Event /\ e.type = "rollback" /\ e.version = next
        /\ e.previous = previous /\ e.target = target
    BY <2>2, EntryTyped
  <2>. QED
    BY <2>1, <2>3
<1>5. ledger' = Append(ledger, e)
  BY <1>3 DEF Rollback
<1>6. ledger' \in Seq(Event) /\ Extended(ledger, ledger', e)
  BY <1>1, <1>4, <1>5, AppendedIsExtended
<1>. QED
  BY <1>4, <1>6

----------------------------------------------------------------------------
(* The times of the versions *)

InForce(rows) == {v \in DOMAIN rows : rows[v].state = "active"}
Used(rows) == {v \in DOMAIN rows : rows[v].activatedAt # Never}

(* A version has a time of activation from when it is in force, and one of *)
(* replacement from when it is not any more.                               *)
TimesOfState(rows) ==
  \A v \in DOMAIN rows :
    /\ rows[v].state \in {"draft", "published"} => rows[v].activatedAt = Never
    /\ rows[v].state \in {"active", "superseded"} => rows[v].activatedAt # Never

OneInForce(rows) == \A v, w \in InForce(rows) : v = w

(* TimesTile, for any sequence of versions; that one is in force is apart  *)
Tiled(rows) ==
  /\ Used(rows) # {} => InForce(rows) # {}
  /\ \A v \in Used(rows) \ InForce(rows) :
       \E w \in Used(rows) \ {v} : rows[w].activatedAt = rows[v].supersededAt
  /\ \A v, w \in Used(rows) : rows[v].activatedAt < rows[w].activatedAt =>
       v \notin InForce(rows) /\ rows[v].supersededAt <= rows[w].activatedAt

(* What an activation makes of them, version by version                    *)
LEMMA EntersRows ==
  ASSUME NEW old \in Seq(Version), NEW new \in Seq(Version), NEW v \in Nat, NEW t \in Times,
         Enters(old, new, v, t), TimesOfState(old)
  PROVE  /\ InForce(new) = {v}
         /\ Used(new) = Used(old) \cup {v} /\ v \notin Used(old)
         /\ \A u \in Used(old) : new[u].activatedAt = old[u].activatedAt
         /\ \A u \in InForce(old) : u \in Used(old) /\ new[u].supersededAt = t
         /\ \A u \in Used(old) \ InForce(old) : new[u].supersededAt = old[u].supersededAt
         /\ TimesOfState(new)
<1>1. /\ DOMAIN new = DOMAIN old \cup {v}
      /\ new[v].state = "active" /\ new[v].activatedAt = t /\ new[v].activatedAt # Never
      /\ v \in DOMAIN old => old[v].state \in {"draft", "published"}
  BY DEF Enters, Times, Never
<1>2. \A u \in DOMAIN old : old[u] \in Version
  OBVIOUS
<1>3. ASSUME NEW u \in DOMAIN old \ {v}
      PROVE  /\ new[u].activatedAt = old[u].activatedAt
             /\ new[u].state \in {"draft", "published", "superseded"}
             /\ new[u].state \in {"draft", "published"} <=> old[u].state \in {"draft", "published"}
             /\ old[u].state = "active" => new[u].supersededAt = t
             /\ old[u].state # "active" => new[u].supersededAt = old[u].supersededAt
  <2>1. CASE old[u].state = "active"
    <3>1. new[u] = SupersededRow(old[u], t)
      BY <2>1 DEF Enters
    <3>. QED
      BY <1>2, <2>1, <3>1, SupersededRowOf
  <2>2. CASE old[u].state # "active"
    <3>1. new[u] = old[u]
      BY <2>2 DEF Enters
    <3>. QED
      BY <1>2, <2>2, <3>1 DEF Version
  <2>. QED
    BY <2>1, <2>2
<1>4. InForce(new) = {v}
  BY <1>1, <1>3 DEF InForce
<1>5. v \notin Used(old)
  BY <1>1 DEF Used, TimesOfState
<1>6. Used(new) = Used(old) \cup {v}
  BY <1>1, <1>3, <1>5 DEF Used
<1>7. \A u \in InForce(old) : u \in Used(old) /\ u # v
  BY <1>1 DEF InForce, Used, TimesOfState
<1>8. TimesOfState(new)
  <2>. SUFFICES ASSUME NEW u \in DOMAIN new
                PROVE  /\ new[u].state \in {"draft", "published"} => new[u].activatedAt = Never
                       /\ new[u].state \in {"active", "superseded"} => new[u].activatedAt # Never
    BY DEF TimesOfState
  <2>1. CASE u = v
    BY <1>1, <2>1
  <2>2. CASE u # v
    <3>1. u \in DOMAIN old \ {v} /\ old[u] \in Version
      BY <1>1, <1>2, <2>2
    <3>2. old[u].state \in {"draft", "published"} \/ old[u].state \in {"active", "superseded"}
      BY <3>1 DEF Version
    <3>. QED
      BY <1>3, <3>1, <3>2 DEF TimesOfState
  <2>. QED
    BY <2>1, <2>2
<1>. QED
  BY <1>3, <1>4, <1>5, <1>6, <1>7, <1>8 DEF Used, InForce

(* The versions still tile when one enters that is not dated before the    *)
(* one it replaces.                                                        *)
LEMMA EntersTiled ==
  ASSUME NEW old \in Seq(Version), NEW new \in Seq(Version), NEW v \in Nat, NEW t \in Times,
         Enters(old, new, v, t), TimesOfState(old), Tiled(old),
         \A u \in InForce(old) : t >= old[u].activatedAt
  PROVE  Tiled(new)
<1>1. /\ InForce(new) = {v}
      /\ Used(new) = Used(old) \cup {v} /\ v \notin Used(old)
      /\ \A u \in Used(old) : new[u].activatedAt = old[u].activatedAt
      /\ \A u \in InForce(old) : u \in Used(old) /\ new[u].supersededAt = t
      /\ \A u \in Used(old) \ InForce(old) : new[u].supersededAt = old[u].supersededAt
      /\ new[v].activatedAt = t
  BY EntersRows DEF Enters
<1>2. \A u \in Used(old) : old[u].activatedAt \in Int
  <2>1. \A u \in DOMAIN old : old[u] \in Version
    OBVIOUS
  <2>. QED
    BY <2>1 DEF Used, Version, Times, Never
<1>3. t \in Int
  BY DEF Times
<1>4. \A u \in Used(old) : old[u].activatedAt <= t
  <2>. SUFFICES ASSUME NEW u \in Used(old) PROVE old[u].activatedAt <= t
    OBVIOUS
  <2>1. PICK x \in InForce(old) : TRUE
    BY DEF Tiled
  <2>2. old[u].activatedAt <= old[x].activatedAt
    BY <1>1, <1>2, <2>1 DEF Tiled
  <2>. QED
    BY <1>1, <1>2, <1>3, <2>1, <2>2
<1>5. ASSUME NEW u \in Used(new) \ InForce(new)
      PROVE  \E w \in Used(new) \ {u} : new[w].activatedAt = new[u].supersededAt
  <2>1. u \in Used(old) /\ u # v
    BY <1>1, <1>5
  <2>2. CASE u \in InForce(old)
    BY <1>1, <2>1, <2>2
  <2>3. CASE u \notin InForce(old)
    <3>1. PICK w \in Used(old) \ {u} : old[w].activatedAt = old[u].supersededAt
      BY <2>1, <2>3 DEF Tiled
    <3>. QED
      BY <1>1, <2>1, <2>3, <3>1
  <2>. QED
    BY <2>2, <2>3
<1>6. ASSUME NEW u \in Used(new), NEW w \in Used(new), new[u].activatedAt < new[w].activatedAt
      PROVE  u \notin InForce(new) /\ new[u].supersededAt <= new[w].activatedAt
  <2>1. CASE u = v
    BY <1>1, <1>2, <1>3, <1>4, <1>6, <2>1
  <2>2. CASE u # v /\ w = v
    <3>1. u \in Used(old)
      BY <1>1, <2>2
    <3>2. CASE u \in InForce(old)
      BY <1>1, <1>3, <2>2, <3>2
    <3>3. CASE u \notin InForce(old)
      <4>1. PICK x \in Used(old) : old[x].activatedAt = old[u].supersededAt
        BY <3>1, <3>3 DEF Tiled
      <4>. QED
        BY <1>1, <1>4, <2>2, <3>1, <3>3, <4>1
    <3>. QED
      BY <3>2, <3>3
  <2>3. CASE u # v /\ w # v
    <3>1. /\ u \in Used(old) /\ w \in Used(old)
          /\ old[u].activatedAt < old[w].activatedAt
      BY <1>1, <1>6, <2>3
    <3>. QED
      BY <1>1, <2>3, <3>1 DEF Tiled
  <2>. QED
    BY <2>1, <2>2, <2>3
<1>. QED
  BY <1>1, <1>5, <1>6 DEF Tiled

----------------------------------------------------------------------------
(* TenantLifecycle: the types, and what the sessions hold *)

LEMMA CreateRow ==
  ASSUME TenantTypeInv, NEW a \in Administrators, Create(a)
  PROVE  /\ registry' \in Seq(Version) /\ Len(registry') = Len(registry) + 1
         /\ \A v \in DOMAIN registry : registry'[v] = registry[v]
         /\ registry'[Len(registry) + 1].state \in {"draft", "published"}
         /\ registry'[Len(registry) + 1].activatedAt = Never
<1>1. TypeOK /\ registry \in Seq(Version) /\ Unused \in {"draft", "published"}
  BY UnusedOf DEF TenantTypeInv, TypeOK
<1>2. session[a] \in Operation
  BY <1>1, OperationOf DEF Create
<1>3. PICK row : /\ row = [content |-> session[a].content, state |-> Unused,
                           createdAt |-> session[a].occurredAt, activatedAt |-> Never,
                           supersededAt |-> Never]
                 /\ registry' = Append(registry, row)
  BY DEF Create
<1>4. row \in Version /\ row.state \in {"draft", "published"} /\ row.activatedAt = Never
  BY <1>1, <1>2, <1>3 DEF Version, Operation
<1>. QED
  BY <1>1, <1>3, <1>4

LEMMA NowIsATime == TypeOK => now \in Times
BY Bounds DEF TypeOK, Times

LEMMA SessionEnds ==
  ASSUME TypeOK, NEW a \in Administrators, session' = Ended(a), registry \in Seq(Version),
         registry' \in Seq(Version), Len(registry') >= Len(registry), RollbackOfVersion
  PROVE  /\ session' \in [Administrators -> {None} \cup Operation \cup Removal]
         /\ RollbackOfVersion'
<1>1. session' \in [Administrators -> {None} \cup Operation \cup Removal]
  BY DEF TypeOK, Ended
<1>2. DOMAIN registry \subseteq DOMAIN registry'
  BY VersionOf
<1>3. ASSUME NEW b \in Administrators, session'[b] # None, session'[b].do = "rollback"
      PROVE  session'[b].version \in DOMAIN registry'
  <2>1. session'[b] = session[b]
    BY <1>3 DEF Ended, TypeOK
  <2>. QED
    BY <1>2, <1>3, <2>1 DEF RollbackOfVersion, Open
<1>. QED
  BY <1>1, <1>3 DEF RollbackOfVersion, Open

LEMMA RegistryGrows ==
  ASSUME TenantTypeInv, NEW a \in Administrators, Create(a) \/ Activate(a) \/ Rollback(a)
  PROVE  /\ registry' \in Seq(Version) /\ ledger' \in Seq(Event)
         /\ Len(registry') >= Len(registry) /\ DOMAIN registry \subseteq DOMAIN registry'
<1>1. registry \in Seq(Version) /\ Len(registry) \in Nat /\ DOMAIN registry = 1..Len(registry)
  BY VersionOf DEF TenantTypeInv, TypeOK
<1>2. CASE Create(a)
  BY <1>1, <1>2, CreateRow, CreateLogs
<1>3. CASE Activate(a)
  <2>1. registry' \in Seq(Version) /\ DOMAIN registry' = DOMAIN registry
    BY <1>3, ActivateEnters DEF Enters
  <2>. QED
    BY <1>1, <1>3, <2>1, ActivateLogs
<1>4. CASE Rollback(a)
  <2>1. /\ registry' \in Seq(Version)
        /\ DOMAIN registry' = DOMAIN registry \cup {Len(registry) + 1}
    BY <1>4, RollbackEnters DEF Enters
  <2>. QED
    BY <1>1, <1>4, <2>1, RollbackLogs
<1>. QED
  BY <1>2, <1>3, <1>4

LEMMA TenantTypeStep ==
  ASSUME TenantTypeInv, [Next]_vars
  PROVE  TenantTypeInv'
<1>1. /\ TypeOK /\ RollbackOfVersion /\ RetiredIsClosed
      /\ registry \in Seq(Version) /\ Len(registry) \in Nat
  BY VersionOf DEF TenantTypeInv, TypeOK
<1>2. ASSUME NEW a \in Administrators, Create(a) \/ Activate(a) \/ Rollback(a)
      PROVE  TenantTypeInv'
  <2>1. /\ registry' \in Seq(Version) /\ ledger' \in Seq(Event)
        /\ Len(registry') >= Len(registry)
    BY <1>1, <1>2, RegistryGrows
  <2>2. session' = Ended(a) /\ UNCHANGED <<now, tenant, members, admins, kind>>
    BY <1>2 DEF Create, Activate, Rollback
  <2>3. /\ session' \in [Administrators -> {None} \cup Operation \cup Removal]
        /\ RollbackOfVersion'
    BY <1>1, <2>1, <2>2, SessionEnds
  <2>. QED
    BY <1>1, <2>1, <2>2, <2>3 DEF TenantTypeInv, TypeOK, RetiredIsClosed
<1>3. ASSUME NEW a \in Administrators, Begin(a)
      PROVE  TenantTypeInv'
  <2>1. /\ session' \in [Administrators -> {None} \cup Operation \cup Removal]
        /\ RollbackOfVersion'
    BY <1>1, <1>3, BeginTyped
  <2>. QED
    BY <1>1, <1>3, <2>1 DEF Begin, TenantTypeInv, TypeOK, RetiredIsClosed
<1>4. ASSUME NEW a \in Administrators, StartRemoval(a)
      PROVE  TenantTypeInv'
  <2>1. PICK b \in Administrators, do \in {"role", "membership"} :
          session' = [session EXCEPT ![a] = [do |-> do, subject |-> b]]
    BY <1>4 DEF StartRemoval
  <2>2. PICK r : r = [do |-> do, subject |-> b]
    OBVIOUS
  <2>3. r \in Removal /\ r.do # "rollback" /\ session' = [session EXCEPT ![a] = r]
    BY <2>1, <2>2 DEF Removal
  <2>4. UNCHANGED <<now, tenant, members, admins, kind, registry, ledger>>
    BY <1>4 DEF StartRemoval
  <2>5. session' \in [Administrators -> {None} \cup Operation \cup Removal]
    BY <1>1, <2>3 DEF TypeOK
  <2>6. RollbackOfVersion'
    BY <1>1, <2>3, <2>4 DEF TypeOK, RollbackOfVersion, Open
  <2>. QED
    BY <1>1, <2>4, <2>5, <2>6 DEF TenantTypeInv, TypeOK, RetiredIsClosed
<1>5. ASSUME NEW a \in Administrators, CommitRemoval(a) \/ Abandon(a)
      PROVE  TenantTypeInv'
  <2>1. session' = Ended(a) /\ UNCHANGED <<now, tenant, kind, registry, ledger>>
    BY <1>5 DEF CommitRemoval, Abandon
  <2>2. /\ session' \in [Administrators -> {None} \cup Operation \cup Removal]
        /\ RollbackOfVersion'
    BY <1>1, <2>1, SessionEnds
  <2>3. /\ admins' \subseteq admins
        /\ members' \in [Administrators -> {"active", "suspended"}]
    BY <1>1, <1>5 DEF CommitRemoval, Abandon, TypeOK
  <2>. QED
    BY <1>1, <2>1, <2>2, <2>3 DEF TenantTypeInv, TypeOK, RetiredIsClosed
<1>6. CASE SuspendTenant \/ ReactivateTenant
  <2>1. tenant' \in [state : {"active", "suspended"}, retired : BOOLEAN, version : Nat]
    <3>1. PICK n \in Nat : n = tenant.version + 1
      BY <1>1 DEF TypeOK
    <3>2. \E status \in {"active", "suspended"} :
            tenant' = [tenant EXCEPT !.state = status, !.version = n]
      BY <1>6, <3>1 DEF SuspendTenant, ReactivateTenant
    <3>. QED
      BY <1>1, <3>2 DEF TypeOK
  <2>2. ~tenant'.retired
    BY <1>1, <1>6 DEF SuspendTenant, ReactivateTenant, MayReactivate, TypeOK
  <2>3. UNCHANGED <<now, members, admins, kind, registry, ledger, session>>
    BY <1>6 DEF SuspendTenant, ReactivateTenant
  <2>. QED
    BY <1>1, <2>1, <2>2, <2>3
    DEF TenantTypeInv, TypeOK, RetiredIsClosed, RollbackOfVersion, Open
<1>7. CASE Teardown
  <2>1. /\ registry' \in Seq(Version) /\ Len(registry') = Len(registry)
    BY <1>1, <1>7, NowIsATime, SupersedeOf DEF Teardown
  <2>2. /\ tenant' \in [state : {"active", "suspended"}, retired : BOOLEAN, version : Nat]
        /\ tenant'.state = "suspended" /\ admins' = {}
        /\ members' \in [Administrators -> {"active", "suspended"}]
    <3>1. PICK n \in Nat : n = tenant.version + 1
      BY <1>1 DEF TypeOK
    <3>2. tenant' = [tenant EXCEPT !.retired = TRUE, !.version = n]
      BY <1>7, <3>1 DEF Teardown
    <3>. QED
      BY <1>1, <1>7, <3>2 DEF Teardown, TypeOK
  <2>3. DOMAIN registry' = DOMAIN registry
    BY <1>1, <2>1
  <2>4. UNCHANGED <<now, kind, ledger, session>>
    BY <1>7 DEF Teardown
  <2>5. RollbackOfVersion'
    BY <1>1, <2>3, <2>4 DEF RollbackOfVersion, Open
  <2>. QED
    BY <1>1, <2>1, <2>2, <2>4, <2>5 DEF TenantTypeInv, TypeOK, RetiredIsClosed
<1>8. CASE Tick
  <2>1. now' \in First..(First + MaxTime)
    BY <1>1, <1>8, Bounds DEF Tick, TypeOK
  <2>. QED
    BY <1>1, <1>8, <2>1
    DEF Tick, TenantTypeInv, TypeOK, RetiredIsClosed, RollbackOfVersion, Open
<1>9. CASE UNCHANGED vars
  BY <1>1, <1>9 DEF vars, TenantTypeInv, TypeOK, RetiredIsClosed, RollbackOfVersion, Open
<1>. QED
  BY <1>2, <1>3, <1>4, <1>5, <1>6, <1>7, <1>8, <1>9 DEF Next

LEMMA TenantTypeInit == Init => TenantTypeInv
<1>. SUFFICES ASSUME Init PROVE TenantTypeInv
  OBVIOUS
<1>1. First \in Times /\ First \in First..(First + MaxTime)
  BY Bounds DEF Times
<1>2. PICK row : /\ row \in Version /\ registry = <<row>>
  <2>1. CASE kind = "trust"
    <3>1. PICK content \in Contents :
            registry = <<[content |-> content, state |-> "active", createdAt |-> First,
                          activatedAt |-> First, supersededAt |-> Never]>>
      BY <2>1 DEF Init
    <3>2. [content |-> content, state |-> "active", createdAt |-> First,
           activatedAt |-> First, supersededAt |-> Never] \in Version
      BY <1>1 DEF Version
    <3>. QED
      BY <3>1, <3>2
  <2>2. CASE kind = "policy"
    <3>1. registry = <<[content |-> None, state |-> "published", createdAt |-> First,
                        activatedAt |-> Never, supersededAt |-> Never]>>
      BY <2>2 DEF Init
    <3>2. [content |-> None, state |-> "published", createdAt |-> First,
           activatedAt |-> Never, supersededAt |-> Never] \in Version
      BY <1>1 DEF Version
    <3>. QED
      BY <3>1, <3>2
  <2>. QED
    BY <2>1, <2>2 DEF Init
<1>3. registry \in Seq(Version) /\ ledger \in Seq(Event)
  BY <1>2 DEF Init
<1>. QED
  BY <1>1, <1>3 DEF Init, TenantTypeInv, TypeOK, RollbackOfVersion, Open, RetiredIsClosed

----------------------------------------------------------------------------
(* TenantLifecycle: the times of the versions follow each other *)

RegistryInv ==
  /\ TimesOfState(registry) /\ OneInForce(registry)
  /\ ~tenant.retired => Tiled(registry)

(* A version that enters keeps what the others contain and that they were  *)
(* in force once.                                                          *)
LEMMA EntersKeeps ==
  ASSUME NEW old \in Seq(Version), NEW new \in Seq(Version), NEW v \in Nat, NEW t \in Times,
         Enters(old, new, v, t)
  PROVE  /\ DOMAIN old \subseteq DOMAIN new /\ v \in DOMAIN new
         /\ \A u \in DOMAIN old : new[u].content = old[u].content
<1>1. \A u \in DOMAIN old : old[u] \in Version
  OBVIOUS
<1>2. ASSUME NEW u \in DOMAIN old PROVE new[u].content = old[u].content
  <2>1. CASE u = v
    BY <2>1 DEF Enters
  <2>2. CASE u # v /\ old[u].state = "active"
    <3>1. new[u] = SupersededRow(old[u], t)
      BY <2>2 DEF Enters
    <3>. QED
      BY <1>1, <3>1, SupersededRowOf
  <2>3. CASE u # v /\ old[u].state # "active"
    BY <2>3 DEF Enters
  <2>. QED
    BY <2>1, <2>2, <2>3
<1>. QED
  BY <1>2 DEF Enters

(* A version that is not in force yet changes nothing of the times.        *)
LEMMA UnusedAppended ==
  ASSUME NEW old \in Seq(Version), NEW new \in Seq(Version), Len(new) = Len(old) + 1,
         \A v \in DOMAIN old : new[v] = old[v],
         new[Len(old) + 1].state \in {"draft", "published"},
         new[Len(old) + 1].activatedAt = Never,
         TimesOfState(old)
  PROVE  /\ DOMAIN old \subseteq DOMAIN new
         /\ InForce(new) = InForce(old) /\ Used(new) = Used(old)
         /\ TimesOfState(new)
         /\ OneInForce(old) => OneInForce(new)
         /\ Tiled(old) => Tiled(new)
<1>1. DOMAIN new = DOMAIN old \cup {Len(old) + 1} /\ Len(old) + 1 \notin DOMAIN old
  <2>1. /\ DOMAIN old = 1..Len(old) /\ DOMAIN new = 1..Len(new)
        /\ Len(old) \in Nat /\ Len(new) \in Nat
    OBVIOUS
  <2>. QED
    BY <2>1
<1>2. InForce(new) = InForce(old)
  BY <1>1 DEF InForce
<1>3. Used(new) = Used(old)
  BY <1>1 DEF Used
<1>4. TimesOfState(new)
  BY <1>1 DEF TimesOfState
<1>5. OneInForce(old) => OneInForce(new)
  BY <1>2 DEF OneInForce
<1>6. \A u \in Used(old) : u \in DOMAIN old
  BY DEF Used
<1>7. Tiled(old) => Tiled(new)
  BY <1>2, <1>3, <1>6 DEF Tiled
<1>. QED
  BY <1>1, <1>2, <1>3, <1>4, <1>5, <1>7

LEMMA RegistryEntered ==
  ASSUME TenantTypeInv, RegistryInv, NEW v \in Nat, NEW t \in Times,
         registry' \in Seq(Version), Enters(registry, registry', v, t), FollowsPrevious(t),
         tenant' = tenant
  PROVE  RegistryInv'
<1>1. PICK old \in Seq(Version), new \in Seq(Version) :
        old = registry /\ new = registry'
  BY DEF TenantTypeInv, TypeOK
<1>2. Enters(old, new, v, t) /\ TimesOfState(old)
  BY <1>1 DEF RegistryInv
<1>3. \A u \in InForce(old) : t >= old[u].activatedAt
  BY <1>1 DEF FollowsPrevious, Active, InForce
<1>4. TimesOfState(new) /\ InForce(new) = {v}
  BY <1>2, EntersRows
<1>5. OneInForce(new)
  BY <1>4 DEF OneInForce
<1>6. Tiled(old) => Tiled(new)
  BY <1>2, <1>3, EntersTiled
<1>7. RegistryInv' <=> /\ TimesOfState(registry') /\ OneInForce(registry')
                       /\ ~tenant'.retired => Tiled(registry')
  BY DEF RegistryInv, TimesOfState, OneInForce, Tiled, InForce, Used
<1>. QED
  BY <1>1, <1>4, <1>5, <1>6, <1>7 DEF RegistryInv

LEMMA RegistryStep ==
  ASSUME TenantTypeInv, RegistryInv, [Next]_vars
  PROVE  RegistryInv'
<1>1. TypeOK /\ registry \in Seq(Version)
  BY DEF TenantTypeInv, TypeOK
<1>2. RegistryInv' <=> /\ TimesOfState(registry') /\ OneInForce(registry')
                       /\ ~tenant'.retired => Tiled(registry')
  BY DEF RegistryInv, TimesOfState, OneInForce, Tiled, InForce, Used
<1>3. ASSUME NEW a \in Administrators, Create(a)
      PROVE  RegistryInv'
  <2>1. PICK old \in Seq(Version), new \in Seq(Version) :
          old = registry /\ new = registry'
    BY <1>1, <1>3, CreateRow
  <2>2. /\ Len(new) = Len(old) + 1
        /\ \A v \in DOMAIN old : new[v] = old[v]
        /\ new[Len(old) + 1].state \in {"draft", "published"}
        /\ new[Len(old) + 1].activatedAt = Never
    BY <1>3, <2>1, CreateRow
  <2>3. TimesOfState(old) /\ OneInForce(old) /\ (~tenant.retired => Tiled(old))
    BY <2>1 DEF RegistryInv
  <2>4. TimesOfState(new) /\ OneInForce(new) /\ (~tenant.retired => Tiled(new))
    BY <2>2, <2>3, UnusedAppended
  <2>5. tenant' = tenant
    BY <1>3 DEF Create
  <2>. QED
    BY <1>2, <2>1, <2>4, <2>5
<1>4. ASSUME NEW a \in Administrators, Activate(a)
      PROVE  RegistryInv'
  <2>1. tenant' = tenant
    BY <1>4 DEF Activate
  <2>2. PICK v, t : v = session[a].version /\ t = session[a].occurredAt
    OBVIOUS
  <2>3. /\ registry' \in Seq(Version) /\ v \in DOMAIN registry /\ t \in Times
        /\ FollowsPrevious(t) /\ Enters(registry, registry', v, t)
    BY <1>4, <2>2, ActivateEnters
  <2>4. v \in Nat
    BY <1>1, <2>3, VersionOf
  <2>. QED
    BY <2>1, <2>3, <2>4, RegistryEntered
<1>5. ASSUME NEW a \in Administrators, Rollback(a)
      PROVE  RegistryInv'
  <2>1. tenant' = tenant
    BY <1>5 DEF Rollback
  <2>2. PICK v, t : v = Len(registry) + 1 /\ t = session[a].occurredAt
    OBVIOUS
  <2>3. /\ registry' \in Seq(Version) /\ t \in Times
        /\ FollowsPrevious(t) /\ Enters(registry, registry', v, t)
    BY <1>5, <2>2, RollbackEnters
  <2>4. v \in Nat
    BY <1>1, <2>2, VersionOf
  <2>. QED
    BY <2>1, <2>3, <2>4, RegistryEntered
<1>6. CASE Teardown
  <2>1. tenant'.retired
    BY <1>1, <1>6 DEF Teardown, TypeOK
  <2>2. PICK t \in Times : t = now
    BY <1>1, NowIsATime
  <2>3. /\ registry' \in Seq(Version) /\ Len(registry') = Len(registry)
        /\ \A v \in DOMAIN registry :
             registry'[v] = IF v \in Active THEN SupersededRow(registry[v], t)
                            ELSE registry[v]
    BY <1>1, <1>6, <2>2, SupersedeOf DEF Teardown
  <2>4. DOMAIN registry' = DOMAIN registry /\ \A v \in DOMAIN registry : registry[v] \in Version
    BY <1>1, <2>3, VersionOf
  <2>5. ASSUME NEW v \in DOMAIN registry
        PROVE  /\ registry'[v].activatedAt = registry[v].activatedAt
               /\ registry'[v].state # "active"
               /\ registry[v].state = "active" => registry'[v].state = "superseded"
               /\ registry[v].state # "active" => registry'[v].state = registry[v].state
    BY <2>3, <2>4, SupersededRowOf DEF Active
  <2>6. TimesOfState(registry') /\ OneInForce(registry')
    BY <2>4, <2>5 DEF TimesOfState, OneInForce, InForce, RegistryInv
  <2>. QED
    BY <1>2, <2>1, <2>6
<1>7. CASE UNCHANGED registry /\ tenant'.retired = tenant.retired
  BY <1>2, <1>7 DEF RegistryInv
<1>8. CASE \/ SuspendTenant \/ ReactivateTenant \/ Tick \/ UNCHANGED vars
           \/ \E a \in Administrators :
                Begin(a) \/ StartRemoval(a) \/ CommitRemoval(a) \/ Abandon(a)
  <2>1. UNCHANGED registry /\ tenant'.retired = tenant.retired
    BY <1>1, <1>8 DEF SuspendTenant, ReactivateTenant, Tick, vars, Begin, StartRemoval,
      CommitRemoval, Abandon, TypeOK
  <2>. QED
    BY <1>7, <2>1
<1>. QED
  BY <1>3, <1>4, <1>5, <1>6, <1>8 DEF Next

----------------------------------------------------------------------------
(* TenantLifecycle: the ledger explains the registry *)

Activated(log) == {i \in DOMAIN log : log[i].type \in {"activated", "rollback"}}

(* A rollback of the log appended a copy of what had been in force.        *)
Restores(e, rows) ==
  /\ e.target \in Used(rows) /\ e.target # e.previous
  /\ rows[e.version].content = rows[e.target].content

(* HistoryExplains, for any log and versions, with what makes it inductive *)
Narrates(log, rows) ==
  /\ \A i \in Activated(log) : log[i].version \in DOMAIN rows
  /\ \A i \in Activated(log) :
       (\A j \in Activated(log) : j <= i) => InForce(rows) = {log[i].version}
  /\ \A i, j \in Activated(log) :
       (j < i /\ \A k \in Activated(log) : k <= j \/ i <= k) =>
         log[i].previous = log[j].version
  /\ \A i \in Activated(log) : log[i].type = "rollback" => Restores(log[i], rows)

LedgerInv == ~tenant.retired => Narrates(ledger, registry)

(* What a log told stays true of versions that have grown.                *)
Grown(old, new) ==
  /\ DOMAIN old \subseteq DOMAIN new /\ Used(old) \subseteq Used(new)
  /\ \A v \in DOMAIN old : new[v].content = old[v].content

LEMMA RestoresStays ==
  ASSUME NEW old, NEW new, Grown(old, new), NEW e, e.version \in DOMAIN old, Restores(e, old)
  PROVE  Restores(e, new)
BY DEF Restores, Grown, Used

LEMMA ExtendedActivated ==
  ASSUME NEW old \in Seq(Event), NEW new \in Seq(Event), NEW e \in Event,
         Extended(old, new, e)
  PROVE  /\ \A i \in Activated(old) : i < Len(new) /\ new[i] = old[i]
         /\ \A i \in Activated(old) : i \in Nat
         /\ e.type \in {"activated", "rollback"} =>
              Activated(new) = Activated(old) \cup {Len(new)}
         /\ e.type = "created" => Activated(new) = Activated(old)
<1>1. /\ DOMAIN old = 1..Len(old) /\ DOMAIN new = 1..Len(new)
      /\ Len(old) \in Nat /\ Len(new) \in Nat /\ Len(new) > Len(old)
      /\ \A i \in 1..Len(old) : new[i] = old[i]
      /\ \A i \in (Len(old) + 1)..(Len(new) - 1) : new[i].type = "superseded"
      /\ new[Len(new)] = e
  BY DEF Extended
<1>2. ASSUME NEW i \in 1..Len(new)
      PROVE  /\ i \in 1..Len(old) => (i \in Activated(new) <=> i \in Activated(old))
             /\ (i \notin 1..Len(old) /\ i # Len(new)) => i \notin Activated(new)
             /\ i = Len(new) => (i \in Activated(new) <=> e.type \in {"activated", "rollback"})
  <2>1. (i \notin 1..Len(old) /\ i # Len(new)) => i \in (Len(old) + 1)..(Len(new) - 1)
    <3>1. PICK m \in Nat, n \in Nat : m = Len(old) /\ n = Len(new)
      BY <1>1
    <3>2. i \in 1..n /\ ((i \notin 1..m /\ i # n) => i \in (m + 1)..(n - 1))
      BY <3>1
    <3>. QED
      BY <3>1, <3>2
  <2>2. i \in Activated(new) <=> new[i].type \in {"activated", "rollback"}
    BY <1>1 DEF Activated
  <2>3. i \in 1..Len(old) =>
          (new[i] = old[i] /\ (i \in Activated(old) <=> old[i].type \in {"activated", "rollback"}))
    BY <1>1 DEF Activated
  <2>4. (i \notin 1..Len(old) /\ i # Len(new)) => new[i].type = "superseded"
    BY <1>1, <2>1
  <2>5. i = Len(new) => new[i] = e
    BY <1>1
  <2>. QED
    BY <2>2, <2>3, <2>4, <2>5
<1>3. \A i \in Activated(old) : i \in 1..Len(old) /\ i < Len(new)
  BY <1>1 DEF Activated
<1>4. Activated(new) \subseteq 1..Len(new) /\ Len(new) \in 1..Len(new)
      /\ Activated(old) \subseteq 1..Len(old) /\ 1..Len(old) \subseteq 1..Len(new)
      /\ Len(new) \notin 1..Len(old)
  BY <1>1 DEF Activated
<1>5. e.type \in {"activated", "rollback"} =>
        Activated(new) = Activated(old) \cup {Len(new)}
  BY <1>2, <1>4
<1>6. e.type = "created" => Activated(new) = Activated(old)
  BY <1>2, <1>4
<1>. QED
  BY <1>1, <1>3, <1>5, <1>6

(* A version is created: its entry is no activation.                       *)
LEMMA CreatedExplained ==
  ASSUME NEW old \in Seq(Event), NEW new \in Seq(Event), NEW e \in Event,
         Extended(old, new, e), e.type = "created",
         NEW rows, NEW grown, Grown(rows, grown), InForce(grown) = InForce(rows),
         Narrates(old, rows)
  PROVE  Narrates(new, grown)
<1>1. Activated(new) = Activated(old) /\ \A i \in Activated(old) : new[i] = old[i]
  BY ExtendedActivated
<1>2. \A i \in Activated(old) : old[i].type = "rollback" => Restores(old[i], grown)
  BY RestoresStays DEF Narrates
<1>. QED
  BY <1>1, <1>2 DEF Narrates, Grown

(* A version enters into force: its entry names the one it replaces.       *)
LEMMA EnteredExplained ==
  ASSUME NEW old \in Seq(Event), NEW new \in Seq(Event), NEW e \in Event,
         Extended(old, new, e), e.type \in {"activated", "rollback"},
         NEW rows, NEW grown, Grown(rows, grown), InForce(grown) = {e.version},
         \A v : InForce(rows) = {v} => e.previous = v,
         e.type = "rollback" => Restores(e, grown),
         Narrates(old, rows)
  PROVE  Narrates(new, grown)
<1>1. /\ Activated(new) = Activated(old) \cup {Len(new)} /\ Len(new) \in Nat
      /\ \A i \in Activated(old) : i < Len(new) /\ i \in Nat /\ new[i] = old[i]
      /\ new[Len(new)] = e
  BY ExtendedActivated DEF Extended
<1>2. \A i \in Activated(new) : new[i].version \in DOMAIN grown
  <2>1. e.version \in DOMAIN grown
    BY DEF InForce
  <2>. QED
    BY <1>1, <2>1 DEF Narrates, Grown
<1>3. ASSUME NEW i \in Activated(new), \A j \in Activated(new) : j <= i
      PROVE  InForce(grown) = {new[i].version}
  BY <1>1, <1>3
<1>4. ASSUME NEW i \in Activated(new), NEW j \in Activated(new), j < i,
             \A k \in Activated(new) : k <= j \/ i <= k
      PROVE  new[i].previous = new[j].version
  <2>1. j \in Activated(old)
    BY <1>1, <1>4
  <2>2. CASE i = Len(new)
    <3>1. \A k \in Activated(old) : k <= j
      BY <1>1, <1>4, <2>2
    <3>2. InForce(rows) = {old[j].version}
      BY <2>1, <3>1 DEF Narrates
    <3>. QED
      BY <1>1, <2>1, <2>2, <3>2
  <2>3. CASE i # Len(new)
    <3>1. i \in Activated(old) /\ \A k \in Activated(old) : k <= j \/ i <= k
      BY <1>1, <1>4, <2>3
    <3>2. old[i].previous = old[j].version
      BY <1>4, <2>1, <3>1 DEF Narrates
    <3>. QED
      BY <1>1, <2>1, <3>1, <3>2
  <2>. QED
    BY <2>2, <2>3
<1>5. ASSUME NEW i \in Activated(new), new[i].type = "rollback"
      PROVE  Restores(new[i], grown)
  <2>1. CASE i = Len(new)
    BY <1>1, <1>5, <2>1
  <2>2. CASE i # Len(new)
    <3>1. i \in Activated(old) /\ new[i] = old[i]
      BY <1>1, <2>2
    <3>2. Restores(old[i], rows) /\ old[i].version \in DOMAIN rows
      BY <1>5, <3>1 DEF Narrates
    <3>. QED
      BY <3>1, <3>2, RestoresStays
  <2>. QED
    BY <2>1, <2>2
<1>. QED
  BY <1>2, <1>3, <1>4, <1>5 DEF Narrates

LEMMA EntersGrows ==
  ASSUME TenantTypeInv, RegistryInv, NEW v \in Nat, NEW t \in Times,
         registry' \in Seq(Version), Enters(registry, registry', v, t)
  PROVE  Grown(registry, registry') /\ InForce(registry') = {v} /\ v \in DOMAIN registry'
<1>1. PICK old \in Seq(Version), new \in Seq(Version) :
        old = registry /\ new = registry'
  BY DEF TenantTypeInv, TypeOK
<1>2. Enters(old, new, v, t) /\ TimesOfState(old)
  BY <1>1 DEF RegistryInv
<1>3. InForce(new) = {v} /\ Used(new) = Used(old) \cup {v}
  BY <1>2, EntersRows
<1>4. /\ DOMAIN old \subseteq DOMAIN new /\ v \in DOMAIN new
      /\ \A u \in DOMAIN old : new[u].content = old[u].content
  BY <1>2, EntersKeeps
<1>. QED
  BY <1>1, <1>3, <1>4 DEF Grown

LEMMA PreviousIsTheOne ==
  ASSUME registry \in Seq(Version)
  PROVE  \A v : InForce(registry) = {v} => Previous = v
BY PreviousOf DEF InForce, Active

LEMMA LedgerStep ==
  ASSUME TenantTypeInv, RegistryInv, LedgerInv, [Next]_vars
  PROVE  LedgerInv'
<1>1. TypeOK /\ registry \in Seq(Version) /\ ledger \in Seq(Event)
  BY DEF TenantTypeInv, TypeOK
<1>2. LedgerInv' <=> (~tenant'.retired => Narrates(ledger', registry'))
  BY DEF LedgerInv, Narrates, Activated, Restores, InForce, Used
<1>3. ASSUME NEW a \in Administrators, Create(a), ~tenant.retired
      PROVE  Narrates(ledger', registry')
  <2>1. PICK rows \in Seq(Version), grown \in Seq(Version), old \in Seq(Event), new \in Seq(Event) :
          rows = registry /\ grown = registry' /\ old = ledger /\ new = ledger'
    BY <1>1, <1>3, RegistryGrows
  <2>2. /\ Len(grown) = Len(rows) + 1
        /\ \A v \in DOMAIN rows : grown[v] = rows[v]
        /\ grown[Len(rows) + 1].state \in {"draft", "published"}
        /\ grown[Len(rows) + 1].activatedAt = Never
    BY <1>3, <2>1, CreateRow
  <2>3. TimesOfState(rows)
    BY <2>1 DEF RegistryInv
  <2>4. /\ DOMAIN rows \subseteq DOMAIN grown
        /\ InForce(grown) = InForce(rows) /\ Used(grown) = Used(rows)
    BY <2>2, <2>3, UnusedAppended
  <2>5. Grown(rows, grown)
    BY <2>2, <2>4 DEF Grown
  <2>6. PICK e : e = new[Len(new)]
    OBVIOUS
  <2>7. e.type = "created" /\ Extended(old, new, e)
    BY <1>3, <2>1, <2>6, CreateLogs
  <2>8. e \in Event
    <3>1. Len(new) \in 1..Len(new)
      BY <2>7 DEF Extended
    <3>. QED
      BY <2>6, <3>1
  <2>9. Narrates(old, rows)
    BY <1>3, <2>1 DEF LedgerInv
  <2>10. Narrates(new, grown)
    BY <2>4, <2>5, <2>7, <2>8, <2>9, CreatedExplained
  <2>. QED
    BY <2>1, <2>10
<1>4. ASSUME NEW a \in Administrators, Activate(a), ~tenant.retired
      PROVE  Narrates(ledger', registry')
  <2>1. PICK rows \in Seq(Version), grown \in Seq(Version), old \in Seq(Event), new \in Seq(Event) :
          rows = registry /\ grown = registry' /\ old = ledger /\ new = ledger'
    BY <1>1, <1>4, RegistryGrows
  <2>2. PICK v, t : v = session[a].version /\ t = session[a].occurredAt
    OBVIOUS
  <2>3. /\ v \in DOMAIN registry /\ t \in Times /\ registry' \in Seq(Version)
        /\ Enters(registry, registry', v, t)
    BY <1>4, <2>2, ActivateEnters
  <2>4. v \in Nat
    BY <1>1, <2>3, VersionOf
  <2>5. Grown(rows, grown) /\ InForce(grown) = {v}
    BY <2>1, <2>3, <2>4, EntersGrows
  <2>6. PICK e \in Event :
          /\ e.type = "activated" /\ e.version = v /\ e.previous = Previous
          /\ Extended(old, new, e)
    BY <1>4, <2>1, <2>2, ActivateLogs
  <2>7. \A u : InForce(rows) = {u} => e.previous = u
    BY <1>1, <2>1, <2>6, PreviousIsTheOne
  <2>8. Narrates(old, rows)
    BY <1>4, <2>1 DEF LedgerInv
  <2>9. Narrates(new, grown)
    BY <2>5, <2>6, <2>7, <2>8, EnteredExplained
  <2>. QED
    BY <2>1, <2>9
<1>5. ASSUME NEW a \in Administrators, Rollback(a), ~tenant.retired
      PROVE  Narrates(ledger', registry')
  <2>1. PICK rows \in Seq(Version), grown \in Seq(Version), old \in Seq(Event), new \in Seq(Event) :
          rows = registry /\ grown = registry' /\ old = ledger /\ new = ledger'
    BY <1>1, <1>5, RegistryGrows
  <2>2. PICK k, t, target :
          k = Len(registry) + 1 /\ t = session[a].occurredAt /\ target = session[a].version
    OBVIOUS
  <2>3. /\ target \in DOMAIN registry /\ t \in Times /\ registry' \in Seq(Version)
        /\ registry[target].state = "superseded" /\ Active # {}
        /\ Enters(registry, registry', k, t)
        /\ registry'[k].content = registry[target].content
    BY <1>5, <2>2, RollbackEnters
  <2>4. k \in Nat
    BY <1>1, <2>2, VersionOf
  <2>5. Grown(rows, grown) /\ InForce(grown) = {k}
    BY <2>1, <2>3, <2>4, EntersGrows
  <2>6. PICK e \in Event :
          /\ e.type = "rollback" /\ e.version = k /\ e.previous = Previous /\ e.target = target
          /\ Extended(old, new, e)
    BY <1>5, <2>1, <2>2, RollbackLogs
  <2>7. \A u : InForce(rows) = {u} => e.previous = u
    BY <1>1, <2>1, <2>6, PreviousIsTheOne
  <2>8. Restores(e, grown)
    <3>1. target \in Used(rows)
      BY <2>1, <2>3 DEF RegistryInv, TimesOfState, Used
    <3>2. Previous \in Active
      BY <1>1, <2>3, PreviousOf
    <3>3. target # e.previous
      BY <2>3, <2>6, <3>2 DEF Active
    <3>4. grown[target].content = rows[target].content /\ target \in Used(grown)
      BY <2>5, <3>1 DEF Grown, Used
    <3>. QED
      BY <2>1, <2>3, <2>6, <3>3, <3>4 DEF Restores
  <2>9. Narrates(old, rows)
    BY <1>5, <2>1 DEF LedgerInv
  <2>10. Narrates(new, grown)
    BY <2>5, <2>6, <2>7, <2>8, <2>9, EnteredExplained
  <2>. QED
    BY <2>1, <2>10
<1>6. ASSUME NEW a \in Administrators, Create(a) \/ Activate(a) \/ Rollback(a)
      PROVE  LedgerInv'
  <2>1. tenant' = tenant
    BY <1>6 DEF Create, Activate, Rollback
  <2>. QED
    BY <1>2, <1>3, <1>4, <1>5, <1>6, <2>1
<1>7. CASE Teardown
  BY <1>1, <1>2, <1>7 DEF Teardown, TypeOK
<1>8. CASE \/ SuspendTenant \/ ReactivateTenant \/ Tick \/ UNCHANGED vars
           \/ \E a \in Administrators :
                Begin(a) \/ StartRemoval(a) \/ CommitRemoval(a) \/ Abandon(a)
  <2>1. UNCHANGED <<ledger, registry>> /\ tenant'.retired = tenant.retired
    BY <1>1, <1>8 DEF SuspendTenant, ReactivateTenant, Tick, vars, Begin, StartRemoval,
      CommitRemoval, Abandon, TypeOK
  <2>. QED
    BY <1>2, <2>1 DEF LedgerInv
<1>. QED
  BY <1>6, <1>7, <1>8 DEF Next

----------------------------------------------------------------------------
(* TenantLifecycle: the theorems *)

TenantInv == TenantTypeInv /\ RegistryInv /\ LedgerInv

LEMMA TenantInit == Init => TenantInv
<1>. SUFFICES ASSUME Init PROVE TenantInv
  OBVIOUS
<1>1. PICK row : registry = <<row>> /\ registry \in Seq(Version)
  BY TenantTypeInit DEF Init, TenantTypeInv, TypeOK
<1>2. First # Never
  BY Bounds DEF Never
<1>3. \/ row.state = "active" /\ row.activatedAt = First
      \/ row.state = "published" /\ row.activatedAt = Never
  BY <1>1 DEF Init
<1>4. DOMAIN registry = {1} /\ registry[1] = row
  BY <1>1
<1>5. InForce(registry) = Used(registry) /\ Used(registry) \subseteq {1}
  BY <1>2, <1>3, <1>4 DEF InForce, Used
<1>6. TimesOfState(registry)
  BY <1>2, <1>3, <1>4 DEF TimesOfState
<1>7. OneInForce(registry)
  BY <1>5 DEF OneInForce
<1>8. Tiled(registry)
  <2>1. \A v, w \in Used(registry) : v = w /\ v = 1
    BY <1>5
  <2>2. \A v \in Used(registry) : registry[v].activatedAt = First
    BY <1>3, <1>4 DEF Used
  <2>3. First \in Int
    BY Bounds
  <2>4. \A v, w \in Used(registry) : ~(registry[v].activatedAt < registry[w].activatedAt)
    BY <2>2, <2>3
  <2>. QED
    BY <1>5, <2>4 DEF Tiled
<1>9. Activated(ledger) = {}
  BY DEF Init, Activated
<1>10. Narrates(ledger, registry)
  BY <1>9 DEF Narrates
<1>. QED
  BY <1>6, <1>7, <1>8, <1>10, TenantTypeInit DEF TenantInv, RegistryInv, LedgerInv

LEMMA TenantStep ==
  ASSUME TenantInv, [Next]_vars
  PROVE  TenantInv'
<1>1. TenantTypeInv' /\ RegistryInv' /\ LedgerInv'
  BY TenantTypeStep, RegistryStep, LedgerStep DEF TenantInv
<1>. QED
  BY <1>1 DEF TenantInv

(* The invariant that the others follow from: the versions of a registry   *)
(* and its events say the same of what was in force and when (migrations   *)
(* 022 and 025).                                                           *)
THEOREM TenantInvariant == Spec => []TenantInv
<1>1. Init => TenantInv
  BY TenantInit
<1>2. TenantInv /\ [Next]_vars => TenantInv'
  BY TenantStep
<1>. QED
  BY <1>1, <1>2, PTL DEF Spec

(* Every variable keeps its type, whatever the administrators do.          *)
THEOREM TenantTypeCorrect == Spec => []TypeOK
<1>1. TenantInv => TypeOK
  BY DEF TenantInv, TenantTypeInv
<1>. QED
  BY <1>1, TenantInvariant, PTL

(* Administrators who activate or roll back concurrently, with the times   *)
(* of different clocks, leave no moment with two versions in force and     *)
(* none between two: activate_trust_configuration, rollback_trust_         *)
(* configuration and activate_policy_bundle supersede the active version   *)
(* at the time the next one enters, and refuse a time before its own.      *)
THEOREM ForceHasNoGap == Spec => []TimesTile
<1>1. TenantInv => TimesTile
  <2>. SUFFICES ASSUME TenantInv, ~tenant.retired PROVE TimesTile
    BY DEF TimesTile
  <2>1. OneInForce(registry) /\ Tiled(registry)
    BY DEF TenantInv, RegistryInv
  <2>2. Active = InForce(registry) /\ {v \in DOMAIN registry : WasActive(v)} = Used(registry)
    BY DEF Active, InForce, WasActive, Used
  <2>3. ASSUME Used(registry) # {} PROVE Cardinality(Active) = 1
    <3>1. PICK v \in InForce(registry) : TRUE
      BY <2>1, <2>3 DEF Tiled
    <3>2. Active = {v}
      BY <2>1, <2>2, <3>1 DEF OneInForce
    <3>. QED
      BY <3>2, FS_Singleton
  <2>. QED
    BY <2>1, <2>2, <2>3 DEF TimesTile, Tiled
<1>. QED
  BY <1>1, TenantInvariant, PTL

(* The append-only events tell a reviewer the whole lifecycle: what each   *)
(* activation replaced, what is in force, and what a rollback restored     *)
(* (trust_configuration_events, policy_bundle_events).                     *)
THEOREM LedgerExplains == Spec => []HistoryExplains
<1>1. TenantInv => HistoryExplains
  <2>. SUFFICES ASSUME TenantInv, ~tenant.retired PROVE HistoryExplains
    BY DEF HistoryExplains
  <2>1. Narrates(ledger, registry)
    BY DEF TenantInv, LedgerInv
  <2>2. Activations = Activated(ledger) /\ Active = InForce(registry)
    BY DEF Activations, Activated, Active, InForce
  <2>3. \A v \in Used(registry) : WasActive(v)
    BY DEF Used, WasActive
  <2>. QED
    BY <2>1, <2>2, <2>3 DEF HistoryExplains, Narrates, Restores
<1>. QED
  BY <1>1, TenantInvariant, PTL

(* No operation touches a version that was replaced: an activation wants   *)
(* one that never was in force, and a rollback appends a copy.             *)
THEOREM ReplacedStaysAsItWas == Spec => ReplacedIsFinal
<1>1. ASSUME TenantInv, [Next]_vars, NEW v \in DOMAIN registry, registry[v].state = "superseded"
      PROVE  registry'[v] = registry[v]
  <2>1. TenantTypeInv /\ TypeOK /\ registry \in Seq(Version) /\ v \notin Active
    BY <1>1 DEF TenantInv, TenantTypeInv, TypeOK, Active
  <2>2. ASSUME NEW a \in Administrators, Create(a) PROVE registry'[v] = registry[v]
    BY <2>1, <2>2, CreateRow
  <2>3. ASSUME NEW a \in Administrators, Activate(a) PROVE registry'[v] = registry[v]
    <3>1. Enters(registry, registry', session[a].version, session[a].occurredAt)
      BY <2>1, <2>3, ActivateEnters
    <3>. QED
      BY <1>1, <3>1 DEF Enters
  <2>4. ASSUME NEW a \in Administrators, Rollback(a) PROVE registry'[v] = registry[v]
    <3>1. /\ Enters(registry, registry', Len(registry) + 1, session[a].occurredAt)
          /\ Len(registry) + 1 \notin DOMAIN registry
      BY <2>1, <2>4, RollbackEnters
    <3>. QED
      BY <1>1, <3>1 DEF Enters
  <2>5. CASE Teardown
    BY <2>1, <2>5, NowIsATime, SupersedeOf DEF Teardown
  <2>6. CASE \/ SuspendTenant \/ ReactivateTenant \/ Tick \/ UNCHANGED vars
             \/ \E a \in Administrators :
                  Begin(a) \/ StartRemoval(a) \/ CommitRemoval(a) \/ Abandon(a)
    BY <2>6 DEF SuspendTenant, ReactivateTenant, Tick, vars, Begin, StartRemoval,
      CommitRemoval, Abandon
  <2>. QED
    BY <1>1, <2>2, <2>3, <2>4, <2>5, <2>6 DEF Next
<1>2. TenantInv /\ [Next]_vars =>
        [\A v \in DOMAIN registry :
           registry[v].state = "superseded" => registry'[v] = registry[v]]_vars
  BY <1>1
<1>. QED
  BY <1>2, TenantInvariant, PTL DEF Spec, ReplacedIsFinal

(* Nothing brings a retired tenant back (teardown_tenant): it stays        *)
(* suspended and without administrators, and no version is prepared or     *)
(* published for it any more.                                              *)
THEOREM RetirementStays == Spec => RetirementIsFinal
<1>. DEFINE Stays == /\ tenant'.retired /\ tenant'.state = "suspended" /\ admins' = {}
                     /\ \A i \in DOMAIN ledger' :
                          ledger'[i].type = "created" => i \in DOMAIN ledger
<1>1. ASSUME TenantInv, [Next]_vars, tenant.retired PROVE Stays
  <2>1. TenantTypeInv /\ TypeOK /\ tenant.state = "suspended" /\ admins = {}
    BY <1>1 DEF TenantInv, TenantTypeInv, RetiredIsClosed
  <2>2. ASSUME NEW a \in Administrators, Activate(a) \/ Rollback(a) PROVE Stays
    <3>1. PICK old \in Seq(Event), new \in Seq(Event) : old = ledger /\ new = ledger'
      BY <2>1, <2>2, RegistryGrows DEF TypeOK
    <3>2. PICK e : e.type # "created" /\ Extended(old, new, e)
      BY <2>1, <2>2, <3>1, ActivateLogs, RollbackLogs
    <3>3. ASSUME NEW i \in DOMAIN new, new[i].type = "created" PROVE i \in DOMAIN old
      <4>1. /\ DOMAIN old = 1..Len(old) /\ DOMAIN new = 1..Len(new)
            /\ Len(old) \in Nat /\ Len(new) \in Nat
        OBVIOUS
      <4>2. i # Len(new)
        BY <3>2, <3>3 DEF Extended
      <4>3. i \notin (Len(old) + 1)..(Len(new) - 1)
        BY <3>2, <3>3 DEF Extended
      <4>. QED
        BY <4>1, <4>2, <4>3
    <3>4. UNCHANGED <<tenant, admins>>
      BY <2>2 DEF Activate, Rollback
    <3>. QED
      BY <1>1, <2>1, <3>1, <3>3, <3>4
  <2>3. ASSUME NEW a \in Administrators, CommitRemoval(a) PROVE Stays
    BY <1>1, <2>1, <2>3 DEF CommitRemoval
  <2>4. ASSUME NEW a \in Administrators, Create(a) PROVE FALSE
    BY <2>1, <2>4 DEF Create
  <2>5. ~SuspendTenant /\ ~ReactivateTenant /\ ~Teardown
    BY <1>1 DEF SuspendTenant, ReactivateTenant, MayReactivate, Teardown
  <2>6. CASE \/ Tick \/ UNCHANGED vars
             \/ \E a \in Administrators : Begin(a) \/ StartRemoval(a) \/ Abandon(a)
    BY <1>1, <2>1, <2>6 DEF Tick, vars, Begin, StartRemoval, Abandon
  <2>. QED
    BY <1>1, <2>2, <2>3, <2>4, <2>5, <2>6 DEF Next
<1>2. TenantInv /\ [Next]_vars => [tenant.retired => Stays]_vars
  BY <1>1
<1>. QED
  BY <1>2, TenantInvariant, PTL DEF Spec, RetirementIsFinal
=============================================================================
