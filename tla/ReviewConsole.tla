--------------------------- MODULE ReviewConsole ---------------------------
(***************************************************************************)
(* The review console (apps/review-demo): a server that keeps certificate  *)
(* inventory, the trust that denied attempts cost and the audit feed in    *)
(* memory.                                                                 *)
(*                                                                         *)
(* The server handles a request in one step.  The page sends a request for *)
(* the persona that is selected, but its buttons name what it shows, and   *)
(* it shows whichever load was answered last, so that any persona may ask  *)
(* for an operation on any subject.                                        *)
(*                                                                         *)
(* Simplifications:                                                        *)
(*   - a tick is a quarter of the validity of a certificate, far more than *)
(*     the hour a trust state stays fresh;                                 *)
(*   - the newest trust transition of a subject is kept, where the code    *)
(*     keeps the attempts and computes it again;                           *)
(*   - an operation the server refuses changes nothing and is no step.     *)
(***************************************************************************)
EXTENDS Integers, Sequences

CONSTANTS
  MaxClock,  \* bound: last tick of a session
  MaxFeed    \* bound: events of the audit feed

ASSUME ConsoleAssumption ==
  MaxClock \in Nat /\ MaxFeed \in Nat

VARIABLES
  clock,         \* the server's clock
  certificates,  \* the inventory, by number
  transitions,   \* the newest trust transition of each subject
  auditEvents    \* the feed, newest first

consoleVars == <<clock, certificates, transitions, auditEvents>>

-----------------------------------------------------------------------------
(* The fixtures: personas, records, certificates, trust histories.         *)

Subjects == {"alice", "maya", "bob", "noah"}
TenantOf == [s \in Subjects |->
  IF s \in {"alice", "maya"} THEN "alpha" ELSE "beta"]
IsAdministrator == [s \in Subjects |-> s \in {"maya", "noah"}]

(* A persona is the subject it acts for; Bob has none.                     *)
Personas == Subjects \ {"bob"}
LoginCertificate == [p \in Personas |->
  CASE p = "alice" -> 1 [] p = "maya" -> 2 [] p = "noah" -> 4]

Records == {[tenant |-> TenantOf[s], subject |-> s] : s \in Subjects}

Start == 4   \* October 2026, three quarters into the oldest certificates
Certificate(subject, notBefore, renewalOf) ==
  [tenant |-> TenantOf[subject], subject |-> subject, state |-> "active",
   notBefore |-> notBefore, renewalOf |-> renewalOf]
InitialCertificates ==
  <<Certificate("alice", 1, 0), Certificate("maya", 3, 0),
    Certificate("bob", 2, 0), Certificate("noah", 1, 0)>>

TrustValues(identity, device, behaviour, certificate, compliance) ==
  [identity |-> identity, device |-> device, behaviour |-> behaviour,
   certificate |-> certificate, compliance |-> compliance]
Transition(action, stepUpSatisfied, components, at) ==
  [action |-> action, stepUpSatisfied |-> stepUpSatisfied,
   components |-> components, at |-> at]

(* The newest transition of each history; the older ones only explain it.  *)
InitialTransition == [s \in Subjects |->
  CASE s = "alice" -> Transition("record:read", FALSE,
                        TrustValues(90, 84, 72, 100, 92), Start)
    [] s = "maya"  -> Transition("admin-key:rotate", FALSE,
                        TrustValues(95, 94, 88, 100, 97), Start)
    [] s = "bob"   -> Transition("record:read", FALSE,
                        TrustValues(52, 44, 18, 100, 58), Start)
    [] s = "noah"  -> Transition("record:export", FALSE,
                        TrustValues(90, 82, 70, 100, 88), Start)]

Scenarios == {"same-tenant-record", "cross-tenant-record",
              "forged-identity-header", "revoked-certificate",
              "sensitive-export"}
ActionOf(scenario) ==
  CASE scenario = "revoked-certificate" -> "profile:read"
    [] scenario = "sensitive-export" -> "record:export"
    [] OTHER -> "record:read"

VisibleRecords(p) ==
  {r \in Records : IF IsAdministrator[p] THEN r.tenant = TenantOf[p]
                   ELSE r.subject = p}

-----------------------------------------------------------------------------
(* Certificates *)

LoginState(p) == certificates[LoginCertificate[p]].state

\* An operator named Bug... is what a plausible mistake would turn the definition
\* after it into; no specification uses it.

(* A role that is enough to manage any subject.                            *)
BugCanManageSubject(p, subject) == IsAdministrator[p]

(* execute looks the subject and the certificate up within the tenant of   *)
(* the persona, and asks for its role whoever the subject is.              *)
CanManageSubject(p, subject) ==
  TenantOf[subject] = TenantOf[p] /\ IsAdministrator[p]

RenewalWindowOpen(c) ==
  /\ c.state = "active"
  /\ clock >= c.notBefore + 3
  /\ clock < c.notBefore + 4

BugCertificatePermitted(p, subject, c, operation) ==
  /\ CanManageSubject(p, subject)
  /\ operation = "renew" => /\ clock >= c.notBefore + 3
                            /\ clock < c.notBefore + 4

CertificatePermitted(p, subject, c, operation) ==
  /\ CanManageSubject(p, subject)
  /\ c.state = "active"
  /\ operation = "renew" => RenewalWindowOpen(c)

Audited(p, action, outcome) ==
  auditEvents' = <<[actor |-> p, action |-> action, outcome |-> outcome]>>
                   \o auditEvents

FeedIsShort == Len(auditEvents) < MaxFeed

Issue(p, subject) ==
  /\ FeedIsShort
  /\ CanManageSubject(p, subject)
  /\ certificates' = Append(certificates, Certificate(subject, clock, 0))
  /\ Audited(p, "certificate:issue", "allow")
  /\ UNCHANGED <<clock, transitions>>

Renew(p, n) ==
  LET c == certificates[n]
  IN  /\ FeedIsShort
      /\ CertificatePermitted(p, c.subject, c, "renew")
      /\ certificates' = Append([certificates EXCEPT ![n].state = "superseded"],
                                Certificate(c.subject, clock, n))
      /\ Audited(p, "certificate:renew", "allow")
      /\ UNCHANGED <<clock, transitions>>

Revoke(p, n) ==
  LET c == certificates[n]
  IN  /\ FeedIsShort
      /\ CertificatePermitted(p, c.subject, c, "revoke")
      /\ certificates' = [certificates EXCEPT ![n].state = "revoked"]
      /\ Audited(p, "certificate:revoke", "allow")
      /\ UNCHANGED <<clock, transitions>>

-----------------------------------------------------------------------------
(* Access scenarios and the trust they cost *)

Rejected(p, scenario) ==
  LoginState(p) # "active" \/ scenario = "revoked-certificate"

Denied(p, scenario) ==
  \/ Rejected(p, scenario)
  \/ scenario \in {"cross-tenant-record", "forged-identity-header"}
  \/ scenario = "sensitive-export" /\ ~IsAdministrator[p]
  \/ scenario = "same-tenant-record" /\ VisibleRecords(p) = {}

(* runtimeAdjustments; a rejected login costs the same in every scenario.  *)
Adjustments(scenario) ==
  CASE scenario = "cross-tenant-record" -> TrustValues(-12, -5, -30, 0, -15)
    [] scenario = "forged-identity-header" -> TrustValues(-18, -10, -40, 0, -20)
    [] scenario = "sensitive-export" -> TrustValues(-5, 0, -20, 0, -12)
    [] OTHER -> TrustValues(-10, 0, -10, -100, 0)

Clamped(value) == IF value < 0 THEN 0 ELSE IF value > 100 THEN 100 ELSE value

Lowered(p, scenario) ==
  LET components == transitions[p].components
      adjustments == Adjustments(IF Rejected(p, scenario)
                                 THEN "revoked-certificate" ELSE scenario)
  IN  Transition(ActionOf(scenario), FALSE,
        [c \in DOMAIN components |-> Clamped(components[c] + adjustments[c])],
        clock)

(* recordScenario keeps the attempts that were denied.                     *)
Recorded(p, scenario) == Denied(p, scenario)

RunScenario(p, scenario) ==
  /\ FeedIsShort
  /\ transitions' = IF Recorded(p, scenario)
                    THEN [transitions EXCEPT ![p] = Lowered(p, scenario)]
                    ELSE transitions
  /\ Audited(p, ActionOf(scenario),
             IF Denied(p, scenario) THEN "deny" ELSE "allow")
  /\ UNCHANGED <<clock, certificates>>

(* The weighted trust score of whole values under the prototype weights,   *)
(* in hundredths of a point: exact, so that nothing is rounded.            *)
Score(components) ==
  20 * components.identity + 25 * components.device
    + 25 * components.behaviour + 15 * components.certificate
    + 15 * components.compliance

Fresh(transition) == clock = transition.at

(* The prototype policy: least score and step-up of an action; quarantine  *)
(* below 50.                                                               *)
MinimumScore(action) ==
  CASE action \in {"profile:read", "record:read"} -> 5500
    [] action = "record:export" -> 6500
    [] action = "admin-key:rotate" -> 9000
AdministratorsOnly(action) == action \in {"record:export", "admin-key:rotate"}

Decision(s, t, fresh) ==
  LET score == Score(t.components)
  IN  IF ~fresh THEN "DENY"
      ELSE IF AdministratorsOnly(t.action) /\ ~IsAdministrator[s] THEN "DENY"
      ELSE IF score < 5000 THEN "QUARANTINE"
      ELSE IF score < MinimumScore(t.action) THEN "DENY"
      ELSE IF AdministratorsOnly(t.action) /\ ~t.stepUpSatisfied
      THEN "STEP_UP" ELSE "ALLOW"

CurrentDecision(s) == Decision(s, transitions[s], Fresh(transitions[s]))

ConsoleTick ==
  /\ clock < MaxClock
  /\ clock' = clock + 1
  /\ UNCHANGED <<certificates, transitions, auditEvents>>

ConsoleInit ==
  /\ clock = Start
  /\ certificates = InitialCertificates
  /\ transitions = InitialTransition
  /\ auditEvents = <<>>

ConsoleNext ==
  \/ \E p \in Personas :
       \/ \E s \in Subjects : Issue(p, s)
       \/ \E n \in DOMAIN certificates : Renew(p, n) \/ Revoke(p, n)
       \/ \E scenario \in Scenarios : RunScenario(p, scenario)
  \/ ConsoleTick

ConsoleSpec == ConsoleInit /\ [][ConsoleNext]_consoleVars

-----------------------------------------------------------------------------
(* Properties *)

(* A renewal chain never forks and never comes back: a superseded          *)
(* certificate has exactly one successor, for the same subject and issued  *)
(* in its last quarter, and any other has none (certificate-dashboard.mjs: *)
(* 132-151, 306-322).                                                      *)
RenewalChain ==
  \A n \in DOMAIN certificates :
    LET c == certificates[n]
        successors == {m \in DOMAIN certificates :
                         certificates[m].renewalOf = n}
    IN  /\ c.state = "superseded" <=> successors # {}
        /\ \A l, m \in successors : l = m
        /\ \A m \in successors :
             /\ m > n
             /\ certificates[m].subject = c.subject
             /\ certificates[m].tenant = c.tenant
             /\ certificates[m].notBefore = c.notBefore + 3

(* The newest audit event explains every change.  The inventory changes    *)
(* only by an operation of an administrator of the tenant that every new   *)
(* or changed certificate belongs to, whoever asked for whatever subject.  *)
(* The trust of a subject only ever falls, and it or the subject's         *)
(* decision changes only when an attempt of that very subject was denied,  *)
(* unless the decision expires (certificate-dashboard.mjs:272-336,         *)
(* trust-dashboard.mjs:152-200 and 354-379, server.mjs:99-126).            *)
ChangesAreExplained ==
  [][LET event == Head(auditEvents')
         audited == Len(auditEvents') = Len(auditEvents) + 1
         changed == {n \in DOMAIN certificates' :
                       n \in DOMAIN certificates =>
                         certificates'[n] # certificates[n]}
     IN  /\ \A n \in changed :
              /\ audited /\ event.outcome = "allow"
              /\ IsAdministrator[event.actor]
              /\ certificates'[n].tenant = TenantOf[event.actor]
         /\ \A s \in Subjects :
              LET before == Score(transitions[s].components)
                  after == Score(transitions[s].components)'
                  denied == /\ audited /\ event.actor = s
                            /\ event.outcome = "deny"
              IN  \/ UNCHANGED <<clock, transitions[s]>>
                  \/ /\ before # after => after < before /\ denied
                     /\ CurrentDecision(s) # CurrentDecision(s)' =>
                          denied \/ CurrentDecision(s)' = "DENY"]_consoleVars
=============================================================================
