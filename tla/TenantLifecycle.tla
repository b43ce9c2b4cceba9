--------------------------- MODULE TenantLifecycle ---------------------------
(***************************************************************************)
(* One tenant: its life under the platform (migration 006), the active     *)
(* administrators it must keep (migrations 004 and 006), and one of the   *)
(* registries they version: the trust configurations                      *)
(* (migration 022, services/trust/src/configuration-management.mjs) and    *)
(* the policy bundles (migration 025, services/policy/src/policy-          *)
(* bundles.mjs), with the requests that are decided by the active bundle.  *)
(*                                                                         *)
(* An administrator's statement checks who asks before it waits for the    *)
(* advisory lock of its registry; it carries a time that the service took  *)
(* from its own clock earlier still.  What it reads after the lock is      *)
(* locked until it commits, so the rest of it is one step.  The removal of *)
(* an administrator takes no such lock: its trigger sees what others have  *)
(* committed, and it commits later.                                        *)
(*                                                                         *)
(* Simplifications:                                                        *)
(*   - the registries share nothing but the tenant: each behaviour has one; *)
(*   - one policy name; a version's content is a model value, well-formed, *)
(*     compiled and hashed; None is the metadata seeded without a bundle;  *)
(*   - nobody joins the tenant or is given a role;                         *)
(*   - the administrator asks for the bundle number that is free when the  *)
(*     request is prepared; a bundle replaces the version before it.       *)
(***************************************************************************)
EXTENDS Integers, Sequences, FiniteSets

CONSTANTS
  Administrators, \* the tenant's first administrators
  Contents,       \* what a version may contain
  None,           \* no content; a session that does nothing
  Ahead,          \* how far a service's clock may run ahead (2 seconds)
  Behind,         \* how old an occurredAt may be when it is used (5 minutes)
  Registries,     \* the kinds of registry: "trust", "policy"
  MaxTime,        \* bound: last tick
  MaxVersions,    \* bound: versions of a registry
  MaxEvents,      \* bound: entries of the ledger
  MaxSuspensions  \* bound: version of the tenant

ASSUME TenantAssumption ==
  /\ Administrators # {} /\ IsFiniteSet(Administrators)
  /\ None \notin Contents \cup Administrators
  /\ Registries \subseteq {"trust", "policy"}
  /\ {Ahead, Behind, MaxTime, MaxVersions, MaxEvents, MaxSuspensions} \subseteq Nat

VARIABLES
  now,      \* the database's clock
  tenant,   \* the row of identity.tenants
  members,  \* state of the administrators' memberships
  admins,   \* subjects with the tenant-admin role
  kind,     \* which of the two registries this is
  registry, \* its versions
  ledger,   \* its events: trust_configuration_events or policy_bundle_events
  session   \* what each administrator has under way

vars == <<now, tenant, members, admins, kind, registry, ledger, session>>

Never == 0
First == Behind + 1   \* the clock starts where an occurredAt is positive
Times == 1..(First + MaxTime + Ahead)

\* The state of a version that was never activated
Unused == IF kind = "trust" THEN "draft" ELSE "published"

Version == [content : Contents \cup {None},
            state : {"draft", "published", "active", "superseded"},
            createdAt : Times, activatedAt : Times \cup {Never},
            supersededAt : Times \cup {Never}]

Event == [type : {"created", "activated", "superseded", "rollback"},
          version : Nat, previous : Nat, target : Nat]

Operation == [do : {"create", "activate", "rollback"},
              version : Nat, content : Contents \cup {None}, occurredAt : Times]
Removal == [do : {"role", "membership"}, subject : Administrators]

TypeOK ==
  /\ now \in First..(First + MaxTime)
  /\ tenant \in [state : {"active", "suspended"}, retired : BOOLEAN, version : Nat]
  /\ members \in [Administrators -> {"active", "suspended"}]
  /\ admins \subseteq Administrators
  /\ kind \in Registries
  /\ registry \in Seq(Version)
  /\ ledger \in Seq(Event)
  /\ session \in [Administrators -> {None} \cup Operation \cup Removal]

(* The deterministic seed: a tenant has one active configuration and one   *)
(* bundle that is metadata only.                                           *)
Init ==
  /\ now = First
  /\ tenant = [state |-> "active", retired |-> FALSE, version |-> 1]
  /\ members = [a \in Administrators |-> "active"]
  /\ admins = Administrators
  /\ kind \in Registries
  /\ \/ /\ kind = "trust"
        /\ \E content \in Contents :
             registry = <<[content |-> content, state |-> "active", createdAt |-> First,
                           activatedAt |-> First, supersededAt |-> Never]>>
     \/ /\ kind = "policy"
        /\ registry = <<[content |-> None, state |-> "published", createdAt |-> First,
                         activatedAt |-> Never, supersededAt |-> Never]>>
  /\ ledger = <<>>
  /\ session = [a \in Administrators |-> None]

-----------------------------------------------------------------------------
(* Helpers *)

Active == {v \in DOMAIN registry : registry[v].state = "active"}

\* current_actor_is_tenant_admin
IsAdmin(a) == tenant.state = "active" /\ members[a] = "active" /\ a \in admins

\* A bundle was compiled and is intact; the metadata seeded first was not.
Validated(v) == registry[v].content # None

\* The version an activation or a rollback replaces; 0 when none is active
Previous == IF Active = {} THEN 0 ELSE CHOOSE v \in Active : TRUE

\* No activation is dated before the one it replaces.
FollowsPrevious(occurredAt) ==
  \A v \in Active : occurredAt >= registry[v].activatedAt

\* An operator named Bug... is what a plausible mistake would turn the definition
\* after it into; no specification uses it.

BugSupersede(occurredAt) ==
  [v \in DOMAIN registry |->
     IF v \in Active
     THEN [registry[v] EXCEPT !.state = "superseded", !.supersededAt = now]
     ELSE registry[v]]
\* The versions once the active one is superseded at occurredAt
Supersede(occurredAt) ==
  [v \in DOMAIN registry |->
     IF v \in Active
     THEN [registry[v] EXCEPT !.state = "superseded", !.supersededAt = occurredAt]
     ELSE registry[v]]

Entry(type, version, previous, target) ==
  [type |-> type, version |-> version, previous |-> previous,
   target |-> target]

\* A bundle that is replaced has an event of its own; a configuration has not.
SupersededEntries ==
  IF kind = "policy" /\ Active # {}
  THEN <<Entry("superseded", Previous, Previous, 0)>>
  ELSE <<>>

-----------------------------------------------------------------------------
(* The administrators' sessions *)

Open(a, do) == session[a] # None /\ session[a].do = do
Ended(a) == [session EXCEPT ![a] = None]

Request(do, version, content) ==
  [do |-> do, version |-> version, content |-> content, occurredAt |-> Never]

\* normalizeDraftRequest; the number is computed later.
DraftRequests == {Request("create", 0, c) : c \in {d \in Contents : kind = "trust"}}

\* normalizePublishRequest: the administrator asks for the number free now.
PublishRequests ==
  {Request("create", Len(registry) + 1, c) : c \in {d \in Contents : kind = "policy"}}

\* history: the state of every version, for whoever decides on the next call
History == [v \in DOMAIN registry |-> registry[v].state]

\* What the history shows as never activated
ActivationRequests ==
  {Request("activate", v, None) : v \in {w \in DOMAIN History : History[w] = Unused}}

\* What the history shows as superseded; a bundle cannot be rolled back.
RollbackRequests ==
  {Request("rollback", v, None) : v \in {w \in DOMAIN History :
     kind = "trust" /\ History[w] = "superseded"}}

\* createDraft, publish, activate and rollback up to the lock: the time is taken,
\* the statement starts and its first check passes.
Begin(a) ==
  /\ session[a] = None /\ IsAdmin(a)
  /\ Len(ledger) < MaxEvents
  /\ \E asked \in DraftRequests \cup PublishRequests
                   \cup ActivationRequests \cup RollbackRequests,
        occurredAt \in (now - Behind)..(now + Ahead) :
       session' = [session EXCEPT ![a] = [asked EXCEPT !.occurredAt = occurredAt]]
  /\ UNCHANGED <<now, tenant, members, admins, kind, registry, ledger>>

\* validateDraftResult: the service refuses an answer that is not what it asked
\* for, and its transaction rolls back.
CreationConfirmed(v, content) ==
  registry'[v].state = Unused /\ registry'[v].content = content

\* validateLifecycleResult
ActivationConfirmed(v) ==
  /\ registry'[v].state = "active"
  /\ registry'[v].activatedAt # Never /\ registry'[v].supersededAt = Never

\* create_trust_configuration_draft computes the number, publish_policy_bundle
\* insists on the one it was given; both hold the tenant's row.
Create(a) ==
  /\ Open(a, "create")
  /\ LET s == session[a]
         next == Len(registry) + 1
     IN  /\ tenant.state = "active"
         /\ kind = "policy" => s.version = next
         /\ next <= MaxVersions
         /\ registry' = Append(registry,
              [content |-> s.content, state |-> Unused, createdAt |-> s.occurredAt,
               activatedAt |-> Never, supersededAt |-> Never])
         /\ CreationConfirmed(next, s.content)
         /\ ledger' = Append(ledger,
              Entry("created", next, IF kind = "trust" THEN Previous ELSE 0, 0))
  /\ session' = Ended(a)
  /\ UNCHANGED <<now, tenant, members, admins, kind>>

\* What an activation requires of its target, read again under the lock
Activatable(v, occurredAt) ==
  /\ v \in DOMAIN registry
  /\ registry[v].state = Unused /\ Validated(v)
  /\ occurredAt >= registry[v].createdAt

\* activate_trust_configuration and activate_policy_bundle
Activate(a) ==
  /\ Open(a, "activate")
  /\ LET s == session[a]
     IN  /\ Activatable(s.version, s.occurredAt)
         /\ FollowsPrevious(s.occurredAt)
         /\ registry' = [Supersede(s.occurredAt) EXCEPT
              ![s.version].state = "active", ![s.version].activatedAt = s.occurredAt,
              ![s.version].supersededAt = Never]
         /\ ActivationConfirmed(s.version)
         /\ ledger' = ledger \o SupersededEntries
              \o <<Entry("activated", s.version, Previous, 0)>>
  /\ session' = Ended(a)
  /\ UNCHANGED <<now, tenant, members, admins, kind>>

BugRestored(target) == registry[Previous].content
\* What the version that a rollback appends contains
Restored(target) == registry[target].content

\* rollback_trust_configuration: a superseded version is copied forward
Rollback(a) ==
  /\ Open(a, "rollback")
  /\ LET s == session[a]
         next == Len(registry) + 1
     IN  /\ registry[s.version].state = "superseded"
         /\ Active # {} /\ FollowsPrevious(s.occurredAt)
         /\ next <= MaxVersions
         /\ registry' = Append(Supersede(s.occurredAt),
              [content |-> Restored(s.version), state |-> "active",
               createdAt |-> s.occurredAt, activatedAt |-> s.occurredAt,
               supersededAt |-> Never])
         /\ next > s.version /\ ActivationConfirmed(next)
         /\ ledger' = Append(ledger,
              Entry("rollback", next, Previous, s.version))
  /\ session' = Ended(a)
  /\ UNCHANGED <<now, tenant, members, admins, kind>>

\* An administrator is removed: the policies and the trigger
\* prevent_last_active_tenant_admin_loss see what is committed.
StartRemoval(a) ==
  /\ session[a] = None /\ IsAdmin(a)
  /\ \E b \in Administrators, do \in {"role", "membership"} :
       /\ IsAdmin(b)
       /\ \E c \in Administrators \ {b} : IsAdmin(c)
       /\ session' = [session EXCEPT ![a] = [do |-> do, subject |-> b]]
  /\ UNCHANGED <<now, tenant, members, admins, kind, registry, ledger>>

CommitRemoval(a) ==
  /\ \/ /\ Open(a, "role")
        /\ admins' = admins \ {session[a].subject} /\ UNCHANGED members
     \/ /\ Open(a, "membership")
        /\ members' = [members EXCEPT ![session[a].subject] = "suspended"]
        /\ UNCHANGED admins
  /\ session' = Ended(a)
  /\ UNCHANGED <<now, tenant, kind, registry, ledger>>

\* A statement is refused, fails or is cancelled: its transaction rolls back.
Abandon(a) ==
  /\ session[a] # None
  /\ session' = Ended(a)
  /\ UNCHANGED <<now, tenant, members, admins, kind, registry, ledger>>

-----------------------------------------------------------------------------
(* The platform administrator.  Each function locks the tenant's row.      *)

SuspendTenant ==
  /\ ~tenant.retired /\ tenant.state = "active"
  /\ tenant.version < MaxSuspensions
  /\ tenant' = [tenant EXCEPT !.state = "suspended", !.version = @ + 1]
  /\ UNCHANGED <<now, members, admins, kind, registry, ledger, session>>

MayReactivate == ~tenant.retired /\ tenant.state = "suspended"

ReactivateTenant ==
  /\ MayReactivate
  /\ tenant' = [tenant EXCEPT !.state = "active", !.version = @ + 1]
  /\ UNCHANGED <<now, members, admins, kind, registry, ledger, session>>

\* Every active version is superseded now, which the constraint of its table
\* refuses while it is dated ahead of the database's clock.
Teardown ==
  /\ ~tenant.retired /\ tenant.state = "suspended"
  /\ FollowsPrevious(now)
  /\ admins' = {}
  /\ members' = [a \in Administrators |-> "suspended"]
  /\ registry' = Supersede(now)
  /\ tenant' = [tenant EXCEPT !.retired = TRUE, !.version = @ + 1]
  /\ UNCHANGED <<now, kind, ledger, session>>

-----------------------------------------------------------------------------
Tick ==
  /\ now < First + MaxTime
  /\ now' = now + 1
  /\ UNCHANGED <<tenant, members, admins, kind, registry, ledger, session>>

Next ==
  \/ \E a \in Administrators :
       \/ Begin(a) \/ Create(a) \/ Activate(a) \/ Rollback(a)
       \/ StartRemoval(a) \/ CommitRemoval(a) \/ Abandon(a)
  \/ SuspendTenant \/ ReactivateTenant \/ Teardown \/ Tick

Spec == Init /\ [][Next]_vars

-----------------------------------------------------------------------------
(* Properties *)

\* The entries of the ledger that put a version in force
Activations == {i \in DOMAIN ledger : ledger[i].type \in {"activated", "rollback"}}

WasActive(v) == registry[v].activatedAt # Never

\* Two administrators who activate concurrently, with the times of two clocks,
\* never leave a moment for which two versions were in force, nor one between
\* them for which none was: as long as the tenant is not retired, the times of
\* the versions that were ever active follow each other without a gap.
TimesTile ==
  LET used == {v \in DOMAIN registry : WasActive(v)}
  IN  ~tenant.retired =>
        /\ used # {} => Cardinality(Active) = 1
        /\ \A v \in used \ Active : \E w \in used \ {v} :
             registry[w].activatedAt = registry[v].supersededAt
        /\ \A v, w \in used : registry[v].activatedAt < registry[w].activatedAt =>
             v \notin Active /\ registry[v].supersededAt <= registry[w].activatedAt

\* A reviewer can rebuild the lifecycle from the append-only events: each
\* activation names the one before it, the last is in force, and the version a
\* rollback appended contains what its target contains, which had been in force.
HistoryExplains ==
  ~tenant.retired =>
    /\ \A i \in Activations :
         (\A j \in Activations : j <= i) => Active = {ledger[i].version}
    /\ \A i, j \in Activations :
         (j < i /\ \A k \in Activations : k <= j \/ i <= k) =>
           ledger[i].previous = ledger[j].version
    /\ \A i \in Activations :
         LET e == ledger[i]
         IN  e.type = "rollback" =>
               /\ registry[e.version].content = registry[e.target].content
               /\ WasActive(e.target) /\ e.target # e.previous

\* A version that was replaced is never in force again, and what it contained and
\* when it was in force is never rewritten.
ReplacedIsFinal ==
  [][\A v \in DOMAIN registry :
       registry[v].state = "superseded" => registry'[v] = registry[v]]_vars

\* Teardown is irreversible: the tenant stays suspended, nobody administers it,
\* and nothing more is prepared or published for it.
RetirementIsFinal ==
  [][tenant.retired =>
       /\ tenant'.retired /\ tenant'.state = "suspended" /\ admins' = {}
       /\ \A i \in DOMAIN ledger' : ledger'[i].type = "created" => i \in DOMAIN ledger]_vars

\* "Tenant must retain an active administrator." (migration 006, line 197).
\* Two administrators who remove each other at the same time both pass.
AdministratorRemains ==
  tenant.state = "active" => \E a \in Administrators : IsAdmin(a)

\* "Supersedes active trust configurations and policy versions" (docs/
\* architecture/tenant-lifecycle-controls.md): an activation that was admitted
\* before the suspension completes after the teardown.
TornDownHasNoAuthority ==
  tenant.retired => Active = {}
=============================================================================
