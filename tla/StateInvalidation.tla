------------------------- MODULE StateInvalidation -------------------------
(***************************************************************************)
(* Session and cache invalidation after a suspension or a revocation: the  *)
(* outbox and the plpgsql functions of migration 037, and the Redis scripts*)
(* and the worker of services/orchestrator/src/security-state-             *)
(* invalidation.mjs.                                                       *)
(*                                                                         *)
(* The effect is in Redis and its acknowledgement in PostgreSQL: a worker  *)
(* may die, fail or outlive its lease between the two, and a marker in     *)
(* Redis is to make the retry harmless.                                    *)
(*                                                                         *)
(* Simplifications:                                                        *)
(*   - a job is identified by its security action;                         *)
(*   - a claim token is the attempt number, as in SecurityActions;         *)
(*   - sessions and cache entries are both "entries", which the script     *)
(*     treats alike; an entry id is never registered twice;                *)
(*   - a claim is one step, which selects from the rows as they are or     *)
(*     without a claim that was committed since its statement began; the   *)
(*     unique index decides on what it selected, and a claim that violates *)
(*     it is rolled back and changes nothing;                              *)
(*   - every process has a clock of its own, with a fixed offset to the    *)
(*     clock of the database; no clock goes backwards;                     *)
(*   - the seven-day marker does not expire within the horizon of a run;   *)
(*     an entry does, at any time;                                         *)
(*   - Redis keeps its data; its scripts are atomic.                       *)
(***************************************************************************)
EXTENDS Integers, FiniteSets, Sequences

CONSTANTS
  Subjects,          \* (tenant, subject) pairs
  ActionIds,         \* suspensions and revocations that may succeed
  Entries,           \* sessions and cache entries that may be registered
  Workers,           \* running invalidation workers
  NoAction,          \* the marker of a subject that was never invalidated
  LeaseTime,         \* 30 s
  InitialRetryDelay, \* 1 s
  MaxRetryDelay,     \* 60 s
  ClockTolerance,    \* 2 s: how far ahead of the database a claim may be
  MaxOffset,         \* bound: offset of a process clock
  MaxDbClock,        \* bound: last tick
  MaxAttempts,       \* bound: claims of one job
  MaxFaults          \* bound: crashes, Redis and database failures,
                     \* leases outlived by their worker

ASSUME NoActionAssumption == NoAction \notin ActionIds
ASSUME EntriesAssumption == IsFiniteSet(Entries)
ASSUME TimesAssumption ==
  /\ LeaseTime \in Nat
  /\ InitialRetryDelay \in Nat \ {0} /\ MaxRetryDelay \in Nat \ {0}
  /\ ClockTolerance \in Nat
ASSUME InvalidationBoundsAssumption ==
  /\ MaxOffset \in Nat /\ MaxDbClock \in Nat /\ MaxAttempts \in Nat
  /\ MaxFaults \in Nat

VARIABLES
  dbClock,  \* the database clock
  faults,   \* faults that happened so far
  offset,   \* offset of each worker's clock
  job,      \* orchestration.security_state_invalidations
  attempts, \* orchestration.security_state_invalidation_attempts
  index,    \* the registered keys of a subject
  live,     \* the keys that exist in Redis
  marker,   \* security-invalidation:<subject>
  worker,   \* what each worker process is doing
  exposed,  \* history: the live entries of the subject when an action
            \* succeeded
  effects   \* history: the deletions made on behalf of an action

invalidationVars ==
  <<dbClock, faults, offset, job, attempts, index, live, marker, worker,
    exposed, effects>>

redis == <<index, live, marker>>

----------------------------------------------------------------------------
(* Types *)

Statuses == {"pending", "executing", "completed", "failed"}

Effect == [at : Nat, removed : Nat]
NoEffect == [at |-> 0, removed |-> 0]

Job ==
  [subject   : Subjects,
   status    : Statuses,
   attempts  : Nat,
   lease     : Nat,     \* lease_expires_at while executing
   next      : Nat,     \* next_attempt_at
   succeeded : Nat,     \* action_succeeded_at
   stored    : Effect]  \* invalidated_at and the counts, once completed

NoJob == [status |-> "none"]

Marker == [action : ActionIds \cup {NoAction}, at : Nat]

HoldingPhases == {"claimed", "invalidated", "failing"}

IdleWorker == [phase |-> "idle"]

Claim ==
  [phase   : HoldingPhases,
   action  : ActionIds,
   attempt : Nat,
   result  : Effect]

----------------------------------------------------------------------------
(* Helpers *)

Queued(a) == job[a].status # "none"

Clock(w) == dbClock + offset[w]

(* min(MaxRetryDelay, InitialRetryDelay * 2^(n - 1)) *)
RetryDelay(n) ==
  LET delay == InitialRetryDelay * 2 ^ (n - 1)
  IN  IF delay \in 1..MaxRetryDelay THEN delay ELSE MaxRetryDelay

CloseAttempt(log, outcome) == [log EXCEPT ![Len(log)] = outcome]

Fault == faults < MaxFaults /\ faults' = faults + 1

Step(w, phase) == worker' = [worker EXCEPT ![w].phase = phase]

----------------------------------------------------------------------------
InvalidationInit ==
  /\ dbClock = MaxOffset
  /\ faults = 0
  /\ offset \in [Workers -> (-MaxOffset)..MaxOffset]
  /\ job = [a \in ActionIds |-> NoJob]
  /\ attempts = [a \in ActionIds |-> <<>>]
  /\ index = [s \in Subjects |-> {}]
  /\ live = {}
  /\ marker = [s \in Subjects |-> [action |-> NoAction, at |-> 0]]
  /\ worker = [w \in Workers |-> IdleWorker]
  /\ exposed = [a \in ActionIds |-> {}]
  /\ effects = [a \in ActionIds |-> <<>>]

----------------------------------------------------------------------------
(* The application and the action queue *)

(* REGISTER_ENTRY_LUA.                                                     *)
RegisterEntry(e, s) ==
  /\ live' = live \cup {e}
  /\ index' = [index EXCEPT ![s] = @ \cup {e}]

(* registerSession and registerCacheEntry, of a key nothing had before.    *)
Register(e, s) ==
  /\ \A u \in Subjects : e \notin index[u]
  /\ e \notin UNION {exposed[a] : a \in ActionIds}
  /\ RegisterEntry(e, s)
  /\ UNCHANGED <<dbClock, faults, offset, job, attempts, marker, worker, exposed,
                 effects>>

(* An entry reaches its time to live; the registry keeps its key.          *)
ExpireEntry(e) ==
  /\ e \in live
  /\ live' = live \ {e}
  /\ UNCHANGED <<dbClock, faults, offset, job, attempts, index, marker, worker,
                 exposed, effects>>

(* queue_security_state_invalidation: the trigger runs in the transaction  *)
(* in which a suspension or a revocation succeeds, stamped by the clock of *)
(* the action worker.                                                      *)
ActionSucceeds(a, s) ==
  /\ ~Queued(a)
  /\ \E time \in (dbClock - MaxOffset)..(dbClock + MaxOffset) :
       job' = [job EXCEPT ![a] =
         [subject |-> s, status |-> "pending", attempts |-> 0, lease |-> 0,
          next |-> time, succeeded |-> time, stored |-> NoEffect]]
  /\ exposed' = [exposed EXCEPT ![a] = live \cap index[s]]
  /\ UNCHANGED <<dbClock, faults, offset, attempts, redis, worker, effects>>

----------------------------------------------------------------------------
(* Claims *)

(* Faulty variants, named Bug..., are what a plausible mistake would turn  *)
(* the definition after them into; no specification uses them.             *)
BugExpiredNever(r, time) == FALSE

Expired(r, time) == r.status = "executing" /\ r.lease < time

ExpireJob(r, time) ==
  IF Expired(r, time)
  THEN [r EXCEPT !.status = "failed", !.lease = 0, !.next = time]
  ELSE r

ExpireAttempt(a, time) ==
  IF Expired(job[a], time) THEN CloseAttempt(attempts[a], "failed")
                           ELSE attempts[a]

SubjectBusy(a, jobs) ==
  \E b \in ActionIds :
    /\ jobs[b].status = "executing"
    /\ jobs[b].subject = jobs[a].subject

(* The SELECT takes the advisory lock of the subject and looks for a job   *)
(* that is executing; a stale one misses the job that another claim took,  *)
(* committed and unlocked after the statement's snapshot.                  *)
Claimable(a, jobs, time, stale) ==
  /\ jobs[a].status \in {"pending", "failed"}
  /\ jobs[a].next <= time
  /\ ~stale => ~SubjectBusy(a, jobs)

BugIndexAdmitsAny(a, jobs) == TRUE

(* security_state_invalidations_one_claim_per_subject                      *)
IndexAdmits(a, jobs) == ~SubjectBusy(a, jobs)

(* order by next_attempt_at, action_succeeded_at, action_id                *)
Before(r, q) ==
  \/ r.next < q.next
  \/ r.next = q.next /\ r.succeeded <= q.succeeded

(* claim_security_state_invalidation                                       *)
ClaimNext(w) ==
  /\ worker[w].phase = "idle"
  /\ offset[w] <= ClockTolerance
  /\ LET time == Clock(w)
         jobs == [a \in ActionIds |-> ExpireJob(job[a], time)]
         log  == [a \in ActionIds |-> ExpireAttempt(a, time)]
     IN  \/ \E a \in ActionIds, stale \in BOOLEAN :
              /\ Claimable(a, jobs, time, stale)
              /\ \A b \in ActionIds :
                   Claimable(b, jobs, time, stale) => Before(jobs[a], jobs[b])
              /\ IndexAdmits(a, jobs)
              /\ jobs[a].attempts < MaxAttempts
              /\ job' = [jobs EXCEPT ![a] =
                   [jobs[a] EXCEPT !.status = "executing", !.attempts = @ + 1,
                                   !.lease = time + LeaseTime]]
              /\ attempts' = [log EXCEPT ![a] = Append(log[a], "executing")]
              /\ worker' = [worker EXCEPT ![w] =
                   [phase |-> "claimed", action |-> a,
                    attempt |-> jobs[a].attempts + 1, result |-> NoEffect]]
         \/ /\ ~\E a \in ActionIds : Claimable(a, jobs, time, FALSE)
            /\ job' = jobs
            /\ attempts' = log
            /\ UNCHANGED worker
  /\ UNCHANGED <<dbClock, faults, offset, redis, exposed, effects>>

----------------------------------------------------------------------------
(* The effect *)

JobOf(w) == job[worker[w].action]

BugAlreadyAppliedAny(a, s) == marker[s].action # NoAction

(* The marker of the subject names this action: the effect took place.     *)
AlreadyApplied(a, s) == marker[s].action = a

(* INVALIDATE_SUBJECT_LUA: what it does and what it returns.               *)
Invalidate(a, s, time) ==
  IF AlreadyApplied(a, s)
  THEN UNCHANGED <<redis, effects>>
  ELSE /\ live' = live \ index[s]
       /\ index' = [index EXCEPT ![s] = {}]
       /\ marker' = [marker EXCEPT ![s] = [action |-> a, at |-> time]]
       /\ effects' = [effects EXCEPT ![a] =
            Append(@, [at |-> time, removed |-> Cardinality(live \cap index[s])])]

InvalidateResult(a, s, time) ==
  IF AlreadyApplied(a, s)
  THEN [at |-> marker[s].at, removed |-> 0]
  ELSE [at |-> time, removed |-> Cardinality(live \cap index[s])]

(* stateStore.invalidate, stamped before the script runs; a result that    *)
(* precedes the success of the action is an error.                         *)
InvalidateSubject(w) ==
  /\ worker[w].phase = "claimed"
  /\ LET a == worker[w].action
         s == JobOf(w).subject
         result == InvalidateResult(a, s, Clock(w))
     IN  /\ Invalidate(a, s, Clock(w))
         /\ worker' = [worker EXCEPT
              ![w].phase = IF result.at < JobOf(w).succeeded THEN "failing"
                                                             ELSE "invalidated",
              ![w].result = result]
  /\ UNCHANGED <<dbClock, faults, offset, job, attempts, exposed>>

(* Redis fails, or its answer is lost after the script ran.                *)
InvalidationFails(w) ==
  /\ worker[w].phase = "claimed"
  /\ Fault
  /\ \/ UNCHANGED <<redis, effects>>
     \/ Invalidate(worker[w].action, JobOf(w).subject, Clock(w))
  /\ Step(w, "failing")
  /\ UNCHANGED <<dbClock, offset, job, attempts, exposed>>

----------------------------------------------------------------------------
(* Reports *)

(* Status, token and lease check of the complete and fail functions.       *)
HoldsClaim(w) ==
  /\ JobOf(w).status = "executing"
  /\ JobOf(w).attempts = worker[w].attempt
  /\ JobOf(w).lease >= Clock(w)

(* complete_security_state_invalidation; its answer may be lost.           *)
Complete(w) ==
  /\ worker[w].phase = "invalidated"
  /\ HoldsClaim(w)
  /\ worker[w].result.at <= Clock(w)
  /\ worker[w].result.at >= JobOf(w).succeeded
  /\ LET a == worker[w].action IN
     /\ job' = [job EXCEPT ![a].status = "completed", ![a].lease = 0,
                           ![a].stored = worker[w].result]
     /\ attempts' = [attempts EXCEPT ![a] = CloseAttempt(@, "completed")]
  /\ \/ worker' = [worker EXCEPT ![w] = IdleWorker] /\ UNCHANGED faults
     \/ Step(w, "failing") /\ Fault
  /\ UNCHANGED <<dbClock, offset, redis, exposed, effects>>

(* The database rejects the completion, or cannot be reached.              *)
CompletionFails(w) ==
  /\ worker[w].phase = "invalidated"
  /\ \/ /\ ~ /\ HoldsClaim(w)
             /\ worker[w].result.at <= Clock(w)
             /\ worker[w].result.at >= JobOf(w).succeeded
        /\ UNCHANGED faults
     \/ Fault
  /\ Step(w, "failing")
  /\ UNCHANGED <<dbClock, offset, job, attempts, redis, exposed, effects>>

(* fail_security_state_invalidation; a claim conflict makes runOnce throw  *)
(* and leaves the job alone.                                               *)
Fail(w) ==
  /\ worker[w].phase = "failing"
  /\ LET a == worker[w].action IN
     IF HoldsClaim(w)
     THEN /\ job' = [job EXCEPT
               ![a].status = "failed", ![a].lease = 0,
               ![a].next = Clock(w) + RetryDelay(worker[w].attempt)]
          /\ attempts' = [attempts EXCEPT ![a] = CloseAttempt(@, "failed")]
     ELSE UNCHANGED <<job, attempts>>
  /\ worker' = [worker EXCEPT ![w] = IdleWorker]
  /\ UNCHANGED <<dbClock, faults, offset, redis, exposed, effects>>

----------------------------------------------------------------------------
(* Environment *)

Crash(w) ==
  /\ worker[w].phase # "idle"
  /\ Fault
  /\ worker' = [worker EXCEPT ![w] = IdleWorker]
  /\ UNCHANGED <<dbClock, offset, job, attempts, redis, exposed, effects>>

(* Time passes only while a lease or a retry waits for it.                 *)
Timer ==
  \E a \in ActionIds :
    \/ job[a].status = "executing" /\ job[a].lease + MaxOffset >= dbClock
    \/ job[a].status \in {"pending", "failed"} /\ job[a].next + MaxOffset > dbClock

(* A first clock is about to pass the lease of a worker still at work.     *)
OutlivesLease(w) ==
  /\ worker[w].phase # "idle"
  /\ JobOf(w).status = "executing"
  /\ JobOf(w).attempts = worker[w].attempt
  /\ \E u \in Workers : JobOf(w).lease = Clock(u)
  /\ \A u \in Workers : JobOf(w).lease >= Clock(u)

DbTick ==
  /\ dbClock < MaxDbClock
  /\ Timer
  /\ dbClock' = dbClock + 1
  /\ IF \E w \in Workers : OutlivesLease(w) THEN Fault ELSE UNCHANGED faults
  /\ UNCHANGED <<offset, job, attempts, redis, worker, exposed, effects>>

----------------------------------------------------------------------------
(* A worker's own steps, in the order runOnce takes them.                  *)
WorkerStep(w) ==
  \/ ClaimNext(w)
  \/ InvalidateSubject(w)
  \/ InvalidationFails(w)
  \/ Complete(w)
  \/ CompletionFails(w)
  \/ Fail(w)

InvalidationNext ==
  \/ \E e \in Entries, s \in Subjects : Register(e, s)
  \/ \E e \in Entries : ExpireEntry(e)
  \/ \E a \in ActionIds, s \in Subjects : ActionSucceeds(a, s)
  \/ \E w \in Workers : WorkerStep(w) \/ Crash(w)
  \/ DbTick

InvalidationSpec == InvalidationInit /\ [][InvalidationNext]_invalidationVars

(* Workers are polled every second and time passes.                        *)
InvalidationFairSpec ==
  /\ InvalidationSpec
  /\ \A w \in Workers : WF_invalidationVars(WorkerStep(w))
  /\ WF_invalidationVars(DbTick)

----------------------------------------------------------------------------
(* Properties *)

(* The type of each variable.                                              *)
InvalidationTypeOK ==
  /\ dbClock \in Nat
  /\ faults \in Nat
  /\ offset \in [Workers -> (-MaxOffset)..MaxOffset]
  /\ job \in [ActionIds -> Job \cup {NoJob}]
  /\ attempts \in [ActionIds -> Seq({"executing", "completed", "failed"})]
  /\ index \in [Subjects -> SUBSET Entries]
  /\ live \subseteq Entries
  /\ marker \in [Subjects -> Marker]
  /\ worker \in [Workers -> {IdleWorker} \cup Claim]
  /\ exposed \in [ActionIds -> SUBSET Entries]
  /\ effects \in [ActionIds -> Seq(Effect)]

(* A completed job was enforced: no session or cache entry that existed    *)
(* when the suspension or revocation succeeded is left in Redis, whichever *)
(* attempt deleted it and whatever acknowledgement was lost on the way.    *)
EnforcedWhenCompleted ==
  \A a \in ActionIds :
    job[a].status = "completed" => exposed[a] \cap live = {}

(* The stored enforcement time is the time of an effect of this action and *)
(* not before the action itself, although a retry may report what another  *)
(* worker with another clock did ("a late result is retained honestly").   *)
StoredTimeHonest ==
  \A a \in ActionIds :
    job[a].status = "completed" =>
      /\ job[a].stored.at >= job[a].succeeded
      /\ \E i \in DOMAIN effects[a] : effects[a][i].at = job[a].stored.at

(* No worker ever measures a negative enforcement delay, which the marker  *)
(* would repeat at every retry: the claim compares the success of the      *)
(* action with the clock that later stamps the effect.                     *)
DelayNeverNegative ==
  \A a \in ActionIds : \A i \in DOMAIN effects[a] :
    effects[a][i].at >= job[a].succeeded

(* At most one job of a subject is executing, whatever the claims of       *)
(* several workers missed of each other when they selected.                *)
OneExecutingPerSubject ==
  \A a, b \in ActionIds :
    /\ job[a].status = "executing"
    /\ job[b].status = "executing"
    /\ job[a].subject = job[b].subject
    => a = b

(* The attempt history agrees with the job: one attempt per claim, closed  *)
(* exactly once, the last one in the status of the job.                    *)
AttemptLedger ==
  \A a \in ActionIds :
    IF ~Queued(a) THEN attempts[a] = <<>>
    ELSE /\ Len(attempts[a]) = job[a].attempts
         /\ \A i \in 1..Len(attempts[a]) :
              IF i < Len(attempts[a]) THEN attempts[a][i] = "failed"
              ELSE attempts[a][i] = job[a].status

(* A completed job never changes again, whatever a worker reports late.    *)
CompletedIsFinal ==
  [][\A a \in ActionIds :
       job[a].status = "completed" => job'[a] = job[a]]_invalidationVars

(* What the documentation says of the marker: a retry never has a second   *)
(* effect.                                                                 *)
EffectAtMostOnce == \A a \in ActionIds : Len(effects[a]) <= 1

(* What the documentation says of the counts: completion stores how many   *)
(* sessions and cache entries the effect deleted.                          *)
StoredCountsExact ==
  \A a \in ActionIds :
    job[a].status = "completed" =>
      \E i \in DOMAIN effects[a] : effects[a][i] = job[a].stored

(* Every suspension and revocation is eventually enforced and completed.   *)
InvalidationCompletes ==
  \A a \in ActionIds : Queued(a) ~> job[a].status = "completed"
=============================================================================
