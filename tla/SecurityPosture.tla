-------------------------- MODULE SecurityPosture --------------------------
(***************************************************************************)
(* What the security-action queue promises about a target, without queues, *)
(* leases, workers, clocks or certificates:                                *)
(*                                                                         *)
(*   - a target's posture changes only by a transition of the security     *)
(*     action state machine, taken from the posture the target has;        *)
(*   - a recovery transition is taken only if a tenant administrator       *)
(*     granted exactly that transition for exactly this version of the     *)
(*     posture: any transition withdraws every outstanding grant.          *)
(*                                                                         *)
(* SecurityActions implements this module (docs/architecture/              *)
(* security-action-state-machine.md and governed-security-recovery.md).    *)
(***************************************************************************)
EXTENDS SecurityActionState

CONSTANT Targets

VARIABLES
  tracked,   \* the targets that have a row in subject_security_states
  posture,   \* the composite state of each target
  granted    \* the recovery types granted for the present posture version

vars == <<tracked, posture, granted>>

Init ==
  /\ tracked = {}
  /\ posture = [t \in Targets |-> InitialState]
  /\ granted = [t \in Targets |-> {}]

(* A target is first tracked with the certificate state of the inventory.  *)
Track(t) ==
  /\ t \notin tracked
  /\ tracked' = tracked \cup {t}
  /\ \E c \in CertificateStates :
       posture' = [posture EXCEPT ![t].targetCertificate = c]
  /\ UNCHANGED granted

(* A quarantine obligation or a severity rule takes effect.                *)
Protect(t, type) ==
  /\ t \in tracked
  /\ DefinedState(posture[t])
  /\ posture' = [posture EXCEPT ![t] = TransitionState(@, type)]
  /\ granted' = [granted EXCEPT ![t] = {}]
  /\ UNCHANGED tracked

(* An administrator authorizes a recovery for the present posture.         *)
Grant(t, type) ==
  /\ t \in tracked
  /\ RecoveryConditionsMet(posture[t], type)
  /\ granted' = [granted EXCEPT ![t] = @ \cup {type}]
  /\ UNCHANGED <<tracked, posture>>

(* A granted recovery takes effect.                                        *)
Recover(t, type) ==
  /\ type \in granted[t]
  /\ DefinedState(posture[t])
  /\ posture' = [posture EXCEPT ![t] = TransitionState(@, type)]
  /\ granted' = [granted EXCEPT ![t] = {}]
  /\ UNCHANGED tracked

Next ==
  \E t \in Targets :
    \/ Track(t)
    \/ \E type \in ProtectiveTypes : Protect(t, type)
    \/ \E type \in RecoveryTypes : Grant(t, type) \/ Recover(t, type)

Spec == Init /\ [][Next]_vars
=============================================================================
