------------------------ MODULE SecurityActionState ------------------------
EXTENDS Naturals

(***************************************************************************)
(* The composite security posture of one (tenant, subject, certificate)    *)
(* target and the two independent implementations of its transition        *)
(* function:                                                               *)
(*                                                                         *)
(*   - services/orchestrator/src/index.mjs, the pure JavaScript functions  *)
(*     a worker evaluates after it has claimed an action, and              *)
(*   - orchestration.mark_security_action_succeeded (migration 038), which *)
(*     derives the permitted next state again inside PostgreSQL and        *)
(*     rejects any other result.                                           *)
(*                                                                         *)
(* The module has no state.  It is used by SecurityActions (the queue),    *)
(* SecurityPosture (what the queue promises) and GovernedRecovery.         *)
(***************************************************************************)

AccessStates      == {"normal", "restricted", "suspended"}
RenewalStates     == {"allowed", "blocked"}
CertificateStates == {"active", "revoked"}
ReplacementStates == {"not-required", "required", "issued"}

Posture ==
  [access            : AccessStates,
   renewal           : RenewalStates,
   targetCertificate : CertificateStates,
   replacement       : ReplacementStates]

InitialState ==
  [access            |-> "normal",
   renewal           |-> "allowed",
   targetCertificate |-> "active",
   replacement       |-> "not-required"]

(***************************************************************************)
(* Action types and the authority class each of them belongs to.  The      *)
(* table constraint security_actions_authority makes the class a function  *)
(* of the type.                                                            *)
(***************************************************************************)
QuarantineTypes == {"restrict-access", "suspend-subject"}
SeverityTypes   == {"block-renewal", "revoke-certificate"}
RecoveryTypes   == {"restore-access", "issue-replacement-certificate"}
ProtectiveTypes == QuarantineTypes \cup SeverityTypes
ActionTypes     == ProtectiveTypes \cup RecoveryTypes

(***************************************************************************)
(* defineSecurityActionState: the postures the JavaScript validator        *)
(* accepts.                                                                *)
(***************************************************************************)
DefinedState(s) ==
  /\ s.access = "suspended" => s.renewal = "blocked"
  /\ (s.targetCertificate = "active") <=> (s.replacement = "not-required")
  /\ s.replacement = "required" => /\ s.access = "suspended"
                                   /\ s.renewal = "blocked"

(***************************************************************************)
(* transitionSecurityActionState: the next posture, and when the function  *)
(* returns one instead of throwing.                                        *)
(***************************************************************************)
TransitionState(s, type) ==
  CASE type = "restrict-access" ->
         [s EXCEPT !.access = IF @ = "normal" THEN "restricted" ELSE @]
    [] type = "suspend-subject" ->
         [s EXCEPT !.access = "suspended", !.renewal = "blocked"]
    [] type = "block-renewal" ->
         [s EXCEPT !.renewal = "blocked"]
    [] type = "revoke-certificate" ->
         IF s.targetCertificate = "revoked" THEN s
         ELSE [access |-> "suspended", renewal |-> "blocked",
               targetCertificate |-> "revoked", replacement |-> "required"]
    [] type = "issue-replacement-certificate" ->
         [s EXCEPT !.replacement = "issued"]
    [] type = "restore-access" ->
         [s EXCEPT !.access = "normal", !.renewal = "allowed"]

TransitionDefined(s, type) ==
  /\ DefinedState(s)
  /\ type = "issue-replacement-certificate" => s.targetCertificate = "revoked"
  /\ type = "restore-access" /\ s.targetCertificate = "revoked"
       => s.replacement = "issued"
  /\ DefinedState(TransitionState(s, type))

(***************************************************************************)
(* v_expected of mark_security_action_succeeded, column by column.         *)
(***************************************************************************)
ExpectedState(s, type) ==
  [access |->
     CASE type = "restrict-access" -> IF s.access = "normal" THEN "restricted"
                                                             ELSE s.access
       [] type \in {"suspend-subject", "revoke-certificate"} -> "suspended"
       [] type = "restore-access" -> "normal"
       [] OTHER -> s.access,
   renewal |->
     CASE type \in {"suspend-subject", "block-renewal", "revoke-certificate"}
            -> "blocked"
       [] type = "restore-access" -> "allowed"
       [] OTHER -> s.renewal,
   targetCertificate |->
     IF type = "revoke-certificate" THEN "revoked" ELSE s.targetCertificate,
   replacement |->
     CASE type = "revoke-certificate" /\ s.targetCertificate # "revoked"
            -> "required"
       [] type = "issue-replacement-certificate" -> "issued"
       [] OTHER -> s.replacement]

(***************************************************************************)
(* The predicate of the second sweep of claim_security_action (migration   *)
(* 040): the durable state already represents the control.                 *)
(***************************************************************************)
AlreadySatisfied(s, type) ==
  \/ type = "restrict-access"    /\ s.access # "normal"
  \/ type = "suspend-subject"    /\ s.access = "suspended"
                                 /\ s.renewal = "blocked"
  \/ type = "block-renewal"      /\ s.renewal = "blocked"
  \/ type = "revoke-certificate" /\ s.targetCertificate = "revoked"

(***************************************************************************)
(* Recovery.  evaluateSecurityActionRecovery derives at most one next      *)
(* action from a posture; orchestration.authorize_security_recovery checks *)
(* the same conditions again.  A recovered trust band is "none" when the   *)
(* current trust transition is not a completed recovery.                   *)
(***************************************************************************)
RecoveredBands == {"none", "medium", "high"}

BandSuffices(s, band) ==
  IF \/ s.targetCertificate = "revoked"
     \/ s.access = "suspended"
     \/ s.renewal = "blocked"
  THEN band = "high"
  ELSE band \in {"medium", "high"}

RecoveryConditionsMet(s, type) ==
  \/ /\ type = "issue-replacement-certificate"
     /\ s.targetCertificate = "revoked"
     /\ s.replacement = "required"
  \/ /\ type = "restore-access"
     /\ s.access # "normal" \/ s.renewal # "allowed"
     /\ s.targetCertificate = "revoked" => s.replacement = "issued"
=============================================================================
