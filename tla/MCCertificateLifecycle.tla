----------------------- MODULE MCCertificateLifecycle ----------------------
(* CertificateLifecycle with the requests of the run.                      *)
EXTENDS CertificateLifecycle, TLC

CONSTANTS alice, admin, k1, k2, c1, c2

Request(op, actor, key) == [op |-> op, actor |-> actor, subject |-> alice, key |-> key]

(* One enrolment, two renewals of it that race, one of them by the         *)
(* administrator, and a revocation by the administrator.                   *)
MCRequests ==
  {Request("issue", alice, k1), Request("renew", alice, k2),
   Request("renew", admin, k2), Request("revoke", admin, k1)}

Symmetry == Permutations(Clients)
=============================================================================
