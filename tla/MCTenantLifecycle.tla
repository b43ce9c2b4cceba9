-------------------------- MODULE MCTenantLifecycle --------------------------
(* TenantLifecycle for TLC: administrators and contents are                *)
(* interchangeable.  The review console keeps its own inventory and shares *)
(* nothing with the tenant, so the same run explores it on its own: a      *)
(* behaviour is of the tenant or of the console.                           *)
EXTENDS TenantLifecycle, ReviewConsole, TLC

Symmetry == Permutations(Administrators) \cup Permutations(Contents)

TenantIdle == Init
ConsoleIdle == ConsoleInit

MCInit == Init /\ ConsoleInit
MCNext ==
  \/ ConsoleIdle /\ Next /\ UNCHANGED consoleVars
  \/ TenantIdle /\ ConsoleNext /\ UNCHANGED vars

MCSpec == MCInit /\ [][MCNext]_<<vars, consoleVars>>
=============================================================================
