------------------------------ MODULE MCStores ------------------------------
(***************************************************************************)
(* Small instances of the two files the server writes: the action history  *)
(* (HistoryStore) and the audit log (AuditLog).  They share no state, so a *)
(* behaviour follows one of them, picked at the start.                     *)
(***************************************************************************)
EXTENDS HistoryStore, AuditLog

CONSTANT Parts  \* the stores explored

VARIABLE part

\* What record() is written to survive, and everything at once.
HistoryWorlds == {{"write", "torn", "key"}, FaultKinds}
DeletionWorlds == {{"delete"}}
CalmWorlds == {{}}

\* Only the clock, every call that can fail, and lines that are cut as well.
AuditFaults == {"rename", "chmod", "open", "prune", "write"}
AllAuditWorlds ==
  {{"back"}, {"rename", "prune", "write", "back"},
   AuditFaults \union {"back"}, AuditFaults \union {"cut"}}
OpenWorlds == {{"open"}}

StoresInit ==
  /\ part \in Parts
  /\ part = "history" \/ faults = CHOOSE w \in Worlds : TRUE
  /\ Init
  /\ part = "audit" \/ failing = CHOOSE w \in AuditWorlds : TRUE
  /\ AuditInit

StoresNext ==
  \/ part = "history" /\ Next /\ UNCHANGED <<part, auditVars>>
  \/ part = "audit" /\ AuditNext /\ UNCHANGED <<part, vars>>

StoresSpec == StoresInit /\ [][StoresNext]_<<part, vars, auditVars>>
=============================================================================
