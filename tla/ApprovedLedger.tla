---------------------------- MODULE ApprovedLedger ----------------------------
(***************************************************************************)
(* What programme memory promises, whatever the number of clients: an      *)
(* append-only ledger of operations in which an operation appears at most  *)
(* once, and only after an assessment allowed it and a reviewer approved   *)
(* that assessment.                                                        *)
(***************************************************************************)
EXTENDS Naturals, Sequences

CONSTANT OperationIds

VARIABLES
  approved, \* operations a reviewer has approved
  ledger    \* operations committed, in order

ledgerVars == <<approved, ledger>>

Entries == {ledger[i] : i \in DOMAIN ledger}

LedgerInit == approved = {} /\ ledger = << >>

Approve(o) ==
  /\ approved' = approved \cup {o}
  /\ UNCHANGED ledger

Record(o) ==
  /\ o \in approved \ Entries
  /\ ledger' = Append(ledger, o)
  /\ UNCHANGED approved

LedgerNext == \E o \in OperationIds : Approve(o) \/ Record(o)

LedgerSpec == LedgerInit /\ [][LedgerNext]_ledgerVars
=============================================================================
