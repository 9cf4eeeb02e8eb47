----------------------------- MODULE AuditLedger ----------------------------
(***************************************************************************)
(* What the audit trail promises, without outbox, relay, broker, consumer: *)
(* a ledger that only grows, and that only ever holds committed            *)
(* calculations, at most one for each correlation id.                      *)
(***************************************************************************)
CONSTANTS Calcs, CidOf

VARIABLES
  committed,  \* the calculations the rate service has committed
  ledger      \* the calculations on record

ledgerVars == <<committed, ledger>>

LedgerInit == committed = {} /\ ledger = {}

LedgerCommit(k) ==
  /\ k \notin committed
  /\ committed' = committed \cup {k}
  /\ UNCHANGED ledger

Record(k) ==
  /\ k \in committed
  /\ \A j \in ledger : CidOf[j] # CidOf[k]
  /\ ledger' = ledger \cup {k}
  /\ UNCHANGED committed

LedgerNext == \E k \in Calcs : LedgerCommit(k) \/ Record(k)

LedgerSpec == LedgerInit /\ [][LedgerNext]_ledgerVars

=============================================================================
