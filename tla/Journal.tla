------------------------------ MODULE Journal ------------------------------
(***************************************************************************)
(* What the ledger service promises its callers: a journal that only grows *)
(* at its end, holds one entry for an idempotency key, and acknowledges a  *)
(* key only with the transaction id the journal holds for it.  LedgerChain *)
(* is shown to implement this specification.                               *)
(***************************************************************************)
EXTENDS Naturals, Sequences

CONSTANTS Keys, Txns

VARIABLES
    log,    \* the journal, oldest entry first
    acked   \* the <<key, transaction id>> pairs callers were told

JournalInit == log = << >> /\ acked = {}

Record(k, t) ==
    /\ \A i \in DOMAIN log : log[i].key # k
    /\ log' = Append(log, [key |-> k, txn |-> t])
    /\ UNCHANGED acked

Acknowledge(i) ==
    /\ acked' = acked \cup {<<log[i].key, log[i].txn>>}
    /\ UNCHANGED log

JournalNext ==
    \/ \E k \in Keys, t \in Txns : Record(k, t)
    \/ \E i \in DOMAIN log : Acknowledge(i)

JournalSpec == JournalInit /\ [][JournalNext]_<<log, acked>>
=============================================================================
