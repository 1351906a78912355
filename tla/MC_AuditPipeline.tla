------------------------- MODULE MC_AuditPipeline -------------------------
(* A small instance of AuditPipeline for TLC: e1 is an AUDIT event and e2  *)
(* an ordinary one, both emitted; e3 is an AUDIT event of the outbox that  *)
(* has no association id, so the logging service refuses it.               *)
EXTENDS AuditPipeline

CONSTANTS e1, e2, e3, r1, r2

(* The spool has room for one line and a part of another.                  *)
MCSize == [x \in Events \cup {Torn} |-> IF x = Torn THEN 1 ELSE 2]
MCEstimate == [e \in Events |-> 2]

(* The path through the logger and the one through the outbox meet only in *)
(* the ingest queue: a behaviour uses one of them, and the publishers of   *)
(* the other do not connect.                                               *)
OnePath ==
    /\ emitted \cap Outboxed = {} \/ (emitted \subseteq Outboxed /\ ~up[Logger])
    /\ emitted \cap Outboxed # {} \/ \A r \in Relays : ~up[r]

MCSpec == Init /\ [][Next /\ OnePath']_vars /\ Fairness
=============================================================================
