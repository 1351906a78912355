--------------------------- MODULE MC_LedgerRelay ---------------------------
(* Small instances of LedgerRelay for TLC.                                 *)
EXTENDS LedgerRelay, TLC

CONSTANTS p1, p2

(* The clock of p2 runs one tick ahead.                                    *)
MCSkew == [p \in Pods |-> IF p = p2 THEN 1 ELSE 0]

(* Tasks are committed in the order of their created_at.                   *)
InOrder ==
    \A t \in Tasks : status[t] # "absent" => \A u \in 1 .. t - 1 : status[u] # "absent"

(* The second fault fails the upsert of the lease document and leaves no   *)
(* document: the case that takes two.                                      *)
SecondFault ==
    faults' > 1 /\ faults' # faults =>
      ~created' /\ \E p \in Pods : pc[p] = "start" /\ pc'[p] = "idle"

MCSpec == Init /\ [][Next /\ InOrder' /\ SecondFault]_vars /\ Fairness
=============================================================================
