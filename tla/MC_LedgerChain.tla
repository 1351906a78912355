--------------------------- MODULE MC_LedgerChain ---------------------------
(* Small instances of LedgerChain for TLC.                                 *)
EXTENDS LedgerChain, TLC

CONSTANTS c1, c2, c3, p1, p2, k1, k2, t1, t2, t3, alice, bob, USD, EUR

Req(k, t, n, m, d) ==
    [key |-> k, txn |-> t, src |-> alice, dst |-> bob,
     amt |-> n, cur |-> USD, damt |-> m, dcur |-> d]

(* A transfer, the same key sent again under another transaction id (what  *)
(* a replayed deposit dispatches), a cross-currency transfer, and a request *)
(* whose destination amount is not positive.                               *)
MCRequests ==
    { Req(k1, t1, 2, 0, NoCurrency), Req(k1, t2, 1, 0, NoCurrency),
      Req(k2, t3, 2, 1, EUR), Req(k2, t3, 2, 0, EUR) }

(* Two calls meet on p1's mutex, the third comes through p2.               *)
MCTwoPods == (c1 :> p1) @@ (c2 :> p1) @@ (c3 :> p2)
(* c1 and c2 are alike, in the pod they run in and the requests they carry. *)
CallSymmetry == Permutations({c1, c2})
=============================================================================
