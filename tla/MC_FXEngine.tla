---------------------------- MODULE MC_FXEngine ----------------------------
(* A small instance of FXEngine for TLC.                                   *)
EXTENDS FXEngine, TLC

CONSTANTS p1, p2, q1, q2, k1, k2, c1, c2, c3, c4

Req(op, p, k, q, a) == [op |-> op, pod |-> p, key |-> k, q |-> q, amount |-> a]

(* A quote is asked for at p1, or comes with a spot conversion there of    *)
(* another amount; two calls convert it under another key, at p2 and at    *)
(* either pod, one of them saying the amount of the quote asked for; a     *)
(* fourth reads it at p2, or uses that key for a spot conversion at p1.    *)
MCRequests ==
    (c1 :> {Req("CREATE", p1, None, None, 3), Req("CONVERT", p1, k2, None, 2)}) @@
    (c2 :> {Req("CONVERT", p2, k1, q1, 3)}) @@
    (c3 :> {Req("CONVERT", p1, k1, q1, 0), Req("CONVERT", p2, k1, q1, 0)}) @@
    (c4 :> {Req("GET", p2, None, q1, 0), Req("CONVERT", p1, k1, None, 3)})

MCBaseline == <<1, 2>>
MCLiveRates == {<<3, 2>>}
=============================================================================
