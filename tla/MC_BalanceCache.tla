-------------------------- MODULE MC_BalanceCache --------------------------
(* A small instance of BalanceCache for TLC.                               *)
EXTENDS BalanceCache, TLC

CONSTANTS p1, p2, w1, w2, c1, c2, c3, c4

R(o, p, w) == [op |-> o, pod |-> p, w |-> w]

(* One movement at p1 and three reads around it; the second wallet serves  *)
(* to fill the one-entry L1.                                               *)
MCRequests ==
    (c1 :> {R("WRITE", p1, w1)}) @@
    (c2 :> {R("READ", p1, w1), R("READ", p2, w1)}) @@
    (c3 :> {R("READ", p2, w1), R("READ", p2, w2)}) @@
    (c4 :> {R("READ", p2, w1)})
=============================================================================
