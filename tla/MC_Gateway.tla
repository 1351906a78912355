---------------------------- MODULE MC_Gateway ----------------------------
(* A small instance of Gateway for TLC: a transfer of its owner from a     *)
(* wallet that may not exist yet, and a request of any other kind.         *)
EXTENDS Gateway, TLC

CONSTANTS alice, bob, root, ops, g1, g2, r1, r2

Offer(h, c, o) == [handler |-> h, caller |-> c, owner |-> o]
ID(k, S) == [kind |-> k, subjects |-> S]
MCWallets == {<<ID("opaque", {bob}), None>>, <<ID("opaque", {}), alice>>, <<ID("named", {bob}), alice>>}
MCOffered ==
    r1 :> {Offer(HandleTransfer, alice, alice)}
    @@ r2 :> {Offer(HandleCreateWallet, alice, alice), Offer(HandleCreateWallet, root, alice),
              Offer(HandleGetBalance, root, root), Offer(HandleUpdateWalletKYC, ops, ops),
              Offer(HandleLedger, bob, bob), Offer(HandleGetWalletLimits, ops, ops)}
=============================================================================
