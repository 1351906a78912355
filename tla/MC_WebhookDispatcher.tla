----------------------- MODULE MC_WebhookDispatcher -----------------------
(***************************************************************************)
(* A small instance of WebhookDispatcher for TLC: a completed movement at  *)
(* a gateway and a blocked one at a wallet service, both subscribed to by  *)
(* the same partner.                                                       *)
(***************************************************************************)
EXTENDS WebhookDispatcher, TLC

CONSTANTS g1, g2, w1, s1, e1, e2

MCHome == e1 :> g1 @@ e2 :> w1
MCInterest == Events \X Subs
=============================================================================
