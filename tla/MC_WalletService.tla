-------------------------- MODULE MC_WalletService --------------------------
(* Small instances of WalletService for TLC.                               *)
EXTENDS WalletService, TLC

CONSTANTS a, b, k1, k2, USD, EUR

MCPrimary == (a :> USD) @@ (b :> EUR)
MCOpening == (a :> 3) @@ (b :> 1)
MCAmpleOpening == (a :> 4) @@ (b :> 1)  \* the limits bind before the balance does
MCLimits == [t \in Tiers |-> IF t = "TIER_1" THEN [single |-> 2, daily |-> 3, hourly |-> 2]
                             ELSE [single |-> 3, daily |-> 6, hourly |-> 2]]
MCUSDRate == (USD :> <<1, 1>>) @@ (EUR :> <<2, 1>>)
MCRates == [p \in Currencies \X Currencies |->
              IF p = <<USD, EUR>> THEN {<<1, 2>>} ELSE {<<2, 1>>}]

Call(op, k, s, d, c, t, n) ==
    [op |-> op, key |-> k, src |-> s, dst |-> d, cur |-> c, to |-> t, amt |-> n]

(* Two transfers that compete for a's funds, a withdrawal and an exchange  *)
(* that compete with them, deposits that reuse a key with another amount,  *)
(* and two requests that must be refused: a transfer to oneself and a      *)
(* negative deposit.                                                       *)
Transfers ==
    { Call("TRANSFER", k1, a, b, USD, USD, 2), Call("TRANSFER", k2, a, b, USD, USD, 2),
      Call("TRANSFER", k2, b, a, EUR, EUR, 1), Call("TRANSFER", k1, a, a, USD, USD, 1) }
Rails ==
    { Call("WITHDRAW", k1, a, External, USD, USD, 2),
      Call("DEPOSIT", k2, External, b, EUR, EUR, 1), Call("DEPOSIT", k2, External, b, EUR, EUR, 2),
      Call("DEPOSIT", k1, External, b, EUR, EUR, -1) }
Exchanges == { Call("EXCHANGE", k2, a, a, USD, EUR, 2) }
AllCalls == Transfers \cup Rails \cup Exchanges

(* What may move money out of a wallet.                                    *)
Debits == {c \in AllCalls : c.op # "DEPOSIT" /\ ValidCall(c)}

HandlerSymmetry == Permutations(Handlers)
=============================================================================
