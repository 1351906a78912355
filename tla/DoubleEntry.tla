---------------------------- MODULE DoubleEntry ----------------------------
(***************************************************************************)
(* The journal postings that the ledger service derives from one           *)
(* RecordTransaction request (cmd/ledger-service/double_entry.go).          *)
(*                                                                         *)
(* A request is a record                                                   *)
(*   [key, txn, src, dst, amt, cur, damt, dcur]                            *)
(* with dcur = NoCurrency when the caller left the destination leg out.    *)
(* Account types, timestamps and the JSON encoding of postings are data no *)
(* property distinguishes and are left out.                                *)
(***************************************************************************)
EXTENDS Integers, Sequences, FiniteSetsExt

CONSTANTS
    Accounts,    \* customer wallets and external clearing accounts
    Currencies,  \* the supported ISO-4217 codes
    NoCurrency   \* the empty destination_currency of a request

(* The bank's own FX liquidity account in currency c.                      *)
Pool(c) == <<"FX_LIQUIDITY_POOL", c>>

PostingAccounts == Accounts \cup {Pool(c) : c \in Currencies}

Postings ==
    [acct : PostingAccounts, dir : {"DEBIT", "CREDIT"}, amt : Int, cur : Currencies]

Posting(a, d, n, c) == [acct |-> a, dir |-> d, amt |-> n, cur |-> c]

(* db.ValidateAmount as the ledger calls it: supported currency, positive. *)
ValidAmount(n, c) == c \in Currencies /\ n > 0

(* The argument checks at the top of RecordTransaction.                    *)
ValidRequest(r) ==
    /\ ValidAmount(r.amt, r.cur)
    /\ r.dcur \notin {NoCurrency, r.cur} => ValidAmount(r.damt, r.dcur)

CreateTransferPostings(src, dst, n, c) ==
    << Posting(src, "DEBIT", n, c), Posting(dst, "CREDIT", n, c) >>

(* Two legs in one currency; four legs through the FX pools otherwise.     *)
CreateMultiCurrencyTransferPostings(r) ==
    IF r.dcur \in {NoCurrency, r.cur} \/ r.damt <= 0
    THEN CreateTransferPostings(r.src, r.dst, r.amt, r.cur)
    ELSE << Posting(r.src, "DEBIT", r.amt, r.cur),
            Posting(Pool(r.cur), "CREDIT", r.amt, r.cur),
            Posting(Pool(r.dcur), "DEBIT", r.damt, r.dcur),
            Posting(r.dst, "CREDIT", r.damt, r.dcur) >>

(* The sum of the postings of ps on one side in currency c.                *)
Total(ps, d, c) ==
    MapThenSumSet(LAMBDA i : ps[i].amt,
                  {i \in DOMAIN ps : ps[i].dir = d /\ ps[i].cur = c})

ValidatePostings(ps) ==
    /\ Len(ps) >= 2
    /\ \A i \in DOMAIN ps : ps[i].amt > 0
    /\ \A c \in Currencies : Total(ps, "DEBIT", c) = Total(ps, "CREDIT", c)
=============================================================================
