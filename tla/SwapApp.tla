------------------------------- MODULE SwapApp -------------------------------
(***************************************************************************)
(* The swap app (app/app-swap): a partner that Ledger certified offers to   *)
(* exchange one currency for another, and the device signs the payment.     *)
(*                                                                          *)
(* The app serves one request after another.  init_swap draws a number that *)
(* the offer of the partner has to contain; swap checks the offer, shows    *)
(* the amounts and signs.  The host sends any request at any time; the app  *)
(* may be stopped and launched again between any two steps.                 *)
(*                                                                          *)
(* Signatures are records of who signed what.  An address is the currency   *)
(* and the path it was derived from.  Amounts are classes of their lengths. *)
(***************************************************************************)
EXTENDS Integers, Sequences

CONSTANTS
    Ids,            \* values of device_id_swap; no two draws are equal
    NoId,           \* device_id_swap when it is unset
    Certified,      \* the partners that Ledger certified: records of name and pubkey
    Offered,        \* the signatures of partners: records of the key and the offer
    SwapRequests    \* the swap requests a host may send

\* The keys of Ledger and of the partners sign nothing but this, whatever the host asks.
ASSUME SwapAssumption ==
    /\ NoId \notin Ids
    /\ \A c \in Certified : c.pubkey # "nobody"
    /\ \A r \in SwapRequests :
        /\ r.partner.signature.by = "ledger" => r.partner.signature.of \in Certified
        /\ r.signature.by # "nobody" => r.signature \in Offered

VARIABLES
    ctx,            \* ctx.device_id_swap
    swapPc,         \* "idle" in xrecv, "review" in ux_validate, or "dead"
    request,        \* the request under review
    screen,         \* the amounts that ux_opensea shows
    reply,          \* the last response
    issued,         \* history: the numbers drawn
    asked,          \* history: the number of each offer that was shown to the user
    signed          \* history: the payments signed, in order

swapVars == <<ctx, swapPc, request, screen, reply, issued, asked, signed>>

NoRequest == [none |-> TRUE]
NoScreen == [none |-> TRUE]
Reply(kind) == [kind |-> kind, tx |-> <<>>]
-----------------------------------------------------------------------------
(* partner.c, swap.c: the signatures. *)

verify_partner(p) ==
    /\ p.signature.by = "ledger"
    /\ p.signature.of = [name |-> p.name, pubkey |-> p.pubkey]

verify_tx_signature(r) ==
    r.signature = [by |-> r.partner.pubkey, of |-> r.pb_tx]
-----------------------------------------------------------------------------
(* currency_config.c, btc/btc.c, eth/eth.c, eth/tx.c *)

Currencies == {"BTC", "ETH"}

\* The address is the one the device derives from the path, in the format of the address.
validate_address(currency, address, path) == address = <<currency, path>>

\* Amounts: "zero" has no bytes; "large" has more than 8 bytes; "huge" has more decimals
\* than the 27 characters that amountToString has room for.
\* eth_get_printable_amount ignores that failure, and leaves what the buffer held.
get_printable_amount_ok(currency, amount) ==
    currency = "BTC" => amount \notin {"large", "huge"}

get_printable_amount(currency, amount) ==
    <<currency, IF currency = "ETH" /\ amount = "huge" THEN "whatever" ELSE amount>>

\* encode_address: unhex takes a character that is no hexadecimal digit for a zero.
encode_address(address) == IF address = "bad_digits" THEN "other_address" ELSE address

gas_limit == 21000

\* encode_gas_price multiplies the fee by the gas limit.  A fee has 16 bytes at most, so that
\* the product does not wrap.
encode_gas_price(fee) == [times |-> gas_limit, fee |-> fee]

\* eth_create_tx, which fails for amounts and fees without bytes and for addresses of
\* another length.  btc_config has no create_tx.
create_tx_ok(r) ==
    /\ r.fee # "zero" /\ r.pb_tx.amount_to_provider # "zero"
    /\ r.pb_tx.payin # "bad_length"

create_tx(r) ==
    [path |-> r.refund_path, to |-> encode_address(r.pb_tx.payin),
     amount |-> r.pb_tx.amount_to_provider, gas_price |-> encode_gas_price(r.fee)]
-----------------------------------------------------------------------------
(* swap.c: handle_swap up to the review. *)

\* Faulty variant: any number that was drawn will do.
IdOfSession(o) == o.id \in issued

is_id_valid_and_matches(o) == ctx # NoId /\ o.id = ctx

Checked(r) ==
    LET o == r.pb_tx
    IN  /\ verify_partner(r.partner)
        /\ o.decodes
        /\ is_id_valid_and_matches(o)
        /\ verify_tx_signature(r)
        /\ o.currency_from \in Currencies /\ o.currency_to \in Currencies
        /\ validate_address(o.currency_to, o.payout_address, r.payout_path)
        /\ validate_address(o.currency_from, o.refund_address, r.refund_path)
        /\ get_printable_amount_ok(o.currency_from, o.amount_to_provider)
        /\ get_printable_amount_ok(o.currency_to, o.amount_to_wallet)
        /\ get_printable_amount_ok(o.currency_from, r.fee)

\* Faulty variant: the screen has the amount the user gets in the place of the one sent.
ScreenSwapped(r) ==
    [send |-> get_printable_amount(r.pb_tx.currency_to, r.pb_tx.amount_to_wallet),
     get  |-> get_printable_amount(r.pb_tx.currency_to, r.pb_tx.amount_to_wallet),
     fees |-> get_printable_amount(r.pb_tx.currency_from, r.fee)]

Screen(r) ==
    [send |-> get_printable_amount(r.pb_tx.currency_from, r.pb_tx.amount_to_provider),
     get  |-> get_printable_amount(r.pb_tx.currency_to, r.pb_tx.amount_to_wallet),
     fees |-> get_printable_amount(r.pb_tx.currency_from, r.fee)]
-----------------------------------------------------------------------------
(* main.c *)

Idle == swapPc = "idle"

Respond(kind) ==
    /\ reply' = Reply(kind)
    /\ swapPc' = "idle"
    /\ request' = NoRequest /\ screen' = NoScreen

\* A request without an effect on ctx: get_version, and one that pb_decode refuses.
HandleOther ==
    /\ Idle
    /\ \E kind \in {"get_version", "error"} : Respond(kind)
    /\ UNCHANGED <<ctx, issued, asked, signed>>

\* An unknown tag is an error, and errors reset ctx; so do init_sell and sell, which
\* do nothing else but verify the partner.
HandleSell ==
    /\ Idle
    /\ ctx' = NoId
    /\ \E kind \in {"init_sell", "sell", "error"} : Respond(kind)
    /\ UNCHANGED <<issued, asked, signed>>

HandleInitSwap ==
    /\ Idle
    /\ \E id \in Ids \ issued :
        /\ ctx' = id
        /\ issued' = issued \cup {id}
    /\ Respond("init_swap")
    /\ UNCHANGED <<asked, signed>>

\* A swap request that fails a check.
RefuseSwap(r) ==
    /\ Idle /\ ~Checked(r)
    /\ ctx' = NoId
    /\ Respond("error")
    /\ UNCHANGED <<issued, asked, signed>>

\* One that passes them all goes to the screen.
ReviewSwap(r) ==
    /\ Idle /\ Checked(r)
    /\ swapPc' = "review"
    /\ request' = r
    /\ screen' = Screen(r)
    /\ asked' = Append(asked, r.pb_tx.id)
    /\ UNCHANGED <<ctx, reply, issued, signed>>

\* Faulty variant: a review that the user rejects leaves the number as it is.
KeepCtx(kind) == IF kind = "error" THEN ctx ELSE NoId

\* reset_ctx, after handle_swap and once more after an error.
CtxAfterSwap(kind) == NoId

UserRejects ==
    /\ swapPc = "review"
    /\ ctx' = CtxAfterSwap("error")
    /\ Respond("error")
    /\ UNCHANGED <<issued, asked, signed>>

\* The record of a payment, for the properties.
Payment(r, shown) ==
    [id |-> r.pb_tx.id, partner |-> r.partner, offer |-> r.pb_tx, signature |-> r.signature,
     payout_path |-> r.payout_path, shown |-> shown, tx |-> create_tx(r)]

UserAccepts ==
    /\ swapPc = "review"
    /\ request.pb_tx.currency_from = "ETH" /\ create_tx_ok(request)
    /\ signed' = Append(signed, Payment(request, screen))
    /\ reply' = [kind |-> "swap", tx |-> <<create_tx(request)>>]
    /\ ctx' = CtxAfterSwap("swap")
    /\ swapPc' = "idle" /\ request' = NoRequest /\ screen' = NoScreen
    /\ UNCHANGED <<issued, asked>>

CreateTxFails ==
    /\ swapPc = "review"
    /\ request.pb_tx.currency_from = "ETH" /\ ~create_tx_ok(request)
    /\ ctx' = CtxAfterSwap("error")
    /\ Respond("error")
    /\ UNCHANGED <<issued, asked, signed>>

\* create_tx is NULL: the response is sent with a tx that nobody wrote, or does not encode,
\* as its size is too large, and the app ends.
NothingToCreate ==
    /\ swapPc = "review"
    /\ request.pb_tx.currency_from = "BTC"
    /\ ctx' = CtxAfterSwap("swap")
    /\ reply' = Reply("swap")
    /\ swapPc' \in {"idle", "dead"}
    /\ request' = NoRequest /\ screen' = NoScreen
    /\ UNCHANGED <<issued, asked, signed>>

\* The app is stopped, or the device unplugged, and main runs from its first line.
Restart ==
    /\ ctx' = NoId
    /\ Respond("none")
    /\ UNCHANGED <<issued, asked, signed>>

SwapInit ==
    /\ ctx = NoId /\ swapPc = "idle" /\ reply = Reply("none")
    /\ request = NoRequest /\ screen = NoScreen
    /\ issued = {} /\ asked = <<>> /\ signed = <<>>

SwapNext ==
    \/ HandleOther \/ HandleSell \/ HandleInitSwap
    \/ \E r \in SwapRequests : RefuseSwap(r) \/ ReviewSwap(r)
    \/ UserRejects \/ UserAccepts \/ CreateTxFails \/ NothingToCreate
    \/ Restart

SwapSpec == SwapInit /\ [][SwapNext]_swapVars
-----------------------------------------------------------------------------
(* Properties. *)

SwapTypeOK ==
    /\ ctx \in Ids \cup {NoId} /\ issued \subseteq Ids
    /\ swapPc \in {"idle", "review", "dead"}
    /\ request \in SwapRequests \cup {NoRequest}
    /\ asked \in Seq(Ids)

\* The user is asked about an offer once: whatever the answer, and whatever fails after
\* it, the same offer cannot be shown again (swap.c, reset_ctx in main.c).
AskedOncePerId ==
    \A i, j \in DOMAIN asked : asked[i] = asked[j] => i = j

\* A transaction has the amount that was on the screen when the user accepted it, pays the
\* address of the offer, and its gas price is gas_limit times the fee that was on the screen:
\* it may cost gas_limit^2 times that fee.  Two exceptions: an amount or fee that does not
\* fit the buffer, and an address with characters that are no digits (ui.c, eth/eth.c, eth/tx.c).
SignsWhatWasShown ==
    \A i \in DOMAIN signed :
        LET p == signed[i]
        IN  /\ p.tx.amount # "huge" => p.shown.send = <<"ETH", p.tx.amount>>
            /\ p.tx.gas_price.fee # "huge" =>
                    /\ p.shown.fees[1] = "ETH"
                    /\ p.tx.gas_price = [times |-> gas_limit, fee |-> p.shown.fees[2]]
            /\ p.tx.to # p.offer.payin => p.offer.payin = "bad_digits"

\* A payment all parties agreed to: a partner that Ledger certified, under this name,
\* signed the offer; its addresses are the device's own; the number is one of this device.
Agreed(p) ==
    /\ [name |-> p.partner.name, pubkey |-> p.partner.pubkey] \in Certified
    /\ [by |-> p.partner.pubkey, of |-> p.offer] \in Offered
    /\ p.offer.payout_address = <<p.offer.currency_to, p.payout_path>>
    /\ p.offer.refund_address = <<"ETH", p.tx.path>>
    /\ p.offer.id = p.id /\ p.id \in Ids

\* The payments that the requests of the host can ask for.
Payments == {Payment(r, Screen(r)) : r \in {s \in SwapRequests : s.pb_tx.decodes}}

Agreement == INSTANCE SwapAgreement WITH
    open <- ctx, used <- issued, settled <- signed,
    Agreements <- {p \in Payments : Agreed(p)}

\* The app implements the agreement: a payment is signed once, for the last number drawn,
\* and only if all of its parties agreed (handle_swap).
ImplementsAgreement == Agreement!AgreementSpec
==============================================================================
