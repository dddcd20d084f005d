---------------------------- MODULE SwapAgreement ----------------------------
(***************************************************************************)
(* What the swap app promises: a payment is signed only for the offer that  *)
(* is open, an offer is open once at most, and a payment closes it.         *)
(***************************************************************************)
EXTENDS Sequences

CONSTANTS
    Ids,            \* the numbers of offers
    NoId,           \* no offer is open
    Agreements      \* the payments all parties agreed to, each with the number of its offer

VARIABLES
    open,           \* the offer that may be paid
    used,           \* the offers that were ever open
    settled         \* the payments signed, in order

agreementVars == <<open, used, settled>>

AgreementInit ==
    /\ open = NoId /\ used = {} /\ settled = <<>>

Offer(id) ==
    /\ id \in Ids \ used
    /\ open' = id
    /\ used' = used \cup {id}
    /\ UNCHANGED settled

Withdraw ==
    /\ open' = NoId
    /\ UNCHANGED <<used, settled>>

Settle(a) ==
    /\ a.id = open
    /\ settled' = Append(settled, a)
    /\ open' = NoId
    /\ UNCHANGED used

AgreementNext ==
    \/ \E id \in Ids : Offer(id)
    \/ Withdraw
    \/ \E a \in Agreements : Settle(a)

AgreementSpec == AgreementInit /\ [][AgreementNext]_agreementVars
==============================================================================
