------------------------------ MODULE AppProofs ------------------------------
(***************************************************************************)
(* Proofs about the apps: the swap app, the Ethereum app, the screens and   *)
(* buttons of both, and the hash calls of the SDK, for every set of         *)
(* requests, every list of items and every threshold, and for messages of   *)
(* any length.                                                              *)
(***************************************************************************)
EXTENDS SwapApp, EthereumApp, Ux, HashCalls, SequenceTheorems, WellFoundedInduction, TLAPS

-----------------------------------------------------------------------------
(* The swap app.  The invariant says what it relies on while the user       *)
(* reads: the request on the screen passed all checks, for the number that  *)
(* is still in ctx; and, while it waits for a request, that the user has    *)
(* not been asked about the number in ctx yet.                              *)

ReviewInv ==
    swapPc = "review" =>
        /\ request \in SwapRequests
        /\ Checked(request)
        /\ screen = Screen(request)

FreshInv ==
    swapPc = "idle" /\ ctx # NoId => \A i \in DOMAIN asked : asked[i] # ctx

HistoryInv ==
    /\ ctx # NoId => ctx \in issued
    /\ asked \in Seq(issued)
    /\ signed \in Seq({Payment(r, Screen(r)) : r \in {s \in SwapRequests :
                                                       s.pb_tx.currency_from = "ETH"}})

SwapInv ==
    /\ SwapTypeOK /\ ReviewInv /\ FreshInv /\ HistoryInv /\ AskedOncePerId

\* An action that answers with ctx reset, and shows nothing, keeps the invariant.
LEMMA ResetKeepsInv ==
    ASSUME SwapInv, ctx' = NoId, swapPc' \in {"idle", "dead"}, request' = NoRequest,
           UNCHANGED <<issued, asked>>,
           signed' \in Seq({Payment(r, Screen(r)) : r \in {s \in SwapRequests :
                                                       s.pb_tx.currency_from = "ETH"}})
    PROVE  SwapInv'
BY DEF SwapInv, SwapTypeOK, ReviewInv, FreshInv, HistoryInv, AskedOncePerId, NoRequest

\* The numbers shown so far stay different when one more is shown.
LEMMA AskedGrows ==
    ASSUME NEW r \in SwapRequests, SwapInv, ReviewSwap(r)
    PROVE  AskedOncePerId' /\ asked' \in Seq(issued)
<1> DEFINE id == r.pb_tx.id
<1>1. id = ctx /\ ctx # NoId /\ asked' = Append(asked, id) /\ swapPc = "idle"
  BY DEF ReviewSwap, Checked, is_id_valid_and_matches, Idle
<1>2. asked \in Seq(issued) /\ id \in issued
  BY <1>1 DEF SwapInv, HistoryInv
<1>3. asked' \in Seq(issued) /\ Len(asked') = Len(asked) + 1
  BY <1>1, <1>2
<1>4. \A i \in 1..Len(asked) : asked'[i] = asked[i] /\ asked[i] # id
  BY <1>1, <1>2 DEF SwapInv, FreshInv
<1>5. asked'[Len(asked) + 1] = id
  BY <1>1, <1>2
<1>6. ASSUME NEW i \in DOMAIN asked', NEW j \in DOMAIN asked', asked'[i] = asked'[j]
      PROVE  i = j
  <2>1. i \in 1..Len(asked) + 1 /\ j \in 1..Len(asked) + 1 /\ Len(asked) \in Nat
    BY <1>2, <1>3
  <2>2. CASE i \in 1..Len(asked) /\ j \in 1..Len(asked)
    BY <1>2, <1>4, <1>6, <2>2 DEF SwapInv, AskedOncePerId
  <2>3. CASE i = Len(asked) + 1 \/ j = Len(asked) + 1
    BY <1>4, <1>5, <1>6, <2>1, <2>3
  <2> QED BY <2>1, <2>2, <2>3
<1> QED BY <1>3, <1>6 DEF AskedOncePerId

\* Each step of the app keeps the invariant.
LEMMA SwapStep ==
    ASSUME SwapInv, [SwapNext]_swapVars
    PROVE  SwapInv'
<1> USE SwapAssumption
<1>0. signed \in Seq({Payment(r, Screen(r)) : r \in {s \in SwapRequests :
                                                s.pb_tx.currency_from = "ETH"}})
  BY DEF SwapInv, HistoryInv
<1>1. CASE UNCHANGED swapVars
  BY <1>1 DEF swapVars, SwapInv, SwapTypeOK, ReviewInv, FreshInv, HistoryInv, AskedOncePerId,
              Checked, is_id_valid_and_matches
<1>2. CASE HandleOther
  BY <1>2 DEF HandleOther, Idle, Respond, SwapInv, SwapTypeOK, ReviewInv, FreshInv, HistoryInv,
              AskedOncePerId
<1>3. CASE HandleSell
  BY <1>0, <1>3, ResetKeepsInv DEF HandleSell, Respond
<1>4. CASE HandleInitSwap
  <2>1. PICK id \in Ids \ issued : ctx' = id /\ issued' = issued \cup {id}
    BY <1>4 DEF HandleInitSwap
  <2>2. swapPc' = "idle" /\ request' = NoRequest /\ UNCHANGED <<asked, signed>>
    BY <1>4 DEF HandleInitSwap, Respond
  <2>3. asked \in Seq(issued) /\ \A i \in DOMAIN asked : asked[i] # id
    BY <2>1 DEF SwapInv, HistoryInv
  <2>4. asked \in Seq(issued') /\ asked \in Seq(Ids) /\ issued' \subseteq Ids
    BY <2>1, <2>3 DEF SwapInv, SwapTypeOK
  <2> QED BY <1>0, <2>1, <2>2, <2>3, <2>4
          DEF SwapInv, SwapTypeOK, ReviewInv, FreshInv, HistoryInv, AskedOncePerId
<1>5. ASSUME NEW r \in SwapRequests, RefuseSwap(r) PROVE SwapInv'
  BY <1>0, <1>5, ResetKeepsInv DEF RefuseSwap, Respond
<1>6. ASSUME NEW r \in SwapRequests, ReviewSwap(r) PROVE SwapInv'
  <2>1. AskedOncePerId' /\ asked' \in Seq(issued)
    BY <1>6, AskedGrows
  <2>2. swapPc' = "review" /\ request' = r /\ screen' = Screen(r) /\ Checked(r)
        /\ UNCHANGED <<ctx, issued, signed>>
    BY <1>6 DEF ReviewSwap
  <2>3. Checked(request)'
    BY <2>2 DEF Checked, is_id_valid_and_matches
  <2>4. Screen(request)' = Screen(r)
    BY <2>2 DEF Screen
  <2>5. issued \subseteq Ids /\ asked' \in Seq(Ids)
    BY <2>1 DEF SwapInv, SwapTypeOK
  <2> QED BY <1>0, <2>1, <2>2, <2>3, <2>4, <2>5
          DEF SwapInv, SwapTypeOK, ReviewInv, FreshInv, HistoryInv
<1>7. CASE UserRejects
  BY <1>0, <1>7, ResetKeepsInv DEF UserRejects, Respond, CtxAfterSwap
<1>8. CASE UserAccepts
  <2>1. request \in SwapRequests /\ screen = Screen(request)
        /\ request.pb_tx.currency_from = "ETH"
    BY <1>8 DEF UserAccepts, SwapInv, ReviewInv
  <2>2. Payment(request, screen) \in {Payment(r, Screen(r)) : r \in {s \in SwapRequests :
                                                s.pb_tx.currency_from = "ETH"}}
    BY <2>1
  <2>3. signed' = Append(signed, Payment(request, screen))
    BY <1>8 DEF UserAccepts
  <2>4. signed' \in Seq({Payment(r, Screen(r)) : r \in {s \in SwapRequests :
                                                s.pb_tx.currency_from = "ETH"}})
    BY <1>0, <2>2, <2>3
  <2> QED BY <1>8, <2>4, ResetKeepsInv DEF UserAccepts, CtxAfterSwap
<1>9. CASE CreateTxFails
  BY <1>0, <1>9, ResetKeepsInv DEF CreateTxFails, Respond, CtxAfterSwap
<1>10. CASE NothingToCreate
  BY <1>0, <1>10, ResetKeepsInv DEF NothingToCreate, CtxAfterSwap
<1>11. CASE Restart
  BY <1>0, <1>11, ResetKeepsInv DEF Restart, Respond
<1> QED BY <1>1, <1>2, <1>3, <1>4, <1>5, <1>6, <1>7, <1>8, <1>9, <1>10, <1>11 DEF SwapNext

\* The inductive invariant of the swap app (main.c, swap.c).
THEOREM SwapInvariance == SwapSpec => []SwapInv
<1>1. SwapInit => SwapInv
  BY SwapAssumption DEF SwapInit, SwapInv, SwapTypeOK, ReviewInv, FreshInv, HistoryInv,
     AskedOncePerId
<1> QED BY <1>1, SwapStep, PTL DEF SwapSpec

\* The user is asked once about each offer, whatever happens in between (reset_ctx, main.c).
THEOREM AskedOnce == SwapSpec => []AskedOncePerId
<1>1. SwapInv => AskedOncePerId
  BY DEF SwapInv
<1> QED BY <1>1, SwapInvariance, PTL

\* The amount and the address of a payment are those of the screen and of the offer, and its gas
\* price is gas_limit times the fee on the screen, but for the two conversions that
\* SignsWhatWasShown excepts (handle_swap, encode_gas_price).
THEOREM SignedAsShown == SwapSpec => []SignsWhatWasShown
<1>1. ASSUME SwapInv PROVE SignsWhatWasShown
  <2> SUFFICES ASSUME NEW i \in DOMAIN signed
               PROVE  /\ signed[i].tx.amount # "huge" =>
                            signed[i].shown.send = <<"ETH", signed[i].tx.amount>>
                      /\ signed[i].tx.gas_price.fee # "huge" =>
                            /\ signed[i].shown.fees[1] = "ETH"
                            /\ signed[i].tx.gas_price
                                    = [times |-> gas_limit, fee |-> signed[i].shown.fees[2]]
                      /\ signed[i].tx.to # signed[i].offer.payin =>
                            signed[i].offer.payin = "bad_digits"
    BY DEF SignsWhatWasShown
  <2>1. PICK r \in SwapRequests : r.pb_tx.currency_from = "ETH" /\ signed[i] = Payment(r, Screen(r))
    BY <1>1 DEF SwapInv, HistoryInv
  <2>2. /\ signed[i].tx = create_tx(r) /\ signed[i].shown = Screen(r)
        /\ signed[i].offer = r.pb_tx
    BY <2>1 DEF Payment
  <2>3. /\ create_tx(r).amount = r.pb_tx.amount_to_provider
        /\ create_tx(r).gas_price = [times |-> gas_limit, fee |-> r.fee]
        /\ create_tx(r).to = encode_address(r.pb_tx.payin)
    BY DEF create_tx, encode_gas_price
  <2>4. /\ Screen(r).send = get_printable_amount("ETH", r.pb_tx.amount_to_provider)
        /\ Screen(r).fees = get_printable_amount("ETH", r.fee)
    BY <2>1 DEF Screen
  <2> QED BY <2>2, <2>3, <2>4 DEF encode_address, get_printable_amount
<1> QED BY <1>1, SwapInvariance, PTL

\* A payment made from a request that passed the checks is one all parties agreed to.
LEMMA CheckedIsAgreed ==
    ASSUME NEW r \in SwapRequests, SwapInv, Checked(r), r.pb_tx.currency_from = "ETH"
    PROVE  Agreed(Payment(r, Screen(r))) /\ r.pb_tx.decodes
<1> DEFINE p == Payment(r, Screen(r))
<1>1. /\ p.id = r.pb_tx.id /\ p.partner = r.partner /\ p.offer = r.pb_tx
      /\ p.payout_path = r.payout_path /\ p.tx = create_tx(r)
  BY DEF Payment
<1>2. p.tx.path = r.refund_path
  BY <1>1 DEF create_tx
<1>3. [name |-> r.partner.name, pubkey |-> r.partner.pubkey] \in Certified
  BY SwapAssumption DEF Checked, verify_partner
<1>4. [by |-> r.partner.pubkey, of |-> r.pb_tx] \in Offered
  <2>1. r.signature = [by |-> r.partner.pubkey, of |-> r.pb_tx]
    BY DEF Checked, verify_tx_signature
  <2>2. r.partner.pubkey # "nobody"
    BY <1>3, SwapAssumption
  <2>3. r.signature.by # "nobody"
    BY <2>1, <2>2
  <2> QED BY <2>1, <2>3, SwapAssumption
<1>5. r.pb_tx.decodes /\ r.pb_tx.id = ctx /\ ctx \in Ids
  BY DEF Checked, is_id_valid_and_matches, SwapInv, SwapTypeOK
<1>6. /\ r.pb_tx.payout_address = <<r.pb_tx.currency_to, r.payout_path>>
      /\ r.pb_tx.refund_address = <<"ETH", r.refund_path>>
  BY DEF Checked, validate_address
<1> QED BY <1>1, <1>2, <1>3, <1>4, <1>5, <1>6 DEF Agreed

\* The app implements the agreement of SwapAgreement: whatever the host sends, and wherever the
\* app is stopped, what it signs was agreed to by the partner, Ledger and the user, for the
\* number drawn last, and once (handle_req, handle_swap).
THEOREM SwapRefinement == SwapSpec => ImplementsAgreement
<1> USE SwapAssumption
<1>1. SwapInit => Agreement!AgreementInit
  BY DEF SwapInit, Agreement!AgreementInit
<1>2. ASSUME SwapInv, [SwapNext]_swapVars
      PROVE  [Agreement!AgreementNext]_<<ctx, issued, signed>>
  <2> USE DEF Agreement!AgreementNext, Agreement!Withdraw
  <2>1. CASE UNCHANGED swapVars
    BY <2>1 DEF swapVars
  <2>2. CASE HandleOther
    BY <2>2 DEF HandleOther
  <2>3. CASE HandleSell
    BY <2>3 DEF HandleSell
  <2>4. CASE HandleInitSwap
    BY <2>4 DEF HandleInitSwap, Agreement!Offer
  <2>5. ASSUME NEW r \in SwapRequests, RefuseSwap(r)
        PROVE  [Agreement!AgreementNext]_<<ctx, issued, signed>>
    BY <2>5 DEF RefuseSwap
  <2>6. ASSUME NEW r \in SwapRequests, ReviewSwap(r)
        PROVE  [Agreement!AgreementNext]_<<ctx, issued, signed>>
    BY <2>6 DEF ReviewSwap
  <2>7. CASE UserRejects
    BY <2>7 DEF UserRejects, CtxAfterSwap
  <2>8. CASE UserAccepts
    <3> DEFINE p == Payment(request, screen)
    <3>1. /\ request \in SwapRequests /\ Checked(request) /\ screen = Screen(request)
          /\ request.pb_tx.currency_from = "ETH"
      BY <1>2, <2>8 DEF UserAccepts, SwapInv, ReviewInv
    <3>2. Agreed(Payment(request, Screen(request))) /\ request.pb_tx.decodes
      BY <1>2, <3>1, CheckedIsAgreed
    <3>3. p \in {q \in Payments : Agreed(q)}
      BY <3>1, <3>2 DEF Payments
    <3>4. p.id = ctx
      BY <3>1 DEF Payment, Checked, is_id_valid_and_matches
    <3>5. signed' = Append(signed, p) /\ ctx' = NoId /\ issued' = issued
      BY <2>8 DEF UserAccepts, CtxAfterSwap
    <3>6. Agreement!Settle(p)
      BY <3>4, <3>5 DEF Agreement!Settle
    <3> QED BY <3>3, <3>6
  <2>9. CASE CreateTxFails
    BY <2>9 DEF CreateTxFails, CtxAfterSwap
  <2>10. CASE NothingToCreate
    BY <2>10 DEF NothingToCreate, CtxAfterSwap
  <2>11. CASE Restart
    BY <2>11 DEF Restart
  <2> QED BY <1>2, <2>1, <2>2, <2>3, <2>4, <2>5, <2>6, <2>7, <2>8, <2>9, <2>10, <2>11
          DEF SwapNext
<1> QED BY <1>1, <1>2, SwapInvariance, PTL
        DEF SwapSpec, ImplementsAgreement, Agreement!AgreementSpec, Agreement!agreementVars
-----------------------------------------------------------------------------
(* The screens: ux_validate on top of sys_wait_button.                      *)

\* The buttons that were down in some event of the press.
PressedIn(events) == UNION {events[i] : i \in DOMAIN events}

\* While the app waits, the item on the screen is the one it would confirm.
ScreenInv ==
    /\ n \in 1..Len(Items)
    /\ wait_for_button => shown = n
    /\ ConfirmsWhatIsShown

\* The mask is what was pressed; the counter counts some of the events after the first;
\* nothing is pressed while the app does not wait.
MaskInv ==
    /\ seen \in Seq(SUBSET Buttons)
    /\ g_button_mask = PressedIn(seen)
    /\ g_button_same_mask_counter \in Nat
    /\ seen = <<>> => g_button_same_mask_counter = 0
    /\ seen # <<>> => g_button_same_mask_counter < Len(seen) /\ g_button_mask # {}
    /\ wait_for_button \/ seen = <<>>
-----------------------------------------------------------------------------
(* What the app confirms. *)

\* Every step of ux_validate and of the user keeps the screen and the item together
\* (display_item, ux_validate).
LEMMA ScreenStep == ScreenInv /\ [UxNext]_uxVars => ScreenInv'
<1> SUFFICES ASSUME ScreenInv, [UxNext]_uxVars PROVE ScreenInv'
    OBVIOUS
<1> USE UxAssumption
<1>1. CASE DisplayItem
    BY <1>1 DEF ScreenInv, ConfirmsWhatIsShown, DisplayItem, Running, None
<1>2. ASSUME NEW new \in SUBSET Buttons, ButtonEvent(new) PROVE ScreenInv'
    <2> DEFINE button == to_button_mask(new)
    <2>1. /\ result = None /\ wait_for_button /\ shown = n /\ shown' = shown
          /\ \/ UNCHANGED <<wait_for_button, n, refresh, result>>
             \/ Handle(button)
        BY <1>2 DEF ScreenInv, ButtonEvent, Running
    <2> HIDE DEF button
    <2>2. CASE UNCHANGED <<wait_for_button, n, refresh, result>>
        BY <2>1, <2>2 DEF ScreenInv, ConfirmsWhatIsShown
    <2>3. CASE Handle(button)
        <3>1. CASE button = Buttons /\ Items[n] # "NONE"
            <4>1. Items[n] \in {"VALIDATE", "REJECT"}
                BY <3>1 DEF ScreenInv
            <4>2. /\ result' = (IF Items[n] = "VALIDATE" THEN "validated" ELSE "rejected")
                  /\ ~wait_for_button' /\ n' = n
                BY <2>3, <3>1 DEF Handle
            <4> QED BY <2>1, <4>1, <4>2 DEF ScreenInv, ConfirmsWhatIsShown
        <3>2. CASE button = Buttons /\ Items[n] = "NONE"
            <4>1. UNCHANGED <<n, result, wait_for_button>>
                BY <2>3, <3>2 DEF Handle
            <4> QED BY <2>1, <4>1 DEF ScreenInv, ConfirmsWhatIsShown
        <3>3. CASE button # Buttons
            <4> DEFINE left  == button = {"LEFT"} /\ n > 1
                       right == button = {"RIGHT"} /\ n < Len(Items)
            <4>1. /\ n' = IF left THEN n - 1 ELSE IF right THEN n + 1 ELSE n
                  /\ refresh' = (left \/ right)
                  /\ wait_for_button' = ~refresh'
                  /\ result' = result
                BY <2>3, <3>3, Zenon DEF Handle, Draws
            <4>2. n' \in 1..Len(Items)
                BY <4>1 DEF ScreenInv
            <4>3. wait_for_button' => n' = n
                <5>1. wait_for_button' => ~(left \/ right)
                    BY <4>1, Zenon
                <5>2. ~(left \/ right) => n' = n
                    BY <4>1, Zenon
                <5> QED BY <5>1, <5>2, Zenon
            <4> QED BY <2>1, <4>1, <4>2, <4>3 DEF ScreenInv, ConfirmsWhatIsShown, None
        <3> QED BY <3>1, <3>2, <3>3
    <2> QED BY <2>1, <2>2, <2>3
<1>3. ASSUME NEW new \in SUBSET Buttons, LostEvent(new) PROVE ScreenInv'
    BY <1>3 DEF ScreenInv, ConfirmsWhatIsShown, LostEvent
<1>4. CASE UNCHANGED uxVars
    BY <1>4 DEF ScreenInv, ConfirmsWhatIsShown, uxVars
<1> QED BY <1>1, <1>2, <1>3, <1>4 DEF UxNext, Push, Returned

\* ux_validate validates or rejects a request only at the item that the screen shows, for
\* every list of items and whatever the user presses.
THEOREM ScreenInvariance == UxSpec => []ConfirmsWhatIsShown
<1>1. UxInit => ScreenInv
    BY UxAssumption DEF UxInit, ScreenInv, ConfirmsWhatIsShown, None
<1>2. ScreenInv => ConfirmsWhatIsShown
    BY DEF ScreenInv
<1> QED BY <1>1, <1>2, ScreenStep, PTL DEF UxSpec
-----------------------------------------------------------------------------
(* What sys_wait_button answers. *)

\* Before its first event nothing was pressed (g_button_mask is cleared on release).
LEMMA NothingPressed == PressedIn(<<>>) = {}
BY DEF PressedIn

\* One more event of a press: its buttons are added to those pressed before.
LEMMA PressedMore ==
    ASSUME NEW events \in Seq(SUBSET Buttons), NEW new \in SUBSET Buttons
    PROVE  PressedIn(Append(events, new)) = PressedIn(events) \cup new
<1> DEFINE longer == Append(events, new)
<1>1. /\ DOMAIN longer = 1..(Len(events) + 1) /\ DOMAIN events = 1..Len(events)
      /\ Len(events) \in Nat
      /\ longer[Len(events) + 1] = new
      /\ \A i \in 1..Len(events) : longer[i] = events[i]
    OBVIOUS
<1>2. {longer[i] : i \in DOMAIN longer} = {events[i] : i \in DOMAIN events} \cup {new}
    <2> HIDE DEF longer
    <2> QED BY <1>1
<1> QED BY <1>2 DEF PressedIn

\* An event of the device keeps the mask equal to the buttons pressed (to_button_mask).
LEMMA MaskStep == MaskInv /\ [UxNext]_uxVars => MaskInv'
<1> SUFFICES ASSUME MaskInv, [UxNext]_uxVars PROVE MaskInv'
    OBVIOUS
<1> USE UxAssumption
<1>1. CASE DisplayItem
    <2>1. seen = <<>> /\ seen' = <<>> /\ wait_for_button' = TRUE /\ UNCHANGED buttonVars
        BY <1>1 DEF DisplayItem, MaskInv
    <2> QED BY <2>1 DEF MaskInv, buttonVars
<1>2. ASSUME NEW new \in SUBSET Buttons, ButtonEvent(new) PROVE MaskInv'
    <2>1. UpdateMask(new) /\ seen' = IF new = {} THEN <<>> ELSE Append(seen, new)
        BY <1>2 DEF ButtonEvent
    <2>2. CASE new = {}
        <3>1. g_button_mask' = {} /\ g_button_same_mask_counter' = 0 /\ seen' = <<>>
            BY <2>1, <2>2 DEF UpdateMask
        <3> QED BY <3>1, NothingPressed DEF MaskInv
    <2>3. CASE new # {}
        <3>1. /\ g_button_mask' = g_button_mask \cup new
              /\ seen' = Append(seen, new)
              /\ g_button_same_mask_counter' =
                    IF new # g_button_mask \cup new THEN 0 ELSE Capped(SameMask(new))
            BY <2>1, <2>3 DEF UpdateMask, Mask
        <3>2. /\ seen' \in Seq(SUBSET Buttons) /\ seen' # <<>> /\ Len(seen') = Len(seen) + 1
              /\ Len(seen) \in Nat
            BY <3>1 DEF MaskInv
        <3>3. g_button_mask' = PressedIn(seen') /\ g_button_mask' # {}
            BY <3>1, <2>3, PressedMore DEF MaskInv
        <3>4. g_button_same_mask_counter' \in Nat /\ g_button_same_mask_counter' < Len(seen')
            <4>1. CASE seen = <<>>
                BY <4>1, <3>1, <3>2, <2>3, NothingPressed DEF MaskInv, Capped, SameMask
            <4>2. CASE seen # <<>>
                BY <4>2, <3>1, <3>2 DEF MaskInv, Capped, SameMask
            <4> QED BY <4>1, <4>2
        <3>5. wait_for_button'
            BY <1>2, <2>3 DEF ButtonEvent, to_button_mask
        <3> QED BY <3>2, <3>3, <3>4, <3>5 DEF MaskInv
    <2> QED BY <2>2, <2>3
<1>3. ASSUME NEW new \in SUBSET Buttons, LostEvent(new) PROVE MaskInv'
    BY <1>3 DEF MaskInv, LostEvent, buttonVars
<1>4. CASE UNCHANGED uxVars
    BY <1>4 DEF MaskInv, uxVars, buttonVars
<1> QED BY <1>1, <1>2, <1>3, <1>4 DEF UxNext, Push, Returned

\* Every answer to the app is the press that ended: all its buttons, whatever the order in
\* which they went down and up, and only once they are up; a press of fewer events than
\* the threshold is answered.  For every threshold (sys_wait_button, to_button_mask).
THEOREM AnsweredPresses == UxSpec => AnswersAreThePresses
<1> DEFINE Answered ==
        wait_for_button =>
            LET pressed == UNION {seen[i] : i \in DOMAIN seen}
            IN  /\ answer' \in {{}, pressed}
                /\ answer' # {} => down' = {}
                /\ down' = {} /\ Len(seen) < BUTTON_FAST_THRESHOLD_CS => answer' = pressed
<1>1. UxInit => MaskInv
    BY NothingPressed DEF UxInit, MaskInv
<1>2. ASSUME MaskInv, [UxNext]_uxVars PROVE [Answered]_uxVars
    <2> SUFFICES ASSUME wait_for_button, NEW new \in SUBSET Buttons, ButtonEvent(new)
                 PROVE  Answered
        BY <1>2 DEF UxNext, Push, Returned, DisplayItem, LostEvent
    <2>1. answer' = to_button_mask(new) /\ down' = new
        BY DEF ButtonEvent
    <2>2. UNION {seen[i] : i \in DOMAIN seen} = g_button_mask
        BY <1>2 DEF MaskInv, PressedIn
    <2>3. CASE new # {}
        BY <2>1, <2>2, <2>3 DEF to_button_mask
    <2>4. CASE new = {}
        <3>1. answer' = IF SameMask({}) < BUTTON_FAST_THRESHOLD_CS THEN g_button_mask ELSE {}
            BY <2>1, <2>4 DEF to_button_mask, Mask
        <3>2. CASE seen = <<>>
            <4>1. g_button_mask = {}
                BY <1>2, <3>2, NothingPressed DEF MaskInv
            <4> QED BY <2>1, <2>2, <2>4, <3>1, <4>1
        <3>3. CASE seen # <<>>
            <4>1. SameMask({}) < Len(seen) /\ SameMask({}) \in Nat /\ Len(seen) \in Nat
                BY <1>2, <3>3 DEF MaskInv, SameMask
            <4>2. Len(seen) < BUTTON_FAST_THRESHOLD_CS
                    => SameMask({}) < BUTTON_FAST_THRESHOLD_CS
                BY <4>1, UxAssumption
            <4> QED BY <2>1, <2>2, <2>4, <3>1, <4>2
        <3> QED BY <3>2, <3>3
    <2> QED BY <2>3, <2>4
<1> QED BY <1>1, <1>2, MaskStep, PTL DEF UxSpec, AnswersAreThePresses
-----------------------------------------------------------------------------
(* The Ethereum app.  The response is not cleared between requests: the     *)
(* invariant says what each kind of response may have kept.                 *)

ResponseFields == {"kind", "approved", "of", "chain_code"}

\* The response r to a request is what the user approved.
ApprovedIn(acc, r, to) ==
    /\ r.kind = "get_pubkey" /\ r.approved = "yes" =>
        /\ r.of = <<"key", to.path>>
        /\ to.confirm => \E i \in DOMAIN acc : acc[i].request = to
    /\ r.kind = "sign_tx" =>
        /\ r.approved = "yes" => r.of = <<"tx", to.raw_tx>>
        /\ r.of # Leftover => \E i \in DOMAIN acc : acc[i].hash = r.of

EthInv ==
    /\ DOMAIN response = ResponseFields
    /\ ethPc = "review" => ethRequest.kind \in {"get_pubkey", "sign_tx", "sign_eip712"}
    /\ accepted \in Seq({accepted[i] : i \in DOMAIN accepted})
    /\ ApprovedByTheUser

LEMMA SeqOfItsElements ==
    ASSUME NEW T, NEW s \in Seq(T)
    PROVE  s \in Seq({s[i] : i \in DOMAIN s})
<1> DEFINE U == {s[i] : i \in DOMAIN s}
<1>1. PICK m \in Nat : s \in [1 .. m -> T]
  BY SeqDef
<1>2. \A i \in DOMAIN s : s[i] \in U
  OBVIOUS
<1> HIDE DEF U
<1>3. s \in [1 .. m -> U]
  BY <1>1, <1>2
<1> QED BY <1>3, SeqDef DEF U

\* What was accepted stays accepted.
LEMMA AcceptedGrows ==
    ASSUME EthInv, NEW e, accepted' = Append(accepted, e)
    PROVE  /\ accepted' \in Seq({accepted'[i] : i \in DOMAIN accepted'})
           /\ \A i \in DOMAIN accepted : i \in DOMAIN accepted' /\ accepted'[i] = accepted[i]
           /\ \E i \in DOMAIN accepted' : accepted'[i] = e
<1> DEFINE S == {accepted[i] : i \in DOMAIN accepted}  T == S \cup {e}
<1>1. accepted \in Seq(S) /\ accepted \in Seq(T)
  BY DEF EthInv
<1> HIDE DEF S, T
<1>2. /\ DOMAIN accepted = 1 .. Len(accepted) /\ Len(accepted) \in Nat
      /\ DOMAIN accepted' = 1 .. (Len(accepted) + 1)
      /\ \A i \in 1 .. Len(accepted) : accepted'[i] = accepted[i]
      /\ accepted'[Len(accepted) + 1] = e
  BY <1>1
<1>3. accepted' \in Seq({accepted'[i] : i \in DOMAIN accepted'})
  <2> DEFINE s == accepted'
  <2>1. s \in Seq(T)
    BY <1>1 DEF T
  <2> HIDE DEF s, T
  <2>2. s \in Seq({s[i] : i \in DOMAIN s})
    BY <2>1, SeqOfItsElements
  <2> QED BY <2>2 DEF s
<1> QED BY <1>2, <1>3

\* A reply that says what the user approved keeps the invariant.
LEMMA ReplyKeepsInv ==
    ASSUME EthInv, accepted' = accepted \/ (\E e : accepted' = Append(accepted, e)),
           NEW r, NEW to, EthReply(r, to), DOMAIN r = ResponseFields, ApprovedIn(accepted', r, to)
    PROVE  EthInv'
<1>1. response' = r /\ answered' = to /\ ethPc' # "review"
  BY DEF EthReply
<1>2. accepted' \in Seq({accepted'[i] : i \in DOMAIN accepted'})
  <2>1. CASE accepted' = accepted
    BY <2>1 DEF EthInv
  <2>2. CASE \E e : accepted' = Append(accepted, e)
    BY <2>2, AcceptedGrows
  <2> QED BY <2>1, <2>2
<1>3. ApprovedByTheUser'
  BY <1>1 DEF ApprovedIn, ApprovedByTheUser
<1> QED BY <1>1, <1>2, <1>3 DEF EthInv

\* No reply, and nothing accepted: the invariant is about what was there before.
LEMMA ReviewKeepsInv ==
    ASSUME EthInv, UNCHANGED <<response, answered, accepted>>,
           ethPc' = "review" => ethRequest'.kind \in {"get_pubkey", "sign_tx", "sign_eip712"}
    PROVE  EthInv'
BY DEF EthInv, ApprovedByTheUser

\* An error says nothing.
LEMMA FailsKeepsInv ==
    ASSUME EthInv, Fails, accepted' = accepted \/ (\E e : accepted' = Append(accepted, e))
    PROVE  EthInv'
<1>1. EthReply(ErrorResponse, Nothing)
  BY DEF Fails
<1>2. DOMAIN ErrorResponse = ResponseFields /\ ErrorResponse.kind = "error"
  BY DEF ErrorResponse, ResponseFields
<1>3. ApprovedIn(accepted', ErrorResponse, Nothing)
  BY <1>2 DEF ApprovedIn
<1> QED BY <1>1, <1>2, <1>3, ReplyKeepsInv

\* What a new response keeps of the last one (Leftovers).
LEMMA LeftoversKept ==
    ASSUME EthInv, NEW kind
    PROVE  /\ DOMAIN Leftovers(kind) = ResponseFields /\ Leftovers(kind).kind = kind
           /\ \/ Leftovers(kind) = response
              \/ Leftovers(kind).of = Leftover
BY DEF EthInv, Leftovers, ResponseFields

LEMMA PubkeyAnswer ==
    ASSUME EthInv, NEW r, NEW approved
    PROVE  LET p == PubkeyResponse(r, approved)
           IN  /\ DOMAIN p = ResponseFields /\ p.kind = "get_pubkey" /\ p.approved = approved
               /\ approved = "yes" => p.of = <<"key", r.path>>
<1> DEFINE l == Leftovers("get_pubkey")
<1>1. DOMAIN l = ResponseFields /\ l.kind = "get_pubkey"
  BY LeftoversKept
<1> HIDE DEF l
<1>2. PubkeyResponse(r, approved) =
        LET base == [l EXCEPT !.approved = approved]
            key  == IF approved = "yes" THEN [base EXCEPT !.of = <<"key", r.path>>] ELSE base
        IN  IF approved = "yes" /\ r.get_chain_code
            THEN [key EXCEPT !.chain_code = <<"chain_code", r.path>>] ELSE key
  BY Zenon DEF PubkeyResponse, l
<1> QED BY <1>1, <1>2 DEF ResponseFields

\* The user accepts what is under review.
LEMMA AcceptKeepsInv == EthInv /\ UserAcceptsEth => EthInv'
<1> SUFFICES ASSUME EthInv, UserAcceptsEth PROVE EthInv'
  OBVIOUS
<1> DEFINE e == [request |-> ethRequest, shown |-> ethScreen, hash |-> SignedHash]
           hash == SignedHash
<1>1. accepted' = Append(accepted, e)
  BY Zenon DEF UserAcceptsEth
<1>2. PICK j \in DOMAIN accepted' : accepted'[j] = e
  BY <1>1, AcceptedGrows
<1>3. accepted'[j].request = ethRequest /\ accepted'[j].hash = hash
  BY <1>2
<1>4. ethRequest.kind \in {"get_pubkey", "sign_tx", "sign_eip712"}
  BY DEF UserAcceptsEth, EthInv
<1> HIDE DEF e, hash
<1>5. CASE ethRequest.kind = "get_pubkey"
  <2> DEFINE p == PubkeyResponse(ethRequest, "yes")
  <2>1. EthReply(p, ethRequest)
    BY <1>5 DEF UserAcceptsEth
  <2>2. /\ DOMAIN p = ResponseFields /\ p.kind = "get_pubkey"
        /\ p.of = <<"key", ethRequest.path>>
    BY PubkeyAnswer
  <2> HIDE DEF p
  <2>3. ApprovedIn(accepted', p, ethRequest)
    <3>1. /\ p.kind # "sign_tx" /\ p.of = <<"key", ethRequest.path>>
          /\ \E i \in DOMAIN accepted' : accepted'[i].request = ethRequest
      BY <1>3, <2>2
    <3> QED BY <3>1 DEF ApprovedIn
  <2> QED BY <1>1, <2>1, <2>2, <2>3, ReplyKeepsInv
<1>6. CASE ethRequest.kind = "sign_tx"
  <2> DEFINE base == [Leftovers("sign_tx") EXCEPT !.approved = "yes"]
             r == [base EXCEPT !.of = hash]
  <2>1. EthReply(r, ethRequest) \/ Fails
    BY <1>6 DEF UserAcceptsEth, SignAndReply, hash
  <2>2. hash = <<"tx", ethRequest.raw_tx>>
    BY <1>6 DEF SignedHash, hash
  <2>3. DOMAIN r = ResponseFields /\ r.kind = "sign_tx" /\ r.of = hash
    BY LeftoversKept DEF ResponseFields
  <2> HIDE DEF r
  <2>4. ApprovedIn(accepted', r, ethRequest)
    <3>1. /\ r.kind # "get_pubkey" /\ r.of = <<"tx", ethRequest.raw_tx>>
          /\ \E i \in DOMAIN accepted' : accepted'[i].hash = r.of
      BY <1>3, <2>2, <2>3
    <3> QED BY <3>1 DEF ApprovedIn
  <2> QED BY <1>1, <2>1, <2>3, <2>4, ReplyKeepsInv, FailsKeepsInv
<1>7. CASE ethRequest.kind = "sign_eip712"
  <2> DEFINE r == [Leftovers("sign_eip712") EXCEPT !.of = hash]
  <2>1. EthReply(r, Nothing) \/ Fails \/ Dies
    BY <1>7 DEF UserAcceptsEth, SignAndReply, hash
  <2>2. DOMAIN r = ResponseFields /\ r.kind = "sign_eip712"
    BY LeftoversKept DEF ResponseFields
  <2> HIDE DEF r
  <2>3. ApprovedIn(accepted', r, Nothing)
    <3>1. r.kind # "get_pubkey" /\ r.kind # "sign_tx"
      BY <2>2
    <3> QED BY <3>1 DEF ApprovedIn
  <2>4. CASE Dies
    <3>1. ethPc' # "review" /\ response' = response /\ answered' = answered
      BY <2>4 DEF Dies
    <3>2. DOMAIN response' = ResponseFields /\ ApprovedIn(accepted, response, answered)
      BY <3>1 DEF EthInv, ApprovedByTheUser, ApprovedIn
    <3>3. \A i \in DOMAIN accepted : i \in DOMAIN accepted' /\ accepted'[i] = accepted[i]
      BY <1>1, AcceptedGrows
    <3>4. ApprovedByTheUser'
      BY <3>1, <3>2, <3>3, Zenon DEF ApprovedByTheUser, ApprovedIn
    <3>5. accepted' \in Seq({accepted'[i] : i \in DOMAIN accepted'})
      BY <1>1, AcceptedGrows
    <3> QED BY <3>1, <3>2, <3>4, <3>5 DEF EthInv
  <2> QED BY <1>1, <2>1, <2>2, <2>3, <2>4, ReplyKeepsInv, FailsKeepsInv
<1> QED BY <1>4, <1>5, <1>6, <1>7

\* The user rejects what is under review: no signature is left, but one accepted earlier.
LEMMA RejectKeepsInv == EthInv /\ UserRejectsEth => EthInv'
<1> SUFFICES ASSUME EthInv, UserRejectsEth PROVE EthInv'
  OBVIOUS
<1>1. accepted' = accepted /\ ethRequest.kind \in {"get_pubkey", "sign_tx", "sign_eip712"}
  BY DEF UserRejectsEth, EthInv
<1>2. CASE ethRequest.kind = "get_pubkey"
  <2> DEFINE p == PubkeyResponse(ethRequest, "no")
  <2>1. EthReply(p, ethRequest)
    BY <1>2 DEF UserRejectsEth
  <2>2. DOMAIN p = ResponseFields /\ p.kind = "get_pubkey" /\ p.approved = "no"
    BY PubkeyAnswer
  <2> HIDE DEF p
  <2>3. ApprovedIn(accepted', p, ethRequest)
    BY <2>2 DEF ApprovedIn
  <2> QED BY <1>1, <2>1, <2>2, <2>3, ReplyKeepsInv
<1>3. CASE ethRequest.kind = "sign_tx"
  <2> DEFINE l == Leftovers("sign_tx")  r == RejectedTx(ethRequest)
  <2>1. EthReply(r, ethRequest)
    BY <1>3 DEF UserRejectsEth
  <2>2. DOMAIN l = ResponseFields /\ l.kind = "sign_tx" /\ (l = response \/ l.of = Leftover)
    BY LeftoversKept
  <2>3. r = [l EXCEPT !.approved = "no"]
    BY Zenon DEF RejectedTx
  <2> HIDE DEF l, r
  <2>4. /\ DOMAIN r = ResponseFields /\ r.kind = "sign_tx" /\ r.approved = "no"
        /\ r.of = l.of
    BY <2>2, <2>3 DEF ResponseFields
  <2>5. r.of # Leftover => \E i \in DOMAIN accepted' : accepted'[i].hash = r.of
    BY <1>1, <2>2, <2>4 DEF EthInv, ApprovedByTheUser
  <2>6. ApprovedIn(accepted', r, ethRequest)
    BY <2>4, <2>5 DEF ApprovedIn
  <2> QED BY <1>1, <2>1, <2>4, <2>6, ReplyKeepsInv
<1>4. CASE ethRequest.kind = "sign_eip712"
  BY <1>1, <1>4, FailsKeepsInv DEF UserRejectsEth
<1> QED BY <1>1, <1>2, <1>3, <1>4

\* A request is answered, refused, or shown to the user.
LEMMA ServeKeepsInv ==
    ASSUME EthInv, NEW r, Serve(r)
    PROVE  EthInv'
<1>1. CASE EthOther(r)
  <2>1. PICK kind \in {"get_version", "error"} :
            EthReply([ErrorResponse EXCEPT !.kind = kind], Nothing)
    BY <1>1 DEF EthOther
  <2> DEFINE p == [ErrorResponse EXCEPT !.kind = kind]
  <2>2. DOMAIN p = ResponseFields /\ p.kind \in {"get_version", "error"}
    BY DEF ErrorResponse, ResponseFields
  <2> HIDE DEF p
  <2>3. ApprovedIn(accepted', p, Nothing)
    BY <2>2 DEF ApprovedIn
  <2>4. EthReply(p, Nothing) /\ accepted' = accepted
    BY <1>1, <2>1 DEF EthOther, p
  <2> QED BY <2>2, <2>3, <2>4, ReplyKeepsInv
<1>2. CASE GetPubkey(r)
  <2> DEFINE p == PubkeyResponse(r, "yes")
  <2>1. accepted' = accepted
    BY <1>2 DEF GetPubkey
  <2>2. /\ DOMAIN p = ResponseFields /\ p.kind = "get_pubkey"
        /\ p.of = <<"key", r.path>>
    BY PubkeyAnswer
  <2> HIDE DEF p
  <2>3. CASE Fails
    BY <2>1, <2>3, FailsKeepsInv
  <2>4. CASE ~r.confirm /\ EthReply(p, r)
    <3>1. ApprovedIn(accepted', p, r)
      BY <2>2, <2>4 DEF ApprovedIn
    <3> QED BY <2>1, <2>2, <2>4, <3>1, ReplyKeepsInv
  <2>5. CASE r.confirm /\ Review(r, [address |-> r.path])
    BY <1>2, <2>1, <2>5, ReviewKeepsInv DEF Review, GetPubkey, Receive
  <2> QED BY <1>2, <2>3, <2>4, <2>5 DEF GetPubkey, p
<1>3. CASE SignTx(r)
  <2>1. accepted' = accepted /\ r.kind = "sign_tx"
    BY <1>3 DEF SignTx, Receive
  <2>2. Fails \/ Dies \/ Review(r, TxScreen(r))
    BY <1>3 DEF SignTx
  <2>3. CASE Fails
    BY <2>1, <2>3, FailsKeepsInv
  <2>4. CASE Dies
    BY <2>1, <2>4, ReviewKeepsInv DEF Dies
  <2>5. CASE Review(r, TxScreen(r))
    BY <2>1, <2>5, ReviewKeepsInv DEF Review
  <2> QED BY <2>2, <2>3, <2>4, <2>5
<1>4. CASE SignMessage(r)
  <2> DEFINE p == [Leftovers("sign_msg") EXCEPT !.of = <<"message", r.message>>]
  <2>1. accepted' = accepted
    BY <1>4 DEF SignMessage
  <2>2. DOMAIN p = ResponseFields /\ p.kind = "sign_msg"
    BY LeftoversKept DEF ResponseFields
  <2>3. EthReply(p, Nothing) \/ Fails
    BY <1>4 DEF SignMessage, SignAndReply
  <2> HIDE DEF p
  <2>4. ApprovedIn(accepted', p, Nothing)
    BY <2>2 DEF ApprovedIn
  <2> QED BY <2>1, <2>2, <2>3, <2>4, ReplyKeepsInv, FailsKeepsInv
<1>5. CASE SignEip712(r)
  <2> DEFINE x == extract_fields(Received(members), r.domain, r.tokens)
             screen2 == ScreenOf(x.members, r.domain)
  <2>1. accepted' = accepted /\ r.kind = "sign_eip712"
    BY <1>5, Zenon DEF SignEip712, Receive
  <2>2. Fails \/ Dies \/ Review(r, screen2)
    BY <1>5, Zenon DEF SignEip712
  <2> HIDE DEF screen2
  <2>3. CASE Fails
    BY <2>1, <2>3, FailsKeepsInv
  <2>4. CASE Dies
    BY <2>1, <2>4, ReviewKeepsInv DEF Dies
  <2>5. CASE Review(r, screen2)
    BY <2>1, <2>5, ReviewKeepsInv DEF Review
  <2> QED BY <2>2, <2>3, <2>4, <2>5
<1> QED BY <1>1, <1>2, <1>3, <1>4, <1>5 DEF Serve

LEMMA EthStep ==
    ASSUME NEW requests, EthInv, [EthNext(requests)]_ethVars
    PROVE  EthInv'
<1>1. CASE \E r \in requests : Serve(r)
  BY <1>1, ServeKeepsInv
<1>2. CASE UserAcceptsEth
  BY <1>2, AcceptKeepsInv
<1>3. CASE UserRejectsEth
  BY <1>3, RejectKeepsInv
<1>4. CASE EthStart
  <2>1. /\ ethPc' = "idle" /\ response' = ErrorResponse /\ answered' = Nothing
        /\ accepted' = accepted
    BY <1>4 DEF EthStart
  <2> QED BY <2>1 DEF EthInv, ApprovedByTheUser, ErrorResponse, ResponseFields
<1>5. CASE UNCHANGED ethVars
  BY <1>5, ReviewKeepsInv DEF ethVars, EthInv
<1> QED BY <1>1, <1>2, <1>3, <1>4, <1>5 DEF EthNext

\* A response of the Ethereum app that says approved, and a signature in any response, is for
\* a request the user accepted, for every set of requests, although the response is never
\* cleared (handle_get_pubkey, handle_sign_tx).
THEOREM ApprovalInvariance ==
    ASSUME NEW CONSTANT requests
    PROVE  EthInit /\ [][EthNext(requests)]_ethVars => []ApprovedByTheUser
<1>1. EthInit => EthInv
  BY DEF EthInit, EthInv, ApprovedByTheUser, ErrorResponse, ResponseFields
<1>2. EthInv => ApprovedByTheUser
  BY DEF EthInv
<1>3. EthInv /\ [EthNext(requests)]_ethVars => EthInv'
  BY EthStep
<1> QED BY <1>1, <1>2, <1>3, PTL
-----------------------------------------------------------------------------
(* The messages the Ethereum app signs.  The members are found in the lists *)
(* of fields (PlaceOfMember), a plain message leaves in them what it says,  *)
(* whatever they were before (PlainIsEncoded), and nothing changes them     *)
(* while the user reads.                                                    *)

LEMMA LeastNumber ==
    ASSUME NEW S \in SUBSET Nat, S # {}
    PROVE  Min(S) \in S /\ \A y \in S : Min(S) =< y
<1> DEFINE R == OpToRel(<, Nat)
<1>1. IsWellFoundedOn(R, Nat)
    BY NatLessThanWellFounded, Zenon
<1>2. \A x, y \in Nat : y < x => <<y, x>> \in R
    BY DEF OpToRel
<1> HIDE DEF R
<1>3. PICK x \in S : \A y \in S : ~ (<<y, x>> \in R)
    BY <1>1, WFMin
<1>4. ASSUME NEW y \in S PROVE x =< y
    <2>1. x \in Nat /\ y \in Nat
        OBVIOUS
    <2>2. ~(y < x)
        BY <1>2, <1>3, <2>1, Zenon
    <2> QED BY <2>1, <2>2
<1>5. Min(S) = CHOOSE z \in S : \A y \in S : z =< y
    BY Zenon DEF Min
<1> QED BY <1>4, <1>5, Zenon

MailNames == {"from_name", "from_wallet", "to_name", "to_wallet", "contents"}

LEMMA MailMembers ==
    /\ Len(mail_members) = 5 /\ DOMAIN mail_members = 1 .. 5
    /\ MembersOf["mail"] = MailNames
    /\ \A i \in 1 .. 5 : /\ mail_members[i][1] \in MailNames
                       /\ mail_members[i][2].type \in {"string", "address"}
<1>1. Len(mail_members) = 5 /\ DOMAIN mail_members = 1 .. 5
    BY DEF mail_members
<1>2. \A i \in 1 .. 5 : /\ mail_members[i][1] \in MailNames
                       /\ mail_members[i][2].type \in {"string", "address"}
    BY DEF mail_members, MailNames
<1>3. MembersOf["mail"] = {mail_members[i][1] : i \in 1 .. 5}
    BY <1>1 DEF MembersOf
<1>4. {mail_members[i][1] : i \in 1 .. 5} = MailNames
    BY DEF mail_members, MailNames
<1> QED BY <1>1, <1>2, <1>3, <1>4

LEMMA OrderMembers ==
    /\ Len(order_members) = 24 /\ DOMAIN order_members = 1 .. 24
    /\ MembersOf["opensea"] = {order_members[i][1] : i \in 1 .. 24}
    /\ \A i, j \in 1 .. 24 : order_members[i][1] = order_members[j][1] => i = j
    /\ \A i \in 1 .. 24 :
            /\ order_members[i][1] \notin MailNames
            /\ order_members[i][2].type \in {"address", "uint", "bytes"}
            /\ order_members[i][2].type = "uint" => order_members[i][2].count \in {1, UintBytes}
            /\ order_members[i][1] = "basePrice" => order_members[i][2].count = UintBytes
            /\ order_members[i][1] \in {"maker", "taker", "feeRecipient"} =>
                    order_members[i][2].type = "address"
    /\ {"maker", "taker", "feeRecipient", "basePrice"} \subseteq MembersOf["opensea"]
<1>1. Len(order_members) = 24 /\ DOMAIN order_members = 1 .. 24
    BY DEF order_members
<1>2. \A i \in 1 .. 24 :
            /\ order_members[i][1] \notin MailNames
            /\ order_members[i][2].type \in {"address", "uint", "bytes"}
            /\ order_members[i][2].type = "uint" => order_members[i][2].count \in {1, UintBytes}
            /\ order_members[i][1] = "basePrice" => order_members[i][2].count = UintBytes
            /\ order_members[i][1] \in {"maker", "taker", "feeRecipient"} =>
                    order_members[i][2].type = "address"
    BY DEF order_members, MailNames
<1>3. \A i, j \in 1 .. 24 : order_members[i][1] = order_members[j][1] => i = j
    BY DEF order_members
<1>4. MembersOf["opensea"] = {order_members[i][1] : i \in 1 .. 24}
    BY <1>1 DEF MembersOf
<1>5. /\ order_members[2][1] = "maker" /\ order_members[3][1] = "taker"
      /\ order_members[8][1] = "feeRecipient" /\ order_members[19][1] = "basePrice"
    BY DEF order_members
<1>6. \A i \in {2, 3, 8, 19} : order_members[i][1] \in MembersOf["opensea"]
    BY <1>4
<1>7. {"maker", "taker", "feeRecipient", "basePrice"} \subseteq MembersOf["opensea"]
    BY <1>5, <1>6
<1> QED BY <1>1, <1>2, <1>3, <1>4, <1>7, Zenon

LEMMA OrderFields ==
    /\ Len(order_fields) = 48 /\ DOMAIN order_fields = 1 .. 48
    /\ \A i \in 1 .. 24 : order_fields[2 * i] = Member(order_members[i][1])
    /\ \A i \in 1 .. 48 : order_fields[i].field = "value" => \E k \in 1 .. 24 : i = 2 * k
<1>1. order_fields = [i \in 1 .. 48 |->
                        IF i % 2 = 1 THEN Key(order_members[(i + 1) \div 2][1])
                        ELSE Member(order_members[(i + 1) \div 2][1])]
    BY OrderMembers DEF order_fields
<1>2. Len(order_fields) = 48 /\ DOMAIN order_fields = 1 .. 48
    BY <1>1
<1>3. ASSUME NEW i \in 1 .. 24 PROVE order_fields[2 * i] = Member(order_members[i][1])
    <2>1. 2 * i \in 1 .. 48 /\ (2 * i) % 2 = 0 /\ (2 * i + 1) \div 2 = i
        OBVIOUS
    <2> QED BY <1>1, <2>1
<1>4. ASSUME NEW i \in 1 .. 48, order_fields[i].field = "value"
      PROVE  \E k \in 1 .. 24 : i = 2 * k
    <2>1. i % 2 # 1
        BY <1>1, <1>4 DEF Key, Member
    <2>2. (i + 1) \div 2 \in 1 .. 24 /\ i = 2 * ((i + 1) \div 2)
        BY <2>1
    <2> QED BY <2>2, Zenon
<1> QED BY <1>2, <1>3, <1>4

\* The field with the value of a member, in either structure.
LEMMA PlaceOfMember ==
    ASSUME NEW d \in Domains, NEW m \in MembersOf[d]
    PROVE  \E k \in 1 .. Len(FieldsOf[d]) :
                \A i \in 1 .. Len(FieldsOf[d]) : FieldsOf[d][i] = Member(m) <=> i = k
<1>1. CASE d = "mail"
    <2>1. FieldsOf[d] = mail_fields
        BY <1>1 DEF FieldsOf
    <2>2. m \in {"from_name", "from_wallet", "to_name", "to_wallet", "contents"}
        BY <1>1, MailMembers DEF MailNames
    <2>3. /\ Len(mail_fields) = 14
          /\ \A i \in 1 .. 14 :
                /\ (mail_fields[i] = Member("from_name") <=> i = 4)
                /\ (mail_fields[i] = Member("from_wallet") <=> i = 6)
                /\ (mail_fields[i] = Member("to_name") <=> i = 10)
                /\ (mail_fields[i] = Member("to_wallet") <=> i = 12)
                /\ (mail_fields[i] = Member("contents") <=> i = 14)
        BY DEF mail_fields, Member, Key, Other
    <2>4. ASSUME m = "from_name"
          PROVE  \E k \in 1 .. 14 : \A i \in 1 .. 14 : mail_fields[i] = Member(m) <=> i = k
        <3>1. 4 \in 1 .. 14
            OBVIOUS
        <3>2. \A i \in 1 .. 14 : mail_fields[i] = Member(m) <=> i = 4
            BY <2>3, <2>4, Zenon
        <3> QED BY <3>1, <3>2, Zenon
    <2>5. ASSUME m = "from_wallet"
          PROVE  \E k \in 1 .. 14 : \A i \in 1 .. 14 : mail_fields[i] = Member(m) <=> i = k
        <3>1. 6 \in 1 .. 14
            OBVIOUS
        <3>2. \A i \in 1 .. 14 : mail_fields[i] = Member(m) <=> i = 6
            BY <2>3, <2>5, Zenon
        <3> QED BY <3>1, <3>2, Zenon
    <2>6. ASSUME m = "to_name"
          PROVE  \E k \in 1 .. 14 : \A i \in 1 .. 14 : mail_fields[i] = Member(m) <=> i = k
        <3>1. 10 \in 1 .. 14
            OBVIOUS
        <3>2. \A i \in 1 .. 14 : mail_fields[i] = Member(m) <=> i = 10
            BY <2>3, <2>6, Zenon
        <3> QED BY <3>1, <3>2, Zenon
    <2>7. ASSUME m = "to_wallet"
          PROVE  \E k \in 1 .. 14 : \A i \in 1 .. 14 : mail_fields[i] = Member(m) <=> i = k
        <3>1. 12 \in 1 .. 14
            OBVIOUS
        <3>2. \A i \in 1 .. 14 : mail_fields[i] = Member(m) <=> i = 12
            BY <2>3, <2>7, Zenon
        <3> QED BY <3>1, <3>2, Zenon
    <2>8. ASSUME m = "contents"
          PROVE  \E k \in 1 .. 14 : \A i \in 1 .. 14 : mail_fields[i] = Member(m) <=> i = k
        <3>1. 14 \in 1 .. 14
            OBVIOUS
        <3>2. \A i \in 1 .. 14 : mail_fields[i] = Member(m) <=> i = 14
            BY <2>3, <2>8, Zenon
        <3> QED BY <3>1, <3>2, Zenon
    <2>9. \E k \in 1 .. 14 : \A i \in 1 .. 14 : mail_fields[i] = Member(m) <=> i = k
        BY <2>2, <2>4, <2>5, <2>6, <2>7, <2>8
    <2>10. FieldsOf[d] = mail_fields /\ 1 .. Len(FieldsOf[d]) = 1 .. 14
        BY <2>1, <2>3
    <2>11. PICK k \in 1 .. 14 : \A i \in 1 .. 14 : mail_fields[i] = Member(m) <=> i = k
        BY <2>9, Zenon
    <2>12. k \in 1 .. Len(FieldsOf[d])
        BY <2>10
    <2>13. ASSUME NEW i \in 1 .. Len(FieldsOf[d])
           PROVE  FieldsOf[d][i] = Member(m) <=> i = k
        <3>1. i \in 1 .. 14 /\ FieldsOf[d][i] = mail_fields[i]
            BY <2>10
        <3> QED BY <2>11, <3>1
    <2> QED BY <2>12, <2>13, Zenon
<1>2. CASE d = "opensea"
    <2>1. FieldsOf[d] = order_fields
        BY <1>2 DEF FieldsOf
    <2>2. PICK k \in 1 .. 24 : m = order_members[k][1]
        BY <1>2, OrderMembers
    <2>3. ASSUME NEW i \in 1 .. 48, order_fields[i] = Member(m) PROVE i = 2 * k
        <3>1. order_fields[i].field = "value"
            BY <2>3 DEF Member
        <3>2. PICK l \in 1 .. 24 : i = 2 * l
            BY <3>1, OrderFields, Zenon
        <3>3. Member(order_members[l][1]) = Member(m)
            BY <2>3, <3>2, OrderFields, Zenon
        <3>4. order_members[l][1] = order_members[k][1]
            BY <2>2, <3>3 DEF Member
        <3>5. l = k
            BY <3>4, OrderMembers, Zenon
        <3> QED BY <3>2, <3>5, Zenon
    <2>4. 2 * k \in 1 .. 48 /\ order_fields[2 * k] = Member(m)
        BY <2>2, OrderFields
    <2> QED BY <2>1, <2>3, <2>4, OrderFields
<1> QED BY <1>1, <1>2 DEF Domains

LEMMA IndexIsPlace ==
    ASSUME NEW d \in Domains, NEW m \in MembersOf[d]
    PROVE  /\ IndexOf[d][m] \in 1 .. Len(FieldsOf[d])
           /\ \A i \in 1 .. Len(FieldsOf[d]) : FieldsOf[d][i] = Member(m) <=> i = IndexOf[d][m]
<1> DEFINE I == {i \in 1 .. Len(FieldsOf[d]) : FieldsOf[d][i] = Member(m)}
<1>1. PICK k \in 1 .. Len(FieldsOf[d]) :
            \A i \in 1 .. Len(FieldsOf[d]) : FieldsOf[d][i] = Member(m) <=> i = k
    BY PlaceOfMember
<1>2. I = {k}
    BY <1>1, Zenon
<1>3. IndexOf[d][m] = IF I # {} THEN Min(I) ELSE 0
    BY Zenon DEF IndexOf, SelectInSeq
<1>4. Min(I) = k
    <2>1. k \in Nat
        OBVIOUS
    <2> HIDE DEF I
    <2> QED BY <1>2, <2>1, LeastNumber
<1>5. IndexOf[d][m] = k
    BY <1>2, <1>3, <1>4, Zenon
<1> QED BY <1>1, <1>5

\* The lists of members of both structures, one after the other.
LEMMA AllMembers ==
    /\ DOMAIN MemberSeq = 1 .. 29
    /\ \A i \in 1 .. 29 :
            MemberSeq[i] = IF i =< 5 THEN mail_members[i] ELSE order_members[i - 5]
<1> DEFINE T == {mail_members[i] : i \in 1 .. 5} \cup {order_members[i] : i \in 1 .. 24}
<1>1. mail_members = [i \in 1 .. 5 |-> mail_members[i]]
    BY DEF mail_members
<1>2. order_members = [i \in 1 .. 24 |-> order_members[i]]
    BY DEF order_members
<1>3. mail_members \in [1 .. 5 -> T] /\ order_members \in [1 .. 24 -> T]
    BY <1>1, <1>2
<1> HIDE DEF T
<1>4. mail_members \in Seq(T) /\ order_members \in Seq(T)
    <2>1. 5 \in Nat /\ 24 \in Nat
        OBVIOUS
    <2>2. \A len \in Nat : [1 .. len -> T] \subseteq Seq(T)
        BY SeqDef, Zenon
    <2> QED BY <1>3, <2>1, <2>2, Zenon
<1>5. /\ MemberSeq \in Seq(T) /\ Len(MemberSeq) = 5 + 24
      /\ \A i \in 1 .. (5 + 24) : MemberSeq[i] =
            IF i =< 5 THEN mail_members[i] ELSE order_members[i - 5]
    <2>1. Len(mail_members) = 5 /\ Len(order_members) = 24
        BY MailMembers, OrderMembers
    <2>2. /\ MemberSeq \in Seq(T)
          /\ Len(MemberSeq) = Len(mail_members) + Len(order_members)
          /\ \A i \in 1 .. (Len(mail_members) + Len(order_members)) : MemberSeq[i] =
                IF i =< Len(mail_members) THEN mail_members[i]
                ELSE order_members[i - Len(mail_members)]
        BY <1>4, ConcatProperties, Zenon DEF MemberSeq
    <2> QED BY <2>1, <2>2, Zenon
<1> QED BY <1>5

LEMMA TypesOfMembers ==
    /\ \A d \in Domains : MembersOf[d] \subseteq Members /\ ShownOf[d] \subseteq MembersOf[d]
    /\ \A m \in Members :
            /\ TypeOf[m].type \in {"string", "address", "uint", "bytes"}
            /\ TypeOf[m].type = "uint" => TypeOf[m].count \in {1, UintBytes}
    /\ \A d \in Domains : \A m \in ShownOf[d] : TypeOf[m].type = "uint" => TypeOf[m].count = UintBytes
<1>1. Members = {MemberSeq[i][1] : i \in 1 .. 29}
    BY AllMembers DEF Members
<1>2. ASSUME NEW m \in Members PROVE \E i \in 1 .. 29 : MemberSeq[i][1] = m /\ TypeOf[m] = MemberSeq[i][2]
    <2> DEFINE x == CHOOSE y \in Range(MemberSeq) : y[1] = m
    <2>1. Range(MemberSeq) = {MemberSeq[i] : i \in 1 .. 29}
        BY AllMembers DEF Range
    <2>2. \E y \in Range(MemberSeq) : y[1] = m
        BY <1>1, <2>1
    <2>3. x \in Range(MemberSeq) /\ x[1] = m
        BY <2>2, Zenon
    <2>4. TypeOf[m] = x[2]
        BY Zenon DEF TypeOf
    <2> HIDE DEF x
    <2> QED BY <2>1, <2>3, <2>4
<1>3. ASSUME NEW m \in Members
      PROVE  \/ \E i \in 1 .. 5 : mail_members[i][1] = m /\ TypeOf[m] = mail_members[i][2]
             \/ \E i \in 1 .. 24 : order_members[i][1] = m /\ TypeOf[m] = order_members[i][2]
    <2>1. PICK i \in 1 .. 29 : MemberSeq[i][1] = m /\ TypeOf[m] = MemberSeq[i][2]
        BY <1>2, Zenon
    <2>2. CASE i =< 5
        BY <2>1, <2>2, AllMembers
    <2>3. CASE ~(i =< 5)
        <3>1. MemberSeq[i] = order_members[i - 5] /\ i - 5 \in 1 .. 24
            BY <2>3, AllMembers
        <3> QED BY <2>1, <3>1
    <2> QED BY <2>2, <2>3
<1>4. ASSUME NEW m \in Members
      PROVE  /\ TypeOf[m].type \in {"string", "address", "uint", "bytes"}
             /\ TypeOf[m].type = "uint" => TypeOf[m].count \in {1, UintBytes}
    <2>1. CASE \E i \in 1 .. 5 : mail_members[i][1] = m /\ TypeOf[m] = mail_members[i][2]
        BY <2>1, MailMembers
    <2>2. CASE \E i \in 1 .. 24 : order_members[i][1] = m /\ TypeOf[m] = order_members[i][2]
        <3>1. PICK i \in 1 .. 24 : TypeOf[m] = order_members[i][2]
            BY <2>2
        <3>2. /\ order_members[i][2].type \in {"address", "uint", "bytes"}
              /\ order_members[i][2].type = "uint" => order_members[i][2].count \in {1, UintBytes}
            BY OrderMembers, Zenon
        <3> QED BY <3>1, <3>2
    <2> QED BY <1>3, <2>1, <2>2
<1>5. MembersOf["mail"] \subseteq Members
    <2>1. \A i \in 1 .. 5 : i \in 1 .. 29 /\ MemberSeq[i] = mail_members[i]
        BY AllMembers
    <2> QED BY <1>1, <2>1, MailMembers DEF MembersOf
<1>6. MembersOf["opensea"] \subseteq Members
    <2>1. \A i \in 1 .. 24 : i + 5 \in 1 .. 29 /\ MemberSeq[i + 5] = order_members[i]
        BY AllMembers
    <2>2. MembersOf["opensea"] = {order_members[i][1] : i \in 1 .. 24}
        BY OrderMembers, Zenon
    <2>3. \A i \in 1 .. 24 : order_members[i][1] \in Members
        BY <1>1, <2>1
    <2> QED BY <2>2, <2>3, Zenon
<1>7. /\ ShownOf["mail"] = MailNames
      /\ ShownOf["opensea"] = {"maker", "taker", "feeRecipient", "basePrice"}
    BY MailMembers DEF ShownOf
<1>8. ASSUME NEW m \in MailNames PROVE TypeOf[m].type # "uint"
    <2>1. ~ \E i \in 1 .. 24 : order_members[i][1] = m
        BY OrderMembers, Zenon
    <2>2. m \in Members
        BY <1>5, MailMembers, Zenon
    <2>3. PICK i \in 1 .. 5 : TypeOf[m] = mail_members[i][2]
        BY <1>3, <2>1, <2>2, Zenon
    <2> QED BY <2>3, MailMembers
<1>9. ASSUME NEW m \in ShownOf["opensea"], TypeOf[m].type = "uint" PROVE TypeOf[m].count = UintBytes
    <2>1. m \in Members /\ m \in {"maker", "taker", "feeRecipient", "basePrice"}
        BY <1>6, <1>7, <1>9, OrderMembers
    <2>2. m \notin MailNames
        BY <2>1 DEF MailNames
    <2>3. PICK i \in 1 .. 24 : order_members[i][1] = m /\ TypeOf[m] = order_members[i][2]
        BY <1>3, <2>1, <2>2, MailMembers
    <2> QED BY <1>9, <2>1, <2>3, OrderMembers
<1> QED BY <1>4, <1>5, <1>6, <1>7, <1>8, <1>9, MailMembers, OrderMembers DEF Domains

\* The value of a token for a member.
ValueOf(mem, d, tokens, m) == set_value(m, mem[m], tokens[IndexOf[d][m]].text)

LEMMA Extracted ==
    ASSUME NEW mem, NEW d \in Domains, NEW T, NEW tokens \in Seq(T),
           Len(tokens) = Len(FieldsOf[d])
    PROVE  LET x == extract_fields(mem, d, tokens)
           IN  /\ DOMAIN x.members = Members
               /\ \A m \in Members :
                    x.members[m] \in {mem[m], ValueOf(mem, d, tokens, m).value}
               /\ x.outcome = "ok" =>
                    \A m \in MembersOf[d] :
                        tokens[IndexOf[d][m]].type = "string" =>
                            /\ ValueOf(mem, d, tokens, m).outcome = "ok"
                            /\ x.members[m] = ValueOf(mem, d, tokens, m).value
<1> DEFINE x == extract_fields(mem, d, tokens)
           read(i) == tokens[i].type = "string"
           field(i) == validate_field(FieldsOf[d][i], mem, tokens[i].text)
           list == [i \in DOMAIN tokens |-> i]
           Bad == {i \in 1 .. Len(list) : read(list[i]) /\ field(list[i]).outcome # "ok"}
           failed == IF Bad # {} THEN Min(Bad) ELSE 0
           done == IF failed = 0 THEN Len(tokens) ELSE failed - 1
<1>1. x = [outcome |-> IF failed = 0 THEN "ok" ELSE field(failed).outcome,
           members |-> [m \in Members |->
                        IF m \in MembersOf[d] /\ IndexOf[d][m] =< done /\ read(IndexOf[d][m])
                        THEN field(IndexOf[d][m]).value ELSE mem[m]]]
    BY Zenon DEF extract_fields, SelectInSeq
<1>2. /\ Len(tokens) \in Nat /\ Len(list) = Len(tokens)
      /\ \A i \in 1 .. Len(tokens) : list[i] = i
    OBVIOUS
<1>3. ASSUME NEW m \in MembersOf[d]
      PROVE  /\ IndexOf[d][m] \in 1 .. Len(tokens)
             /\ field(IndexOf[d][m]) = ValueOf(mem, d, tokens, m)
    <2>1. IndexOf[d][m] \in 1 .. Len(FieldsOf[d]) /\ FieldsOf[d][IndexOf[d][m]] = Member(m)
        BY IndexIsPlace
    <2>2. Member(m).field = "value" /\ Member(m).of = m
        BY DEF Member
    <2>3. \A f, text : f.field = "value" => validate_field(f, mem, text) = set_value(f.of, mem[f.of], text)
        BY DEF validate_field
    <2> QED BY <2>1, <2>2, <2>3, Zenon DEF ValueOf
<1> HIDE DEF x, read, field, list, failed
<1>4. /\ x.outcome = IF failed = 0 THEN "ok" ELSE field(failed).outcome
      /\ DOMAIN x.members = Members
      /\ \A m \in Members : x.members[m] =
            IF m \in MembersOf[d] /\ IndexOf[d][m] =< done /\ read(IndexOf[d][m])
            THEN field(IndexOf[d][m]).value ELSE mem[m]
    BY <1>1
<1>5. CASE Bad # {}
    <2>1. Bad \in SUBSET Nat
        OBVIOUS
    <2> HIDE DEF Bad
    <2>2. failed \in Bad
        BY <1>5, <2>1, LeastNumber DEF failed
    <2> USE DEF Bad
    <2>3. failed # 0 /\ field(failed).outcome # "ok"
        BY <1>2, <2>2
    <2>4. x.outcome # "ok"
        BY <1>4, <2>3
    <2> HIDE DEF Bad, done
    <2> QED BY <1>3, <1>4, <2>4 DEF x
<1>6. CASE Bad = {}
    <2>1. failed = 0 /\ done = Len(tokens)
        BY <1>6 DEF failed
    <2>2. \A i \in 1 .. Len(tokens) : read(i) => field(i).outcome = "ok"
        BY <1>2, <1>6
    <2>3. \A m \in MembersOf[d] : IndexOf[d][m] =< Len(tokens)
        BY <1>2, <1>3
    <2> HIDE DEF Bad, done
    <2> QED BY <1>3, <1>4, <2>1, <2>2, <2>3, TypesOfMembers DEF x, read
<1> QED BY <1>5, <1>6

\* A number has the bytes of its text, zeros first, if the text is plain.
Padded(bytes) == [i \in 1 .. UintBytes - Len(bytes) |-> 0] \o bytes
PlainNumber(count, bytes) == IF count = 1 THEN bytes = <<0>> ELSE Len(bytes) = UintBytes

LEMMA PlainNumberIsRead ==
    ASSUME NEW bin, NEW count \in {1, UintBytes}, NEW bytes \in Seq(Nat),
           PlainNumber(count, bytes), count = 1 => \A i \in 2 .. UintBytes : bin[i] = 0
    PROVE  /\ uint_bin(bin, count, bytes)
                = [i \in 1 .. UintBytes - Len(bytes) |-> 0] \o bytes
           /\ count = UintBytes => uint_bin(bin, count, bytes) = bytes
<1> DEFINE U == UintBytes
           len == Len(bytes)
           zeros == [i \in 1 .. U - len |-> 0]
           word == uint_bin(bin, count, bytes)
<1>1. U \in Nat /\ U > 0 /\ len \in Nat
    BY EthAssumption
<1>2. word = [i \in 1 .. U |->
                IF i \in count - len + 1 .. count THEN bytes[i - (count - len)]
                ELSE IF i =< U - count THEN 0 ELSE bin[i]]
    BY Zenon DEF uint_bin
<1>3. CASE len = U
    <2>1. count = U
        BY <1>1, <1>3 DEF PlainNumber
    <2>2. word = [i \in 1 .. U |-> bytes[i]]
        <3> HIDE DEF word, len, U
        <3>1. count - len = 0
            BY <1>1, <1>3, <2>1
        <3>2. ASSUME NEW i \in 1 .. U PROVE i \in count - len + 1 .. count /\ i - (count - len) = i
            BY ONLY <1>1, <1>3, <2>1, <3>1, i \in 1 .. U
        <3> QED BY <1>2, <3>2, Zenon
    <2>3. bytes = [i \in 1 .. U |-> bytes[i]]
        BY <1>3
    <2>4. zeros = <<>>
        BY <1>1, <1>3
    <2>5. <<>> \o bytes = bytes
        OBVIOUS
    <2> QED BY <2>2, <2>3, <2>4, <2>5, Zenon
<1>4. CASE len # U
    <2>1. count = 1 /\ bytes = <<0>> /\ len = 1 /\ U > 1
        <3>1. count = 1 /\ bytes = <<0>>
            BY <1>1, <1>4 DEF PlainNumber
        <3>2. Len(<<0>>) = 1
            OBVIOUS
        <3>3. len = 1
            BY <3>1, <3>2, Zenon
        <3> QED BY <1>1, <1>4, <3>1, <3>3
    <2>2. word = [i \in 1 .. U |-> 0]
        <3>1. ASSUME NEW i \in 1 .. U
              PROVE  (IF i \in count - len + 1 .. count THEN bytes[i - (count - len)]
                      ELSE IF i =< U - count THEN 0 ELSE bin[i]) = 0
            BY <1>1, <2>1
        <3> HIDE DEF word, len, U
        <3> QED BY <1>2, <3>1, Zenon
    <2>3. zeros \o bytes = [i \in 1 .. U |-> 0]
        <3>1. zeros \in Seq(Nat) /\ Len(zeros) = U - 1
            BY <1>1, <2>1
        <3> DEFINE s == zeros \o bytes
        <3> HIDE DEF zeros
        <3>2. /\ s \in Seq(Nat) /\ Len(s) = Len(zeros) + Len(bytes)
              /\ \A i \in 1 .. (Len(zeros) + Len(bytes)) :
                    s[i] = IF i =< Len(zeros) THEN zeros[i] ELSE bytes[i - Len(zeros)]
            BY <3>1, ConcatProperties, Zenon
        <3> HIDE DEF s
        <3>3. Len(zeros) + Len(bytes) = U
            BY <1>1, <2>1, <3>1
        <3>4. ASSUME NEW i \in 1 .. U PROVE s[i] = 0
            <4>1. i =< Len(zeros) => zeros[i] = 0
                BY <1>1, <2>1, <3>1 DEF zeros
            <4>2. ~(i =< Len(zeros)) => i - Len(zeros) = 1
                BY <1>1, <2>1, <3>1
            <4>3. bytes[1] = 0
                BY <2>1
            <4> QED BY <3>2, <3>3, <4>1, <4>2, <4>3, Zenon
        <3>5. s = [i \in 1 .. U |-> s[i]]
            BY <3>2, <3>3
        <3>6. s = [i \in 1 .. U |-> 0]
            BY <3>4, <3>5, Zenon
        <3> QED BY <3>6, Zenon DEF s
    <2>4. count # U
        BY <2>1
    <2> QED BY <2>2, <2>3, <2>4, Zenon
<1> QED BY <1>3, <1>4

\* A request as WellFormed has it.
FormedRequest(r) ==
    /\ r.tokens \in Seq({r.tokens[i] : i \in DOMAIN r.tokens})
    /\ \A i \in DOMAIN r.tokens :
            LET text == r.tokens[i].text
            IN  text = <<text[1], text[2]>> /\ (text[1] = "hex" => text[2] \in Seq(Nat))

\* An integer of one byte is in the first byte of its word; the others are zeros.
ShortNumbers(mem) ==
    \A m \in Members : TypeOf[m].type = "uint" /\ TypeOf[m].count = 1 =>
        \A i \in 2 .. UintBytes : mem[m][2][i] = 0

PlainText(m, text) ==
    /\ text = <<text[1], text[2]>> /\ (text[1] = "hex" => text[2] \in Seq(Nat))
    /\ TypeOf[m].type = "bytes" => text[1] = "hex"
    /\ TypeOf[m].type = "uint" => PlainNumber(TypeOf[m].count, text[2])

\* What it makes of a member.
PlainlyRead(m, text, value) ==
    /\ TypeOf[m].type = "uint" => value = <<"hex", Padded(text[2])>>
    /\ TypeOf[m].type # "uint" \/ TypeOf[m].count = UintBytes => value = text

LEMMA PlainValue ==
    ASSUME NEW mem, ShortNumbers(mem), NEW m \in Members, NEW text, PlainText(m, text),
           set_value(m, mem[m], text).outcome = "ok"
    PROVE  PlainlyRead(m, text, set_value(m, mem[m], text).value)
<1> USE DEF PlainText, PlainlyRead
<1> DEFINE t == TypeOf[m].type
           v == set_value(m, mem[m], text)
<1>1. t \in {"string", "address", "uint", "bytes"}
    BY TypesOfMembers, Zenon
<1>2. CASE t = "string"
    BY <1>2 DEF set_value, Success
<1>3. CASE t = "bytes"
    BY <1>3 DEF set_value, set_bytes, Success
<1>4. CASE t = "address"
    <2>1. v = set_address(mem[m], text)
        BY <1>4 DEF set_value
    <2>2. v = Success(text) \/ v = Failure(mem[m])
        BY <2>1, Zenon DEF set_address
    <2>3. Failure(mem[m]).outcome # "ok" /\ Success(text).value = text
        BY DEF Failure, Success
    <2> QED BY <1>4, <2>2, <2>3
<1>5. CASE t = "uint"
    <2> DEFINE count == TypeOf[m].count
               word == uint_bin(mem[m][2], count, text[2])
    <2>1. v = set_uint_n(mem[m], count, text)
        BY <1>5 DEF set_value
    <2>2. \/ v = Failure(mem[m]) \/ v = Fatal(mem[m])
          \/ text[1] = "hex" /\ v = Success(<<"hex", word>>)
        BY <2>1, Zenon DEF set_uint_n
    <2>3. /\ Failure(mem[m]).outcome # "ok" /\ Fatal(mem[m]).outcome # "ok"
          /\ Success(<<"hex", word>>).value = <<"hex", word>>
        BY DEF Failure, Fatal, Success
    <2>4. text[1] = "hex" /\ v.value = <<"hex", word>> /\ text[2] \in Seq(Nat)
        BY <2>2, <2>3
    <2>5. count \in {1, UintBytes} /\ PlainNumber(count, text[2])
        BY <1>5, TypesOfMembers
    <2>6. count = 1 => \A i \in 2 .. UintBytes : mem[m][2][i] = 0
        BY <1>5, Zenon DEF ShortNumbers
    <2> HIDE DEF v, count
    <2>7. word = Padded(text[2]) /\ (count = UintBytes => word = text[2])
        BY <2>4, <2>5, <2>6, PlainNumberIsRead DEF Padded
    <2> HIDE DEF word
    <2>8. count = UintBytes => v.value = text
        BY <2>4, <2>7
    <2> QED BY <1>5, <2>4, <2>7, <2>8 DEF v, count
<1> QED BY <1>1, <1>2, <1>3, <1>4, <1>5

LEMMA PlainIsEncoded ==
    ASSUME NEW mem, ShortNumbers(mem), NEW r, FormedRequest(r), r.domain \in Domains,
           Len(r.tokens) = Len(FieldsOf[r.domain]), IsPlain(r),
           extract_fields(mem, r.domain, r.tokens).outcome = "ok"
    PROVE  LET x == extract_fields(mem, r.domain, r.tokens)
           IN  /\ hash_struct(x.members, r.domain) = Encoding(r)
               /\ \A m \in ShownOf[r.domain] :
                    ScreenOf(x.members, r.domain)[m] = Shown(m, TextOf(r, m))
<1> DEFINE d == r.domain
           x == extract_fields(mem, d, r.tokens)
           v(m) == set_value(m, mem[m], TextOf(r, m))
<1>1. DOMAIN r.tokens = 1 .. Len(r.tokens)
    BY DEF FormedRequest
<1>2. ASSUME NEW m \in MembersOf[d]
      PROVE  /\ x.members[m] = v(m).value /\ v(m).outcome = "ok"
             /\ TextOf(r, m) = <<TextOf(r, m)[1], TextOf(r, m)[2]>>
             /\ TextOf(r, m)[1] = "hex" => TextOf(r, m)[2] \in Seq(Nat)
    <2> DEFINE k == IndexOf[d][m]
    <2>1. /\ k \in DOMAIN r.tokens
          /\ \A i \in DOMAIN r.tokens : FieldsOf[d][i] = Member(m) <=> i = k
        BY <1>1, IndexIsPlace
    <2>2. TextOf(r, m) = r.tokens[k].text
        <3>1. k = CHOOSE i \in DOMAIN r.tokens : FieldsOf[d][i] = Member(m)
            BY <2>1, Zenon
        <3> QED BY <3>1, Zenon DEF TextOf
    <2>3. r.tokens[k].type = "string"
        <3>1. FieldsOf[d][k].field = "value"
            BY <2>1 DEF Member
        <3> QED BY <2>1, <3>1, Zenon DEF IsPlain
    <2>4. /\ ValueOf(mem, d, r.tokens, m).outcome = "ok"
          /\ x.members[m] = ValueOf(mem, d, r.tokens, m).value
        BY <2>3, Extracted, Zenon DEF FormedRequest
    <2>5. ValueOf(mem, d, r.tokens, m) = v(m)
        BY <2>2, Zenon DEF ValueOf
    <2> QED BY <2>1, <2>2, <2>4, <2>5, Zenon DEF FormedRequest
<1>3. ASSUME NEW m \in MembersOf[d]
      PROVE  /\ encode_data(x.members, m) = Encoding(r)[m]
             /\ TypeOf[m].type # "uint" \/ TypeOf[m].count = UintBytes =>
                    x.members[m] = TextOf(r, m)
    <2> DEFINE text == TextOf(r, m)
               t == TypeOf[m].type
    <2>1. /\ t = "bytes" => text[1] = "hex"
          /\ t = "uint" => PlainNumber(TypeOf[m].count, text[2])
        BY DEF IsPlain, PlainNumber
    <2>2. m \in Members
        BY TypesOfMembers
    <2>3. /\ t = "uint" => x.members[m]
                = <<"hex", Padded(text[2])>>
          /\ t # "uint" \/ TypeOf[m].count = UintBytes => x.members[m] = text
        <3> HIDE DEF text, x
        <3>1. /\ x.members[m] = set_value(m, mem[m], text).value
              /\ set_value(m, mem[m], text).outcome = "ok"
              /\ text = <<text[1], text[2]>> /\ (text[1] = "hex" => text[2] \in Seq(Nat))
            BY <1>2, Zenon DEF text
        <3>2. PlainText(m, text)
            BY <2>1, <3>1, Zenon DEF PlainText
        <3>3. PlainlyRead(m, text, set_value(m, mem[m], text).value)
            BY <2>2, <3>1, <3>2, PlainValue
        <3> QED BY <3>1, <3>3, Zenon DEF PlainlyRead
    <2>4. Encoding(r)[m] = CASE t = "uint" ->
                                <<"hex", Padded(text[2])>>
                             [] t = "address" -> text
                             [] OTHER -> <<"sha3", text>>
        BY Zenon DEF Encoding, Padded
    <2>5. encode_data(x.members, m) = CASE t = "uint" -> x.members[m]
                                        [] t = "address" -> x.members[m]
                                        [] OTHER -> <<"sha3", x.members[m]>>
        BY Zenon DEF encode_data
    <2> HIDE DEF text, x
    <2>6. CASE t = "uint"
        BY <2>3, <2>4, <2>5, <2>6 DEF text
    <2>7. CASE t = "address"
        BY <2>3, <2>4, <2>5, <2>7 DEF text
    <2>8. CASE t # "uint" /\ t # "address"
        BY <2>3, <2>4, <2>5, <2>8 DEF text
    <2> QED BY <2>6, <2>7, <2>8
<1>4. hash_struct(x.members, d) = Encoding(r)
    <2>1. Encoding(r) = [m \in MembersOf[d] |-> Encoding(r)[m]]
        BY Zenon DEF Encoding
    <2> HIDE DEF x
    <2> QED BY <1>3, <2>1, Zenon DEF hash_struct
<1>5. ASSUME NEW m \in ShownOf[d] PROVE ScreenOf(x.members, d)[m] = Shown(m, TextOf(r, m))
    <2>1. /\ m \in MembersOf[d]
          /\ TypeOf[m].type # "uint" \/ TypeOf[m].count = UintBytes
        BY TypesOfMembers
    <2>2. ScreenOf(x.members, d)[m] = Shown(m, x.members[m])
        BY Zenon DEF ScreenOf
    <2> QED BY <1>3, <2>1, <2>2, Zenon
<1> QED BY <1>4, <1>5

LEMMA ShortNumbersKept ==
    ASSUME NEW mem, ShortNumbers(mem), NEW r, FormedRequest(r), r.domain \in Domains,
           Len(r.tokens) = Len(FieldsOf[r.domain])
    PROVE  ShortNumbers(extract_fields(mem, r.domain, r.tokens).members)
<1> DEFINE d == r.domain
           x == extract_fields(mem, d, r.tokens)
<1> SUFFICES ASSUME NEW m \in Members, TypeOf[m].type = "uint", TypeOf[m].count = 1,
                    NEW i \in 2 .. UintBytes
             PROVE  x.members[m][2][i] = 0
    BY DEF ShortNumbers
<1>1. mem[m][2][i] = 0 /\ mem[m][2][UintBytes] = 0
    <2>1. UintBytes \in 2 .. UintBytes
        BY EthAssumption
    <2> QED BY <2>1, Zenon DEF ShortNumbers
<1>2. x.members[m] \in {mem[m], ValueOf(mem, d, r.tokens, m).value}
    BY Extracted, Zenon DEF FormedRequest
<1> DEFINE text == r.tokens[IndexOf[d][m]].text
           word == uint_bin(mem[m][2], 1, text[2])
<1>3. ValueOf(mem, d, r.tokens, m) = set_uint_n(mem[m], 1, text)
    BY DEF ValueOf, set_value
<1>4. /\ Failure(mem[m]).value = mem[m] /\ Fatal(mem[m]).value = mem[m]
      /\ Success(<<"hex", word>>).value = <<"hex", word>>
    BY DEF Failure, Fatal, Success
<1>5. set_uint_n(mem[m], 1, text).value \in {mem[m], <<"hex", word>>}
    BY <1>4, Zenon DEF set_uint_n
<1>6. word[i] = 0
    <2>1. UintBytes \in Nat /\ i \in 1 .. UintBytes /\ ~(i =< 1)
        BY EthAssumption
    <2>2. word[i] = IF i \in 1 - Len(text[2]) + 1 .. 1 THEN text[2][i - (1 - Len(text[2]))]
                    ELSE IF i =< UintBytes - 1 THEN 0 ELSE mem[m][2][i]
        BY <2>1, Zenon DEF uint_bin
    <2>3. i \notin 1 - Len(text[2]) + 1 .. 1
        BY <2>1
    <2> QED BY <1>1, <2>2, <2>3
<1> HIDE DEF word, text, x
<1>7. <<"hex", word>>[2] = word
    OBVIOUS
<1> QED BY <1>1, <1>2, <1>3, <1>5, <1>6, <1>7

\* What is under review is the message, as EIP-712 encodes it.
ReviewsTheMessage ==
    ethPc = "review" /\ ethRequest.kind = "sign_eip712" /\ IsPlain(ethRequest) =>
        /\ hash_struct(members, ethRequest.domain) = Encoding(ethRequest)
        /\ \A m \in ShownOf[ethRequest.domain] : ethScreen[m] = Shown(m, TextOf(ethRequest, m))

MessageInv == ShortNumbers(members) /\ ReviewsTheMessage /\ SignsTheMessage

LEMMA InitialNumbers == ShortNumbers(InitialMembers)
<1> SUFFICES ASSUME NEW m \in Members, TypeOf[m].type = "uint", NEW i \in 2 .. UintBytes
             PROVE  InitialMembers[m][2][i] = 0
    BY DEF ShortNumbers
<1>1. InitialMembers[m] = <<"hex", [j \in 1 .. UintBytes |-> 0]>>
    BY Zenon DEF InitialMembers
<1>2. i \in 1 .. UintBytes
    BY EthAssumption
<1> QED BY <1>1, <1>2

\* Whoever does not touch the members, nor shows a message, keeps the invariant.
LEMMA OtherKeepsMessages ==
    ASSUME MessageInv, UNCHANGED <<members, accepted>>,
           ethPc' # "review" \/ ethRequest'.kind # "sign_eip712"
    PROVE  MessageInv'
BY Zenon DEF MessageInv, ReviewsTheMessage, SignsTheMessage

LEMMA AcceptKeepsMessages == ASSUME EthInv, MessageInv, UserAcceptsEth PROVE MessageInv'
<1> DEFINE e == [request |-> ethRequest, shown |-> ethScreen, hash |-> SignedHash]
<1>1. accepted' = Append(accepted, e) /\ members' = members /\ ethPc = "review"
    BY Zenon DEF UserAcceptsEth
<1>2. ethPc' # "review"
    <2>1. ethRequest.kind \in {"get_pubkey", "sign_tx", "sign_eip712"}
        BY <1>1 DEF EthInv
    <2>2. (\E r, to : EthReply(r, to)) \/ Fails \/ Dies
        BY <2>1 DEF UserAcceptsEth, SignAndReply
    <2> QED BY <2>2 DEF Fails, Dies, EthReply
<1>3. \A i \in DOMAIN accepted' :
            accepted'[i] = e \/ (i \in DOMAIN accepted /\ accepted'[i] = accepted[i])
    <2> DEFINE S == {accepted[i] : i \in DOMAIN accepted}
    <2>1. accepted \in Seq(S)
        BY DEF EthInv
    <2> HIDE DEF S, e
    <2> QED BY <1>1, <2>1
<1>4. e.request = ethRequest /\ e.shown = ethScreen /\ e.hash = SignedHash
    BY Zenon
<1> HIDE DEF e
<1>5. ASSUME ethRequest.kind = "sign_eip712", IsPlain(ethRequest)
      PROVE  /\ SignedHash = <<"eip712", ethRequest.domain, Encoding(ethRequest)>>
             /\ \A m \in ShownOf[ethRequest.domain] : ethScreen[m] = Shown(m, TextOf(ethRequest, m))
    <2>1. SignedHash = <<"eip712", ethRequest.domain, hash_struct(members, ethRequest.domain)>>
        BY <1>5 DEF SignedHash
    <2> QED BY <1>1, <1>5, <2>1, Zenon DEF MessageInv, ReviewsTheMessage
<1>6. SignsTheMessage'
    <2> SUFFICES ASSUME NEW i \in DOMAIN accepted', accepted'[i].request.kind = "sign_eip712",
                        IsPlain(accepted'[i].request)
                 PROVE  /\ accepted'[i].hash = <<"eip712", accepted'[i].request.domain,
                                                  Encoding(accepted'[i].request)>>
                        /\ \A m \in ShownOf[accepted'[i].request.domain] :
                                accepted'[i].shown[m] = Shown(m, TextOf(accepted'[i].request, m))
        BY Zenon DEF SignsTheMessage
    <2>1. CASE accepted'[i] = e
        BY <1>4, <1>5, <2>1, Zenon
    <2>2. CASE i \in DOMAIN accepted /\ accepted'[i] = accepted[i]
        BY <2>2, Zenon DEF MessageInv, SignsTheMessage
    <2> QED BY <1>3, <2>1, <2>2, Zenon
<1> QED BY <1>1, <1>2, <1>6, Zenon DEF MessageInv, ReviewsTheMessage

LEMMA SignKeepsMessages ==
    ASSUME MessageInv, NEW r, FormedRequest(r), SignEip712(r)
    PROVE  MessageInv'
<1> DEFINE mem == Received(members)
           x == extract_fields(mem, r.domain, r.tokens)
<1>1. accepted' = accepted
    BY Zenon DEF SignEip712
<1>2. CASE Fails /\ members' = members
    BY <1>1, <1>2, OtherKeepsMessages DEF Fails, EthReply
<1>3. CASE /\ r.domain \in Domains /\ Len(r.tokens) = Len(FieldsOf[r.domain])
           /\ members' = x.members
           /\ Dies \/ Fails \/ (x.outcome = "ok" /\ Review(r, ScreenOf(x.members, r.domain)))
    <2>1. ShortNumbers(mem)
        BY DEF MessageInv, ShortNumbers, Received
    <2> HIDE DEF mem
    <2>2. ShortNumbers(members')
        BY <1>3, <2>1, ShortNumbersKept
    <2>3. SignsTheMessage'
        BY <1>1, Zenon DEF MessageInv, SignsTheMessage
    <2>4. CASE Dies \/ Fails
        <3>1. ethPc' # "review"
            BY <2>4 DEF Dies, Fails, EthReply
        <3> QED BY <2>2, <2>3, <3>1, Zenon DEF MessageInv, ReviewsTheMessage, ShortNumbers
    <2>5. CASE x.outcome = "ok" /\ Review(r, ScreenOf(x.members, r.domain))
        <3>1. ethRequest' = r /\ ethScreen' = ScreenOf(members', r.domain)
            BY <1>3, <2>5, Zenon DEF Review
        <3>2. ASSUME IsPlain(r)
              PROVE  /\ hash_struct(members', r.domain) = Encoding(r)
                     /\ \A m \in ShownOf[r.domain] : ethScreen'[m] = Shown(m, TextOf(r, m))
            BY <1>3, <2>1, <2>5, <3>1, <3>2, PlainIsEncoded
        <3>3. ReviewsTheMessage'
            BY <3>1, <3>2, Zenon DEF ReviewsTheMessage
        <3> QED BY <2>2, <2>3, <3>3, Zenon DEF MessageInv, ShortNumbers
    <2> QED BY <1>3, <2>4, <2>5
<1> QED BY <1>2, <1>3, Zenon DEF SignEip712

LEMMA MessageStep ==
    ASSUME NEW requests, WellFormed(requests), EthInv, MessageInv, [EthNext(requests)]_ethVars
    PROVE  MessageInv'
<1>1. ASSUME NEW r \in requests, Serve(r) PROVE MessageInv'
    <2>1. CASE SignEip712(r)
        <3>1. r.kind = "sign_eip712"
            BY <2>1, Zenon DEF SignEip712, Receive
        <3>2. FormedRequest(r)
            BY <3>1, Zenon DEF WellFormed, FormedRequest
        <3> QED BY <2>1, <3>2, SignKeepsMessages
    <2>2. CASE EthOther(r)
        BY <2>2, OtherKeepsMessages DEF EthOther, EthReply
    <2>3. CASE GetPubkey(r)
        BY <2>3, OtherKeepsMessages DEF GetPubkey, Fails, EthReply, Review, Receive
    <2>4. CASE SignTx(r)
        BY <2>4, OtherKeepsMessages DEF SignTx, Fails, Dies, EthReply, Review, Receive
    <2>5. CASE SignMessage(r)
        BY <2>5, OtherKeepsMessages DEF SignMessage, SignAndReply, Fails, EthReply
    <2> QED BY <1>1, <2>1, <2>2, <2>3, <2>4, <2>5 DEF Serve
<1>2. CASE UserAcceptsEth
    BY <1>2, AcceptKeepsMessages
<1>3. CASE UserRejectsEth
    <2>1. ethRequest.kind \in {"get_pubkey", "sign_tx", "sign_eip712"}
        BY <1>3 DEF UserRejectsEth, EthInv
    <2>2. (\E r, to : EthReply(r, to)) \/ Fails
        BY <1>3, <2>1 DEF UserRejectsEth
    <2>3. ethPc' # "review"
        BY <2>2 DEF Fails, EthReply
    <2> QED BY <1>3, <2>3, OtherKeepsMessages DEF UserRejectsEth
<1>4. CASE EthStart
    <2>1. members' = InitialMembers /\ ethPc' = "idle" /\ accepted' = accepted
        BY <1>4 DEF EthStart
    <2>2. ShortNumbers(members)'
        BY <2>1, InitialNumbers, Zenon DEF ShortNumbers
    <2>3. ReviewsTheMessage' /\ SignsTheMessage'
        BY <2>1 DEF MessageInv, ReviewsTheMessage, SignsTheMessage
    <2> QED BY <2>2, <2>3 DEF MessageInv
<1>5. CASE UNCHANGED ethVars
    BY <1>5, Zenon DEF ethVars, MessageInv, ReviewsTheMessage, SignsTheMessage
<1> QED BY <1>1, <1>2, <1>3, <1>4, <1>5 DEF EthNext

\* For every set of requests, a plain EIP-712 message that the user accepted is signed as
\* EIP-712 encodes it, and was the one on the screen, as far as the screen shows it (Shown):
\* the members that earlier requests set, or failed to set, are in neither (extract_fields,
\* hash_struct, validate_ui).
THEOREM MessagesAreSigned ==
    ASSUME NEW CONSTANT requests, WellFormed(requests)
    PROVE  EthInit /\ [][EthNext(requests)]_ethVars => []SignsTheMessage
<1>1. EthInit => EthInv /\ MessageInv
    <2> SUFFICES ASSUME EthInit PROVE EthInv /\ MessageInv
        OBVIOUS
    <2>1. EthInv
        BY DEF EthInit, EthInv, ApprovedByTheUser, ErrorResponse, ResponseFields
    <2>2. ShortNumbers(members)
        BY InitialNumbers, Zenon DEF EthInit
    <2>3. ReviewsTheMessage /\ SignsTheMessage
        BY DEF EthInit, ReviewsTheMessage, SignsTheMessage
    <2> QED BY <2>1, <2>2, <2>3 DEF MessageInv
<1>2. MessageInv => SignsTheMessage
    BY DEF MessageInv
<1>3. EthInv /\ MessageInv /\ [EthNext(requests)]_ethVars => EthInv' /\ MessageInv'
    BY EthStep, MessageStep
<1> QED BY <1>1, <1>2, <1>3, PTL
-----------------------------------------------------------------------------
\* Induction on numbers, for sets.
LEMMA SetInduction ==
    ASSUME NEW S \in SUBSET Nat, 0 \in S, \A at \in S : at + 1 \in S
    PROVE  \A at \in Nat : at \in S
<1> DEFINE R == OpToRel(<, Nat)
           Rest == Nat \ S
<1> SUFFICES ASSUME Rest # {} PROVE FALSE
    BY Zenon
<1>1. IsWellFoundedOn(R, Nat)
    BY NatLessThanWellFounded, Zenon
<1>2. \A x, y \in Nat : y < x => <<y, x>> \in R
    BY DEF OpToRel
<1> HIDE DEF R
<1>3. PICK x \in Rest : \A y \in Rest : ~ (<<y, x>> \in R)
    <2>1. Rest \in SUBSET Nat
        OBVIOUS
    <2> HIDE DEF Rest
    <2> QED BY <1>1, <2>1, WFMin
<1>4. x \in Nat /\ x # 0 /\ x \notin S
    BY Zenon
<1>5. x - 1 \in Nat /\ x - 1 < x /\ (x - 1) + 1 = x
    BY <1>4
<1>6. x - 1 \in S
    BY <1>2, <1>3, <1>4, <1>5, Zenon
<1> QED BY <1>4, <1>5, <1>6, Zenon

-----------------------------------------------------------------------------
(* The hash calls.  The invariant: a context that is in use is, in the       *)
(* memory of the app, the state of the hash function after the bytes that    *)
(* were hashed with it, whole blocks compressed and the rest in its block.   *)

HostContexts(c) ==
    [counter : Nat, blen : Nat, block : [1 .. BlockSize[c] -> Nat],
     acc : Seq([1 .. BlockSize[c] -> Nat])]
GuestContexts(c) ==
    [initialized : BOOLEAN, counter : Nat, blen : Nat, block : [1 .. BlockSize[c] -> Nat],
     acc : Seq([1 .. BlockSize[c] -> Nat])]

\* The library has compressed the whole blocks of the first n bytes of m, and keeps the rest.
StateAfter(c, state, m, at) ==
    LET B == BlockSize[c]
    IN  /\ state \in HostContexts(c)
        /\ state.blen < B /\ at = state.counter * B + state.blen
        /\ Len(state.acc) = state.counter
        /\ \A k \in 1 .. state.counter : \A i \in 1 .. B : state.acc[k][i] = m[(k - 1) * B + i]
        /\ \A i \in 1 .. state.blen : state.block[i] = m[state.counter * B + i]

LEMMA Size == ASSUME NEW c \in HashContexts PROVE BlockSize[c] \in Nat /\ BlockSize[c] > 0
BY HashAssumption

LEMMA ByteFollows ==
    ASSUME NEW c \in HashContexts, NEW state, NEW m, NEW at \in Nat, StateAfter(c, state, m, at),
           m[at + 1] \in Nat
    PROVE  StateAfter(c, CxByte(c, state, m[at + 1]), m, at + 1)
<1> DEFINE B == BlockSize[c]
           block == [state.block EXCEPT ![state.blen + 1] = m[at + 1]]
           next == CxByte(c, state, m[at + 1])
<1>1. B \in Nat /\ B > 0
    BY Size
<1>2. /\ state \in HostContexts(c) /\ state.blen < B /\ at = state.counter * B + state.blen
      /\ Len(state.acc) = state.counter
      /\ \A k \in 1 .. state.counter : \A i \in 1 .. B : state.acc[k][i] = m[(k - 1) * B + i]
      /\ \A i \in 1 .. state.blen : state.block[i] = m[state.counter * B + i]
    BY Zenon DEF StateAfter
<1>3. /\ state.counter \in Nat /\ state.blen \in Nat /\ state.block \in [1 .. B -> Nat]
      /\ state.acc \in Seq([1 .. B -> Nat])
      /\ DOMAIN state = {"counter", "blen", "block", "acc"}
    BY <1>2 DEF HostContexts
<1>4. next = IF state.blen + 1 < B
             THEN [state EXCEPT !.block = block, !.blen = state.blen + 1]
             ELSE [counter |-> state.counter + 1, blen |-> 0, block |-> block,
                   acc |-> Append(state.acc, block)]
    BY Zenon DEF CxByte
<1>5. /\ block \in [1 .. B -> Nat]
      /\ block[state.blen + 1] = m[at + 1]
      /\ \A i \in 1 .. state.blen : block[i] = state.block[i]
    <2>1. state.blen + 1 \in 1 .. B /\ \A i \in 1 .. state.blen : i \in 1 .. B /\ i # state.blen + 1
        <3>1. state.blen < B
            BY <1>2, Zenon
        <3> DEFINE kept == state.blen
        <3>2. kept \in Nat /\ kept < B /\ B \in Nat
            BY <1>1, <1>3, <3>1, Zenon
        <3> HIDE DEF B, kept
        <3>3. /\ kept + 1 \in 1 .. B
              /\ \A i \in 1 .. kept : i \in 1 .. B /\ i # kept + 1
            BY ONLY <3>2
        <3> QED BY <3>3, Zenon DEF kept
    <2> HIDE DEF B
    <2>2. block \in [1 .. B -> Nat]
        BY <1>3, <2>1
    <2> QED BY <1>3, <2>1, <2>2
<1> HIDE DEF B, block, next
<1>8. \A i \in 1 .. (state.blen + 1) : block[i] = m[state.counter * B + i]
    <2>1. at + 1 = state.counter * B + (state.blen + 1)
        BY <1>1, <1>2, <1>3
    <2> SUFFICES ASSUME NEW i \in 1 .. (state.blen + 1) PROVE block[i] = m[state.counter * B + i]
        OBVIOUS
    <2>2. i = state.blen + 1 \/ i \in 1 .. state.blen
        BY <1>3
    <2> QED BY <1>2, <1>5, <2>1, <2>2, Zenon
<1>6. CASE state.blen + 1 < B
    <2>1. /\ next = [state EXCEPT !.block = block, !.blen = state.blen + 1]
          /\ next = [counter |-> state.counter, blen |-> state.blen + 1, block |-> block,
                     acc |-> state.acc]
        BY <1>2, <1>4, <1>6 DEF HostContexts
    <2>2. next \in HostContexts(c)
        BY <1>3, <1>5, <2>1 DEF HostContexts, B
    <2>3. at + 1 = state.counter * B + (state.blen + 1)
        BY <1>1, <1>2, <1>3
    <2>5. /\ next.blen = state.blen + 1 /\ next.counter = state.counter /\ next.block = block
          /\ next.acc = state.acc
        BY <2>1
    <2> QED BY <1>2, <1>6, <1>8, <2>2, <2>3, <2>5 DEF StateAfter, next, B
<1>7. CASE ~(state.blen + 1 < B)
    <2>1. next = [counter |-> state.counter + 1, blen |-> 0, block |-> block,
                  acc |-> Append(state.acc, block)]
        BY <1>4, <1>7, Zenon
    <2>2. state.blen + 1 = B
        BY <1>1, <1>2, <1>3, <1>7
    <2>3. /\ Append(state.acc, block) \in Seq([1 .. B -> Nat])
          /\ Len(Append(state.acc, block)) = state.counter + 1
          /\ \A k \in 1 .. state.counter : Append(state.acc, block)[k] = state.acc[k]
          /\ Append(state.acc, block)[state.counter + 1] = block
        BY <1>2, <1>3, <1>5, AppendProperties
    <2>4. next \in HostContexts(c)
        BY <1>3, <1>5, <2>1, <2>3 DEF HostContexts, B
    <2>5. at + 1 = (state.counter + 1) * B + 0
        BY <1>1, <1>2, <1>3, <2>2
    <2>6. \A i \in 1 .. B : block[i] = m[((state.counter + 1) - 1) * B + i]
        <3>1. \A i \in 1 .. B : block[i] = m[state.counter * B + i]
            BY <1>8, <2>2, Zenon
        <3>2. (state.counter + 1) - 1 = state.counter
            BY <1>3
        <3> QED BY <3>1, <3>2
    <2>7. ASSUME NEW k \in 1 .. (state.counter + 1), NEW i \in 1 .. B
          PROVE  Append(state.acc, block)[k][i] = m[(k - 1) * B + i]
        <3>1. CASE k \in 1 .. state.counter
            BY <1>2, <2>3, <3>1
        <3>2. CASE k = state.counter + 1
            BY <2>3, <2>6, <3>2
        <3>3. k \in 1 .. state.counter \/ k = state.counter + 1
            BY <1>3
        <3> QED BY <3>1, <3>2, <3>3
    <2>8. /\ next.blen = 0 /\ next.counter = state.counter + 1 /\ next.block = block
          /\ next.acc = Append(state.acc, block)
        BY <2>1
    <2>9. next.blen < B /\ \A i \in 1 .. next.blen : next.block[i] = m[next.counter * B + i]
        BY <1>1, <2>8
    <2> QED BY <2>3, <2>4, <2>5, <2>7, <2>8, <2>9 DEF StateAfter, next, B
<1> QED BY <1>6, <1>7

\* cx_hash_no_throw, byte by byte.
LEMMA BytesFollow ==
    ASSUME NEW c \in HashContexts, NEW state, NEW m, NEW at \in Nat, StateAfter(c, state, m, at),
           NEW bytes \in Seq(Nat), \A i \in 1 .. Len(bytes) : bytes[i] = m[at + i]
    PROVE  StateAfter(c, CxHash(c, state, bytes), m, at + Len(bytes))
<1> DEFINE Turns(h, N) ==
                \A j \in 0 .. N : h[j] = IF j = 0 THEN state ELSE CxByte(c, h[j - 1], bytes[j])
           Possible == {N \in Nat : \E h : Turns(h, N)}
           Turned(h) == [j \in 0 .. Len(bytes) |->
                            IF j = 0 THEN state ELSE CxByte(c, h[j - 1], bytes[j])]
           after == CHOOSE h : h = Turned(h)
<1>1. Len(bytes) \in Nat /\ \A i \in 1 .. Len(bytes) : bytes[i] \in Nat
    OBVIOUS
<1>2. CxHash(c, state, bytes) = after[Len(bytes)]
    BY Zenon DEF CxHash
<1>3. Len(bytes) \in Possible
    <2>1. 0 \in Possible
        <3>1. Turns([j \in {0} |-> state], 0)
            <4>1. \A j \in 0 .. 0 : j = 0
                OBVIOUS
            <4>2. [j \in {0} |-> state][0] = state
                OBVIOUS
            <4> QED BY <4>1, <4>2, Zenon
        <3> QED BY <3>1, Zenon
    <2>2. ASSUME NEW N \in Possible PROVE N + 1 \in Possible
        <3>1. N \in Nat
            BY Zenon
        <3>2. PICK h : Turns(h, N)
            BY Zenon
        <3> DEFINE g == [j \in 0 .. (N + 1) |->
                            IF j = N + 1 THEN CxByte(c, h[N], bytes[N + 1]) ELSE h[j]]
        <3>3. \A j \in 0 .. (N + 1) :
                g[j] = IF j = N + 1 THEN CxByte(c, h[N], bytes[N + 1]) ELSE h[j]
            BY Zenon
        <3>4. \A j \in 0 .. (N + 1) : j # N + 1 =>
                    j \in 0 .. N /\ (j # 0 => j - 1 \in 0 .. (N + 1) /\ j - 1 # N + 1)
            BY <3>1
        <3>5. /\ N + 1 # 0 /\ (N + 1) - 1 = N /\ N \in 0 .. (N + 1) /\ N # N + 1
              /\ N + 1 \in Nat
            BY <3>1
        <3> HIDE DEF g
        <3>6. ASSUME NEW j \in 0 .. (N + 1)
              PROVE  g[j] = IF j = 0 THEN state ELSE CxByte(c, g[j - 1], bytes[j])
            <4>1. CASE j = N + 1
                BY <3>3, <3>5, <4>1, Zenon
            <4>2. CASE j # N + 1
                BY <3>2, <3>3, <3>4, <4>2, Zenon
            <4> QED BY <4>1, <4>2
        <3>7. Turns(g, N + 1)
            BY <3>6, Zenon
        <3> QED BY <3>5, <3>7, Zenon
    <2>3. Possible \in SUBSET Nat
        BY Zenon
    <2> HIDE DEF Possible
    <2> QED BY <1>1, <2>1, <2>2, <2>3, SetInduction
<1>4. after = Turned(after)
    <2>1. PICK h : Turns(h, Len(bytes))
        BY <1>3, Zenon
    <2> DEFINE t == [j \in 0 .. Len(bytes) |-> h[j]]
    <2>2. \A j \in 0 .. Len(bytes) : t[j] = h[j]
        BY Zenon
    <2>3. \A j \in 0 .. Len(bytes) : j # 0 => j - 1 \in 0 .. Len(bytes)
        BY <1>1
    <2>4. t = [j \in 0 .. Len(bytes) |-> t[j]]
        BY Zenon
    <2> HIDE DEF t
    <2>5. \A j \in 0 .. Len(bytes) :
            t[j] = IF j = 0 THEN state ELSE CxByte(c, t[j - 1], bytes[j])
        BY <2>1, <2>2, <2>3, Zenon
    <2>6. t = Turned(t)
        BY <2>4, <2>5, Zenon
    <2> HIDE DEF Turned
    <2> QED BY <2>6, Zenon
<1>5. \A j \in 0 .. Len(bytes) :
        after[j] = IF j = 0 THEN state ELSE CxByte(c, after[j - 1], bytes[j])
    <2> HIDE DEF after
    <2> QED BY <1>4, Zenon
<1> HIDE DEF after
<1> DEFINE Right == {N \in Nat : N =< Len(bytes) => StateAfter(c, after[N], m, at + N)}
<1>6. 0 \in Right
    <2>1. after[0] = state /\ at + 0 = at
        BY <1>1, <1>5
    <2> QED BY <2>1
<1>7. ASSUME NEW N \in Right PROVE N + 1 \in Right
    <2> SUFFICES ASSUME N + 1 =< Len(bytes) PROVE StateAfter(c, after[N + 1], m, at + (N + 1))
        OBVIOUS
    <2>1. /\ N \in Nat /\ N =< Len(bytes) /\ N + 1 \in 0 .. Len(bytes) /\ N + 1 # 0
          /\ (N + 1) - 1 = N /\ N + 1 \in 1 .. Len(bytes) /\ at + N \in Nat
          /\ at + (N + 1) = (at + N) + 1
        BY <1>1
    <2>2. StateAfter(c, after[N], m, at + N)
        BY <2>1, Zenon
    <2>3. bytes[N + 1] = m[(at + N) + 1] /\ m[(at + N) + 1] \in Nat
        BY <1>1, <2>1
    <2>4. after[N + 1] = CxByte(c, after[N], m[(at + N) + 1])
        BY <1>5, <2>1, <2>3
    <2> HIDE DEF Right
    <2> QED BY <2>1, <2>2, <2>3, <2>4, ByteFollows
<1>8. Len(bytes) \in Right
    <2>1. Right \in SUBSET Nat
        BY Zenon
    <2> HIDE DEF Right
    <2> QED BY <1>1, <1>6, <1>7, <2>1, SetInduction
<1>9. Len(bytes) =< Len(bytes)
    BY <1>1
<1> QED BY <1>2, <1>8, <1>9, Zenon

\* The end of the k-th of the pieces a message is hashed in.
End(offset, m, k) ==
    IF k = 0 THEN 0
    ELSE IF k = Len(Pieces(offset, m)) THEN Len(m)
    ELSE PageBytes - offset + (k - 1) * PageBytes

LEMMA Products ==
    ASSUME NEW a \in Int, NEW b \in Int, a =< b, NEW p \in Nat
    PROVE  a * p =< b * p
OBVIOUS

\* The last piece begins before the end of the message, the others end in it.
LEMMA PieceBounds ==
    ASSUME NEW P \in Nat, P > 0, NEW len \in Nat, len > 0, NEW offset \in Nat, offset < P,
           NEW count, count = (len + offset + P - 1) \div P
    PROVE  /\ count \in Nat /\ count > 0
           /\ \A k \in 1 .. count :
                /\ (k - 1) * P \in Nat /\ (k - 2) * P \in Int
                /\ k = 1 => (k - 1) * P = 0
                /\ k # 1 => (k - 2) * P \in Nat /\ (k - 1) * P = (k - 2) * P + P
                /\ k # count => P - offset + (k - 1) * P =< len
                /\ k = count => (k - 1) * P < len + offset
<1> DEFINE total == len + offset + P - 1
           z == count * P
<1>1. total \in Nat /\ total >= P
    OBVIOUS
<1>2. count \in Int /\ z \in Int /\ z =< total /\ total < z + P
    <2> HIDE DEF total
    <2>1. count = total \div P
        BY DEF total
    <2> QED BY <1>1, <2>1
<1>3. count > 0
    <2> SUFFICES ASSUME count =< 0 PROVE FALSE
        BY <1>2
    <2>1. z =< 0 * P /\ 0 * P = 0
        BY <1>2, Products
    <2> HIDE DEF z, total
    <2> QED BY <1>1, <1>2, <2>1
<1>4. ASSUME NEW k \in 1 .. count
      PROVE  /\ (k - 1) * P \in Nat /\ (k - 2) * P \in Int
             /\ k = 1 => (k - 1) * P = 0
             /\ k # 1 => (k - 2) * P \in Nat /\ (k - 1) * P = (k - 2) * P + P
             /\ k # count => P - offset + (k - 1) * P =< len
             /\ k = count => (k - 1) * P < len + offset
    <2> DEFINE x == (k - 1) * P
               y == (k - 2) * P
    <2>1. k \in Int /\ k >= 1 /\ k =< count
        BY <1>2
    <2>2. x \in Int /\ y \in Int /\ x = y + P
        BY <2>1
    <2>3. x >= 0
        <3>1. 0 * P =< x /\ 0 * P = 0
            BY <2>1, Products
        <3> QED BY <2>2, <3>1
    <2>4. k = 1 => x = 0
        BY <2>1
    <2>5. k # 1 => y >= 0
        <3> SUFFICES ASSUME k # 1 PROVE y >= 0
            OBVIOUS
        <3>1. 0 =< k - 2 /\ k - 2 \in Int
            BY <2>1
        <3>2. 0 * P =< y /\ 0 * P = 0
            BY <3>1, Products
        <3> QED BY <2>2, <3>2
    <2>6. k # count => x =< z - P - P
        <3> SUFFICES ASSUME k # count PROVE x =< z - P - P
            OBVIOUS
        <3>1. k - 1 =< count - 2 /\ k - 1 \in Int /\ count - 2 \in Int
            BY <1>2, <2>1
        <3>2. x =< (count - 2) * P
            BY <3>1, Products
        <3>3. (count - 2) * P = z - P - P
            BY <1>2
        <3> QED BY <3>2, <3>3
    <2>7. k = count => x = z - P
        BY <1>2
    <2> HIDE DEF x, y, z
    <2>8. /\ k # count => P - offset + x =< len
          /\ k = count => x < len + offset
        BY <1>2, <2>2, <2>6, <2>7
    <2> QED BY <2>2, <2>3, <2>4, <2>5, <2>8 DEF x, y
<1> QED BY <1>2, <1>3, <1>4

\* The pieces are the message, one after the other, wherever it begins in its page.
LEMMA PiecesCover ==
    ASSUME NEW offset \in 0 .. PageBytes - 1, NEW m \in Seq(Nat)
    PROVE  /\ Len(Pieces(offset, m)) \in Nat
           /\ End(offset, m, Len(Pieces(offset, m))) = Len(m)
           /\ \A k \in 1 .. Len(Pieces(offset, m)) :
                /\ End(offset, m, k - 1) \in Nat
                /\ Pieces(offset, m)[k] \in Seq(Nat)
                /\ End(offset, m, k) = End(offset, m, k - 1) + Len(Pieces(offset, m)[k])
                /\ End(offset, m, k) =< Len(m)
                /\ \A i \in 1 .. Len(Pieces(offset, m)[k]) :
                        Pieces(offset, m)[k][i] = m[End(offset, m, k - 1) + i]
<1> DEFINE P == PageBytes
           first == P - offset
           count == (Len(m) + offset + P - 1) \div P
           From(k) == IF k = 1 THEN 1 ELSE first + (k - 2) * P + 1
           To(k) == IF k = count THEN Len(m) ELSE first + (k - 1) * P
           pieces == Pieces(offset, m)
<1>1. P \in Nat /\ P > 0 /\ offset \in Nat /\ offset < P /\ Len(m) \in Nat
    BY HashAssumption
<1>2. CASE m = <<>>
    <2>1. pieces = <<>> /\ Len(m) = 0
        BY <1>2 DEF Pieces
    <2> HIDE DEF pieces
    <2>2. Len(pieces) = 0
        BY <2>1
    <2>3. End(offset, m, 0) = 0
        BY DEF End
    <2> QED BY <2>1, <2>2, <2>3 DEF pieces
<1>3. CASE m # <<>>
    <2>1. pieces = [k \in 1 .. count |-> SubSeq(m, From(k), To(k))]
        BY <1>3, Zenon DEF Pieces
    <2>2. Len(m) > 0
        BY <1>1, <1>3
    <2>3. /\ count \in Nat /\ count > 0
          /\ \A k \in 1 .. count :
                /\ (k - 1) * P \in Nat /\ (k - 2) * P \in Int
                /\ k = 1 => (k - 1) * P = 0
                /\ k # 1 => (k - 2) * P \in Nat /\ (k - 1) * P = (k - 2) * P + P
                /\ k # count => P - offset + (k - 1) * P =< Len(m)
                /\ k = count => (k - 1) * P < Len(m) + offset
        <3> HIDE DEF P
        <3> QED BY <1>1, <2>2, PieceBounds
    <2> HIDE DEF count, pieces
    <2>4. /\ Len(pieces) = count
          /\ \A k \in 1 .. count : pieces[k] = SubSeq(m, From(k), To(k))
        <3> HIDE DEF From, To
        <3>1. DOMAIN pieces = 1 .. count
            BY <2>1
        <3>2. \A k \in 1 .. count : pieces[k] = SubSeq(m, From(k), To(k))
            BY <2>1
        <3>3. count \in Nat
            BY <2>3
        <3>4. Len(pieces) = count
            BY ONLY <3>1, <3>3
        <3> QED BY <3>2, <3>4
    <2>5. End(offset, m, count) = Len(m)
        <3>1. End(offset, m, count) = IF count = 0 THEN 0 ELSE Len(m)
            BY <2>4, Zenon DEF End, pieces
        <3> QED BY <2>3, <3>1
    <2>6. ASSUME NEW k \in 1 .. count
          PROVE  /\ End(offset, m, k - 1) \in Nat
                 /\ From(k) = End(offset, m, k - 1) + 1
                 /\ To(k) = End(offset, m, k) /\ End(offset, m, k) \in Int
                 /\ End(offset, m, k - 1) =< End(offset, m, k)
                 /\ End(offset, m, k) =< Len(m)
        <3> DEFINE x == (k - 1) * P
                   y == (k - 2) * P
        <3>1. k # 0 /\ k - 1 # count /\ (k - 1 = 0 <=> k = 1) /\ (k - 1) - 1 = k - 2
            BY <2>3
        <3>2. /\ x \in Nat /\ y \in Int
              /\ k = 1 => x = 0
              /\ k # 1 => y \in Nat /\ x = y + P
              /\ k # count => P - offset + x =< Len(m)
              /\ k = count => x < Len(m) + offset
            BY <2>3, Zenon
        <3>3. To(k) = IF k = count THEN Len(m) ELSE first + x
            BY Zenon
        <3>4. From(k) = IF k = 1 THEN 1 ELSE first + y + 1
            BY Zenon
        <3>5. End(offset, m, k) = IF k = count THEN Len(m) ELSE first + x
            BY <2>4, <3>1, Zenon DEF End, pieces
        <3>6. End(offset, m, k - 1) = IF k = 1 THEN 0 ELSE first + y
            BY <2>4, <3>1, Zenon DEF End, pieces
        <3> HIDE DEF x, y, From, To, P
        <3>7. first \in Int /\ first = P - offset
            BY <1>1
        <3> HIDE DEF first
        <3>8. CASE k = 1
            BY <1>1, <3>2, <3>3, <3>4, <3>5, <3>6, <3>7, <3>8
        <3>9. CASE k # 1
            <4>1. /\ first + y \in Nat /\ first + y =< Len(m) /\ first + y =< first + x
                  /\ first + x \in Int
                BY <1>1, <3>2, <3>7, <3>9
            <4>2. End(offset, m, k - 1) = first + y /\ From(k) = (first + y) + 1
                BY <3>4, <3>6, <3>9, <3>7, <3>2
            <4>3. CASE k = count
                BY <1>1, <3>3, <3>5, <4>1, <4>2, <4>3
            <4>4. CASE k # count
                <5>1. first + x =< Len(m)
                    BY <3>2, <3>7, <4>4
                <5> QED BY <1>1, <3>3, <3>5, <4>1, <4>2, <4>4, <5>1
            <4> QED BY <4>3, <4>4
        <3> QED BY <3>8, <3>9
    <2> HIDE DEF From, To, P
    <2>7. ASSUME NEW k \in 1 .. count
          PROVE  /\ pieces[k] \in Seq(Nat) /\ Len(pieces[k]) \in Nat
                 /\ End(offset, m, k) = End(offset, m, k - 1) + Len(pieces[k])
                 /\ \A i \in 1 .. Len(pieces[k]) :
                        pieces[k][i] = m[End(offset, m, k - 1) + i]
        <3> DEFINE a == End(offset, m, k - 1)
                   b == End(offset, m, k)
        <3>1. pieces[k] = SubSeq(m, From(k), To(k))
            BY <2>4
        <3>2. a \in Nat /\ From(k) = a + 1 /\ To(k) = b /\ a =< b /\ b =< Len(m)
            BY <2>6
        <3>3. b \in Int
            BY <2>6
        <3> HIDE DEF a, b
        <3>4. a + 1 \in Int /\ \A i \in (a + 1) .. b : m[i] \in Nat
            <4> SUFFICES ASSUME NEW i \in (a + 1) .. b PROVE m[i] \in Nat
                BY <3>2
            <4>1. i \in 1 .. Len(m)
                BY <1>1, <3>2, <3>3
            <4> QED BY <4>1
        <3>5. /\ SubSeq(m, a + 1, b) \in Seq(Nat)
              /\ Len(SubSeq(m, a + 1, b)) = IF a + 1 =< b THEN b - (a + 1) + 1 ELSE 0
              /\ \A i \in 1 .. b - (a + 1) + 1 : SubSeq(m, a + 1, b)[i] = m[(a + 1) + i - 1]
            BY <3>3, <3>4, SubSeqProperties
        <3>6. Len(SubSeq(m, a + 1, b)) = b - a
            BY <3>2, <3>3, <3>5
        <3>7. ASSUME NEW i \in 1 .. (b - a) PROVE SubSeq(m, a + 1, b)[i] = m[a + i]
            <4>1. i \in 1 .. b - (a + 1) + 1 /\ (a + 1) + i - 1 = a + i
                BY <3>2, <3>3
            <4> QED BY <3>5, <4>1, Zenon
        <3>8. b - a \in Nat /\ b = a + (b - a)
            BY <3>2, <3>3
        <3> QED BY <3>1, <3>2, <3>5, <3>6, <3>7, <3>8 DEF a, b
    <2>8. /\ Len(pieces) \in Nat /\ End(offset, m, Len(pieces)) = Len(m)
          /\ 1 .. Len(pieces) = 1 .. count
        BY <2>3, <2>4, <2>5
    <2> QED BY <2>6, <2>7, <2>8 DEF pieces
<1> QED BY <1>2, <1>3

\* sys_hash_update, piece by piece.
LEMMA PiecesFollow ==
    ASSUME NEW c \in HashContexts, NEW w, NEW at \in Nat, StateAfter(c, Restored(c), w, at),
           NEW offset \in 0 .. PageBytes - 1, NEW m \in Seq(Nat),
           \A i \in 1 .. Len(m) : m[i] = w[at + i]
    PROVE  StateAfter(c, Updated(c, offset, m), w, at + Len(m))
<1> DEFINE pieces == Pieces(offset, m)
           start == Restored(c)
           Turns(h, N) ==
                \A j \in 0 .. N : h[j] = IF j = 0 THEN start ELSE CxHash(c, h[j - 1], pieces[j])
           Possible == {N \in Nat : \E h : Turns(h, N)}
           Turned(h) == [j \in 0 .. Len(pieces) |->
                            IF j = 0 THEN start ELSE CxHash(c, h[j - 1], pieces[j])]
           after == CHOOSE h : h = Turned(h)
           e(k) == End(offset, m, k)
<1>1. /\ Len(pieces) \in Nat /\ e(Len(pieces)) = Len(m)
      /\ \A k \in 1 .. Len(pieces) :
            /\ e(k - 1) \in Nat /\ pieces[k] \in Seq(Nat)
            /\ e(k) = e(k - 1) + Len(pieces[k]) /\ e(k) =< Len(m)
            /\ \A i \in 1 .. Len(pieces[k]) : pieces[k][i] = m[e(k - 1) + i]
    BY PiecesCover, Zenon
<1>0. Len(pieces) \in Nat
    BY <1>1, Zenon
<1>2. Updated(c, offset, m) = after[Len(pieces)]
    BY Zenon DEF Updated
<1> HIDE DEF pieces, start, e
<1>3. Len(pieces) \in Possible
    <2>1. 0 \in Possible
        <3>1. Turns([j \in {0} |-> start], 0)
            <4>1. \A j \in 0 .. 0 : j = 0
                OBVIOUS
            <4>2. [j \in {0} |-> start][0] = start
                OBVIOUS
            <4> QED BY <4>1, <4>2, Zenon
        <3> QED BY <3>1, Zenon
    <2>2. ASSUME NEW N \in Possible PROVE N + 1 \in Possible
        <3>1. N \in Nat
            BY Zenon
        <3>2. PICK h : Turns(h, N)
            BY Zenon
        <3> DEFINE g == [j \in 0 .. (N + 1) |->
                            IF j = N + 1 THEN CxHash(c, h[N], pieces[N + 1]) ELSE h[j]]
        <3>3. \A j \in 0 .. (N + 1) :
                g[j] = IF j = N + 1 THEN CxHash(c, h[N], pieces[N + 1]) ELSE h[j]
            BY Zenon
        <3>4. \A j \in 0 .. (N + 1) : j # N + 1 =>
                    j \in 0 .. N /\ (j # 0 => j - 1 \in 0 .. (N + 1) /\ j - 1 # N + 1)
            BY <3>1
        <3>5. /\ N + 1 # 0 /\ (N + 1) - 1 = N /\ N \in 0 .. (N + 1) /\ N # N + 1
              /\ N + 1 \in Nat
            BY <3>1
        <3> HIDE DEF g
        <3>6. ASSUME NEW j \in 0 .. (N + 1)
              PROVE  g[j] = IF j = 0 THEN start ELSE CxHash(c, g[j - 1], pieces[j])
            <4>1. CASE j = N + 1
                BY <3>3, <3>5, <4>1, Zenon
            <4>2. CASE j # N + 1
                BY <3>2, <3>3, <3>4, <4>2, Zenon
            <4> QED BY <4>1, <4>2
        <3>7. Turns(g, N + 1)
            BY <3>6, Zenon
        <3> QED BY <3>5, <3>7, Zenon
    <2>3. Possible \in SUBSET Nat
        BY Zenon
    <2> HIDE DEF Possible
    <2> QED BY <1>0, <2>1, <2>2, <2>3, SetInduction
<1>4. after = Turned(after)
    <2>1. PICK h : Turns(h, Len(pieces))
        BY <1>3, Zenon
    <2> DEFINE t == [j \in 0 .. Len(pieces) |-> h[j]]
    <2>2. \A j \in 0 .. Len(pieces) : t[j] = h[j]
        BY Zenon
    <2>3. \A j \in 0 .. Len(pieces) : j # 0 => j - 1 \in 0 .. Len(pieces)
        BY <1>0
    <2>4. t = [j \in 0 .. Len(pieces) |-> t[j]]
        BY Zenon
    <2> HIDE DEF t
    <2>5. \A j \in 0 .. Len(pieces) :
            t[j] = IF j = 0 THEN start ELSE CxHash(c, t[j - 1], pieces[j])
        BY <2>1, <2>2, <2>3, Zenon
    <2>6. t = Turned(t)
        BY <2>4, <2>5, Zenon
    <2> HIDE DEF Turned
    <2> QED BY <2>6, Zenon
<1>5. \A j \in 0 .. Len(pieces) :
        after[j] = IF j = 0 THEN start ELSE CxHash(c, after[j - 1], pieces[j])
    <2> HIDE DEF after
    <2> QED BY <1>4, Zenon
<1> HIDE DEF after
<1> DEFINE Right == {N \in Nat : N =< Len(pieces) => StateAfter(c, after[N], w, at + e(N))}
<1>6. 0 \in Right
    <2>1. after[0] = start /\ e(0) = 0 /\ at + 0 = at
        BY <1>0, <1>5 DEF End, e
    <2> QED BY <2>1 DEF start
<1>7. ASSUME NEW N \in Right PROVE N + 1 \in Right
    <2> SUFFICES ASSUME N + 1 =< Len(pieces) PROVE StateAfter(c, after[N + 1], w, at + e(N + 1))
        OBVIOUS
    <2>1. /\ N \in Nat /\ N =< Len(pieces) /\ N + 1 \in 0 .. Len(pieces) /\ N + 1 # 0
          /\ (N + 1) - 1 = N /\ N + 1 \in 1 .. Len(pieces)
        BY <1>0
    <2>2. StateAfter(c, after[N], w, at + e(N))
        BY <2>1, Zenon
    <2> DEFINE piece == pieces[N + 1]
    <2>3. /\ e(N) \in Nat /\ piece \in Seq(Nat) /\ e(N + 1) = e(N) + Len(piece)
          /\ e(N + 1) =< Len(m) /\ \A i \in 1 .. Len(piece) : piece[i] = m[e(N) + i]
        BY <1>1, <2>1, Zenon
    <2>4. after[N + 1] = CxHash(c, after[N], piece)
        BY <1>5, <2>1, Zenon
    <2> HIDE DEF Right, piece
    <2>5. /\ Len(piece) \in Nat /\ e(N) \in Nat /\ e(N + 1) = e(N) + Len(piece)
          /\ e(N) + Len(piece) =< Len(m) /\ Len(m) \in Nat
        <3>1. piece \in Seq(Nat)
            BY <2>3, Zenon
        <3>2. Len(piece) \in Nat
            BY ONLY <3>1
        <3>3. Len(m) \in Nat
            BY ONLY m \in Seq(Nat)
        <3> QED BY <2>3, <3>2, <3>3, Zenon
    <2>6. at + e(N) \in Nat /\ at + e(N + 1) = (at + e(N)) + Len(piece)
        BY ONLY at \in Nat, <2>5
    <2>7. ASSUME NEW i \in 1 .. Len(piece) PROVE piece[i] = w[(at + e(N)) + i]
        <3>1. e(N) + i \in 1 .. Len(m) /\ at + (e(N) + i) = (at + e(N)) + i
            <4> DEFINE a == e(N)
                       size == Len(piece)
                       total == Len(m)
            <4>1. /\ at \in Nat /\ a \in Nat /\ size \in Nat /\ total \in Nat /\ i \in 1 .. size
                  /\ a + size =< total
                BY <2>5, Zenon
            <4> HIDE DEF a, size, total
            <4>2. a + i \in 1 .. total /\ at + (a + i) = (at + a) + i
                BY ONLY <4>1
            <4> QED BY <4>2, Zenon DEF a, total
        <3>2. piece[i] = m[e(N) + i] /\ m[e(N) + i] = w[at + (e(N) + i)]
            BY <2>3, <3>1, Zenon
        <3> QED BY <3>1, <3>2, Zenon
    <2>8. piece \in Seq(Nat)
        BY <2>3, Zenon
    <2>9. StateAfter(c, CxHash(c, after[N], piece), w, (at + e(N)) + Len(piece))
        BY ONLY c \in HashContexts, <2>2, <2>6, <2>7, <2>8, BytesFollow
    <2> QED BY <2>4, <2>6, <2>9, Zenon
<1>8. Len(pieces) \in Right
    <2>1. Right \in SUBSET Nat
        BY Zenon
    <2> HIDE DEF Right
    <2> QED BY <1>0, <1>6, <1>7, <2>1, SetInduction
<1>9. Len(pieces) =< Len(pieces) /\ e(Len(pieces)) = Len(m)
    BY <1>0, <1>1
<1> QED BY <1>2, <1>8, <1>9, Zenon

\* Nothing of the rest of a message is in the state.
LEMMA StateExtends ==
    ASSUME NEW c \in HashContexts, NEW state, NEW h \in Seq(Nat), NEW m \in Seq(Nat),
           StateAfter(c, state, h, Len(h))
    PROVE  StateAfter(c, state, h \o m, Len(h))
<1> DEFINE B == BlockSize[c]
           w == h \o m
<1>1. B \in Nat /\ B > 0 /\ Len(h) \in Nat
    BY Size
<1>2. /\ state \in HostContexts(c) /\ state.blen < B /\ Len(h) = state.counter * B + state.blen
      /\ Len(state.acc) = state.counter
      /\ \A k \in 1 .. state.counter : \A i \in 1 .. B : state.acc[k][i] = h[(k - 1) * B + i]
      /\ \A i \in 1 .. state.blen : state.block[i] = h[state.counter * B + i]
    BY Zenon DEF StateAfter
<1>3. state.counter \in Nat /\ state.blen \in Nat
    BY <1>2 DEF HostContexts
<1>4. \A i \in 1 .. Len(h) : w[i] = h[i]
    BY ConcatProperties
<1> HIDE DEF B, w
<1> DEFINE z == state.counter * B
<1>7. z \in Nat /\ Len(h) = z + state.blen /\ \A x \in Int : x =< state.counter - 1 => x * B =< z - B
    <2>1. z \in Nat
        BY <1>1, <1>3
    <2>2. Len(h) = z + state.blen
        BY <1>2, Zenon
    <2>3. (state.counter - 1) * B = z - B
        BY <1>1, <1>3
    <2>4. state.counter - 1 \in Int
        BY <1>3
    <2> HIDE DEF z
    <2> QED BY <1>1, <2>1, <2>2, <2>3, <2>4, Products
<1>5. ASSUME NEW k \in 1 .. state.counter, NEW i \in 1 .. B
      PROVE  state.acc[k][i] = w[(k - 1) * B + i]
    <2> DEFINE x == (k - 1) * B
    <2>1. k - 1 \in Nat /\ k - 1 =< state.counter - 1
        BY <1>3
    <2>2. x \in Nat
        BY <1>1, <2>1
    <2>3. x =< z - B
        BY <1>7, <2>1
    <2>4. state.acc[k][i] = h[x + i]
        BY <1>2, Zenon
    <2> HIDE DEF x, z
    <2>5. x + i \in 1 .. Len(h)
        BY <1>1, <1>3, <1>7, <2>2, <2>3
    <2> QED BY <1>4, <2>4, <2>5, Zenon DEF x
<1>6. ASSUME NEW i \in 1 .. state.blen PROVE state.block[i] = w[state.counter * B + i]
    <2>1. state.block[i] = h[z + i]
        BY <1>2, Zenon
    <2> HIDE DEF z
    <2>2. z + i \in 1 .. Len(h)
        BY <1>1, <1>3, <1>7
    <2> QED BY <1>4, <2>1, <2>2, Zenon DEF z
<1> QED BY <1>2, <1>5, <1>6 DEF StateAfter, B, w

LEMMA Quotient ==
    ASSUME NEW q \in Nat, NEW r \in Nat, NEW B \in Nat, r < B
    PROVE  (q * B + r) \div B = q
<1> DEFINE at == q * B + r
           d == at \div B
<1>1. at \in Nat /\ B > 0
    <2>1. q * B \in Nat
        BY Products
    <2> QED BY <2>1
<1>2. d \in Int /\ d * B =< at /\ at < d * B + B
    <2> HIDE DEF at
    <2> QED BY <1>1
<1> HIDE DEF d
<1>3. CASE d < q
    <2>1. (d + 1) * B =< q * B
        <3>1. d + 1 =< q /\ d + 1 \in Int
            BY <1>2, <1>3
        <3> QED BY <3>1, Products
    <2>2. (d + 1) * B = d * B + B
        BY <1>2
    <2> QED BY <1>2, <2>1, <2>2
<1>4. CASE q < d
    <2>1. (q + 1) * B =< d * B
        <3>1. q + 1 =< d /\ q + 1 \in Int
            BY <1>2, <1>4
        <3> QED BY <1>2, <3>1, Products
    <2>2. (q + 1) * B = q * B + B
        OBVIOUS
    <2> QED BY <1>2, <2>1, <2>2
<1> QED BY <1>2, <1>3, <1>4 DEF d

\* The digest of the state after a message is the hash of the message.
LEMMA LastIsHash ==
    ASSUME NEW c \in HashContexts, NEW state, NEW m \in Seq(Nat), StateAfter(c, state, m, Len(m))
    PROVE  CxLast(c, state) = Hash(c, m)
<1> DEFINE B == BlockSize[c]
           full == Len(m) \div B
<1>1. B \in Nat /\ B > 0 /\ Len(m) \in Nat
    BY Size
<1>2. /\ state \in HostContexts(c) /\ state.blen < B /\ Len(m) = state.counter * B + state.blen
      /\ Len(state.acc) = state.counter
      /\ \A k \in 1 .. state.counter : \A i \in 1 .. B : state.acc[k][i] = m[(k - 1) * B + i]
      /\ \A i \in 1 .. state.blen : state.block[i] = m[state.counter * B + i]
    BY Zenon DEF StateAfter
<1>3. /\ state.counter \in Nat /\ state.blen \in Nat
      /\ state.acc \in Seq([1 .. B -> Nat])
    BY <1>2 DEF HostContexts
<1>4. full = state.counter
    <2>1. state.blen < B /\ Len(m) = state.counter * B + state.blen
        BY <1>2, Zenon
    <2> HIDE DEF B
    <2>2. (state.counter * B + state.blen) \div B = state.counter
        BY <1>1, <1>3, <2>1, Quotient
    <2> QED BY <2>1, <2>2, Zenon
<1> HIDE DEF full, B
<1>5. state.acc = [k \in 1 .. full |-> [i \in 1 .. B |-> m[(k - 1) * B + i]]]
    <2>1. state.acc = [k \in 1 .. full |-> state.acc[k]]
        BY <1>2, <1>3, <1>4
    <2>2. ASSUME NEW k \in 1 .. full
          PROVE  state.acc[k] = [i \in 1 .. B |-> m[(k - 1) * B + i]]
        <3>1. state.acc[k] = [i \in 1 .. B |-> state.acc[k][i]]
            <4>1. state.acc[k] \in [1 .. B -> Nat]
                BY <1>2, <1>3, <1>4
            <4> QED BY <4>1, Zenon
        <3>2. \A i \in 1 .. B : state.acc[k][i] = m[(k - 1) * B + i]
            BY <1>2, <1>4, Zenon
        <3> QED BY <3>1, <3>2, Zenon
    <2> QED BY <2>1, <2>2, Zenon
<1>6. Len(m) - full * B = state.blen
    <2> DEFINE z == state.counter * B
    <2>1. z \in Int /\ Len(m) = z + state.blen
        BY <1>1, <1>2, <1>3
    <2> HIDE DEF z
    <2>2. Len(m) - z = state.blen
        BY <1>1, <1>3, <2>1
    <2> QED BY <1>4, <2>2, Zenon DEF z
<1>7. [i \in 1 .. state.blen |-> state.block[i]]
        = [i \in 1 .. Len(m) - full * B |-> m[full * B + i]]
    <2>1. \A i \in 1 .. state.blen : state.block[i] = m[full * B + i]
        BY <1>2, <1>4, Zenon
    <2> QED BY <1>6, <2>1, Zenon
<1>8. Hash(c, m) =
        [acc |-> [k \in 1 .. full |-> [i \in 1 .. B |-> m[(k - 1) * B + i]]],
         rest |-> [i \in 1 .. Len(m) - full * B |-> m[full * B + i]],
         length |-> Len(m)]
    BY Zenon DEF Hash, full, B
<1>9. CxLast(c, state) =
        [acc |-> state.acc, rest |-> [i \in 1 .. state.blen |-> state.block[i]], length |-> Len(m)]
    BY <1>2, Zenon DEF CxLast, B
<1> QED BY <1>5, <1>7, <1>8, <1>9, Zenon

GuestInv ==
    /\ DOMAIN guest = HashContexts
    /\ \A c \in HashContexts : guest[c] \in GuestContexts(c)

\* The state in the memory of the app is the state after all that was hashed.
HashedInv ==
    /\ DOMAIN hashed = HashContexts
    /\ \A c \in HashContexts :
            hashed[c] # NotInit =>
                /\ hashed[c] \in Seq(HashBytes)
                /\ StateAfter(c, Restored(c), hashed[c], Len(hashed[c]))

HashInv == GuestInv /\ HashedInv /\ DigestsAreOfTheMessages

LEMMA SeqOfSubset == ASSUME NEW S, NEW T, S \subseteq T PROVE Seq(S) \subseteq Seq(T)
OBVIOUS

\* A new context is the state after no bytes at all.
LEMMA NewContext ==
    ASSUME NEW c \in HashContexts, NEW m PROVE StateAfter(c, CxInit(c), m, 0)
<1> DEFINE B == BlockSize[c]
           state == CxInit(c)
<1>1. B \in Nat /\ B > 0
    BY Size
<1>2. state = [counter |-> 0, blen |-> 0, block |-> [i \in 1 .. B |-> 0], acc |-> <<>>]
    BY Zenon DEF CxInit
<1> HIDE DEF state, B
<1>3. state \in [counter : Nat, blen : Nat, block : [1 .. B -> Nat], acc : Seq([1 .. B -> Nat])]
    <2>1. [i \in 1 .. B |-> 0] \in [1 .. B -> Nat]
        OBVIOUS
    <2>2. <<>> \in Seq([1 .. B -> Nat])
        BY EmptySeq
    <2> HIDE DEF B
    <2> QED BY <1>2, <2>1, <2>2
<1>4. state.counter = 0 /\ state.blen = 0 /\ Len(state.acc) = 0
    BY <1>2
<1>5. state.blen < B /\ 0 = state.counter * B + state.blen
    BY <1>1, <1>4
<1> QED BY <1>3, <1>4, <1>5 DEF StateAfter, HostContexts, state, B

LEMMA HashInitInv == ASSUME HashInit PROVE HashInv
<1>1. \A c \in HashContexts : Rubbish(c) \subseteq GuestContexts(c)
    <2> SUFFICES ASSUME NEW c \in HashContexts, NEW r \in Rubbish(c)
                 PROVE  r \in GuestContexts(c)
        OBVIOUS
    <2>1. PICK blen \in {1, BlockSize[c] + 1} :
            r = [initialized |-> TRUE, counter |-> 1, blen |-> blen, acc |-> <<>>,
                 block |-> [i \in 1 .. BlockSize[c] |-> 1]]
        BY Zenon DEF Rubbish
    <2>2. blen \in Nat
        BY Size
    <2>3. [i \in 1 .. BlockSize[c] |-> 1] \in [1 .. BlockSize[c] -> Nat]
        OBVIOUS
    <2>4. <<>> \in Seq([1 .. BlockSize[c] -> Nat])
        OBVIOUS
    <2> QED BY <2>1, <2>2, <2>3, <2>4 DEF GuestContexts
<1>2. GuestInv
    <2>1. guest \in [HashContexts -> UNION {Rubbish(c) : c \in HashContexts}]
          /\ \A c \in HashContexts : guest[c] \in Rubbish(c)
        BY Zenon DEF HashInit
    <2> QED BY <1>1, <2>1, Zenon DEF GuestInv
<1>3. hashed = [c \in HashContexts |-> NotInit] /\ digest = NoDigest /\ ~fatal
    BY DEF HashInit
<1>4. HashedInv
    BY <1>3, Zenon DEF HashedInv
<1> QED BY <1>2, <1>3, <1>4, Zenon DEF HashInv, DigestsAreOfTheMessages

\* Only the context c changed, and it is right.
LEMMA OneContext ==
    ASSUME NEW c \in HashContexts, HashInv,
           DOMAIN guest' = HashContexts, DOMAIN hashed' = HashContexts,
           \A d \in HashContexts \ {c} : guest'[d] = guest[d] /\ hashed'[d] = hashed[d],
           guest'[c] \in GuestContexts(c), hashed'[c] \in Seq(HashBytes),
           StateAfter(c, Restored(c)', hashed'[c], Len(hashed'[c]))
    PROVE  GuestInv' /\ HashedInv'
<1>1. GuestInv'
    BY Zenon DEF GuestInv, HashInv
<1>2. ASSUME NEW d \in HashContexts, d # c, hashed'[d] # NotInit
      PROVE  /\ hashed'[d] \in Seq(HashBytes)
             /\ StateAfter(d, Restored(d)', hashed'[d], Len(hashed'[d]))
    <2>1. guest'[d] = guest[d] /\ hashed'[d] = hashed[d]
        BY <1>2, Zenon
    <2>2. Restored(d)' = Restored(d)
        BY <2>1, Zenon DEF Restored
    <2>3. /\ hashed[d] \in Seq(HashBytes)
          /\ StateAfter(d, Restored(d), hashed[d], Len(hashed[d]))
        BY <1>2, <2>1, Zenon DEF HashInv, HashedInv
    <2> QED BY <2>1, <2>2, <2>3, Zenon
<1>3. HashedInv'
    BY <1>2, Zenon DEF HashedInv
<1> QED BY <1>1, <1>3

\* A context that is in use can be restored.
LEMMA InUse ==
    ASSUME NEW c \in HashContexts, HashInv, hashed[c] # NotInit
    PROVE  /\ Restorable(c) /\ hashed[c] \in Seq(HashBytes)
           /\ StateAfter(c, Restored(c), hashed[c], Len(hashed[c]))
<1>1. /\ hashed[c] \in Seq(HashBytes)
      /\ StateAfter(c, Restored(c), hashed[c], Len(hashed[c]))
    BY Zenon DEF HashInv, HashedInv
<1>2. ASSUME guest[c].initialized PROVE guest[c].blen =< BlockSize[c]
    <2>1. Restored(c).blen = guest[c].blen
        BY <1>2 DEF Restored
    <2>2. Restored(c).blen < BlockSize[c]
        BY <1>1, Zenon DEF StateAfter
    <2>3. guest[c].blen \in Nat
        BY DEF HashInv, GuestInv, GuestContexts
    <2> QED BY <2>1, <2>2, <2>3, Size
<1> QED BY <1>1, <1>2, Zenon DEF Restorable

LEMMA HashStep == ASSUME HashInv, [HashNext]_hashVars PROVE HashInv'
<1>1. ASSUME NEW c \in HashContexts, HashStart(c) PROVE HashInv'
    <2>1. /\ ~fatal /\ fatal' = fatal
          /\ guest' = [guest EXCEPT ![c].initialized = FALSE]
          /\ hashed' = [hashed EXCEPT ![c] = <<>>] /\ digest' = NoDigest
        BY <1>1, Zenon DEF HashStart
    <2>2. DOMAIN guest = HashContexts /\ DOMAIN hashed = HashContexts
          /\ guest[c] \in GuestContexts(c)
        BY Zenon DEF HashInv, GuestInv, HashedInv
    <2>3. /\ DOMAIN guest' = HashContexts /\ DOMAIN hashed' = HashContexts
          /\ \A d \in HashContexts \ {c} : guest'[d] = guest[d] /\ hashed'[d] = hashed[d]
          /\ guest'[c] = [guest[c] EXCEPT !.initialized = FALSE] /\ hashed'[c] = <<>>
        BY <2>1, <2>2
    <2>4. guest'[c] \in GuestContexts(c) /\ ~guest'[c].initialized
        BY <2>2, <2>3 DEF GuestContexts
    <2>5. Restored(c)' = CxInit(c)
        BY <2>4, Zenon DEF Restored
    <2>6. StateAfter(c, CxInit(c), hashed'[c], 0)
        BY NewContext
    <2>7. Len(hashed'[c]) = 0 /\ hashed'[c] \in Seq(HashBytes)
        BY <2>3
    <2>8. StateAfter(c, Restored(c)', hashed'[c], Len(hashed'[c]))
        BY <2>5, <2>6, <2>7, Zenon
    <2>9. GuestInv' /\ HashedInv'
        BY <2>3, <2>4, <2>7, <2>8, OneContext
    <2> QED BY <2>1, <2>9, Zenon DEF HashInv, DigestsAreOfTheMessages
<1>2. ASSUME NEW c \in HashContexts, NEW offset \in 0 .. PageBytes - 1,
             NEW m \in BoundedSeq(HashBytes, MaxHashed), HashUpdate(c, offset, m)
      PROVE  HashInv'
    <2>1. ~fatal /\ hashed[c] # NotInit /\ digest' = NoDigest
        BY <1>2, Zenon DEF HashUpdate
    <2>2. /\ Restorable(c) /\ hashed[c] \in Seq(HashBytes)
          /\ StateAfter(c, Restored(c), hashed[c], Len(hashed[c]))
        BY <2>1, InUse
    <2>3. /\ guest' = [guest EXCEPT ![c] = Saved(c, Updated(c, offset, m))]
          /\ ~fatal' /\ hashed' = [hashed EXCEPT ![c] = hashed[c] \o m]
        BY <1>2, <2>2, Zenon DEF HashUpdate
    <2>4. DOMAIN guest = HashContexts /\ DOMAIN hashed = HashContexts
        BY Zenon DEF HashInv, GuestInv, HashedInv
    <2>5. /\ DOMAIN guest' = HashContexts /\ DOMAIN hashed' = HashContexts
          /\ \A d \in HashContexts \ {c} : guest'[d] = guest[d] /\ hashed'[d] = hashed[d]
          /\ guest'[c] = Saved(c, Updated(c, offset, m)) /\ hashed'[c] = hashed[c] \o m
        BY <2>3, <2>4, Zenon
    <2>6. m \in Seq(HashBytes) /\ m \in Seq(Nat) /\ hashed[c] \in Seq(Nat)
        <3>1. PICK k \in Nat : m \in [1 .. k -> HashBytes]
            BY HashAssumption DEF BoundedSeq, SeqOf
        <3>2. m \in Seq(HashBytes)
            BY <3>1
        <3>3. HashBytes \subseteq Nat
            BY HashAssumption
        <3>4. Seq(HashBytes) \subseteq Seq(Nat)
            BY <3>3, SeqOfSubset, Zenon
        <3> QED BY <2>2, <3>2, <3>4, Zenon
    <2>7. /\ hashed[c] \o m \in Seq(HashBytes) /\ Len(hashed[c] \o m) = Len(hashed[c]) + Len(m)
          /\ \A i \in 1 .. Len(m) : (hashed[c] \o m)[Len(hashed[c]) + i] = m[i]
        <3>1. hashed[c] \o m \in Seq(HashBytes)
            BY <2>2, <2>6, ConcatProperties
        <3>2. /\ Len(hashed[c] \o m) = Len(hashed[c]) + Len(m)
              /\ Len(hashed[c]) \in Nat /\ Len(m) \in Nat
              /\ \A i \in 1 .. Len(hashed[c]) + Len(m) : (hashed[c] \o m)[i] =
                    IF i =< Len(hashed[c]) THEN hashed[c][i] ELSE m[i - Len(hashed[c])]
            BY <2>6, ConcatProperties
        <3>3. \A i \in 1 .. Len(m) :
                    /\ Len(hashed[c]) + i \in 1 .. Len(hashed[c]) + Len(m)
                    /\ ~(Len(hashed[c]) + i =< Len(hashed[c]))
                    /\ (Len(hashed[c]) + i) - Len(hashed[c]) = i
            BY <3>2
        <3> QED BY <3>1, <3>2, <3>3, Zenon
    <2> DEFINE next == Updated(c, offset, m)
               at == Len(hashed[c])
    <2>8. StateAfter(c, next, hashed[c] \o m, at + Len(m))
        <3>1. StateAfter(c, Restored(c), hashed[c] \o m, at)
            BY <2>2, <2>6, StateExtends
        <3>2. at \in Nat
            BY <2>6
        <3>3. \A i \in 1 .. Len(m) : m[i] = (hashed[c] \o m)[at + i]
            BY <2>7, Zenon
        <3> HIDE DEF at
        <3> QED BY <2>6, <3>1, <3>2, <3>3, PiecesFollow
    <2> HIDE DEF next
    <2>9. next \in HostContexts(c)
        BY <2>8, Zenon DEF StateAfter
    <2>10. /\ guest'[c] \in GuestContexts(c)
           /\ Restored(c)' = next
        <3>1. guest'[c] = [initialized |-> TRUE, counter |-> next.counter, blen |-> next.blen,
                           block |-> next.block, acc |-> next.acc]
            BY <2>5, Zenon DEF Saved, next
        <3>2. guest'[c] \in GuestContexts(c)
            BY <2>9, <3>1 DEF HostContexts, GuestContexts
        <3>3. Restored(c)' = [counter |-> next.counter, blen |-> next.blen,
                              block |-> next.block, acc |-> next.acc]
            BY <3>1 DEF Restored
        <3>4. next = [counter |-> next.counter, blen |-> next.blen,
                      block |-> next.block, acc |-> next.acc]
            BY <2>9 DEF HostContexts
        <3> QED BY <3>2, <3>3, <3>4, Zenon
    <2>11. StateAfter(c, Restored(c)', hashed'[c], Len(hashed'[c]))
        BY <2>5, <2>7, <2>8, <2>10, Zenon
    <2>12. GuestInv' /\ HashedInv'
        BY <2>5, <2>7, <2>10, <2>11, OneContext
    <2> QED BY <2>1, <2>3, <2>12, Zenon DEF HashInv, DigestsAreOfTheMessages
<1>3. ASSUME NEW c \in HashContexts, HashFinal(c) PROVE HashInv'
    <2>1. ~fatal /\ hashed[c] # NotInit /\ guest' = guest /\ hashed' = hashed
        BY <1>3, Zenon DEF HashFinal
    <2>2. /\ Restorable(c) /\ hashed[c] \in Seq(HashBytes)
          /\ StateAfter(c, Restored(c), hashed[c], Len(hashed[c]))
        BY <2>1, InUse
    <2>3. ~fatal' /\ digest' = [context |-> c, message |-> hashed[c], is |-> CxLast(c, Restored(c))]
        BY <1>3, <2>2, Zenon DEF HashFinal
    <2>4. hashed[c] \in Seq(Nat)
        <3>1. Seq(HashBytes) \subseteq Seq(Nat)
            BY HashAssumption, SeqOfSubset, Zenon
        <3> QED BY <2>2, <3>1, Zenon
    <2>5. CxLast(c, Restored(c)) = Hash(c, hashed[c])
        BY <2>2, <2>4, LastIsHash
    <2>6. digest'.context = c /\ digest'.message = hashed[c] /\ digest'.is = CxLast(c, Restored(c))
        BY <2>3
    <2>7. DigestsAreOfTheMessages'
        BY <2>3, <2>5, <2>6, Zenon DEF DigestsAreOfTheMessages
    <2>8. GuestInv' /\ HashedInv'
        BY <2>1, Zenon DEF HashInv, GuestInv, HashedInv, Restored
    <2> QED BY <2>7, <2>8, Zenon DEF HashInv
<1>4. ASSUME UNCHANGED hashVars PROVE HashInv'
    <2>1. guest' = guest /\ hashed' = hashed /\ digest' = digest /\ fatal' = fatal
        BY <1>4 DEF hashVars
    <2> QED BY <2>1, Zenon
            DEF HashInv, GuestInv, HashedInv, Restored, DigestsAreOfTheMessages
<1> QED BY <1>1, <1>2, <1>3, <1>4, Zenon DEF HashNext

\* sha256_final returns the hash of the bytes that were given to the context since
\* sha256_init, in any number of calls, cut by the pages, with other contexts in between
\* (ecall_hash.c, crypto.c): for every block size, page size and length.
THEOREM DigestsAreRight == HashSpec => []DigestsAreOfTheMessages
<1>1. HashInv => DigestsAreOfTheMessages
    BY DEF HashInv
<1> QED BY HashInitInv, HashStep, <1>1, PTL DEF HashSpec
=============================================================================
