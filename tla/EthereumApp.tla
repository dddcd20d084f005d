----------------------------- MODULE EthereumApp -----------------------------
(***************************************************************************)
(* The Ethereum app (app/app-ethereum): it shows its address, and signs     *)
(* transactions, messages and the two EIP-712 structures it knows.          *)
(*                                                                          *)
(* The values of an EIP-712 message are stored in static variables, the     *)
(* members, which outlive the request; the response is a local of the loop  *)
(* in main that nobody clears.  The user reviews a request between two      *)
(* steps; any request may follow, and the app may be launched again.        *)
(*                                                                          *)
(* A hash is the term that was hashed.  A text of a message is a pair of    *)
(* its form and its contents: "text" (a sequence of characters), "word",    *)
(* "hex" (0x and the digits of a sequence of bytes), "odd_hex" or "digits". *)
(***************************************************************************)
EXTENDS Integers, Sequences, FiniteSets, SequencesExt

CONSTANTS
    UintBytes,      \* bytes of a uint256: 32 in the code
    AddressBytes,   \* bytes of an address: 20 in the code
    ShownChars,     \* characters of a string that its buffer has room for: 79 in the code
    ShownDigits,    \* digits of an amount that its buffer has room for: 74 in the code
    MaxAccepted     \* bound on the requests the user accepts

ASSUME EthAssumption ==
    /\ UintBytes \in Nat \ {0} /\ AddressBytes \in Nat /\ MaxAccepted \in Nat
    /\ ShownChars \in Nat /\ ShownDigits \in Nat

VARIABLES
    members,        \* the static members: the value of each
    ethPc,          \* "idle" in xrecv, "review" in ux_validate, or "dead"
    ethRequest,     \* the request under review
    ethScreen,      \* what the user reviews
    response,       \* the response, as the last reply left it
    answered,       \* history: the request that response answers
    accepted        \* history: what the user accepted, in order

ethVars == <<members, ethPc, ethRequest, ethScreen, response, answered, accepted>>

Nothing == [none |-> TRUE]
\* What the stack holds: nobody wrote it.
Leftover == <<"leftover">>
-----------------------------------------------------------------------------
(* example_mail.c, opensea.c *)

Key(k) == [field |-> "key", of |-> k]
Member(m) == [field |-> "value", of |-> m]
Other == [field |-> "other", of |-> "-"]

mail_fields ==
    <<Key("from"), Other, Key("name"), Member("from_name"), Key("wallet"), Member("from_wallet"),
      Key("to"), Other, Key("name"), Member("to_name"), Key("wallet"), Member("to_wallet"),
      Key("contents"), Member("contents")>>

order_members ==
    LET Address(m) == <<m, [type |-> "address", count |-> AddressBytes]>>
        Uint256(m) == <<m, [type |-> "uint", count |-> UintBytes]>>
        Uint8(m)   == <<m, [type |-> "uint", count |-> 1]>>
        Bytes(m)   == <<m, [type |-> "bytes", count |-> 0]>>
    IN  <<Address("exchange"), Address("maker"), Address("taker"),
          Uint256("makerRelayerFee"), Uint256("takerRelayerFee"),
          Uint256("makerProtocolFee"), Uint256("takerProtocolFee"), Address("feeRecipient"),
          Uint8("feeMethod"), Uint8("side"), Uint8("saleKind"), Address("target"),
          Uint8("howToCall"), Bytes("calldata"), Bytes("replacementPattern"),
          Address("staticTarget"), Bytes("staticExtradata"), Address("paymentToken"),
          Uint256("basePrice"), Uint256("extra"), Uint256("listingTime"),
          Uint256("expirationTime"), Uint256("salt"), Uint256("nonce")>>

mail_members ==
    LET Address(m) == <<m, [type |-> "address", count |-> AddressBytes]>>
        String(m)  == <<m, [type |-> "string", count |-> 0]>>
    IN  <<String("from_name"), Address("from_wallet"), String("to_name"), Address("to_wallet"),
          String("contents")>>

order_fields ==
    [i \in 1 .. 2 * Len(order_members) |->
        LET m == order_members[(i + 1) \div 2][1]
        IN  IF i % 2 = 1 THEN Key(m) ELSE Member(m)]

MemberSeq == mail_members \o order_members
Members == {MemberSeq[i][1] : i \in DOMAIN MemberSeq}
TypeOf == [m \in Members |-> (CHOOSE x \in Range(MemberSeq) : x[1] = m)[2]]

Domains == {"mail", "opensea"}
FieldsOf == [mail |-> mail_fields, opensea |-> order_fields]
MembersOf == [mail |-> {mail_members[i][1] : i \in DOMAIN mail_members},
              opensea |-> {order_members[i][1] : i \in DOMAIN order_members}]
IndexOf == [d \in Domains |->
                [m \in MembersOf[d] |-> SelectInSeq(FieldsOf[d], LAMBDA f : f = Member(m))]]
ShownOf == [mail |-> MembersOf.mail, opensea |-> {"maker", "taker", "feeRecipient", "basePrice"}]

\* Static variables are zeros: pointers are NULL, and addresses hold no digit.
InitialMembers ==
    [m \in Members |-> IF TypeOf[m].type = "uint" THEN <<"hex", [i \in 1 .. UintBytes |-> 0]>>
                       ELSE <<"unset", 0>>]
-----------------------------------------------------------------------------
(* eip712.c: the values of the tokens. *)

Success(v) == [outcome |-> "ok", value |-> v]
Failure(v) == [outcome |-> "failed", value |-> v]
Fatal(v) == [outcome |-> "fatal", value |-> v]

\* bin is cleared but for its last count bytes, and the n bytes of the text are written to end
\* at count.  What is left of the value before stays.
uint_bin(bin, count, bytes) ==
    LET n == Len(bytes)
    IN  [i \in 1 .. UintBytes |->
            IF i \in count - n + 1 .. count THEN bytes[i - (count - n)]
            ELSE IF i =< UintBytes - count THEN 0 ELSE bin[i]]

set_uint_n(old, count, text) ==
    IF text[1] = "hex"
    THEN IF Len(text[2]) > count THEN Failure(old)
         ELSE Success(<<"hex", uint_bin(old[2], count, text[2])>>)
    ELSE IF text[1] \in {"odd_hex", "digits"} THEN Fatal(old) ELSE Failure(old)

set_address(old, text) ==
    IF text[1] = "hex" /\ Len(text[2]) = AddressBytes THEN Success(text) ELSE Failure(old)

\* The result of set_bytes is not looked at.
set_bytes(old, text) == Success(IF text[1] = "hex" THEN text ELSE old)

\* Faulty variant: a member is set once.
set_value_once(m, old, text) ==
    IF old[1] # "unset" THEN Success(old)
    ELSE IF TypeOf[m].type = "address" THEN set_address(old, text) ELSE Success(text)

set_value(m, old, text) ==
    CASE TypeOf[m].type = "string"  -> Success(text)
      [] TypeOf[m].type = "address" -> set_address(old, text)
      [] TypeOf[m].type = "uint"    -> set_uint_n(old, TypeOf[m].count, text)
      [] TypeOf[m].type = "bytes"   -> set_bytes(old, text)

\* validate_field, for a token that is a string: the outcome, and the value of the member.
validate_field(f, mem, text) ==
    CASE f.field = "value" -> set_value(f.of, mem[f.of], text)
      [] f.field = "key"   -> IF text = <<"word", f.of>> THEN Success(text) ELSE Failure(text)
      [] f.field = "other" -> Success(text)

\* Tokens that are no strings are skipped, whatever their field is; the first failure ends it,
\* and the members before it have their new values.  No member has two fields.
extract_fields(mem, domain, tokens) ==
    LET fields  == FieldsOf[domain]
        read(i) == tokens[i].type = "string"
        field(i) == validate_field(fields[i], mem, tokens[i].text)
        failed  == SelectInSeq([i \in DOMAIN tokens |-> i],
                               LAMBDA i : read(i) /\ field(i).outcome # "ok")
        done    == IF failed = 0 THEN Len(tokens) ELSE failed - 1
        i_of(m) == IndexOf[domain][m]
    IN  [outcome |-> IF failed = 0 THEN "ok" ELSE field(failed).outcome,
         members |-> [m \in Members |->
                        IF m \in MembersOf[domain] /\ i_of(m) =< done /\ read(i_of(m))
                        THEN field(i_of(m)).value ELSE mem[m]]]

\* Strings and bytes are pointers into the request, which the new one has overwritten.
Received(mem) ==
    [m \in Members |->
        IF TypeOf[m].type \in {"string", "bytes"} /\ mem[m][1] # "unset"
        THEN <<"elsewhere", 0>> ELSE mem[m]]
-----------------------------------------------------------------------------
(* eip712.c: the digest. *)

encode_data(mem, m) ==
    CASE TypeOf[m].type = "uint"    -> mem[m]
      [] TypeOf[m].type = "address" -> mem[m]
      [] OTHER                      -> <<"sha3", mem[m]>>

\* The digests of the structures in the structure are terms of their members.
hash_struct(mem, domain) == [m \in MembersOf[domain] |-> encode_data(mem, m)]

\* The hexadecimal digits of bytes.
Digits(bytes) ==
    [i \in 1 .. 2 * Len(bytes) |->
        IF i % 2 = 1 THEN bytes[(i + 1) \div 2] \div 16 ELSE bytes[i \div 2] % 16]

\* The characters of the text of a string.
Chars(text) == IF text[1] = "hex" THEN <<"0", "x">> \o Digits(text[2]) ELSE text[2]

\* The terminator goes to the last place of the buffer, or after the string.
copy_string(text) ==
    IF text[1] = "elsewhere" THEN text
    ELSE SubSeq(Chars(text), 1, Min({ShownChars, Len(Chars(text))}))

\* The terminator goes to the place of the last digit.
copy_address(text) == IF text[1] = "unset" THEN <<>> ELSE Front(Digits(text[2]))

\* The ticker, the number and its point: the digits that the buffer has no room for are lost,
\* and leave zeros for who reads it.
copy_amount(text) ==
    LET n == FoldLeft(LAMBDA a, b : 256 * a + b, 0, text[2])
        lost == Min({p \in {10 ^ i : i \in 0 .. 3 * UintBytes} : n \div p < 10 ^ ShownDigits})
    IN  n - (n % lost)

\* What the screen shows of a member with this value.
Shown(m, text) ==
    CASE TypeOf[m].type = "string"  -> copy_string(text)
      [] TypeOf[m].type = "address" -> copy_address(text)
      [] TypeOf[m].type = "uint"    -> copy_amount(text)

\* validate_ui
ScreenOf(mem, domain) == [m \in ShownOf[domain] |-> Shown(m, mem[m])]
-----------------------------------------------------------------------------
(* sign_tx.c: the fields of a transaction, in the order rlp_decode_list reads them. *)

TxFields == <<"nonce", "gas_price", "gas_limit", "to", "value", "data", "chain_id",
              "zero", "zero", "end">>
IsDecoded(r) == r.fields_read = Len(TxFields)

\* A field that was not read is whatever the stack holds.
TxField(r, f) ==
    IF \E i \in 1 .. r.fields_read : TxFields[i] = f THEN <<f, r.raw_tx>> ELSE Leftover
TxScreen(r) ==
    [f \in {"to", "value", "chain_id", "gas_price", "gas_limit"} |-> TxField(r, f)]
-----------------------------------------------------------------------------
(* app-ethereum.c *)

\* Each kind of response has its place in a union: its members are what the last response
\* left if it was of the same kind.
Leftovers(kind) ==
    IF response.kind = kind THEN response
    ELSE [kind |-> kind, approved |-> "leftover", of |-> Leftover, chain_code |-> Leftover]

ErrorResponse ==
    [kind |-> "error", approved |-> "leftover", of |-> Leftover, chain_code |-> Leftover]

\* pb_encode refuses a signature or an address among the leftovers that is too long, and the
\* app ends.
EthReply(r, to) ==
    /\ response' = r /\ answered' = to /\ ethRequest' = Nothing
    /\ ethPc' \in IF r.of = Leftover /\ r.kind \in {"get_pubkey", "sign_tx"}
                  THEN {"idle", "dead"} ELSE {"idle"}
    /\ ethScreen' = Nothing

Fails == EthReply(ErrorResponse, Nothing)
Dies == ethPc' = "dead" /\ ethScreen' = Nothing /\ ethRequest' = Nothing
        /\ UNCHANGED <<response, answered>>
Review(r, s) == ethPc' = "review" /\ ethScreen' = s /\ ethRequest' = r
                /\ UNCHANGED <<response, answered>>

Receive(r, kind) == ethPc = "idle" /\ r.kind = kind

\* The key is derived and the hash signed, unless one of them fails.
SignAndReply(base, of, r) == EthReply([base EXCEPT !.of = of], r) \/ Fails

\* get_version, and requests that pb_decode or handle_req refuses.
EthOther(r) ==
    /\ Receive(r, "other")
    /\ \E kind \in {"get_version", "error"} : EthReply([ErrorResponse EXCEPT !.kind = kind], Nothing)
    /\ UNCHANGED <<members, accepted>>

PubkeyResponse(r, approved) ==
    LET base == [Leftovers("get_pubkey") EXCEPT !.approved = approved]
        key  == IF approved = "yes" THEN [base EXCEPT !.of = <<"key", r.path>>] ELSE base
    IN  IF approved = "yes" /\ r.get_chain_code
        THEN [key EXCEPT !.chain_code = <<"chain_code", r.path>>] ELSE key

GetPubkey(r) ==
    /\ Receive(r, "get_pubkey")
    /\ \/ Fails
       \/ ~r.confirm /\ EthReply(PubkeyResponse(r, "yes"), r)
       \/ r.confirm /\ Review(r, [address |-> r.path])
    /\ UNCHANGED <<members, accepted>>

\* handle_sign_tx fails if the transaction was decoded, and goes on if it was not.
\* ui_set_tx_address reads from NULL if there is no address.
SignTx(r) ==
    /\ Receive(r, "sign_tx")
    /\ IF IsDecoded(r) THEN Fails
       ELSE IF TxField(r, "to") = Leftover THEN Dies
       ELSE Review(r, TxScreen(r))
    /\ UNCHANGED <<members, accepted>>

SignMessage(r) ==
    /\ Receive(r, "sign_msg")
    /\ SignAndReply(Leftovers("sign_msg"), <<"message", r.message>>, Nothing)
    /\ UNCHANGED <<members, accepted>>

SignEip712(r) ==
    LET x == extract_fields(Received(members), r.domain, r.tokens)
    IN  /\ Receive(r, "sign_eip712")
        /\ IF ~r.parses \/ r.domain \notin Domains \/ Len(r.tokens) # Len(FieldsOf[r.domain])
           THEN Fails /\ UNCHANGED members
           ELSE /\ members' = x.members
                /\ \/ x.outcome = "fatal" /\ Dies
                   \/ x.outcome = "failed" /\ Fails
                   \/ /\ x.outcome = "ok"
                      /\ IF \E m \in ShownOf[r.domain] :
                                TypeOf[m].type = "string" /\ x.members[m][1] = "unset"
                         THEN Dies
                         ELSE Review(r, ScreenOf(x.members, r.domain))
        /\ UNCHANGED accepted

\* unhex ends the app at a character that is no digit: an address that was never set has
\* some, and so may have what bytes of an earlier request point to.
MayHash(domain) ==
    \A m \in MembersOf[domain] : ~(TypeOf[m].type = "address" /\ members[m][1] = "unset")
MayNotHash(domain) ==
    \/ ~MayHash(domain)
    \/ \E m \in MembersOf[domain] : TypeOf[m].type = "bytes" /\ members[m][1] = "elsewhere"

\* What is signed for the request under review.
SignedHash ==
    CASE ethRequest.kind = "sign_eip712" ->
            <<"eip712", ethRequest.domain, hash_struct(members, ethRequest.domain)>>
      [] ethRequest.kind = "sign_tx" -> <<"tx", ethRequest.raw_tx>>
      [] ethRequest.kind = "get_pubkey" -> <<"address", ethRequest.path>>

UserAcceptsEth ==
    /\ ethPc = "review" /\ Len(accepted) < MaxAccepted
    /\ accepted' = Append(accepted, [request |-> ethRequest, shown |-> ethScreen,
                                     hash |-> SignedHash])
    /\ CASE ethRequest.kind = "get_pubkey" -> EthReply(PubkeyResponse(ethRequest, "yes"), ethRequest)
         [] ethRequest.kind = "sign_tx" ->
                SignAndReply([Leftovers("sign_tx") EXCEPT !.approved = "yes"], SignedHash, ethRequest)
         [] ethRequest.kind = "sign_eip712" ->
                \/ MayHash(ethRequest.domain) /\ SignAndReply(Leftovers("sign_eip712"), SignedHash, Nothing)
                \/ MayNotHash(ethRequest.domain) /\ Dies
    /\ UNCHANGED members

\* Faulty variant: sign_tx signs before it looks at the answer.
SignsAnyway(r) == [Leftovers("sign_tx") EXCEPT !.approved = "no", !.of = <<"tx", r.raw_tx>>]

RejectedTx(r) == [Leftovers("sign_tx") EXCEPT !.approved = "no"]

UserRejectsEth ==
    /\ ethPc = "review"
    /\ CASE ethRequest.kind = "get_pubkey" -> EthReply(PubkeyResponse(ethRequest, "no"), ethRequest)
         [] ethRequest.kind = "sign_tx" -> EthReply(RejectedTx(ethRequest), ethRequest)
         [] ethRequest.kind = "sign_eip712" -> Fails
    /\ UNCHANGED <<members, accepted>>

EthStart ==
    /\ members' = InitialMembers
    /\ ethPc' = "idle" /\ ethRequest' = Nothing /\ ethScreen' = Nothing
    /\ response' = ErrorResponse /\ answered' = Nothing
    /\ UNCHANGED accepted

EthInit ==
    /\ members = InitialMembers
    /\ ethPc = "idle" /\ ethRequest = Nothing /\ ethScreen = Nothing
    /\ response = ErrorResponse /\ answered = Nothing
    /\ accepted = <<>>

Serve(r) == EthOther(r) \/ GetPubkey(r) \/ SignTx(r) \/ SignMessage(r) \/ SignEip712(r)

EthNext(requests) ==
    \/ \E r \in requests : Serve(r)
    \/ UserAcceptsEth \/ UserRejectsEth \/ EthStart
-----------------------------------------------------------------------------
(* Properties. *)

\* Messages as the JSON parser gives them: a list of tokens, the digits of a text as bytes.
WellFormed(requests) ==
    \A r \in requests : r.kind = "sign_eip712" =>
        /\ r.tokens \in Seq({r.tokens[i] : i \in DOMAIN r.tokens})
        /\ \A i \in DOMAIN r.tokens :
            LET text == r.tokens[i].text
            IN  text = <<text[1], text[2]>> /\ (text[1] = "hex" => text[2] \in Seq(Nat))

\* The text of member m in a message.
TextOf(r, m) == r.tokens[CHOOSE i \in DOMAIN r.tokens : FieldsOf[r.domain][i] = Member(m)].text

\* A message that gives each member a string of its form, the integers in their full length,
\* and none but zero to the integers of one byte, which the code puts at the wrong end.
IsPlain(r) ==
    /\ \A i \in DOMAIN r.tokens : FieldsOf[r.domain][i].field = "value" => r.tokens[i].type = "string"
    /\ \A m \in MembersOf[r.domain] :
        LET text == TextOf(r, m)
        IN  CASE TypeOf[m].type = "bytes" -> text[1] = "hex"
              [] TypeOf[m].type = "uint" ->
                    IF TypeOf[m].count = 1 THEN text[2] = <<0>>
                    ELSE Len(text[2]) = UintBytes
              [] OTHER -> TRUE

\* EIP-712's encoding of the message: integers have UintBytes bytes, zeros first.
Encoding(r) ==
    [m \in MembersOf[r.domain] |->
        LET text == TextOf(r, m)
        IN  CASE TypeOf[m].type = "uint" ->
                    <<"hex", [i \in 1 .. UintBytes - Len(text[2]) |-> 0] \o text[2]>>
              [] TypeOf[m].type = "address" -> text
              [] OTHER -> <<"sha3", text>>]

\* The structure that is signed is that of the request the user accepted, and the screen was
\* of the same request, whatever requests came before it and failed half way (extract_fields,
\* hash_struct).  The screen does not tell all of it: addresses are without their last digit,
\* strings end after ShownChars characters and amounts after ShownDigits digits, so that
\* messages that differ in nothing else look the same (copy_address, copy_string, copy_amount).
\* Only for plain messages: see SameMessageSameDigest.
SignsTheMessage ==
    \A i \in DOMAIN accepted :
        LET r == accepted[i].request
        IN  r.kind = "sign_eip712" /\ IsPlain(r) =>
                /\ accepted[i].hash = <<"eip712", r.domain, Encoding(r)>>
                /\ \A m \in ShownOf[r.domain] : accepted[i].shown[m] = Shown(m, TextOf(r, m))

\* A response that says approved is the answer to its own request, and a signature of a
\* transaction in any response is of one that the user accepted: not one that was rejected
\* (handle_get_pubkey, handle_sign_tx; the response is not cleared between requests).
ApprovedByTheUser ==
    /\ response.kind = "get_pubkey" /\ response.approved = "yes" =>
        /\ response.of = <<"key", answered.path>>
        /\ answered.confirm => \E i \in DOMAIN accepted : accepted[i].request = answered
    /\ response.kind = "sign_tx" =>
        /\ response.approved = "yes" => response.of = <<"tx", answered.raw_tx>>
        /\ response.of # Leftover => \E i \in DOMAIN accepted : accepted[i].hash = response.of

\* "Computes the digest of a structure given as a JSON string" (eip712.c:372): a structure
\* has one digest.
SameMessageSameDigest ==
    \A i, j \in DOMAIN accepted :
        accepted[i].request = accepted[j].request => accepted[i].hash = accepted[j].hash
==============================================================================
