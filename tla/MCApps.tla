------------------------------- MODULE MCApps -------------------------------
(* The swap app and the Ethereum app, with the requests their hosts send, the screens of *)
(* both on which the user accepts or rejects a request, and the hashes they compute. *)
EXTENDS SwapApp, EthereumApp, Ux, HashCalls

-----------------------------------------------------------------------------
(* Requests for the swap app: those of an honest partner, and each of them with one *)
(* field replaced. *)

Partner(name, pubkey) ==
    [name |-> name, pubkey |-> pubkey,
     signature |-> [by |-> "ledger", of |-> [name |-> name, pubkey |-> pubkey]]]

\* Two partners that Ledger certified, and one with a key of its own.
Alice == Partner("alice", "ka")
Bob == Partner("bob", "kb")
Mallory == [Partner("alice", "km") EXCEPT !.signature.by = "nobody"]
TheCertified == {[name |-> "alice", pubkey |-> "ka"], [name |-> "bob", pubkey |-> "kb"]}

Offer(id) ==
    [decodes |-> TRUE, id |-> id, currency_from |-> "ETH", currency_to |-> "BTC",
     payin |-> "payin", payout_address |-> <<"BTC", "p1">>, refund_address |-> <<"ETH", "p2">>,
     amount_to_provider |-> "small", amount_to_wallet |-> "tiny"]

Undecodable == [decodes |-> FALSE]

Offers(id) ==
    LET o == Offer(id)
    IN  {o, Undecodable,
         [o EXCEPT !.currency_from = "DOGE"], [o EXCEPT !.currency_to = "DOGE"],
         [o EXCEPT !.payin = "bad_digits"], [o EXCEPT !.payin = "bad_length"],
         [o EXCEPT !.payout_address = <<"BTC", "foreign">>],
         [o EXCEPT !.refund_address = <<"ETH", "foreign">>],
         [o EXCEPT !.currency_from = "BTC", !.refund_address = <<"BTC", "p2">>],
         [o EXCEPT !.amount_to_provider = "huge"], [o EXCEPT !.amount_to_provider = "large"],
         [o EXCEPT !.amount_to_wallet = "large"], [o EXCEPT !.amount_to_provider = "zero"]}

TheIds == {1, 2}
SomeOffers == UNION {Offers(id) : id \in TheIds}
TheOffered == [by : {"ka", "kb", "km"}, of : SomeOffers]

Request(o) ==
    [partner |-> Alice, pb_tx |-> o, signature |-> [by |-> "ka", of |-> o], fee |-> "fee",
     payout_path |-> "p1", refund_path |-> "p2"]

Variants(r) ==
    {r, [r EXCEPT !.partner = Bob], [r EXCEPT !.partner = Mallory],
     [r EXCEPT !.partner.name = "bob"],
     [r EXCEPT !.partner = Bob, !.signature.by = "kb"],
     [r EXCEPT !.partner = Mallory, !.signature.by = "km"],
     [r EXCEPT !.signature.by = "nobody"],
     [r EXCEPT !.fee = "zero"], [r EXCEPT !.fee = "huge"],
     [r EXCEPT !.payout_path = "p2"], [r EXCEPT !.refund_path = "p1"]}

TheSwapRequests ==
    {Request(o) : o \in SomeOffers} \cup UNION {Variants(Request(Offer(id))) : id \in TheIds}
-----------------------------------------------------------------------------
(* Requests for the Ethereum app: two plain messages of each structure, and variants of one *)
(* of them with one token replaced. *)

Text(m, k) ==
    CASE TypeOf[m].type = "address" -> <<"hex", <<k, k, k>>>>
      [] TypeOf[m].type = "uint" -> <<"hex", IF TypeOf[m].count = 1 THEN <<0>> ELSE <<k, k>>>>
      [] TypeOf[m].type = "bytes" -> <<"hex", <<k>>>>
      [] TypeOf[m].type = "string" -> <<"text", IF k = 1 THEN <<"o", "n", "e">> ELSE <<"t", "w", "o">>>>

String(text) == [type |-> "string", text |-> text]
Primitive == [type |-> "primitive", text |-> <<"word", "-">>]

Token(f, k) ==
    CASE f.field = "key" -> String(<<"word", f.of>>)
      [] f.field = "value" -> String(Text(f.of, k))
      [] f.field = "other" -> Primitive

Message(domain, k) ==
    [kind |-> "sign_eip712", parses |-> TRUE, domain |-> domain,
     tokens |-> [i \in DOMAIN FieldsOf[domain] |-> Token(FieldsOf[domain][i], k)] \o <<>>]

Replaced(r, f, token) ==
    [r EXCEPT !.tokens[CHOOSE i \in DOMAIN r.tokens : FieldsOf[r.domain][i] = f] = token]

Orders ==
    LET r == Message("opensea", 1)
    IN  {r, Message("opensea", 2),
         [r EXCEPT !.parses = FALSE], [r EXCEPT !.tokens = Front(@)],
         Replaced(r, Member("basePrice"), Primitive),
         Replaced(r, Member("basePrice"), String(<<"hex", <<3>>>>)),
         Replaced(r, Member("basePrice"), String(<<"hex", <<3, 3, 3>>>>)),
         Replaced(r, Member("basePrice"), String(<<"hex", <<0, 7>>>>)),
         Replaced(r, Member("basePrice"), String(<<"odd_hex", <<3>>>>)),
         Replaced(r, Member("basePrice"), String(<<"word", "three">>)),
         Replaced(r, Member("side"), String(<<"hex", <<1>>>>)),
         Replaced(r, Member("taker"), Primitive),
         Replaced(r, Member("taker"), String(<<"word", "taker">>)),
         Replaced(r, Member("calldata"), String(<<"word", "data">>)),
         Replaced(r, Key("target"), String(<<"word", "other">>))}

\* Two of the mails look like another: an address differs in the last digit, and a string is
\* one character longer than the screen.
Mails ==
    LET r == Message("mail", 1)
    IN  {r, Message("mail", 2), [r EXCEPT !.domain = "unknown"],
         Replaced(r, Member("from_wallet"), String(<<"hex", <<1, 1, 2>>>>)),
         Replaced(r, Member("contents"), String(<<"text", <<"o", "n", "e", "s">>>>)),
         Replaced(r, Member("contents"), Primitive),
         Replaced(r, Member("from_wallet"), Primitive),
         Replaced(r, Key("to"), String(<<"word", "other">>))}

TheTransactions ==
    {[kind |-> "sign_tx", raw_tx |-> t.raw, fields_read |-> t.read] :
        t \in {[raw |-> "complete", read |-> 10], [raw |-> "open end", read |-> 8],
               [raw |-> "open end 2", read |-> 8],
               [raw |-> "no chain id", read |-> 6], [raw |-> "garbage", read |-> 0]}}

Simple ==
    {[kind |-> "other"], [kind |-> "sign_msg", message |-> "hello"]}
    \cup [kind : {"get_pubkey"}, path : {"p1", "p2"}, confirm : BOOLEAN, get_chain_code : BOOLEAN]
    \cup TheTransactions
-----------------------------------------------------------------------------
\* The items of the screens in app-ethereum/src/ui.c: one is read, two are answers.
TheItems == <<"NONE", "VALIDATE", "REJECT">>

\* A context of a hash with short blocks, and one with longer blocks.
TheBlockSizes == [sha256 |-> 2, sha3 |-> 3]

\* One of the apps is launched, a screen is shown, or hashes are computed; a host of the
\* Ethereum app sends requests of one group.
VARIABLE app

appsVars == <<app, swapVars, ethVars, uxVars, hashVars>>

Groups == [orders |-> Orders, mails |-> Mails, simple |-> Simple]

ASSUME RequestsAssumption == \A g \in DOMAIN Groups : WellFormed(Groups[g])

NoHash == guest = <<>> /\ fatal = FALSE /\ hashed = <<>> /\ digest = NoDigest

AppsInit ==
    /\ SwapInit /\ EthInit /\ UxInit
    /\ \/ app \in {"swap", "screen"} \cup DOMAIN Groups /\ NoHash
       \/ app = "hash" /\ HashInit

AppsNext ==
    /\ UNCHANGED app
    /\ \/ app = "swap" /\ SwapNext /\ UNCHANGED <<ethVars, uxVars, hashVars>>
       \/ app = "screen" /\ UxNext /\ UNCHANGED <<swapVars, ethVars, hashVars>>
       \/ app = "hash" /\ HashNext /\ UNCHANGED <<swapVars, ethVars, uxVars>>
       \/ /\ app \in DOMAIN Groups
          /\ EthNext(Groups[app]) /\ UNCHANGED <<swapVars, uxVars, hashVars>>

AppsSpec == AppsInit /\ [][AppsNext]_appsVars
=============================================================================
