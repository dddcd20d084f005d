----------------------------- MODULE SignProofs -----------------------------
(***************************************************************************)
(* Proofs about the signature of an app, for every set of manifests and     *)
(* apps of any size: what a host can decrypt, and what host/app.py has in   *)
(* the end.                                                                 *)
(***************************************************************************)
EXTENDS SignApp, TLAPS

\* A ciphertext has the MAC of one of the pages, at its address in the app of the manifest.
OfPages(c, m, pages) == \E i \in 1 .. Len(pages) : c.mac = Mac(m, Addr(m, i - 1), pages[i])

\* Until a signature is done, its key is a secret, and all that was encrypted under it are
\* the MACs of the pages hashed so far.
KeyInv ==
    /\ \E S : hashed \in Seq(S)
    /\ key \in Nat
    /\ \A c \in sent : c.key \in 1 .. key
    /\ released \subseteq 1 .. key
    /\ dpc # "menu" =>
          /\ manifest \in HsmSigned /\ key > 0 /\ key \notin released
          /\ \A c \in sent : c.key = key => OfPages(c, manifest, hashed)
    /\ MacsAreOfSignedApps
-----------------------------------------------------------------------------
(* What a host can decrypt. *)

\* The digest decides all of the pages: those hashed are those of the app.
LEMMA DigestIsOfTheApp ==
    ASSUME NEW m \in HsmSigned, NEW S, NEW pages \in Seq(S), AppHash(m, pages) = m.hash
    PROVE  pages = m.hash.pages /\ 1 .. Len(pages) = 1 .. Total(m)
<1>1. m.hash.pages = pages
    BY DEF AppHash
<1>2. DOMAIN pages = 1 .. Total(m)
    BY <1>1, HsmAssumption
<1>3. DOMAIN pages = 1 .. Len(pages)
    OBVIOUS
<1> QED BY <1>1, <1>2, <1>3

\* The end of a request, and of a turn of the loop (compute_section_hmacs, handle_sign_app).
LEMMA NextPageKeepsKeyInv ==
    ASSUME NEW S, NEW pages \in Seq(S), NEW m \in HsmSigned,
           hashed' = pages, manifest' = m, key' \in Nat \ {0}, sent' = sent,
           released \subseteq 1 .. key', key' \notin released,
           \A c \in sent : c.key \in 1 .. key',
           \A c \in sent : c.key = key' => OfPages(c, m, pages),
           MacsAreOfSignedApps, NextPage(m, pages)
    PROVE  KeyInv'
<1>1. CASE Len(pages) < Total(m)
    <2>1. released' = released /\ dpc' = "page"
        BY <1>1 DEF NextPage
    <2>2. MacsAreOfSignedApps'
        BY <2>1 DEF MacsAreOfSignedApps
    <2> QED BY <2>1, <2>2 DEF KeyInv, OfPages
<1>2. CASE ~(Len(pages) < Total(m)) /\ AppHash(m, pages) # m.hash
    <2>1. released' = released /\ dpc' = "menu"
        BY <1>2 DEF NextPage, Finish, Error
    <2>2. MacsAreOfSignedApps'
        BY <2>1 DEF MacsAreOfSignedApps
    <2> QED BY <2>1, <2>2 DEF KeyInv
<1>3. CASE ~(Len(pages) < Total(m)) /\ AppHash(m, pages) = m.hash
    <2>1. released' = released \cup {key'} /\ dpc' = "menu"
        BY <1>3 DEF NextPage, Finish
    <2>2. pages = m.hash.pages /\ 1 .. Len(pages) = 1 .. Total(m)
        BY <1>3, DigestIsOfTheApp
    <2>3. ASSUME NEW c \in sent, c.key \in released'
          PROVE  \E a \in HsmSigned : \E i \in 1 .. Total(a) :
                    c.mac = Mac(a, Addr(a, i - 1), a.hash.pages[i])
        <3>1. CASE c.key \in released
            BY <3>1 DEF MacsAreOfSignedApps
        <3>2. CASE c.key = key'
            <4>1. PICK i \in 1 .. Len(pages) : c.mac = Mac(m, Addr(m, i - 1), pages[i])
                BY <3>2 DEF OfPages
            <4> QED BY <4>1, <2>2
        <3> QED BY <2>1, <2>3, <3>1, <3>2
    <2>4. MacsAreOfSignedApps'
        BY <2>3 DEF MacsAreOfSignedApps
    <2>5. released' \subseteq 1 .. key'
        <3>1. key' \in 1 .. key'
            OBVIOUS
        <3> QED BY <2>1, <3>1
    <2> QED BY <2>1, <2>4, <2>5 DEF KeyInv
<1> QED BY <1>1, <1>2, <1>3

\* A page is hashed, and its MAC is encrypted and sent (compute_section_hmacs).
LEMMA RecvPageKeepsKeyInv == KeyInv /\ RecvPage => KeyInv'
<1> SUFFICES ASSUME KeyInv, RecvPage PROVE KeyInv'
    OBVIOUS
<1>1. dpc = "page" /\ UNCHANGED <<manifest, key, released>>
    BY DEF RecvPage
<1>2. CASE chan.kind = "invalid"
    <2>1. dpc' = "menu" /\ UNCHANGED <<hashed, sent>>
        BY <1>2 DEF RecvPage, Error
    <2>2. MacsAreOfSignedApps'
        BY <1>1, <2>1 DEF KeyInv, MacsAreOfSignedApps
    <2> QED BY <1>1, <2>1, <2>2 DEF KeyInv
<1>3. CASE chan.kind # "invalid"
    <2> DEFINE page == IF chan.kind = "page" THEN chan.content ELSE Garbage
               n == Len(hashed)
               c == [key |-> key, prev |-> iv, mac |-> Mac(manifest, Addr(manifest, n), page)]
    <2>1. hashed' = Append(hashed, page) /\ sent' = sent \cup {c} /\ dpc' = "ack"
        BY <1>3 DEF RecvPage
    <2>2. PICK S : hashed \in Seq(S)
        BY DEF KeyInv
    <2>3. hashed \in Seq(S \cup {page})
        BY <2>2
    <2>4. /\ hashed' \in Seq(S \cup {page}) /\ n \in Nat
          /\ Len(hashed') = n + 1 /\ hashed'[n + 1] = page
          /\ \A i \in 1 .. n : hashed'[i] = hashed[i]
        <3> HIDE DEF page
        <3> QED BY <2>1, <2>3
    <2>5. c.key = key /\ c.mac = Mac(manifest, Addr(manifest, n), page)
        OBVIOUS
    <2> HIDE DEF page, c
    <2>6. OfPages(c, manifest, hashed')
        <3>1. n + 1 \in 1 .. Len(hashed') /\ (n + 1) - 1 = n
            BY <2>4
        <3> QED BY <2>4, <2>5, <3>1 DEF OfPages
    <2>7. ASSUME NEW d \in sent, d.key = key PROVE OfPages(d, manifest, hashed')
        <3>1. PICK i \in 1 .. n : d.mac = Mac(manifest, Addr(manifest, i - 1), hashed[i])
            BY <1>1, <2>7 DEF KeyInv, OfPages
        <3>2. i \in 1 .. Len(hashed') /\ hashed'[i] = hashed[i]
            BY <2>4
        <3> QED BY <3>1, <3>2 DEF OfPages
    <2>8. \A d \in sent' : d.key = key' => OfPages(d, manifest', hashed')
        BY <1>1, <2>1, <2>6, <2>7
    <2>9. MacsAreOfSignedApps'
        <3>1. c.key \notin released'
            BY <1>1, <2>5 DEF KeyInv
        <3> QED BY <1>1, <2>1, <3>1 DEF KeyInv, MacsAreOfSignedApps
    <2>10. \A d \in sent' : d.key \in 1 .. key'
        BY <1>1, <2>1, <2>5 DEF KeyInv
    <2> QED BY <1>1, <2>1, <2>4, <2>8, <2>9, <2>10 DEF KeyInv
<1> QED BY <1>2, <1>3

\* The steps of the device, and those that leave it alone (handle_sign_app).
LEMMA KeyStep == KeyInv /\ [Next]_vars => KeyInv'
<1> SUFFICES ASSUME KeyInv, [Next]_vars PROVE KeyInv'
    OBVIOUS
<1>1. PICK S : hashed \in Seq(S)
    BY DEF KeyInv
<1>2. CASE UNCHANGED <<dpc, manifest, hashed, key, sent, released>>
    BY <1>2 DEF KeyInv, MacsAreOfSignedApps, OfPages
<1>3. CASE dpc' = "menu" /\ UNCHANGED <<hashed, key, sent, released>>
    BY <1>3 DEF KeyInv, MacsAreOfSignedApps
<1>4. CASE SignApp
    <2>1. CASE chan.signed /\ chan.manifest \in HsmSigned
        <3>1. Start(chan.manifest) /\ sent' = sent
            BY <1>4, <2>1 DEF SignApp
        <3>2. /\ manifest' = chan.manifest /\ key' = key + 1 /\ hashed' = <<>>
              /\ NextPage(chan.manifest, <<>>)
            BY <3>1 DEF Start
        <3>3. /\ key \in Nat /\ key' \in Nat \ {0}
              /\ released \subseteq 1 .. key' /\ key' \notin released
              /\ \A c \in sent : c.key \in 1 .. key' /\ c.key # key'
            BY <3>2 DEF KeyInv
        <3>4. <<>> \in Seq({})
            OBVIOUS
        <3>5. MacsAreOfSignedApps
            BY DEF KeyInv
        <3> QED BY <2>1, <3>1, <3>2, <3>3, <3>4, <3>5, NextPageKeepsKeyInv
    <2>2. CASE ~(chan.signed /\ chan.manifest \in HsmSigned)
        BY <1>3, <1>4, <2>2 DEF SignApp, Error
    <2> QED BY <2>1, <2>2
<1>5. CASE RecvAck
    <2>1. /\ dpc = "ack" /\ UNCHANGED <<manifest, hashed, key, sent>>
        BY <1>5 DEF RecvAck
    <2>2. CASE chan.kind = "invalid"
        BY <1>3, <1>5, <2>1, <2>2 DEF RecvAck, Error
    <2>3. CASE chan.kind # "invalid"
        <3>1. NextPage(manifest, hashed)
            BY <1>5, <2>3 DEF RecvAck
        <3>2. /\ manifest \in HsmSigned /\ key' \in Nat \ {0}
              /\ released \subseteq 1 .. key' /\ key' \notin released
              /\ \A c \in sent : c.key \in 1 .. key'
              /\ \A c \in sent : c.key = key' => OfPages(c, manifest, hashed)
              /\ MacsAreOfSignedApps
            BY <2>1 DEF KeyInv
        <3> QED BY <1>1, <2>1, <3>1, <3>2, NextPageKeepsKeyInv
    <2> QED BY <2>2, <2>3
<1>6. CASE GetPubkey \/ AnyHost \/ ReliableHost \/ Ended \/ UNCHANGED vars
    BY <1>2, <1>6 DEF GetPubkey, AnyHost, ReliableHost, RunApp, HostStep, Crash, Disconnect,
                      Ended, vars, deviceVars
<1>7. CASE BadRequest
    BY <1>3, <1>7 DEF BadRequest, Error
<1> QED BY <1>4, <1>5, <1>6, <1>7, RecvPageKeepsKeyInv DEF Next, DeviceStep

\* Whatever a host sends, and however large the apps, it can decrypt no MAC but those of
\* the pages of an app the HSM signed, each at its address (handle_sign_app).
THEOREM KeysOpenSignedApps == Spec => []MacsAreOfSignedApps
<1>1. Init => KeyInv
    BY DEF Init, KeyInv, MacsAreOfSignedApps
<1>2. KeyInv => MacsAreOfSignedApps
    BY DEF KeyInv
<1> QED BY <1>1, <1>2, KeyStep, PTL DEF Spec
-----------------------------------------------------------------------------
(* What host/app.py has in the end. *)

\* The ciphertext of page i: CBC goes on from the one before it.
Block(ms, k, i) ==
    [key |-> k, prev |-> IF i = 1 THEN ZeroBlock ELSE ms[i - 1],
     mac |-> Mac(App, Addr(App, i - 1), App.hash.pages[i])]

\* The device is at the signature of the app and has made these ciphertexts of its first
\* pages.
Synced(ms) ==
    /\ manifest = App
    /\ \E S : hashed \in Seq(S)
    /\ \E S : ms \in Seq(S)
    /\ Len(ms) = Len(hashed) /\ Len(ms) =< Total(App)
    /\ iv = IF Len(ms) = 0 THEN ZeroBlock ELSE ms[Len(ms)]
    /\ \A i \in 1 .. Len(ms) : ms[i] = Block(ms, key, i)

\* From the request for the signature on the host and the device are in step: whatever a
\* killed host left, the device is at its menu once it has answered with a public key.
HostInv ==
    /\ hpc # "idle" => reliable
    /\ hpc = "pubkey" => macs = <<>> /\ (chan.kind = "0x9000" => dpc = "menu")
    /\ hpc = "sign" =>
          /\ macs = <<>>
          /\ \/ chan = SignRequest(App, TRUE) /\ dpc = "menu"
             \/ chan.kind = "REQUEST_APP_PAGE" /\ dpc = "page" /\ Synced(macs)
    /\ hpc = "hmac" =>
          /\ Len(macs) < Total(App)
          /\ \/ /\ chan = PageApdu(App.hash.pages[Len(macs) + 1])
                /\ dpc = "page" /\ Synced(macs)
             \/ /\ chan.kind = "REQUEST_APP_HMAC" /\ dpc = "ack"
                /\ Synced(Append(macs, chan.enc_hmac))
    /\ hpc = "next" =>
          /\ Synced(macs)
          /\ \/ chan.kind = "ack" /\ dpc = "ack"
             \/ chan.kind = "REQUEST_APP_PAGE" /\ dpc = "page"
             \/ chan.kind = "0x9000" /\ chan.data = Signature(App) /\ chan.key = key
             \/ chan.kind = "0x6161"
    /\ ArchiveIsComplete

\* The app has a page at least, as its data section has (hsm.py).
LEMMA AppHasPages == Total(App) \in Nat \ {0} /\ App \in HsmSigned
BY ManifestAssumption, HsmAssumption DEF Total

\* A request to sign the app is accepted, and starts from nothing (handle_sign_app).
LEMMA SignKeepsHostInv ==
    ASSUME HostInv, hpc = "sign", DeviceStep
    PROVE  HostInv'
<1>1. chan = SignRequest(App, TRUE) /\ dpc = "menu" /\ macs = <<>>
    BY DEF HostInv, DeviceStep, GetPubkey, BadRequest, SignApp, RecvPage, RecvAck, Apdus
<1>2. chan.kind = "SIGN_APP" /\ chan.signed /\ chan.manifest = App
    BY <1>1 DEF SignRequest
<1>3. SignApp
    BY <1>1, <1>2 DEF DeviceStep, GetPubkey, BadRequest, RecvPage, RecvAck
<1>4. Start(App) /\ UNCHANGED hostVars
    BY <1>2, <1>3, AppHasPages DEF SignApp
<1>5. /\ manifest' = App /\ iv' = ZeroBlock /\ hashed' = <<>>
      /\ chan' = Msg("REQUEST_APP_PAGE") /\ dpc' = "page"
    BY <1>4, AppHasPages DEF Start, NextPage
<1>6. chan'.kind = "REQUEST_APP_PAGE"
    BY <1>5 DEF Msg
<1>7. macs' = <<>> /\ hpc' = "sign" /\ reliable' = reliable
    BY <1>1, <1>4 DEF hostVars
<1>8. Synced(macs)'
    <2>1. hashed' \in Seq({}) /\ macs' \in Seq({}) /\ Len(macs') = 0 /\ Len(hashed') = 0
        BY <1>5, <1>7
    <2> QED BY <1>5, <2>1, AppHasPages DEF Synced
<1> QED BY <1>5, <1>6, <1>7, <1>8 DEF HostInv, ArchiveIsComplete

\* A page is hashed; the ciphertext of its MAC follows those before it (encrypt_hmac).
LEMMA PageKeepsHostInv ==
    ASSUME HostInv, hpc = "hmac", DeviceStep
    PROVE  HostInv'
<1>1. /\ chan = PageApdu(App.hash.pages[Len(macs) + 1]) /\ dpc = "page" /\ Synced(macs)
      /\ Len(macs) < Total(App)
    BY DEF HostInv, DeviceStep, GetPubkey, BadRequest, SignApp, RecvPage, RecvAck, Apdus
<1>2. chan.kind = "page" /\ chan.content = App.hash.pages[Len(macs) + 1]
    BY <1>1 DEF PageApdu
<1>3. RecvPage
    BY <1>1, <1>2 DEF DeviceStep, GetPubkey, BadRequest, SignApp, RecvAck
<1> DEFINE page == chan.content
           n == Len(hashed)
           c == [key |-> key, prev |-> iv, mac |-> Mac(manifest, Addr(manifest, n), page)]
           ms == Append(macs, c)
<1>4. /\ hashed' = Append(hashed, page) /\ iv' = c /\ dpc' = "ack"
      /\ chan' = [kind |-> "REQUEST_APP_HMAC", enc_hmac |-> c]
      /\ UNCHANGED <<manifest, key, hostVars>>
    BY <1>2, <1>3 DEF RecvPage, Chain
<1>5. PICK S : hashed \in Seq(S)
    BY <1>1 DEF Synced
<1>6. PICK T : macs \in Seq(T)
    BY <1>1 DEF Synced
<1>7. c = [key |-> key, prev |-> IF n + 1 = 1 THEN ZeroBlock ELSE macs[n],
           mac |-> Mac(App, Addr(App, (n + 1) - 1), App.hash.pages[n + 1])]
    <2>1. n = Len(macs) /\ n \in Nat /\ (n + 1) - 1 = n
        BY <1>1, <1>5 DEF Synced
    <2>2. manifest = App /\ iv = IF n + 1 = 1 THEN ZeroBlock ELSE macs[n]
        BY <1>1, <2>1 DEF Synced
    <2> QED BY <1>2, <2>1, <2>2
<1>8. n = Len(macs) /\ n \in Nat /\ n + 1 =< Total(App)
    BY <1>1, <1>5, AppHasPages DEF Synced
<1> HIDE DEF c, page
<1>9. /\ ms \in Seq(T \cup {c}) /\ Len(ms) = n + 1 /\ ms[n + 1] = c
      /\ \A i \in 1 .. n : ms[i] = macs[i]
    <2>1. macs \in Seq(T \cup {c})
        BY <1>6
    <2> QED BY <1>8, <2>1
<1>10. hashed' \in Seq(S \cup {page}) /\ Len(hashed') = n + 1
    <2>1. hashed \in Seq(S \cup {page})
        BY <1>5
    <2> QED BY <1>4, <1>8, <2>1
<1>11. ASSUME NEW i \in 1 .. Len(ms) PROVE ms[i] = Block(ms, key, i)
    <2>1. CASE i = n + 1
        <3>1. n + 1 # 1 => ms[(n + 1) - 1] = macs[n]
            BY <1>8, <1>9
        <3> QED BY <1>7, <1>9, <2>1, <3>1 DEF Block
    <2>2. CASE i \in 1 .. n
        <3>1. ms[i] = macs[i] /\ (i # 1 => ms[i - 1] = macs[i - 1])
            BY <1>8, <1>9, <2>2
        <3>2. macs[i] = Block(macs, key, i)
            BY <1>1, <1>8, <2>2 DEF Synced
        <3> QED BY <3>1, <3>2 DEF Block
    <2> QED BY <1>8, <1>9, <2>1, <2>2
<1>12. Synced(Append(macs, chan.enc_hmac))'
    <2>1. chan'.enc_hmac = c /\ macs' = macs /\ key' = key /\ manifest' = App
        BY <1>1, <1>4 DEF hostVars, Synced
    <2>2. Append(macs, chan.enc_hmac)' = ms
        BY <2>1
    <2>3. iv' = ms[Len(ms)] /\ Len(ms) # 0
        BY <1>4, <1>8, <1>9
    <2> HIDE DEF ms
    <2> QED BY <1>8, <1>9, <1>10, <1>11, <2>1, <2>2, <2>3 DEF Synced, Block
<1>13. /\ hpc' = "hmac" /\ Len(macs') < Total(App) /\ chan'.kind = "REQUEST_APP_HMAC"
       /\ reliable' = reliable
    BY <1>1, <1>4 DEF hostVars
<1> QED BY <1>4, <1>12, <1>13 DEF HostInv, ArchiveIsComplete

\* After a page its acknowledgement: the next page, or the signature and the key
\* (compute_section_hmacs, handle_sign_app).
LEMMA AckKeepsHostInv ==
    ASSUME HostInv, hpc = "next", DeviceStep
    PROVE  HostInv'
<1>1. chan.kind = "ack" /\ dpc = "ack" /\ Synced(macs)
    BY DEF HostInv, DeviceStep, GetPubkey, BadRequest, SignApp, RecvPage, RecvAck, Apdus
<1>2. RecvAck
    BY <1>1 DEF DeviceStep, GetPubkey, BadRequest, SignApp, RecvPage
<1>3. /\ NextPage(App, hashed) /\ key' = key
      /\ UNCHANGED <<manifest, hashed, iv, hostVars>>
    BY <1>1, <1>2 DEF RecvAck, Synced
<1>4. Synced(macs)'
    BY <1>1, <1>3 DEF Synced, Block, hostVars
<1>5. \/ chan'.kind = "REQUEST_APP_PAGE" /\ dpc' = "page"
      \/ chan'.kind = "0x9000" /\ chan'.data = Signature(App) /\ chan'.key = key'
      \/ chan'.kind = "0x6161"
    BY <1>3 DEF NextPage, Finish, Error, Msg
<1>6. hpc' = "next" /\ reliable' = reliable
    BY <1>3 DEF hostVars
<1> QED BY <1>4, <1>5, <1>6 DEF HostInv, ArchiveIsComplete

\* Whatever the device takes the request for a public key for, with status 0x9000 it has
\* gone back to its menu (handle_sign_app, app_main).
LEMMA PubkeyKeepsHostInv ==
    ASSUME HostInv, hpc = "pubkey", DeviceStep
    PROVE  HostInv'
<1>1. hpc' = "pubkey" /\ macs' = <<>> /\ reliable' = reliable
    BY DEF HostInv, DeviceStep, GetPubkey, BadRequest, SignApp, RecvPage, RecvAck, hostVars
<1>2. ASSUME chan'.kind = "0x9000" PROVE dpc' = "menu"
    <2>1. CASE GetPubkey
        BY <2>1 DEF GetPubkey, deviceVars
    <2>2. CASE BadRequest \/ RecvPage
        BY <1>2, <2>2 DEF BadRequest, RecvPage, Error, Msg
    <2>3. CASE SignApp
        BY <1>2, <2>3 DEF SignApp, Start, NextPage, Finish, Error, Msg
    <2>4. CASE RecvAck
        BY <1>2, <2>4 DEF RecvAck, NextPage, Finish, Error, Msg
    <2> QED BY <2>1, <2>2, <2>3, <2>4 DEF DeviceStep
<1> QED BY <1>1, <1>2 DEF HostInv, ArchiveIsComplete

\* A host that gives up, or is not running, needs nothing of the device.
LEMMA NotRunning ==
    ASSUME HostInv, hpc' \in {"idle", "killed"}, hpc' # "idle" => reliable'
    PROVE  HostInv'
BY DEF HostInv, ArchiveIsComplete

\* The host takes a reply (device_get_pubkey, device_sign_app).
LEMMA HostKeepsHostInv ==
    ASSUME HostInv, HostStep, reliable
    PROVE  HostInv'
<1>1. UNCHANGED <<deviceVars, reliable>>
    BY DEF HostStep
<1>2. CASE AssertFails
    BY <1>1, <1>2, NotRunning DEF AssertFails
<1>3. ASSUME HostPubkey, ~AssertFails PROVE HostInv'
    <2>1. /\ hpc = "pubkey" /\ chan.kind = "0x9000"
          /\ chan' = SignRequest(App, TRUE) /\ hpc' = "sign" /\ macs' = macs
        BY <1>3 DEF HostPubkey
    <2>2. dpc' = "menu" /\ macs = <<>>
        BY <1>1, <2>1 DEF HostInv, deviceVars
    <2> QED BY <1>1, <2>1, <2>2 DEF HostInv, ArchiveIsComplete
<1>4. ASSUME HostPage, ~AssertFails PROVE HostInv'
    <2>1. /\ hpc = "sign" \/ (hpc = "next" /\ Len(macs) < Total(App))
          /\ chan.kind = "REQUEST_APP_PAGE" /\ hpc' = "hmac" /\ macs' = macs
          /\ chan' = PageApdu(App.hash.pages[Len(macs) + 1])
        BY <1>4 DEF HostPage
    <2>2. dpc = "page" /\ Synced(macs) /\ Len(macs) < Total(App)
        <3>1. CASE hpc = "sign"
            <4>1. chan # SignRequest(App, TRUE)
                BY <2>1 DEF SignRequest
            <4>2. macs = <<>> /\ dpc = "page" /\ Synced(macs)
                BY <3>1, <4>1, Zenon DEF HostInv
            <4>3. Len(macs) < Total(App)
                BY <4>2, AppHasPages
            <4> QED BY <4>2, <4>3
        <3>2. CASE hpc = "next" /\ Len(macs) < Total(App)
            BY <2>1, <3>2 DEF HostInv
        <3> QED BY <2>1, <3>1, <3>2
    <2>3. Synced(macs)'
        BY <1>1, <2>1, <2>2 DEF Synced, Block, deviceVars
    <2> QED BY <1>1, <2>1, <2>2, <2>3 DEF HostInv, ArchiveIsComplete, deviceVars
<1>5. ASSUME HostHmac, ~AssertFails PROVE HostInv'
    <2>1. /\ hpc = "hmac" /\ chan.kind = "REQUEST_APP_HMAC" /\ hpc' = "next"
          /\ macs' = Append(macs, chan.enc_hmac) /\ chan' = Msg("ack")
        BY <1>5 DEF HostHmac
    <2>2. dpc = "ack" /\ Synced(Append(macs, chan.enc_hmac))
        <3>1. chan # PageApdu(App.hash.pages[Len(macs) + 1])
            BY <2>1 DEF PageApdu
        <3> QED BY <2>1, <3>1 DEF HostInv
    <2>3. Synced(macs)'
        BY <1>1, <2>1, <2>2 DEF Synced, Block, deviceVars
    <2>4. chan'.kind = "ack" /\ dpc' = "ack"
        BY <1>1, <2>1, <2>2 DEF Msg, deviceVars
    <2> QED BY <1>1, <2>1, <2>3, <2>4 DEF HostInv, ArchiveIsComplete
<1>6. ASSUME HostFinish, ~AssertFails PROVE HostInv'
    <2>1. /\ hpc = "next" /\ Len(macs) = Total(App) /\ chan.kind = "0x9000"
          /\ hpc' = "signed"
          /\ signed' = [macs |-> Decrypted(chan.key), signatures |-> {chan.data},
                        pubkey |-> pubkey]
        BY <1>6 DEF HostFinish
    <2>2. chan.data = Signature(App) /\ chan.key = key /\ Synced(macs)
        BY <2>1 DEF HostInv
    <2>3. DOMAIN macs = 1 .. Total(App)
        <3>1. PICK S : macs \in Seq(S)
            BY <2>2 DEF Synced
        <3> QED BY <2>1, <3>1
    <2>4. ASSUME NEW i \in 1 .. Total(App)
          PROVE  /\ macs[i].key = key
                 /\ macs[i].prev = IF i = 1 THEN ZeroBlock ELSE macs[i - 1]
                 /\ macs[i].mac = Mac(App, Addr(App, i - 1), App.hash.pages[i])
        <3>1. macs[i] = Block(macs, key, i)
            BY <2>1, <2>2 DEF Synced
        <3> QED BY <3>1 DEF Block
    <2>5. Decrypted(key) = [i \in 1 .. Total(App) |->
                                Mac(App, Addr(App, i - 1), App.hash.pages[i])]
        BY <2>3, <2>4 DEF Decrypted
    <2>6. ArchiveIsComplete'
        BY <2>1, <2>2, <2>5 DEF ArchiveIsComplete
    <2> QED BY <1>1, <2>1, <2>6 DEF HostInv
<1> QED BY <1>2, <1>3, <1>4, <1>5, <1>6 DEF HostStep

\* Every step keeps host and device in step, or leaves the host without a signature.
LEMMA HostInvStep == HostInv /\ [Next]_vars => HostInv'
<1> SUFFICES ASSUME HostInv, [Next]_vars PROVE HostInv'
    OBVIOUS
<1>1. CASE DeviceStep
    <2>1. UNCHANGED hostVars
        BY <1>1 DEF DeviceStep, GetPubkey, BadRequest, SignApp, RecvPage, RecvAck
    <2>2. CASE hpc \notin {"pubkey", "sign", "hmac", "next"}
        BY <2>1, <2>2 DEF HostInv, ArchiveIsComplete, hostVars
    <2> QED BY <1>1, <2>2, PubkeyKeepsHostInv, SignKeepsHostInv, PageKeepsHostInv,
               AckKeepsHostInv
<1>2. CASE AnyHost
    <2>1. hpc' = "idle"
        BY <1>2 DEF AnyHost, HostInv, hostVars
    <2> QED BY <2>1, NotRunning
<1>3. CASE reliable /\ RunApp
    BY <1>3 DEF RunApp, HostInv, ArchiveIsComplete, PubkeyRequest
<1>4. CASE reliable /\ HostStep
    BY <1>4, HostKeepsHostInv
<1>5. CASE reliable /\ (Crash \/ Disconnect)
    BY <1>5, NotRunning DEF Crash, Disconnect
<1>6. CASE UNCHANGED vars
    <2>1. UNCHANGED <<dpc, manifest, hashed, key, iv, chan, hpc, macs, signed, reliable>>
        BY <1>6 DEF vars, hostVars, deviceVars
    <2>2. Synced(macs)' = Synced(macs)
        BY <2>1 DEF Synced, Block
    <2>3. Synced(Append(macs, chan.enc_hmac))' = Synced(Append(macs, chan.enc_hmac))
        BY <2>1 DEF Synced, Block
    <2>4. ArchiveIsComplete'
        BY <2>1 DEF HostInv, ArchiveIsComplete
    <2> QED BY <2>1, <2>2, <2>3, <2>4 DEF HostInv
<1> QED BY <1>1, <1>2, <1>3, <1>4, <1>5, <1>6 DEF Next, ReliableHost, Ended

\* However often host/app.py was killed, and wherever that left the device: when
\* device_sign_app succeeds, the archive is complete.
THEOREM ArchivesAreComplete == Spec => []ArchiveIsComplete
<1>1. Init => HostInv
    BY DEF Init, HostInv, ArchiveIsComplete
<1>2. HostInv => ArchiveIsComplete
    BY DEF HostInv
<1> QED BY <1>1, <1>2, HostInvStep, PTL DEF Spec
=============================================================================
