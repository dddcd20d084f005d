------------------------------ MODULE SignApp ------------------------------
(***************************************************************************)
(* The signature of an app by the device, once per device and app:          *)
(* handle_sign_app (app_signature.c, keys.c) and device_sign_app of         *)
(* host/app.py.  The host sends the manifest and then every page of the     *)
(* code and of the data; the device returns the MAC of each, encrypted      *)
(* under a key it gives away at the end, if the pages are those of a        *)
(* manifest the HSM signed.                                                 *)
(*                                                                          *)
(* The device has no timeout: a host that is killed and started again finds *)
(* it where it was.  The reply to an APDU of a host that was killed is lost *)
(* with the connection.                                                     *)
(*                                                                          *)
(* Cryptography is ideal: a hash, a MAC and a ciphertext are the records of *)
(* what went into them; only the HSM and the device sign.                   *)
(***************************************************************************)
EXTENDS Integers, Sequences

CONSTANTS
    Manifests,          \* manifests a host may have
    HsmSigned,          \* those the HSM signed
    Contents, Garbage,  \* contents of a page; what else is taken for one
    App,                \* the manifest of the app the host signs
    MaxStarts,          \* bound on the number of runs of host/app.py
    MaxCrashes,         \* bound on those that are killed
    MaxKeys             \* bound on the number of requests of a host that is not reliable

\* A manifest has the sections, as ranges of pages, and the hash of the app.
Total(m) == (m.code.end - m.code.start) + (m.data.end - m.data.start)
Sections(m) == [code |-> m.code, data |-> m.data]

ASSUME ManifestAssumption ==
    \A m \in Manifests :
        /\ {m.code.start, m.code.end, m.data.start, m.data.end} \subseteq Nat
        /\ m.code.start =< m.code.end /\ m.data.start < m.data.end

\* What the HSM signs was made by hsm.py.
ASSUME HsmAssumption ==
    /\ App \in HsmSigned /\ HsmSigned \subseteq Manifests
    /\ Garbage \notin Contents
    /\ \A m \in HsmSigned : /\ m.hash.sections = Sections(m)
                            /\ m.hash.pages \in [1 .. Total(m) -> Contents]

VARIABLES
    dpc, manifest,      \* where handle_sign_app is, and its argument
    hashed,             \* the pages in the SHA-256 context
    key, iv,            \* aes_key, and the block CBC goes on from
    chan,               \* the APDU or the reply in flight
    hpc,                \* where device_sign_app is
    macs,               \* its lists code_macs and data_macs, one after the other
    pubkey,             \* and device_pubkey
    signed,             \* what is in the archive in the end
    sent, released,     \* history: the MACs sent, and the keys given away
    starts, crashes,
    reliable            \* FALSE: any APDU instead of those of host/app.py

deviceVars == <<dpc, manifest, hashed, key, iv, sent, released>>
hostVars == <<hpc, macs, pubkey, signed, starts, crashes, reliable>>
vars == <<deviceVars, chan, hostVars>>

Msg(k) == [kind |-> k]
NoMsg == Msg("none")
PubkeyRequest(h) == [kind |-> "GET_PUBKEY", app_hash |-> h]
SignRequest(m, s) == [kind |-> "SIGN_APP", manifest |-> m, signed |-> s]
PageApdu(c) == [kind |-> "page", content |-> c]

\* APDUs, and replies by their status.
Apdus == {"GET_PUBKEY", "SIGN_APP", "page", "ack", "invalid"}
Replies == {"REQUEST_APP_PAGE", "REQUEST_APP_HMAC", "0x9000", "0x6161"}

\* The page that comes after n others, in the code and then in the data section.
Addr(m, n) ==
    LET size == m.code.end - m.code.start
    IN  IF n < size THEN m.code.start + n ELSE m.data.start + (n - size)

\* derive_hmac_key: from the hash the manifest has for the app.
HmacKey(m) == [seed |-> "hmac_seed", app_hash |-> m.hash]

\* generate_hmac; the counter is 0.
Mac(m, a, c) == [hmac_key |-> HmacKey(m), addr |-> a, page |-> c]

\* sign_manifest and get_device_pubkey, both with the key of get_privkey.
PrivKey(h) == [seed |-> "ecdsa_seed", app_hash |-> h]
Signature(m) == [privkey |-> PrivKey(m.hash), manifest |-> m]
Pubkey(h) == [privkey |-> PrivKey(h), pubkey |-> "secp256k1"]

ZeroBlock == [key |-> 0]

NoPubkey == [pubkey |-> "none"]
NotSigned == [macs |-> <<>>, signatures |-> {}, pubkey |-> NoPubkey]
-----------------------------------------------------------------------------
(* The device. *)

Error == dpc' = "menu" /\ chan' = Msg("0x6161")

\* INS_GET_DEVICE_PUBKEY
GetPubkey ==
    /\ dpc = "menu" /\ chan.kind = "GET_PUBKEY"
    /\ chan' = [kind |-> "0x9000", data |-> Pubkey(chan.app_hash)]
    /\ UNCHANGED <<deviceVars, hostVars>>

\* What no handler takes.
BadRequest ==
    /\ dpc = "menu" /\ chan.kind \in {"page", "ack", "invalid"}
    /\ Error
    /\ UNCHANGED <<manifest, hashed, key, iv, sent, released, hostVars>>

\* Faulty variant: the pages of the code are hashed and not those of the data.
AppHashOfCode(m, pages) ==
    LET size == m.code.end - m.code.start
    IN  [sections |-> Sections(m),
         pages    |-> SubSeq(pages, 1, size) \o SubSeq(m.hash.pages, size + 1, Total(m))]

AppHash(m, pages) == [sections |-> Sections(m), pages |-> pages]

\* Once all of the pages were received: the signature and the key.
Finish(m, pages) ==
    IF AppHash(m, pages) = m.hash
    THEN /\ released' = released \cup {key'}
         /\ chan' = [kind |-> "0x9000", data |-> Signature(m), key |-> key']
         /\ dpc' = "menu"
    ELSE Error /\ UNCHANGED released

\* The loops of compute_section_hmacs.
NextPage(m, pages) ==
    IF Len(pages) < Total(m)
    THEN chan' = Msg("REQUEST_APP_PAGE") /\ dpc' = "page" /\ UNCHANGED released
    ELSE Finish(m, pages)

\* Faulty variant: the context of an earlier request is used again.
StartKeepsHash(m) ==
    /\ manifest' = m /\ key' = key + 1 /\ iv' = ZeroBlock /\ hashed' = hashed
    /\ NextPage(m, hashed)

Start(m) ==
    /\ manifest' = m /\ key' = key + 1 /\ iv' = ZeroBlock /\ hashed' = <<>>
    /\ NextPage(m, <<>>)

\* INS_SIGN_APP
SignApp ==
    /\ dpc = "menu" /\ chan.kind = "SIGN_APP"
    /\ \/ /\ chan.signed /\ chan.manifest \in HsmSigned
          /\ Start(chan.manifest)
       \/ /\ ~(chan.signed /\ chan.manifest \in HsmSigned)
          /\ Error
          /\ UNCHANGED <<manifest, hashed, key, iv, released>>
    /\ UNCHANGED <<sent, hostVars>>

\* Faulty variant: each section starts from a zero block.
ChainPerSection(c, n) ==
    IF n + 1 = manifest.code.end - manifest.code.start THEN ZeroBlock ELSE c

\* encrypt_hmac keeps the last block of ciphertext c, that of page n, for the next page.
Chain(c, n) == c

\* Whatever the APDU is, the VM takes 256 bytes of it for the page.
RecvPage ==
    /\ dpc = "page" /\ chan.kind \in Apdus
    /\ IF chan.kind = "invalid"
       THEN Error /\ UNCHANGED <<hashed, iv, sent>>
       ELSE LET page == IF chan.kind = "page" THEN chan.content ELSE Garbage
                n    == Len(hashed)
                c    == [key |-> key, prev |-> iv, mac |-> Mac(manifest, Addr(manifest, n), page)]
            IN  /\ hashed' = Append(hashed, page)
                /\ iv' = Chain(c, n)
                /\ sent' = sent \cup {c}
                /\ chan' = [kind |-> "REQUEST_APP_HMAC", enc_hmac |-> c]
                /\ dpc' = "ack"
    /\ UNCHANGED <<manifest, key, released, hostVars>>

RecvAck ==
    /\ dpc = "ack" /\ chan.kind \in Apdus
    /\ key' = key
    /\ IF chan.kind = "invalid" THEN Error /\ UNCHANGED released
       ELSE NextPage(manifest, hashed)
    /\ UNCHANGED <<manifest, hashed, iv, sent, hostVars>>

DeviceStep == GetPubkey \/ BadRequest \/ SignApp \/ RecvPage \/ RecvAck
-----------------------------------------------------------------------------
(* The host: host/app.py. *)

\* The user runs host/app.py.
RunApp ==
    /\ hpc = "idle" /\ starts < MaxStarts
    /\ hpc' = "pubkey"
    /\ starts' = starts + 1
    /\ macs' = <<>> /\ pubkey' = NoPubkey
    /\ chan' = PubkeyRequest(App.hash)
    /\ UNCHANGED <<deviceVars, signed, crashes, reliable>>

\* An assertion fails if the status is not the one expected.
AssertFails == hpc' = "idle" /\ chan' = NoMsg /\ UNCHANGED <<macs, pubkey, signed>>

HostPubkey ==
    /\ hpc = "pubkey" /\ chan.kind \in Replies
    /\ IF chan.kind = "0x9000"
       THEN /\ pubkey' = chan.data
            /\ chan' = SignRequest(App, TRUE)
            /\ hpc' = "sign"
            /\ UNCHANGED <<macs, signed>>
       ELSE AssertFails

HostPage ==
    /\ hpc = "sign" \/ (hpc = "next" /\ Len(macs) < Total(App))
    /\ chan.kind \in Replies
    /\ IF chan.kind = "REQUEST_APP_PAGE"
       THEN /\ chan' = PageApdu(App.hash.pages[Len(macs) + 1])
            /\ hpc' = "hmac"
            /\ UNCHANGED <<macs, pubkey, signed>>
       ELSE AssertFails

HostHmac ==
    /\ hpc = "hmac" /\ chan.kind \in Replies
    /\ IF chan.kind = "REQUEST_APP_HMAC"
       THEN /\ macs' = Append(macs, chan.enc_hmac)
            /\ chan' = Msg("ack")
            /\ hpc' = "next"
            /\ UNCHANGED <<pubkey, signed>>
       ELSE AssertFails

\* decrypt_hmac, for the code and then for the data, with one CBC object.
Decrypted(k) ==
    [i \in DOMAIN macs |->
        IF macs[i].key = k /\ macs[i].prev = IF i = 1 THEN ZeroBlock ELSE macs[i - 1]
        THEN macs[i].mac ELSE Garbage]

HostFinish ==
    /\ hpc = "next" /\ Len(macs) = Total(App) /\ chan.kind \in Replies
    /\ IF chan.kind = "0x9000"
       THEN /\ signed' = [macs |-> Decrypted(chan.key), signatures |-> {chan.data},
                          pubkey |-> pubkey]
            /\ hpc' = "signed"
            /\ chan' = NoMsg
            /\ UNCHANGED <<macs, pubkey>>
       ELSE AssertFails

HostStep ==
    /\ HostPubkey \/ HostPage \/ HostHmac \/ HostFinish
    /\ UNCHANGED <<deviceVars, starts, crashes, reliable>>

\* host/app.py is killed; the reply the device still owes it is lost.
Crash ==
    /\ hpc \notin {"idle", "signed", "killed"} /\ crashes < MaxCrashes
    /\ crashes' = crashes + 1
    /\ hpc' = "killed"
    /\ UNCHANGED <<deviceVars, chan, macs, pubkey, signed, starts, reliable>>

Disconnect ==
    /\ hpc = "killed" /\ chan.kind \notin Apdus
    /\ hpc' = "idle" /\ chan' = NoMsg
    /\ UNCHANGED <<deviceVars, macs, pubkey, signed, starts, crashes, reliable>>

\* A host that sends what it likes.
AnyHost ==
    /\ ~reliable /\ chan.kind \notin Apdus
    /\ \/ chan' \in {Msg(k) : k \in {"ack", "invalid"}}
       \/ chan' \in {PubkeyRequest(m.hash) : m \in Manifests}
       \/ chan' \in {PageApdu(c) : c \in Contents}
       \/ /\ key < MaxKeys
          /\ chan' \in {SignRequest(m, s) : m \in Manifests, s \in BOOLEAN}
    /\ UNCHANGED <<deviceVars, hostVars>>
-----------------------------------------------------------------------------
Init ==
    /\ dpc = "menu" /\ manifest = App /\ hashed = <<>> /\ key = 0 /\ iv = ZeroBlock
    /\ chan = NoMsg
    /\ hpc = "idle" /\ macs = <<>> /\ pubkey = NoPubkey /\ signed = NotSigned
    /\ sent = {} /\ released = {}
    /\ starts = 0 /\ crashes = 0
    /\ reliable \in BOOLEAN

ReliableHost == reliable /\ (RunApp \/ HostStep \/ Crash \/ Disconnect)

\* The app is signed, or the bound on the number of runs was reached.
Ended ==
    /\ hpc = "signed" \/ (hpc = "idle" /\ starts = MaxStarts)
    /\ UNCHANGED vars

Next == DeviceStep \/ AnyHost \/ ReliableHost \/ Ended

Spec == Init /\ [][Next]_vars

\* The device answers, the host goes on, and the user runs host/app.py until it succeeds.
FairSpec ==
    Spec /\ WF_vars(DeviceStep) /\ WF_vars(HostStep) /\ WF_vars(Disconnect) /\ WF_vars(RunApp)
-----------------------------------------------------------------------------
(* Properties. *)

\* The key is given away if and only if the manifest and the pages are valid
\* (docs/app-encryption.md): whatever a host sends, it can decrypt no MAC but those of
\* the pages of an app the HSM signed, each at its address.
MacsAreOfSignedApps ==
    \A c \in sent : c.key \in released =>
        \E m \in HsmSigned : \E i \in 1 .. Total(m) :
            c.mac = Mac(m, Addr(m, i - 1), m.hash.pages[i])

\* When device_sign_app has succeeded the archive has the MAC of every page of the app,
\* in order, and the signature of its manifest.
ArchiveIsComplete ==
    hpc = "signed" =>
        /\ signed.signatures = {Signature(App)}
        /\ signed.macs = [i \in 1 .. Total(App) |->
                            Mac(App, Addr(App, i - 1), App.hash.pages[i])]

\* However often host/app.py was killed, and wherever that left the device, running it
\* again and again signs the app.
RetriesSucceed == reliable => <>(hpc = "signed")
=============================================================================
