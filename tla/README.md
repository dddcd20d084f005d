# A TLA+ model of the streaming VM

This directory is a verification project for `app-streaming`: a RISC-V virtual machine that
runs on a Ledger device with a few kilobytes of RAM and streams the pages of the app it runs
from, and back to, an untrusted host. It has TLA+ modules that model the core of the system,
TLC configurations that check them on small instances, and proofs that TLAPS checks for every
value of the constants. `PROJECT.json` is the index: components, runs, faulty variants
(mutants), the source lines each definition stands for, findings, hazards and theorems.

To check it: `tlc -config MCPagingAny.cfg MCPaging` (and likewise for the other runs below) and
`tlapm PagingProofs.tla` (and `XferProofs`, `GuestProofs`, `SignProofs`, `CacheProofs`,
`MerkleProofs`, `ImageProofs`, `AppProofs`).

## 1. The system

```
   app (RISC-V ELF)          device                                  host (Python)
  +----------------+   ecall/   +-------------------------------+  APDU  +--------------------+
  | app/, app/sdk  | <--------> | cpu.c  ecall*.c               | <----> | stream_device.py   |
  +----------------+  load/store|   stream.c -- memory.c        |        |   Page store       |
                                |      |         (page caches)  |        |   merkletree.py    |
                                |   merkle.c (root hash only)   |        +--------------------+
                                +-------------------------------+
```

The device serves one command at a time: a reply of the device *is* the next request to the
host (`REQUEST_PAGE`, `COMMIT_PAGE`, ...), and the host's next APDU is the answer. There is one
thread on each side, so the concurrency is that of a two-party protocol over a channel that
holds one message. What makes it hard is that one memory access of the app may take dozens of
exchanges, that the state behind it is spread over two machines, that one of these machines is
not trusted, and that any of these exchanges may fail half-way.

| Component | State it keeps | Operations | Talks to |
|---|---|---|---|
| Page caches, `vm/src/memory.c`, `lfsr.c` | three sorted arrays of `struct page_s` (address, data, IV), `current_page`, `bss_max`, `stack_min`, the LFSR | `get_page`, `get_code_page`, `create_page`, `evict_page`, `reorder_pages`, `init_caches` | calls `stream_request_page` and `stream_commit_page`; called by `stream.c` |
| Page protocol on the device, `vm/src/stream.c`, `apdu.h` | keys, `struct app_s` | `stream_request_page`, `stream_commit_page`, `mem_read`, `mem_write`, `get_buffer`, `get_instruction`, `stream_init_app`, `stream_run_app` | `merkle.c`; the host through `io_exchange` |
| Merkle tree on the device, `vm/src/merkle.c` | root hash, number of entries, last entry | `merkle_insert`, `merkle_update`, `merkle_verify_proof` | called by `stream.c` |
| Host, `host/stream_device.py` | `pages`, `merkletree`, send and receive buffers and counters | `handle_read_access`, `handle_write_access`, `handle_send_buffer`, `handle_recv_buffer`, `exchange`, `init_app`, `exit_app` | the device |
| Merkle tree on the host, `host/merkletree.py` | list of entries | `insert`, `update`, `mth`, `_path`, `get_proof`, `get_proof_of_last_entry` | called by `stream_device.py` |
| Session loop, `vm/src/main.c`, `general_handlers.c` | `app_running` | APDU loop, launch of an app, general commands | `stream.c` |
| System calls, `vm/src/ecall*.c` | buttons, screen | `xsend`, `xrecv`, memory, cryptography, buttons, `exit`, `fatal` | `stream.c`, the host |
| Interpreter, `vm/src/cpu.c` | registers, pc | `rv_cpu_execute` | `mem_read`, `mem_write`, `ecall` |
| App signature, `vm/src/app_signature.c`, `keys.c`, `host/app.py` | keys, running hash | `device_sign_app` | the host |
| Manifest tools, `host/hsm.py`, `elf.py`, `manifest.py` | none | manifest, initial tree | files |
| Apps and SDK, `app/` | per app | requests of the swap and Ethereum apps, screens, RLP | `xsend`, `xrecv` |

### What makes each component correct

* *Page caches*: the array stays sorted, so that the binary search finds every page and free
  slots come first; no page is held twice; no page is dropped without being committed; the
  pages that exist are exactly those below `bss_max` and from `stack_min` on.
* *Page protocol*: whatever the host replies, the app reads what it last stored, or is stopped;
  no two contents are encrypted under the same address and IV; with the host's own code the device
  refuses nothing and every fault ends. The one path on which a fault fails and the app is not
  stopped, a draw, breaks the first two (finding 2).
* *Merkle trees*: the root the device computes incrementally is the root of the host's tree; a
  proof verifies for one entry only.
* *Session*: an app starts from its image, whatever ran before.
* *Message transport*: `xrecv()` gives the app the message, and `exchange()` gives the host the
  reply, whole and in order, wherever the buffer lies; calls end; a chunk never goes past the
  app's buffer, whatever the host sends; `exit_app()` leaves the VM at its menu.
* *Memory calls*: they do to the app's memory what the C functions do, whatever pages are evicted
  between two turns of their loops, and touch nothing else.
* *Interpreter*: an instruction has the effect the instruction set defines.
* *App signature*: a host can read the MACs of pages of signed apps only; a host that is killed and
  run again gets a complete archive.
* *Confirmation by the user*: what is accepted or rejected is what the screen shows, and a press is
  reported once, with all of its buttons.
* *Big integers*: 256-bit arithmetic on two halves of 128 bits is that of the integers.
* *Hash calls*: a digest is that of all its context was given, however it was cut.
* *Manifest tools*: every byte of the ELF file is where the app expects it on the device, the device
  makes MACs for the addresses at which the host will serve the pages, and HSM and host start from
  one tree.
* *Bluetooth*: an APDU arrives whole, and no frame is left for the next exchange.
* *Swap app*: a payment is signed once, for what was on the screen, and only if Ledger
  certified the partner, the partner signed the offer for the number this device drew last, and
  both of its addresses are the device's own; the user is asked about an offer once.
* *Ethereum app*: the message that is signed is the one that was sent, and what the screen has of it
  is of the same message, whatever came before; a response that says so was approved by the user.
* *Conversions of the apps*: an amount or an address on the screen stands for the number and the
  bytes it was printed from; RLP is decoded to what was encoded.

### What is hard to test

The hazards are listed with their lines in `PROJECT.json`. The main kinds are replayed but
authentic pages (`stream.c:205`), a fault that fails after the slot was overwritten
(`memory.c:222`), the counter that is incremented before the host has the page
(`stream.c:231`), the IV limit (`stream.c:227`), the copy of the last entry in `merkle.c:117`,
growth of the heap and the stack through pages that have to be created first
(`memory.c:198`), the pointer into an array that is reordered (`memory.c:285`), state that
survives from one launch to the next (`memory.c:52`), chunks cut at page and APDU boundaries
with one byte in `p2` (`ecall.c:86`), an app that ends when the host resumes it
(`stream_device.py:213`), a pointer into a page that the next fault evicts (`ecall.c:433`), and a
signature that is taken up again by a host that was restarted (`app_signature.c:75`). In the apps it
is what is kept from one request to the next: the number of the offer (`swap/main.c:58`), the
static members of a message (`eip712.c:358`), the response on the stack (`app-ethereum.c:76`); and
the limits of the conversions (`uint256.c:229`, `rlp.c:43`, `bcd.c:10`, `base58.c:127`, `elf.py:27`,
`ble.py:94`).

## 2. Modules

| Module | What it models |
|---|---|
| `FlatMemory` | The abstract specification: a memory from page numbers to contents, with loads, fetches, draws and stores, until it breaks. |
| `Paging` | The page-fault path of the device and the page store of the host, one action per exchange. Contains all of the properties of runs 1 and 2. |
| `PageCache` | The sorted array behind one cache: binary search, eviction, reordering. |
| `Merkle` | The trees, paths and incremental root computations of both sides. |
| `Relaunch` | `Paging`, with further launches by the same VM. |
| `Xfer` | `xsend` and `xrecv` on the device, `exchange` and its handlers on the host, launch and end of the app. |
| `GuestMemory` | The system calls that walk through the app's memory: `memcpy`, `memset`, `strlen`, `strnlen`, copies from and to the VM. |
| `Cpu` | `rv_cpu_execute`, one instruction from any state of the registers, and the instruction set as its reference. |
| `SignApp` | The signature of an app: `handle_sign_app` on the device, `device_sign_app` on the host, which may be killed. |
| `Ux` | `ux_validate` of the SDK on top of `sys_wait_button` and `io_event`. |
| `SwapAgreement` | The abstract specification of the swap app: offers that are open once, and payments that close them. |
| `SwapApp` | The swap app: its requests, the checks of an offer, the review, the payment. |
| `EthereumApp` | The Ethereum app: addresses, transactions, messages, and the two EIP-712 structures with their static members. |
| `Rlp` | The RLP decoder of the Ethereum app and the encoder of the swap app. |
| `UInt256` | `uint256.c`: shifts, sums, products, divisions and decimal digits on halves. |
| `Amounts` | How both apps print ether and bitcoins. |
| `Addresses` | Base 58, segwit and Ethereum addresses. |
| `HashCalls` | `sys_hash_update`, `sys_hash_final` and the hash functions of the SDK. |
| `AppImage` | From the ELF file to the memory of the device: padding, manifest, MACs, the pages of the host. |
| `Ble` | The frames of an APDU over Bluetooth. |
| `ImagesAndFrames` | What is asked of `AppImage` and `Ble`, as functions of an input; what the inputs are. |
| `MCPaging`, `MCRelaunch`, `MCSignApp` | The image and the manifests, for TLC. |
| `MCApps` | `SwapApp`, `EthereumApp`, `Ux` and `HashCalls`, with the requests of their hosts. |
| `MCFunctions` | `PageCache`, `Merkle`, `Cpu`, `UInt256`, `Rlp`, `Amounts`, `Addresses`, `AppImage` and `Ble`, each alone, with the inputs. |
| `PagingProofs`, `XferProofs`, `GuestProofs`, `SignProofs`, `CacheProofs`, `MerkleProofs`, `ImageProofs`, `AppProofs` | Theorems and proofs about `Paging`, `Xfer`, `GuestMemory`, `SignApp`, `PageCache`, `Merkle`, `AppImage` and `Ble`, and `SwapApp`, `EthereumApp`, `Ux` and `HashCalls` together. |

`Paging` rests on `PageCache` and `Merkle`: it treats a cache as a *set* of slots, which `PageCache`
justifies (a page is found exactly when some slot holds it, a free slot goes first, reordering
does not mix pages up); and it treats a root hash as the map from addresses to counters it
authenticates and a proof as one leaf of such a map, which `Merkle` justifies (a path verifies
for its own entry and no other, and both sides compute the same root). Both are proved of the
detailed modules, for caches and trees of every size (section 4).

### Paging: state and code

| Variable | Code |
|---|---|
| `pages` | `memory.code_pages`, `stack_pages`, `data_pages`; a slot never filled has address 0 |
| `bss_max`, `stack_min` | the fields of the same names |
| `root`, `last_entry` | `ctx.root_hash` (with `ctx.n`), `ctx.last_entry` of `merkle.c` |
| `pc`, `frame`, `loading` | where the device is in `get_page`/`create_page`/`stream_*_page`, and the locals of these calls |
| `chan` | the APDU in flight |
| `err`, `out` | why the app was stopped; the last access completed |
| `sealed` | history: what was encrypted under the dynamic key |
| `ignored` | history: the app went on after a fault that failed half-way |
| `hpages`, `htree`, `hlast`, `hpc`, `hreq` | `DeviceStream.pages`, `merkletree`, its last entry, and where the host is in its handler |

A memory access is `Lookup` (the section test, `find_page`, `evict_page`), then, on a miss,
`Evict` (commit the victim, or nothing for a code page or a free slot), `CommitHmac`,
`CommitProof`, then either `CreateEmptyPage` for each page between the limit and the page used,
followed by `UseZeroPage`, or `RequestPage`, `RequestHmac`, `RequestProof` and `VerifyProof`; and
at last `Access`. Each action runs from the reply of one `io_exchange` to the command of the
next one. The host's actions are the five exchanges of `handle_read_access` and
`handle_write_access`, assertions included (`HostAssertFails`). `assert len(proof) <= 250` has
room for a path of 7 nodes: it holds in a tree of at most `MaxLeaves` (128) leaves, and in a larger one
it may hold and may fail, which depends on the leaf's place in the tree (`ProofsFit`). In
`HostCommit` it comes after the host has written the page and its tree.

With `HostReliable = FALSE` the replies are not those of the host's code: the device may be
given any page and any MAC that exists (of the archive, or computed by the device since the
launch), the proof of any tree, or a malformed APDU (`AnyHostReplies` answers, and the device's
actions choose the contents). This is the host of the threat model in `docs/encryption-overview.md`.

A fault that fails (`Fail`) stops the app, unless the access is one of `ECALL_BAGL_DRAW` ("draw"):
`ecall_dispatcher.c:49` drops its result, and the app goes on with what the fault had done so far.
If that is something (`halfway`: a slot that has a new address, pages that were created, a counter
that was incremented), `ignored` becomes TRUE and stays so. From then on the array may not be sorted, so
that the search may miss a page that is held (`Missed`) and take any slot for the free one
(`evict_page`); `Live` then counts the slot with the unverified bytes, as `find_page` does.
The app is followed on this path through any number of hits and loads, and as many commits as
`MaxSealed` allows; when an address is inserted that is a leaf already, the tree has two leaves for
it, which the map from addresses to counters cannot hold, and the model ends there (`SecondLeaf`).

Order of effects kept from the code: the IV is incremented before the page is encrypted and
before the host has it; address and data are copied into the slot before the MAC is checked;
`loading` marks the slot whose victim is saved and whose new contents are not verified yet;
`bss_max` and `stack_min` move only when all of the pages below were committed.

### The other modules: state and code

* `Xfer`: `mem` is the app's memory; `call` holds the arguments and locals of `sys_xrecv` or
  `sys_xsend` (`addr`, `size`, `counter`, `ret`); `recv_buffer`, `recv_buffer_counter`,
  `send_buffer`, `send_buffer_counter` and `initialized` are the fields of `DeviceStream`;
  `buffer_received`, `message` and `exit_app` are what `exchange` holds; `chan` is the APDU in
  flight. One action per chunk and side; a page fault (`GetBufferFault`) may come before any chunk
  and is one exchange here, as it is `Paging`'s subject. When `reliable` is FALSE the device finds
  any `p1` and any number of bytes in the reply to a request for data. `asked`, `last_call` and
  `excused` are history.
* `GuestMemory`: `cache` and `store` are the slots and the host's pages; `call` the arguments and
  locals of the call; each action is one turn of its loop, and `memcpy`, which needs two pages,
  has two actions per turn. `get_buffer` may evict any slot, the one of the source too.
* `Cpu`: `regs` and `pc` are `struct rv_cpu`. An instruction is given decoded. `Alu`, `Taken`,
  `mem_read` and so on are the code; `IsaResult`, `IsaRd`, `IsaPc` are the reference, by the bits
  of the operands and by integers.
* `SignApp`: `dpc`, `manifest`, `hashed` (the SHA-256 context), `key` and `iv` are the locals of
  `handle_sign_app`; `macs`, `pubkey` and `signed` those of `host/app.py`. `Crash` kills the host;
  the reply the device owes is lost and the device stays where it was. When `reliable` is FALSE
  the host sends any APDU.
* `Ux`: `g_button_mask`, `g_button_same_mask_counter`, `wait_for_button` are the VM's variables;
  `n` and `refresh` the locals of `ux_validate`; `shown` is the screen.

* `SwapApp`: `ctx` is `ctx.device_id_swap`; `request` and `screen` are what `handle_swap` has in hand while
  `ux_validate` waits; `reply` is the response. One action per request and outcome: a request that
  fails a check (`RefuseSwap`), one that goes to the screen (`ReviewSwap`), and what follows the
  user's answer. `Checked` has the checks of `handle_swap`. `Restart` may come between any two
  steps. `issued`, `asked` and `signed` are history. An amount is the class of its length ("zero",
  "large", "huge") where the code branches on it. The gas price of the transaction is the term of its
  two factors, 21000 and the fee (`encode_gas_price`).
* `EthereumApp`: `members` are the static variables of `example_mail.c` and `opensea.c`; `response` is the
  local of `main`, which is not cleared between two requests: a response of the same kind keeps
  what the handler does not write (`Leftovers`). `extract_fields` works through the tokens and stops
  at the first that fails, with the members before it already changed. Strings and bytes are
  pointers into the buffer of the request, so those of an earlier one point elsewhere (`Received`).
  The screen is made of the members by `copy_string`, `copy_address` and `copy_amount`, with the ends
  of their buffers.
  `accepted` and `answered` are history.
* `Rlp`, `UInt256`, `Amounts`, `Addresses`: one operator per C function, with its loops as folds or
  recursion, and a reference: RLP by its definition, integers, decimal numbers, and reading back.

* `HashCalls`: `guest` has the `ctx_hash_guest_t` of the app, one per hash under way; what is copied
  from it and to it is `Restored` and `Saved`. A context that was not initialized holds whatever
  the stack did (`Rubbish`). `hashed` and `digest` are history. The library is external: `CxByte` is a
  block buffer that keeps its old bytes, as Merkle-Damgard and sponge hashes do.
* `AppImage`: `Segment`, `Manifest`, `AskedPages`, `Kept`, `CacheOf` are what `elf.py`, `hsm.py`,
  `app_signature.c`, `stream_device.py` and `memory.c` make of two segments. `RunsTheProgram` relates
  them: nothing but these five computations makes the addresses of one agree with those of another.
* `Ble`: `Frames` is `async_exchange_ble`, `wait_for_apdu` takes its frames from the queue that
  `callback` fills.

### Abstractions

* An address is a page number; offsets within a page, and hence accesses across a page
  boundary (refused by `get_buffer` and never made by aligned loads) are left out. The contents
  of a page are one value, so a store replaces the page.
* Cryptography is ideal: a ciphertext is the record of what was encrypted, a MAC the record of
  what was authenticated, a digest the term that was hashed. Decrypting under another address
  or IV gives `Garbage`. The address is part of the IV of `encrypt_page`, so equal IVs matter
  only for one address.
* `lfsr_get_random() % npage` is any slot.
* The app accesses pages of `Accesses` in any order; what the interpreter and the system calls
  do with the values is no part of this model.
* `Xfer`, `GuestMemory`: pages of 4 and 2 bytes in place of 256, APDUs of 3 data bytes in place of
  249. `Cpu`: words of 8 bits and bytes of 2, with all widths derived from `W`.
* `UInt256`: 8 words of 4 bits in place of 32 bits; `EthereumApp`: integers of 2 bytes and addresses of 3;
  buffers of the screen with room for 3 characters (`ShownChars`, 79 in the code) and amounts of 2 digits
  (`ShownDigits`, 74). The characters of a string are named one by one only for this.
* `SwapApp`, `EthereumApp`: a signature is the record of who signed what, a digest is the term, a request
  is what `pb_decode` and the JSON parser make of it, and what they refuse is one value.
* `HashCalls`: a state of the hash function is the sequence of the blocks that went into it; blocks of 2
  and 3 bytes, pages of 2. `AppImage`: pages of 4 bytes and a heap of two pages.
* `SignApp`: a key, a MAC or a signature is the record of what it was made from; the seeds are
  those of one device.
* The manifest is valid (`LayoutAssumption`): sections do not overlap or contain page 0, and
  there is one page of initial data at least (`hsm.py` takes the last entry of the tree).

## 3. Runs

| Run | Module / cfg | Checks | Shows |
|---|---|---|---|
| 1 `paging_any_host` | `MCPaging`, `MCPagingAny.cfg` | `TypeOK`, `NoIvReuse`, `NoDuplicatePage`, `InsertsAreFresh`, `ImplementsFlatMemory`, `CountersGrowByOne` | Whatever the host replies, the app sees a flat memory and no IV is reused, until the app is stopped or goes on after a draw whose fault failed half-way. About 738,000 states. |
| 2 `paging_reliable_host` | `MCPaging`, `MCPagingReliable.cfg` | `StopsOnlyForCause`, `HostInSync`, `FaultsEnd` | With the host's own code, no verification of the device fails, an assertion fails only in a tree whose proofs may not fit an APDU, both trees agree between two accesses, and every fault ends. About 34,000 states. |
| 3 `page_cache_draw` | `PageCache`, `MCPageCacheDraw.cfg` | `PagesSorted` | *Violated*: see finding 2. |
| 4 `relaunch` | `MCRelaunch`, `MCRelaunch.cfg` | `LaunchStartsFresh` | *Violated*: see finding 1. |
| 5 `xfer` | `Xfer`, `MCXfer.cfg` | `RepliesAreWhole`, `MessagesAreWhole`, `HostFailsForCause`, `ExitStopsApp`, `CallsEnd` | Messages go through whole and in order; the host fails only for an app that misuses the calls or ends by itself. About 260,000 states. |
| 6 `guest_memory` | `GuestMemory`, `MCGuestMemory.cfg` | `CallsAsReference`, `FailsForCause`, `CallsReturn` | The memory calls are those of C, whatever pages are evicted on the way, and touch nothing else. About 220,000 states. |
| 7 `sign_app` | `MCSignApp`, `MCSignApp.cfg` | `MacsAreOfSignedApps`, `ArchiveIsComplete`, `RetriesSucceed` | The key is given away for signed apps only, and retries succeed. About 150,000 states. |
| 8 `apps` | `MCApps`, `MCApps.cfg` | `AskedOncePerId`, `SignsWhatWasShown`, `ImplementsAgreement` (swap); `SignsTheMessage`, `ApprovedByTheUser` (Ethereum); `ConfirmsWhatIsShown`, `AnswersAreThePresses` (screens); `DigestsAreOfTheMessages` (hashes) | The swap app keeps the agreement of its parties; the screen was made of what is signed, as far as section 6 says; hashes are of the whole message. About 67,000 states. |
| 9 `eip712_digest` | `MCApps`, `MCAppsDigest.cfg` | `SameMessageSameDigest` | *Violated*: see finding 4. |
| 10 `sequential` | `MCFunctions`, `MCFunctions.cfg` | `PagesSorted`, `FindsEveryPage`, `ReturnsThePage`, `EvictsOnlyTheVictim` (page cache); `TreesOfHostAndDevice`, `ExactProofs` (trees); `ExecutesAsIsa` (interpreter); `IntegersOfTheVm`, `TransactionsDecode`, `PrintedReadsBack` (amounts and addresses); `ProgramsRun` (ELF to memory); `FramesCarryTheApdu` (Bluetooth) | Each sequential part is what its reference says. About 210,000 states. |
| 11 `cpu_mulh` | `Cpu`, `MCCpuMulh.cfg` | `ProductsAsIsa` | *Violated*: see finding 3. |
| 12 `bitcoin_amounts` | `MCFunctions`, `MCFunctionsBitcoin.cfg` | `SatoshisPrint` | *Violated*: see finding 5. |

### Bounds, and why they are enough

* Run 1: one code page, one page of initial data, a heap of two pages, one code slot and two data
  slots. Two data slots and three data pages are the smallest instance in which a page is
  evicted while another is kept, is requested again at an older and at a newer counter, and in
  which an access to the second heap page has to create the first one on the way. `MAX_IV = 2`
  lets a page be created, committed again, and meet the limit. There is no stack: it behaves as
  the heap, in the other direction, and is in run 2. Any access may be a draw. Once a failure was
  ignored, a new access begins only while at most `MaxSealed` (1) pages were encrypted: of what
  follows, only `TypeOK` says anything. `MaxLeaves` is 128, and plays no part with this host.
* Run 2: one slot per section, so that every second access is a fault, and a stack of two pages;
  page 9 is outside of all sections. `MaxLeaves` is 4 of the 5 pages, so that the last page that is
  created brings the host to the proofs that may not fit.
* Run 5: two pages of 4 bytes and a third that is not mapped; buffers at offset 3 and at offset 2 of
  the last page. A buffer of 5 bytes at offset 3 has a chunk of one byte and one of a whole page,
  which is cut once more when it is sent; a message of 4 bytes ends inside of that buffer, one of
  5 fills it, one of 0 arrives as a zero byte. Two messages and the exit let every counter and
  flag of the first be seen by the second.
* Run 6: three pages of 2 bytes, one of them read-only, two slots, sizes 0 to 4: a buffer starts and
  ends at every offset and covers up to three pages, and `memcpy` may lose its source slot to its
  destination. Every initial content of the memory is tried.
* Run 7: one page of code and two of data: CBC goes on from page to page and from section to section.
  Four manifests: the app, another one with the same contents at other addresses, one that nobody
  signed, and a mixture. An arbitrary host makes two requests; `host/app.py` is killed twice.
  `MaxStarts` is never reached: a run that is not killed can only fail a few times.
* Runs 8 and 9, swap: two numbers, so that an offer for the first meets a `ctx` with the second; the
  offer of an honest partner and variants that each fail one check of `handle_swap`; two partners
  that Ledger certified, one of them signing for the other, and one that is not certified. The
  proofs of section 4 have no such bounds.
  Ethereum: two full messages of each structure, two more that look like one of them (an address with
  another last digit, a string one character too long), and variants with one token that is no string,
  or is refused, in the middle of the fields; an amount with more digits than fit; transactions of which 0, 6, 8 and all 10 fields are read;
  the user accepts twice (`MaxAccepted`), the second time with what the first has left; the app may
  be launched again.
  Hashes: two contexts with blocks of 2 and 3 bytes, messages of up to 4 bytes in any pieces, empty
  ones too, at any offset in a page of 2: pieces end within a block, at its end and within a page.
  Screens: three items, a threshold of 3 events in place of 8: presses below, at and above it.
* Run 10, page cache: 4 slots and 6 addresses: pages move over 0 to 3 others in both directions, and
  two pages are always left out. (Run 3 has 3 slots and 5 addresses.)
  Trees: up to 8 leaves, initial trees of every size, counters to 2: complete, nearly complete
  and one-sided trees occur, and insertions take a complete tree one level up three times. APDUs
  of two nodes make proofs too long, those of three never.
  Interpreter: operands 0, 1, 2, around the number of bits, around the sign bit and at the end of the
  range; immediates of both signs; `rd` is `rs1`, `rs2`, or `x0`; the program counter at both
  ends of the address space; two pages, so that an access lies within one, across two, or outside.
  Integers: halves of 8 bits in two words, around 0, the end of a word and the end of a half; shifts by
  0, 3 and more than a half. RLP: fields of 0, 1 (below and from 128 on), 2, and more than 55 bytes
  together; chain identifiers of 1, 127, 128 and 3 bytes. Amounts: 0, powers of ten and numbers next to
  them, of 0 to 5 bytes, with 0 to 18 decimals, and buffers that are too short, just fit, and are
  large. Addresses: 0, 1, 2 and 18 zeros in front of two bytes, witness versions 0, 1 and 17 (refused).
  Images: code of 1 to 9 bytes that starts at three offsets in a page of 4, data of 0 to 9 bytes behind
  it in the same page (refused by the host's assertion), in the next one or later, and bss of none,
  less and more than a page. Bluetooth: the real frames of 153 bytes, with APDUs of lengths just
  below, at and above what one frame has room for, and of the longest.

### Fairness

Every liveness property has weak fairness of the steps of the program and of nothing the app
decides; only `RetriesSucceed` assumes something of the user.

* `Paging`, `FaultsEnd`: of `DeviceStep` and of `HostStep`. Once a fault is under way the VM runs
  on (`stream_commit_page` and `stream_request_page` are straight code between two exchanges) and
  the host, a loop around `client.exchange`, answers. Nothing makes the app access memory. The run
  uses the reliable host: an untrusted one may simply not answer.
* `Xfer`, `CallsEnd`: the same, for `exchange` and the two system calls.
* `GuestMemory`, `CallsReturn`: of `Step`, the loop of a system call.
* `SignApp`, `RetriesSucceed`: of `DeviceStep` and `HostStep`, and of `Disconnect` and `RunApp`: the
  connection of a killed process is closed, and the user runs `host/app.py` again until it
  succeeds. Nothing makes it crash, or spares it a crash.

### Deadlock

Checked in all runs but 4 and 8 to 10 and 12: a function ends with its result, trees and apps when the bounds are
reached (and an app that calls `fatal` is over), and in `Relaunch` the VM itself ends after a fatal fetch. Modules in which a session, a call or an
instruction is over have a step that says so (`Over`, `Ended`, `Executed`, `Returned`).

## 4. What is proved

`PagingProofs` holds for every layout, every number of slots, every IV limit, every set of contents,
and for both kinds of host, from `LayoutAssumption`, `SlotAssumption` and `DataAssumption`, with the ideal
cryptography of section 2. `NoIvReuse`, `NoDuplicatePage`, `InsertsAreFresh`, `CountersGrowByOne` and
`ImplementsFlatMemory` speak of the time until the app goes on after a draw whose fault failed half-way
(`ignored`): after it they are false, and section 6 says how. With the host's own code that never
happens (`StopsForCause`).

| Theorem | Statement |
|---|---|
| `Invariance` | `Spec => [](~ignored => IInv)` |
| `TypeCorrect` | `Spec => []TypeOK` |
| `IvsAreNotReused` | `Spec => []NoIvReuse` |
| `PagesAreHeldOnce` | `Spec => []NoDuplicatePage` |
| `InsertedOnce` | `Spec => []InsertsAreFresh` |
| `CountersOnlyGrow` | `Spec => CountersGrowByOne` |
| `Refinement` | `Spec => ImplementsFlatMemory` |
| `HostAgrees` | `Spec => [](IInv /\ (AgreeInv \/ HostEnded))`, if `HostReliable` |
| `HostStaysInSync` | `Spec => []HostInSync`, if `HostReliable` |
| `SmallAppsNeverEndTheHost` | `Spec => [](hpc # "failed")`, if `HostReliable` and there are at most `MaxLeaves` data, heap and stack pages |
| `StopsForCause` | `Spec => []StopsOnlyForCause`, if `HostReliable` |
| `SwapInvariance` (`AppProofs`) | `SwapSpec => []SwapInv` |
| `AskedOnce` (`AppProofs`) | `SwapSpec => []AskedOncePerId` |
| `SignedAsShown` (`AppProofs`) | `SwapSpec => []SignsWhatWasShown` |
| `SwapRefinement` (`AppProofs`) | `SwapSpec => ImplementsAgreement` |
| `ChunksMakeReplies` (`XferProofs`) | `Spec => []RepliesAreWhole` |
| `MessagesArriveWhole` (`XferProofs`) | `Spec => MessagesAreWhole` |
| `HostFailsForCauseAlways` (`XferProofs`) | `Spec => []HostFailsForCause` |
| `ExitStopsTheApp` (`XferProofs`) | `Spec => []ExitStopsApp` |
| `CallsAreTheReference` (`GuestProofs`) | `Spec => []CallsAsReference` |
| `CallsFailForCause` (`GuestProofs`) | `Spec => []FailsForCause` |
| `KeysOpenSignedApps` (`SignProofs`) | `Spec => []MacsAreOfSignedApps` |
| `ArchivesAreComplete` (`SignProofs`) | `Spec => []ArchiveIsComplete` |
| `CacheSorted` (`CacheProofs`) | `CacheSpec => []PagesSorted`, if `DrawFailureIgnored = FALSE` |
| `CacheEvictsOne` (`CacheProofs`) | `CacheSpec => EvictsOnlyTheVictim`, if `DrawFailureIgnored = FALSE` |
| `CacheFindsEveryPage` (`CacheProofs`) | `CacheSpec => []FindsEveryPage`, if `DrawFailureIgnored = FALSE` |
| `CacheReturnsThePage` (`CacheProofs`) | `CacheSpec => []ReturnsThePage`, if `DrawFailureIgnored = FALSE` |
| `TreesAgreeAlways` (`MerkleProofs`) | `MerkleSpec => []TreesOfHostAndDevice` |
| `ProofsAreExact` (`MerkleProofs`) | `MerkleSpec => []ExactProofs` |
| `ImagesRun` (`ImageProofs`) | `RunsTheProgram(elf_code, elf_data)`, if `IsProgram(elf_code, elf_data, T)`, for every set `T` of bytes with 0 |
| `ProgramsAlwaysRun` (`ImageProofs`) | `[]ProgramsRun`, if the inputs are programs |
| `FramesArrive` (`ImageProofs`) | `ArrivesWhole(request, reply)`, for all sequences that are not empty, and replies of two frames at most |
| `FramesAlwaysArrive` (`ImageProofs`) | `[]FramesCarryTheApdu`, if the inputs are such lengths |
| `ScreenInvariance` (`AppProofs`) | `UxSpec => []ConfirmsWhatIsShown` |
| `AnsweredPresses` (`AppProofs`) | `UxSpec => AnswersAreThePresses` |
| `ApprovalInvariance` (`AppProofs`) | `EthInit /\ [][EthNext(requests)]_ethVars => []ApprovedByTheUser`, for every set of requests |
| `MessagesAreSigned` (`AppProofs`) | `EthInit /\ [][EthNext(requests)]_ethVars => []SignsTheMessage`, for every set of requests with `WellFormed(requests)` |
| `DigestsAreRight` (`AppProofs`) | `HashSpec => []DigestsAreOfTheMessages` |

**The inductive invariant.** None of the properties is inductive by itself. That no IV is reused,
for instance, needs that the counter in a slot is the greatest one ever used for its page; this
needs that the counter was checked against the root; the root has a leaf for a page exactly when
the page was created; and this depends on where a fault is. `IInv` is the conjunction of
`NoDuplicatePage`, `NoIvReuse` and

* `TypeInv`, `SlotsInSection`, `FrameInv`: shapes, and what the locals of a fault may be at each
  point of it;
* `MissInv`: during a fault no other slot holds the page that was asked for;
* `GrowthInv`: where the loop that creates pages is, relative to `bss_max` and `stack_min`;
* `TreeInv`: the root has a leaf for the pages between `DataStart` and `bss_max` and from
  `stack_min` on, and for those the loop has created so far;
* `CounterInv`: a live slot has the counter of its leaf, except between the increment and the
  update of the root;
* `SealedInv`: no page was encrypted under a counter greater than the one in the root, except for
  the commit in flight;
* `LastInv`: `last_entry` is a leaf of the root;
* `CoverInv`, `ZeroInv`, `ValInv`, `RequestInv`: for each leaf with a counter above 0 the contents
  were encrypted; a page that is being created is zero; a live slot holds verified contents;
  what was requested and has passed its MAC is a page of the archive or one the device encrypted.

`IInv` is lost with the first failure that is ignored, and nothing restores it. `TypeOK` is not:
`TypeCorrect` has no condition, and rests on `ShapeInv`, the part of the shapes that does not need
the rest (`NextShape`). What keeps `ignored` FALSE is that only `Fail` makes it TRUE.

`PagingProofs` has one lemma per action, and under it one step per conjunct that the action can
disturb. `MacGuarantee` states what an accepted MAC implies and `VerifiedProof` what an accepted
proof does; the two are where the untrusted replies enter.

**The refinement.** The mapping takes `mem[a]` to `CurrentVal(a)`: the live slot that holds `a`, or
else the contents encrypted under the counter the root has for `a`, or else the page of the
archive, or zeroes. Every device step but `Access` leaves it as it is: `GiveUp` (the victim's slot
is no longer live, and its contents are found among the encrypted ones), `TakeOver` (the verified
page is what it was before the slot became live) and `Create` (a page of zeroes is worth what a
missing page is) are the three lemmas this rests on; `Access` maps to a load or a store of
`FlatMemory`, everything else to a stuttering step or to the start of an access. `FlatMemory` may
break at any time (`Break`), after which it promises nothing; the mapping takes this to `ignored`, so
that the refinement says nothing of what follows a failure that was ignored, and all of what
comes before.

**The message transport.** `XferProofs` holds for all sizes of pages, chunks, memory and messages, from
`XferAssumption`, and for both kinds of host. `SendInv` says how much of a message is in `send_buffer`
at each point of `sys_xsend` (`Collected`): what was sent before the chunk under way, that chunk too
once the host has taken it, and nothing once it was the last one. It needs that host and device take
turns (`ControlInv`): when the host is idle, the app waits in `xsend()` or has ended, so that no
buffer is left half full for the next message, and the memory that was read is still what the app
asked to send. `Joined` puts two chunks together, `ChunkSize` bounds the next one.

The other three theorems rest on `XferInv`, which adds the other direction. `Locals` and `InFlight`
say what a call and an APDU may hold at each point, `TakenInv` which counter the host expects of the
next chunk, and `ReliableInv` what is true as long as the host runs its own code: `ReceiveInv` has the
bytes that `sys_xrecv` has written (`Got`), those still in `recv_buffer`, and the flag `buffer_received`
in step; `CauseInv` leaves no way to an assertion but an app that misuses a call or ends by itself;
`ExitInv` follows the answer that ends the app. That `xrecv()` writes nowhere else needs no reliable
host, and is proved for any answer.

**The memory calls.** `GuestProofs` holds for all sizes of pages, memory and operands, and any number of
slots. `GuestInv` says, for each turn of a loop, which bytes of the destination differ
from what they were before the call and what these hold (`TouchedInv`), what was read and is in the
result (`ReadInv`), and what the copy on the stack of `memcpy` holds between its two pages (`TmpInv`).
It is about `Flat`, the memory that slots and store make together, and needs that a page is in one slot
at most and that a slot that is clean is the page in the store (`CacheOK`): `GetBuffer` shows
that an eviction then changes no byte of it, whichever slot is taken. `ChunkFits` keeps a chunk within a
page. `strlen` needs that there is a first zero (`LeastElement`). Where source and destination
overlap, the destination is only known not to be written outside, as in C.

**The host.** The second part of `PagingProofs` is about the reliable host only, and assumes `HostReliable`; the
rest of what is proved of `Paging` is for any host. `AgreeInv`, on top of `IInv`, says where each side is in
an exchange (`ExchangeInv`: what was requested is what the host is about to answer, and with what), that
the tree of the host is the one whose root the device has, or is about to have, during a commit
(`TreesAgree`), and that what the host keeps for a page is authentic and as new as its leaf
(`StoreInv`). It follows that every check of the device succeeds, and every assertion of the host but one:
that a proof has 250 bytes at most, which is about the size of the tree. `HostEnded` is the state in which
it has failed: the tree has more than `MaxLeaves` leaves, the host is gone, and the device waits for
ever. In all other states `hpc # "failed"` is a part of the invariant and not a consequence of it: a reply is
only right if no assertion failed before. `SmallAppsNeverEndTheHost` says that the assertion holds for apps
that have no more than 128 data, heap and stack pages.

**The signature of an app.** `SignProofs` holds for any manifests and sizes of apps, from
`ManifestAssumption` and `HsmAssumption` (an HSM signs apps and no other digest). That MACs are of
signed apps needs `KeyInv`: until a signature is done its key has not left the device, and all that was
encrypted under it are MACs of pages that were hashed; the digest then decides which pages these are
(`DigestIsOfTheApp`), whatever order the host sent them in. That an archive is complete needs
`HostInv`: wherever a host that was killed left the device, it is at its menu once it has answered
with a public key and 0x9000; from there on host and device are in step (`Synced`), and the IV of each
MAC is the one before it in the host's list.

**The swap app.** Its part of `AppProofs` holds for any set of numbers, partners, offers and requests, from
`SwapAssumption` (nobody can make Ledger's or a partner's signature, and a draw is never repeated).
That an offer is shown once is not inductive: it needs that the number in `ctx`, while the app waits
for a request, is one no offer was shown for yet (`FreshInv`). That what is signed was shown needs
that the request and the screen under review are still those that passed the checks (`ReviewInv`).
`ResetKeepsInv` covers every action that answers and clears `ctx`; only `ReviewSwap` adds to `asked`
and `UserAccepts` to `signed`. The refinement takes `open` to `ctx`, `used` to `issued` and `settled` to
`signed`: a request that is refused maps to `Withdraw`, an accepted one to `Settle`, for which
`CheckedIsAgreed` shows that the checks imply the agreement.

**The page array.** `CacheProofs` holds for any number of slots and any addresses. It assumes that a
failed fault stops the app, which `ECALL_BAGL_DRAW` does not (finding 2): without that assumption the
array is not sorted. `CacheInv` is `CacheTypeOK` and `PagesSorted`. A set of slots has a greatest one
(`GreatestSlot`), so that the position `reorder_pages` looks for exists and lies between smaller and
greater addresses (`PositionFits`); moving the pages in between by one keeps the order
(`ReorderSorts`) and every page (`ReorderKeeps`). The binary search is a recursive function of its two bounds, and the
provers know nothing of it but its definition, a `CHOOSE`. So `SearchIsTable` shows first that a
function that satisfies the recursion exists: of the numbers of slots up to which there is a table of
results (`Table`), a least one beyond which there is none would have a table after all
(`TableTurns`). Then `TurnSearches` shows that the half a turn leaves out does not have the address, and
`BinarySearch` that the search finds it if and only if a slot has it. `LookupInv` is the rest of
`ReturnsThePage`: where a lookup found its page, or the page it replaced, the pointer is to the slot
that has it after the reordering.

**The Merkle trees.** `MerkleProofs` holds for any number of entries, any counters and any room for a proof, from
`MerkleAssumption`. A tree is a recursive function of the parts of the list of entries (`Spans`), and so
is a path; the provers know no more of either than the `CHOOSE` that defines it. `TreeNodes` and
`SiblingsAbove` show that such functions exist, by induction over the width of a part (`SpanInduction`; `NatRecursion`
does the same for `Power`, `bit_length` and `bit_count`). From there on, `PathVerifies` folds the path of an
entry to the root, going down to the half that has the entry (`HalfHas`); `FoldIsInjective` shows that it
folds to the root from no other digest; `PathFits` that it has no more than h nodes in a tree of at
most 2^h leaves. `merkle_insert` has to find, with the number of bits of `n`, the largest complete
subtree at the end of the list. `PathGrows` proves for the last entry of each part that the path cut at that
level leads to the node with the new entry: where the part is a complete tree (`CompleteGrows`) the new
entry is its sibling, and else it goes to the right half (`HalfGrows`), which has one bit less
(`BitsBelow`) and a left sibling of the same size before and after (`SamePower`). `MerkleInv` is
`TreesOfHostAndDevice` with the order of the entries, which the update of `last_entry` needs: it is
compared, and must be equal for the entry at the end of the list only.

**The images and the frames.** `ImageProofs` holds for pages and frames of every size (`ImageAssumption`,
`BleAssumption`). Both parts cut a sequence on one side and put it together on the other: `FlattenPieces` says
that pieces which follow each other are the sequence, whatever their lengths. For the frames, `CountOfChunks`
shows that the number of frames is that of the loop (the last chunk is the first that reaches the end), and
`ReplyIsTaken` that `wait_for_apdu` takes one frame or two when there are one or two. It takes no more, hence the
hypothesis on the reply: of 298 bytes at most with the `mtu` of 153, and the `IO_APDU_BUFFER_SIZE` of the device's SDK, 260, is less. For the
images, `Covers` says of a padded segment that it is whole pages and has each byte of the file at its
address; `SegmentPages` that the code that cuts pages and the code that counts them agree; `HostKeeps` where
the host has each byte. A byte is read from the page that is kept at its address, which is the only one
because the host asserts so (`PageRead`). The data segment may begin in the last page of the code: then that page
would be kept twice, and the host does not load the app (`PagesApart`). `IsProgram` says which
segments are meant: the code is all in the file, the data is behind it, and what is not in the file fits
in the `HEAP_SIZE` bytes that the manifest adds. Without the last of these the data segment would not be in its
section, and nothing in the code checks it. `MCFunctions` assumes of its inputs what the two theorems with a
box assume, and TLC evaluates that (`InputsAssumption`).

**The Ethereum app.** Its part of `AppProofs` is `EthInv`, for every set of requests, in whatever order and
after any number of launches. `ApprovedByTheUser` is nearly inductive; it needs that the review that is
on the screen is of a request that has one, and that what was accepted earlier stays in `accepted`.
`SignsTheMessage` needs `MessageInv`: while an EIP-712 message is on the screen, the static members encode
it (`ReviewsTheMessage`), and integers of one byte have zeros in the rest of their word, whatever was
received (`ShortNumbers`). `PlaceOfMember` shows that each member has one field in the list of its
structure, `Extracted` that a request whose fields were all accepted has set the members from their own
tokens, and `PlainNumberIsRead` that a word keeps nothing of the value before it if the text is plain.
What is proved of the screen is that it is `Shown` of the message that is signed, for buffers of every size:
`Shown` loses the last digit of an address and what the buffers have no room for.
`WellFormed` says what the JSON parser gives: a list of tokens, and bytes for the digits of a text; `MCApps`
assumes it of the requests of its hosts, and TLC evaluates that.

**The screens.** The third part of `AppProofs` holds for every list of items and every threshold. `ScreenInv` says that
while the app waits for a button, the screen shows the current item; `MaskInv` that the mask of the VM
is made of the buttons seen since the wait began, and that its counter is less than their number.

**The hash calls.** The fourth part of `AppProofs` holds for any contexts with blocks of any size, pages of
any size and messages of any length. `StateAfter` relates a context to a message: the whole blocks of
its bytes were compressed, in order, and the rest are at the beginning of the block. `ByteFollows` is
one byte, `BytesFollow` one call of the library, which is a recursive function as the binary search
is, and `PiecesFollow` one system call: `PiecesCover` shows that the pieces of a buffer that lies
anywhere in its page are the buffer (`PieceBounds` has the arithmetic of their number). `HashedInv`
says that every context in use has the state after what was hashed with it, so that its `blen` is
less than a block and `restore_ctx_from_guest` accepts it; `LastIsHash` compares that state with the
definition of the hash. `SetInduction` is induction for a set of numbers, from the least element of
what is not in it.

**Only model-checked.** Liveness (`FaultsEnd`, `CallsEnd`, `CallsReturn`, `RetriesSucceed`) is out of
reach of this prover. `UInt256`, `Rlp`, `Amounts` and `Addresses` use recursive operators, as their code
does, which the provers cannot reason about, and stay with TLC (run 10); so does `Cpu`, whose bitwise operators
they do not know.

## 5. Mutants

Each property of a passing run has a faulty variant of the code, defined next to the definition
it replaces, for which TLC finds the property violated: an update that does not keep `last_entry`,
a root that is not compared, `bss_max` not moved or moved too far, a pointer taken before the
reordering, and so on. They show that the property depends on that line of the code.

## 6. Findings

1. *A second launch inherits pages* (`memory.c:52`, run 4). `init_caches` resets the caches'
   pointers and not the page arrays, and nothing else does. When an app has stopped
   and the VM has gone back to its APDU loop, the next app launched finds the former one's pages
   in the slots; a page that is hit there is neither requested nor created.
2. *A failed draw goes on* (`ecall_dispatcher.c:49`, run 3). All memory system calls stop the app
   when a fault fails, except `ECALL_BAGL_DRAW`, whose result is dropped. The slot already has the
   new address and was not reordered, so the array is no longer sorted. Run 3 shows that. It is not
   all: `Paging` has this path too, and none of its properties about an untrusted host survives it.
   Without the words "until `ignored`" TLC refutes them in a few steps:
   * the bytes the host sent are in the slot under the address that was asked for, not verified
     (`stream.c:133-135`); the next access to the page is a hit, and reads them (`ImplementsFlatMemory`);
   * the search misses a page that another slot holds, and loads it again (`NoDuplicatePage`);
   * `create_empty_pages` fails after its first page: `bss_max` and `stack_min` have not moved
     (`memory.c:205-208`), and the next fault inserts the same page again (`InsertsAreFresh`), which
     begins at IV 0 and encrypts with IV 1 a second time (`NoIvReuse`).
3. *Signed products* (`cpu.c:365`, run 11). `MULH` and `MULHSU` convert `uint32_t` registers to 64
   bits, so a negative operand counts as a large positive one.
4. *A message has several digests* (`eip712.c:358`, run 9). Tokens that are no strings are skipped, and
   the members are static: a member given as `null` or as a number keeps the value of an earlier
   request, and is signed with it. An integer of fewer than 32 bytes keeps the leading bytes of the
   one before it (`eip712.c:256`).
5. *Bitcoins are a hundred times too many* (`bcd.c:10`, run 12). The digits are split 15 and 6, as for
   Peercoin; the 13 and 8 of bitcoin are in a comment. 100000000 satoshis are shown as 100.

Also met while modelling, each visible in the exception a property makes:

* `Deviates` of `Cpu`, which `ExecutesAsIsa` excepts and so cannot catch: the smallest integer
  divided by -1 gives -1; `REMU` by zero gives 0 and clears `rs1` as well; `REM` and the fences are decoded and stop the app. Apps written in C do
  not meet the divisions: they are built with `-mno-div`.
* `HostFailsForCause` of `Xfer`: when the app has ended by itself, `exit_app()` (called by
  `__exit__`) resumes it all the same; the VM, at its menu, asks for a manifest and the host's
  `assert False` fails.
* `SignsWhatWasShown` excepts amounts whose text does not fit (`eth_get_printable_amount` drops the result
  of `amountToString`, and the screen has what the buffer held) and addresses with characters that
  are no digits, which `unhex` takes for zeros. An amount that does not fit is shown as something else
  and signed, and no property catches that. The fee on the screen is the request's; the gas price
  that is signed is that fee **times** 21000 (`encode_gas_price`, `tx.c:108-122`), so that with the gas
  limit of 21000 the payment may cost 21000 times 21000 times the fee that was shown. The property states
  this relation; it does not say that it is the right one, and neither does `EncodesThePayment` of
  `Rlp`, whose reference has the same product. For bitcoins `create_tx` is `NULL`, and the response
  has a transaction nobody wrote.
* `SignsTheMessage` says what the screen has of a message, which is not all of it: `copy_address` writes
  its terminator over the last digit of every address (`eip712.c:311`), `copy_string` ends after 79
  characters, and of an amount the digits that do not fit are lost. Two messages that differ in
  these places only look the same (`MCApps` has such a pair).
* `SignTx` of `EthereumApp`: `handle_sign_tx` has the test of `rlp_decode_list` the wrong way round
  (`sign_tx.c:27`): a transaction that was decoded is refused, and one that was not is shown with the
  fields that were read. It works for the sample of `eth.py` because the decoder refuses the empty
  string at the end of every unsigned EIP-155 transaction.
* `ApprovedByTheUser` is about two kinds of response: those of `sign_msg` and `sign_eip712` never set
  `approved`, so it is whatever the stack has.
* `IsPlain` of `EthereumApp`: integers of one byte are written to the first byte of the digest's word, not
  the last, so only zero is encoded as EIP-712 says.
* `Rlp`: lists with more than 55 bytes are refused by the decoder, a single byte below 128 is counted as
  two by `rlp_decode_bytes`, and `rlp_buffer_to_list` writes the header of 128 to 255 bytes with a
  length of two bytes where one is due; the signed transaction of the swap app has no header at all.
* `UInt256`: the terminator of a number that fills its buffer is written behind the end.
* `ExactProofs` of `Merkle` and `HostInSync` of `Paging`: a path of 8 nodes is longer than the 250 bytes the host asserts. With more
  than 128 data, heap and stack pages the session may end, where `docs/pros-and-cons.md` speaks
  of unlimited memory; the code has a TODO for it.
* `ArchiveIsComplete` of `SignApp` does not speak of the public key: after a run that was killed
  before it acknowledged the last MAC, the first APDU of the next run is that acknowledgement, and
  its reply, which has the signature, is stored as `device.pubkey`.
* In `Xfer` an empty message arrives as one byte of zero, and a message longer than the app's buffer
  stops the app. In `Ux` a press that is held for 8 events has no answer.

## 7. Not modelled

Output (drawing, loading screen), the USB and TCP transports, the Bluetooth connection, command lines,
logging, the BOLOS cryptographic library and the system calls that only marshal arguments to it
(`ecall_bolos.c`), the native build of the apps, protobuf and JSON parsing, and reading ELF and zip files:
input and output without state that the properties tell apart. `rv_cpu_decode`, a table of opcodes,
and `ECALL` are not in `Cpu`; an APDU the parsers refuse is one value. Lost or duplicated APDUs are not
modelled: the transports deliver a reply once and in order or raise an exception that ends the
session. The Rust app is a port of the swap app; `SwapApp` was written from the C app and is not
compared with it. Of EIP-712, arrays, signed integers and `bytesN` are not modelled: no structure of
the app has them.

## 8. Plan

Done: the page protocol, its caches and trees, the message transport, the memory calls, the
interpreter, the signature of an app, the confirmation by the user, the swap and the Ethereum app, and
the conversions, the hash calls, the image of an app and the Bluetooth frames. Proved are the safety of the page
protocol for any host until a failed draw is ignored, the agreement with a reliable one, that of the message transport in both directions,
of the memory calls, of the page array, of the trees, of the image of an app and the Bluetooth frames, of the hash calls, of an app's signature, of the swap app, of
approvals and signed messages in the Ethereum app and of the screens; and that the page protocol and
the swap app implement their abstract specifications. Left, in this order:

1. Proofs: `Rlp` and `Amounts`, with their recursion written as functions.
2. Abstract specifications: a sequence of messages that `Xfer` implements; a function from page
   numbers to slots that `PageCache` implements.
3. Session: APDUs the parsers of `main.c` and `stream.c` refuse, commands sent in the middle of an
   app, exceptions caught by `app_main`.
