------------------------------ MODULE AppImage ------------------------------
(***************************************************************************)
(* From the ELF file of an app to the memory that the device runs: the      *)
(* segments padded to pages (host/elf.py), the manifest and what the HSM    *)
(* signs (host/hsm.py, manifest.py), the pages whose MACs the device makes  *)
(* (app_signature.c), and those the host serves (host/stream_device.py) at  *)
(* the addresses where the device looks (memory.c).                         *)
(*                                                                          *)
(* A segment of an ELF file has its address, the bytes that are in the file *)
(* and its size in memory.  Sequences of bytes are not interpreted.         *)
(***************************************************************************)
EXTENDS Integers, Sequences, SequencesExt

CONSTANTS
    SegmentPage,        \* Segment.PAGE_SIZE, and PAGE_SIZE of the VM
    HEAP_SIZE           \* Elf.HEAP_SIZE

ASSUME ImageAssumption ==
    /\ SegmentPage \in Nat \ {0}
    /\ HEAP_SIZE \in Nat /\ HEAP_SIZE % SegmentPage = 0

P == SegmentPage
PageOf(a) == a - (a % P)
Gap(k) == [i \in 1 .. k |-> 0]

\* Pages from a start: their addresses.
PagesFrom(start, count) == [k \in 1 .. count |-> start + (k - 1) * P]
-----------------------------------------------------------------------------
(* elf.py *)

\* Faulty variant: the gap depends on the size only.
GapEndOfSize(start, size) == (P - (size % P)) % P

GapEnd(start, size) == (P - ((start + size) % P)) % P

\* Segment.__init__.
Segment(elf) ==
    LET size == Len(elf.bytes)
        gap_start == elf.vaddr % P
        gap_end == GapEnd(elf.vaddr, size)
    IN  [data |-> Gap(gap_start) \o elf.bytes \o Gap(gap_end),
         start |-> PageOf(elf.vaddr), end |-> elf.vaddr + size + gap_end]
-----------------------------------------------------------------------------
(* hsm.py *)

\* data_to_pages and App._pages_to_list.
ToPages(data) == [k \in 1 .. Len(data) \div P |-> SubSeq(data, (k - 1) * P + 1, k * P)]

\* compute_merkle_tree: the entries, in order.
TreeOf(start, end) == PagesFrom(start, (end - start + P - 1) \div P)

\* get_manifest, with compute_app_hash.
Manifest(code, data) ==
    [code |-> [start |-> code.start, end |-> code.end],
     data |-> [start |-> data.start, end |-> data.end + HEAP_SIZE],
     bss |-> data.end, tree |-> TreeOf(data.start, data.end),
     app_hash |-> <<code.start, code.end, data.start, data.end, code.data \o data.data>>]

\* hsm_sign_app.  It takes the last entry of the tree, which must have one.
App(code, data) ==
    [manifest |-> Manifest(code, data), code_pages |-> ToPages(code.data),
     data_pages |-> ToPages(data.data)]

Signs(code, data) == TreeOf(data.start, data.end) # <<>>
-----------------------------------------------------------------------------
(* app_signature.c: handle_sign_app. *)

\* compute_section_hmacs: the addresses of the pages that are asked for.
Asked(start, end) == TreeOf(start, end)

AskedPages(m) == Asked(m.code.start, m.code.end) \o Asked(m.data.start, m.bss)

\* The digest of the pages received.
DeviceHash(m, pages) ==
    <<m.code.start, m.code.end, m.data.start, m.bss, FlattenSeq(pages)>>
-----------------------------------------------------------------------------
(* stream_device.py: DeviceStream.__init__. *)

\* The address at which each page is kept, in the order of the lists.
Kept(app) ==
    PagesFrom(app.manifest.code.start, Len(app.code_pages))
        \o PagesFrom(app.manifest.data.start, Len(app.data_pages))

Sent(app) == app.code_pages \o app.data_pages

\* The assertions: no two pages at an address.
HostLoads(app) == IsInjective(Kept(app))

HostTree(app) == PagesFrom(app.manifest.data.start, Len(app.data_pages))
-----------------------------------------------------------------------------
(* memory.c *)

InSection(section, a) == section.start =< a /\ a < section.end

\* get_cache: the code is looked at first.
CacheOf(m, a) ==
    IF InSection(m.code, a) THEN "code" ELSE IF InSection(m.data, a) THEN "data" ELSE "none"

\* The byte the app reads first at an address: pages from bss on are zero pages.
FirstRead(app, a) ==
    IF CacheOf(app.manifest, a) = "data" /\ PageOf(a) >= PageOf(app.manifest.bss) THEN 0
    ELSE LET k == CHOOSE i \in DOMAIN Kept(app) : Kept(app)[i] = PageOf(a)
         IN  Sent(app)[k][(a % P) + 1]
-----------------------------------------------------------------------------
(* Properties. *)

\* The bytes of a segment in memory: those of the file, and then zeros (bss).
Expected(elf, a) ==
    IF a < elf.vaddr + Len(elf.bytes) THEN elf.bytes[a - elf.vaddr + 1] ELSE 0

\* Of an app that the HSM signs and the host loads: the device signs it, each MAC is for the
\* address at which the host will serve the page, host and HSM start from one tree, and every
\* byte of a segment is where the ELF file puts it, in the section of its segment.
RunsTheProgram(elf_code, elf_data) ==
    LET code == Segment(elf_code)
        data == Segment(elf_data)
        app == App(code, data)
        m == app.manifest
        Memory(elf) == elf.vaddr .. elf.vaddr + elf.memsz - 1
    IN  Signs(code, data) /\ HostLoads(app) =>
            /\ DeviceHash(m, Sent(app)) = m.app_hash
            /\ AskedPages(m) = Kept(app)
            /\ HostTree(app) = m.tree
            /\ \A a \in Memory(elf_code) :
                    CacheOf(m, a) = "code" /\ FirstRead(app, a) = Expected(elf_code, a)
            /\ \A a \in Memory(elf_data) :
                    CacheOf(m, a) = "data" /\ FirstRead(app, a) = Expected(elf_data, a)
=============================================================================
