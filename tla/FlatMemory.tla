----------------------------- MODULE FlatMemory -----------------------------
(***************************************************************************)
(* What the VM promises the RISC-V app it runs: a flat memory in which a    *)
(* load, an instruction fetch or a system call that reads a page gets the   *)
(* last contents stored there, whatever the page cache, the encryption and  *)
(* the host do underneath.  Pages the app image does not provide (heap and  *)
(* stack) read as zeroes until they are written.  The promise is over once   *)
(* the VM lets the app go on after a page fault that failed half-way.        *)
(***************************************************************************)

CONSTANTS
    CodePages,      \* page numbers of the code section (read-only)
    WritePages,     \* page numbers of the data and stack sections
    Vals,           \* page contents
    InitMem         \* contents of every page when the app is launched

VARIABLES
    mem,            \* [CodePages \cup WritePages -> Vals]
    out,            \* the last access that completed
    broken          \* the promise is over

NoAccess == [op |-> "none"]

FlatInit ==
    /\ mem = InitMem
    /\ out = NoAccess
    /\ broken = FALSE

\* An access is under way and its result is not there yet.
Begin == out' = NoAccess /\ mem' = mem

\* From here on memory and accesses are anything.
Break == broken' = TRUE

\* mem_read, get_instruction, get_buffer(..., false): any mapped page.
Load(op, a) ==
    /\ a \in IF op = "fetch" THEN CodePages ELSE CodePages \cup WritePages
    /\ out' = [op |-> op, addr |-> a, val |-> mem[a]]
    /\ mem' = mem

\* mem_write, get_buffer(..., true): data and stack pages only.
Store(a, v) ==
    /\ a \in WritePages
    /\ out' = [op |-> "write", addr |-> a, val |-> v]
    /\ mem' = [mem EXCEPT ![a] = v]

Intact ==
    /\ ~broken /\ ~broken'
    /\ \/ Begin
       \/ \E op \in {"read", "fetch", "draw"}, a \in CodePages \cup WritePages : Load(op, a)
       \/ \E a \in WritePages, v \in Vals : Store(a, v)

FlatNext == Break \/ Intact

FlatSpec == FlatInit /\ [][FlatNext]_<<mem, out, broken>>
=============================================================================
