------------------------------ MODULE Relaunch ------------------------------
(***************************************************************************)
(* Several launches of an app by one run of the VM.  When an app stops,     *)
(* app_main_ goes back to waiting for an APDU, and the next launch goes     *)
(* through stream_init_app: new dynamic keys, the manifest's tree and       *)
(* addresses, and init_caches, which sets the caches' pointers and the LFSR *)
(* but leaves the arrays of pages as they are.  The host starts from the    *)
(* app's archive again (DeviceStream.__init__).                             *)
(***************************************************************************)
EXTENDS Paging

VARIABLE written    \* history: the pages stored to since the launch

relaunchVars == <<vars, written>>

\* stream_init_app: everything is reset except the slots of the caches.  The VM
\* itself survives, unless an instruction could not be fetched (fatal()).
Launch ==
    /\ pc = "stopped"
    /\ frame.op # "fetch" /\ err # "invalid_fetch"
    /\ UNCHANGED <<pages, ignored>>
    /\ bss_max' = Bss
    /\ stack_min' = StackEnd
    /\ root' = InitTree
    /\ last_entry' = Entry(Bss - 1, 0)
    /\ pc' = "run" /\ frame' = NoFrame /\ loading' = FALSE
    /\ err' = "none" /\ out' = NoAccess /\ chan' = NoMsg
    /\ sealed' = {}
    /\ hpages' = InitHostPages
    /\ htree' = InitTree
    /\ hlast' = Bss - 1
    /\ hpc' = "loop" /\ hreq' = NoHostReq
    /\ written' = {}

Run ==
    /\ AppStep \/ DeviceStep \/ HostStep
    /\ written' = IF out'.op = "write" THEN written \cup {out'.addr} ELSE written

RelaunchSpec ==
    Init /\ written = {} /\ [][Run \/ Launch]_relaunchVars

\* "Stack and heap pages don't exist initially. They're created by the VM": a page
\* the launched app has not stored to reads as in the archive, or as zeroes.
LaunchStartsFresh ==
    out.op \in {"read", "fetch", "draw"} /\ out.addr \notin written => out.val = InitVal(out.addr)
=============================================================================
