-------------------------------- MODULE Xfer --------------------------------
(***************************************************************************)
(* The messages between the app and the host: sys_xrecv and sys_xsend of    *)
(* ecall.c on the device, DeviceStream.exchange on the host, and the launch *)
(* and the end of the session around them.                                  *)
(*                                                                          *)
(* The app's buffer is cut at page boundaries, and a chunk it sends at the  *)
(* size of an APDU as well.  One byte of a chunk it receives is in p2, so a *)
(* chunk of lc data bytes has lc + 1 bytes.  Between two chunks the device  *)
(* may need a page and ask the host for it.                                 *)
(*                                                                          *)
(* Abstractions.  Memory is the pages the app's buffers are in.  A byte     *)
(* says which message it comes from and where it was in it.  A page fault   *)
(* is one exchange (see Paging).  The sizes are small numbers in place of   *)
(* 256 and 249, in the same order.                                          *)
(***************************************************************************)
EXTENDS Integers, Sequences

CONSTANTS
    PAGE_SIZE,              \* 256
    SEND_SIZE,              \* sizeof(cmd->data) of struct cmd_send_buffer_s: 249
    MemSize,                \* addresses 0 .. MemSize - 1 are mapped
    Addrs,                  \* addresses of the buffers the app uses
    RecvSizes, SendSizes,   \* sizes it uses
    Lengths,                \* lengths of the messages given to exchange()
    MaxExchanges            \* bound on the number of messages

ASSUME XferAssumption ==
    /\ {PAGE_SIZE, SEND_SIZE, MemSize, MaxExchanges} \subseteq Nat \ {0}
    /\ SEND_SIZE < PAGE_SIZE
    /\ Addrs \cup RecvSizes \cup SendSizes \cup Lengths \subseteq Nat

VARIABLES
    mem,                    \* the app's memory, byte by byte
    dpc,                    \* where the device is
    call,                   \* the system call in progress
    chan,                   \* the APDU or the reply in flight
    hpc,                    \* where exchange() is
    initialized, recv_buffer, recv_buffer_counter,      \* fields of DeviceStream
    send_buffer, send_buffer_counter,
    buffer_received, exit_app,                          \* locals of exchange()
    message,                \* its argument
    returned,               \* what it returned last; <<>> for None
    asked,                  \* history: the bytes of the last xsend()
    last_call,              \* history: the last call, xsend() of no bytes left out
    excused,                \* history: the app gave the host cause to fail
    reliable,               \* does the host answer xrecv as its code does?
    exchanges               \* number of messages so far

appVars     == <<asked, last_call, excused>>
deviceVars  == <<mem, dpc, call, appVars>>
bufferVars  == <<recv_buffer, recv_buffer_counter, send_buffer, send_buffer_counter>>
requestVars == <<exit_app, message, exchanges>>
hostVars == <<hpc, initialized, bufferVars, buffer_received, requestVars, returned, reliable>>
vars == <<deviceVars, chan, hostVars>>

\* What the device sends: requests, and the status words of app_main_.
Requests == {"REQUEST_MANIFEST", "PAGE", "RECV_BUFFER", "SEND_BUFFER", "EXIT", "FATAL",
             "STATUS"}

NoMsg == [kind |-> "none"]
Msg(k) == [kind |-> k]
NoCall == [op |-> "none", start |-> 0, total |-> 0, addr |-> 0, size |-> 0,
           counter |-> 0, ret |-> 0]

ZeroByte == <<0, 0>>
Message(k, len) == [i \in 1 .. len |-> <<k, i>>]
Read(a, n) == [i \in 1 .. n |-> mem[a + i - 1]]

Smaller(x, y) == IF x < y THEN x ELSE y

\* BUFFER_MIN_SIZE(addr, size): up to the end of the page.
BUFFER_MIN_SIZE(addr, size) == Smaller(PAGE_SIZE - (addr % PAGE_SIZE), size)
-----------------------------------------------------------------------------
(* The device. *)

\* The app is stopped: app_main_ answers the APDU that is pending with 0x9000.
StopApp ==
    /\ dpc' = "menu"
    /\ chan' = Msg("STATUS")

\* app_main_ takes any APDU for the signature of an app and asks for its manifest.
LaunchRequest ==
    /\ dpc = "menu" /\ chan.kind \in {"signature", "empty"}
    /\ dpc' = "manifest"
    /\ chan' = Msg("REQUEST_MANIFEST")
    /\ UNCHANGED <<mem, call, appVars, hostVars>>

\* stream_init_app: the manifest is verified and the app runs.
LaunchApp ==
    /\ dpc = "manifest" /\ chan.kind = "manifest"
    /\ dpc' = "app"
    /\ chan' = NoMsg
    /\ UNCHANGED <<mem, call, appVars, hostVars>>

\* A call the host or the VM refuses: of a buffer that is not mapped, to receive twice
\* without sending in between, or to receive a message longer than the buffer.
Misused(op, a, s) ==
    \/ a + s > MemSize
    \/ op = "recv" /\ s > 0 /\ (last_call = "recv" \/ s < Len(message))

\* The app calls xrecv() or xsend(), or ends with exit() or fatal().
Call(op, a, s) ==
    /\ dpc = "app"
    /\ call' = [NoCall EXCEPT !.op = op, !.start = a, !.total = s, !.addr = a, !.size = s]
    /\ asked' = IF op = "send" /\ a + s =< MemSize THEN Read(a, s) ELSE asked
    /\ last_call' = IF s > 0 THEN op ELSE last_call
    /\ excused' = (excused \/ Misused(op, a, s))
    /\ dpc' = "call"
    /\ UNCHANGED <<mem, chan, hostVars>>

\* sys_exit or sys_fatal sends the status word by itself: the one app_main_ adds when
\* the app has ended has no APDU to answer, and is not in the model.
AppEnds ==
    /\ dpc = "app"
    /\ \E k \in {"EXIT", "FATAL"} : chan' = Msg(k)
    /\ dpc' = "menu"
    /\ excused' = TRUE
    /\ UNCHANGED <<mem, call, asked, last_call, hostVars>>

\* The size of the next chunk.
Chunk(c) ==
    LET n == BUFFER_MIN_SIZE(c.addr, c.size)
    IN  IF c.op = "send" THEN Smaller(SEND_SIZE, n) ELSE n

\* get_buffer: the page is there, or it has to be requested first, or it is invalid.
Mapped(c) == c.addr + Chunk(c) =< MemSize

GetBufferFault ==
    /\ dpc = "call" /\ call.size > 0 /\ Mapped(call)
    /\ chan' = Msg("PAGE")
    /\ dpc' = "fault"
    /\ UNCHANGED <<mem, call, appVars, hostVars>>

GetBufferFaultEnds ==
    /\ dpc = "fault" /\ chan.kind = "page"
    /\ dpc' = "ready"
    /\ chan' = NoMsg
    /\ UNCHANGED <<mem, call, appVars, hostVars>>

GetBufferFails ==
    /\ dpc = "call" /\ call.size > 0 /\ ~Mapped(call)
    /\ StopApp
    /\ UNCHANGED <<mem, call, appVars, hostVars>>

HasBuffer == dpc = "ready" \/ (dpc = "call" /\ call.size > 0 /\ Mapped(call))

\* sys_xrecv: ask for a chunk.
RecvRequest ==
    /\ HasBuffer /\ call.op = "recv"
    /\ chan' = [kind |-> "RECV_BUFFER", counter |-> call.counter, maxsize |-> Chunk(call)]
    /\ dpc' = "recv_wait"
    /\ UNCHANGED <<mem, call, appVars, hostVars>>

\* The next chunk of the buffer.
Advance(c, n) ==
    [c EXCEPT !.addr = @ + n, !.size = @ - n, !.counter = @ + 1, !.ret = @ + n]

\* What the device may find in the reply: p1 and lc + 1 bytes.
Answers ==
    IF reliable THEN {chan}
    ELSE {[kind |-> "data", p1 |-> p1, data |-> Message(-1, n)] :
                p1 \in 0 .. 2, n \in 1 .. PAGE_SIZE}

Fits(r, n) == Len(r.data) =< n /\ (Len(r.data) = n \/ r.p1 = 1)

\* Faulty variant: the request to exit is overlooked.
ExitRequestedNever(r) == FALSE

ExitRequested(r) == r.p1 = 2

\* The bytes of a chunk from index k on, written to address a on.
CopiedFrom(k, a, data) ==
    [i \in DOMAIN mem |-> IF i - a + 1 \in k .. Len(data) THEN data[i - a + 1] ELSE mem[i]]

\* Faulty variant: the byte in p2 is forgotten.
CopiedWithoutP2(a, data) == CopiedFrom(2, a, data)

Copied(a, data) == CopiedFrom(1, a, data)

\* sys_xrecv: check the size of the chunk and copy it to the app's buffer.
RecvReply ==
    /\ dpc = "recv_wait" /\ chan.kind = "data"
    /\ \E r \in Answers :
         LET n    == Len(r.data)
             c    == Advance(call, n)
             stop == r.p1 = 1
         IN  \/ /\ ExitRequested(r) \/ ~Fits(r, Chunk(call))
                /\ StopApp
                /\ UNCHANGED <<mem, call>>
             \/ /\ ~ExitRequested(r) /\ Fits(r, Chunk(call))
                /\ mem' = Copied(call.addr, r.data)
                /\ call' = c
                /\ IF stop THEN dpc' = "app" /\ chan' = NoMsg
                   ELSE IF c.size = 0 THEN StopApp
                   ELSE dpc' = "call" /\ chan' = NoMsg
    /\ UNCHANGED <<appVars, hostVars>>

\* sys_xsend: the last chunk carries the flag 0x80000000.
SendChunk(last) ==
    /\ HasBuffer /\ call.op = "send"
    /\ chan' = [kind |-> "SEND_BUFFER", data |-> Read(call.addr, Chunk(call)),
                counter |-> call.counter, last |-> last]
    /\ dpc' = "send_wait"
    /\ UNCHANGED <<mem, call, appVars, hostVars>>

\* Faulty variant: the flag is only set when the buffer fits in one chunk.
SendRequestFirstLast == SendChunk(call.total = Chunk(call))

SendRequest == SendChunk(call.size = Chunk(call))

\* Whatever the APDU is that resumes the app.
SendReply ==
    /\ dpc = "send_wait" /\ chan.kind = "empty"
    /\ call' = Advance(call, Chunk(call))
    /\ dpc' = "call"
    /\ chan' = NoMsg
    /\ UNCHANGED <<mem, appVars, hostVars>>

CallReturns ==
    /\ dpc = "call" /\ call.size = 0
    /\ dpc' = "app"
    /\ UNCHANGED <<mem, call, appVars, chan, hostVars>>

DeviceStep ==
    \/ LaunchRequest \/ LaunchApp
    \/ GetBufferFault \/ GetBufferFaultEnds \/ GetBufferFails
    \/ RecvRequest \/ RecvReply \/ SendRequest \/ SendReply \/ CallReturns
-----------------------------------------------------------------------------
(* The host.  An assertion that fails ends it. *)

HostFails ==
    /\ hpc' = "failed"
    /\ UNCHANGED <<chan, initialized, bufferVars, buffer_received, returned>>

\* exchange() returns; exit_app() is the last call of a session.
Return(data) ==
    /\ returned' = data
    /\ hpc' = IF exit_app THEN "ended" ELSE "idle"

\* exchange(recv_buffer) and exit_app(): launch the app or resume it.
HostExchange(len, exit) ==
    /\ hpc = "idle"
    /\ exit \/ exchanges < MaxExchanges
    /\ exit_app' = exit
    /\ message' = Message(exchanges + 1, len)
    /\ exchanges' = exchanges + 1
    /\ buffer_received' = FALSE
    /\ IF initialized
       THEN chan' = Msg("empty") /\ hpc' = "loop"
       ELSE chan' = Msg("signature") /\ hpc' = "init"
    /\ UNCHANGED <<initialized, bufferVars, returned, reliable, deviceVars>>

\* init_app, second exchange.
HostManifest ==
    /\ hpc = "init" /\ chan.kind = "REQUEST_MANIFEST"
    /\ initialized' = TRUE
    /\ chan' = Msg("manifest")
    /\ hpc' = "loop"
    /\ UNCHANGED <<bufferVars, buffer_received, returned>>

\* A page fault: see Paging.
HostPage ==
    /\ hpc = "loop" /\ chan.kind = "PAGE"
    /\ chan' = Msg("page")
    /\ UNCHANGED <<hpc, initialized, bufferVars, buffer_received, returned>>

\* handle_send_buffer; kept is what stays in send_buffer when the message is whole.
ReceiveChunk(kept) ==
    LET data == send_buffer \o chan.data
    IN  /\ hpc = "loop" /\ chan.kind = "SEND_BUFFER"
        /\ IF send_buffer_counter # chan.counter THEN HostFails
           ELSE /\ IF chan.last
                   THEN /\ Return(data)
                        /\ send_buffer' = kept
                        /\ send_buffer_counter' = 0
                        /\ chan' = NoMsg
                   ELSE /\ send_buffer' = data
                        /\ send_buffer_counter' = send_buffer_counter + 1
                        /\ chan' = Msg("empty")
                        /\ UNCHANGED <<hpc, returned>>
                /\ UNCHANGED <<initialized, recv_buffer, recv_buffer_counter, buffer_received>>

\* Faulty variant: the message stays in send_buffer.
HostSendBufferKept == ReceiveChunk(send_buffer \o chan.data)

HostSendBuffer == ReceiveChunk(<<>>)

\* handle_recv_buffer; reset is the counter once the message was sent whole.
ServeChunk(buffer, reset) ==
    LET n    == Smaller(chan.maxsize, Len(buffer))
        rest == SubSeq(buffer, n + 1, Len(buffer))
    IN  IF recv_buffer_counter # chan.counter THEN HostFails
        ELSE /\ recv_buffer' = rest
             /\ recv_buffer_counter' = IF rest = <<>> THEN reset ELSE recv_buffer_counter + 1
             /\ buffer_received' = TRUE
             /\ chan' = [kind |-> "data", p1 |-> IF rest = <<>> THEN 1 ELSE 0,
                         data |-> IF n = 0 THEN <<ZeroByte>> ELSE SubSeq(buffer, 1, n)]
             /\ UNCHANGED <<hpc, initialized, send_buffer, send_buffer_counter, returned>>

\* The app must not receive twice without sending in between.
RecvBuffer(reset) ==
    /\ hpc = "loop" /\ chan.kind = "RECV_BUFFER"
    /\ \/ /\ exit_app
          /\ chan' = [kind |-> "data", p1 |-> 2, data |-> <<ZeroByte>>]
          /\ hpc' = "exiting"
          /\ UNCHANGED <<initialized, bufferVars, buffer_received, returned>>
       \/ /\ ~exit_app /\ recv_buffer = <<>> /\ buffer_received
          /\ HostFails
       \/ /\ ~exit_app /\ ~(recv_buffer = <<>> /\ buffer_received)
          /\ ServeChunk(IF recv_buffer = <<>> THEN message ELSE recv_buffer, reset)

\* Faulty variant: the counter goes on with the next message.
HostRecvBufferNoReset == RecvBuffer(recv_buffer_counter + 1)

HostRecvBuffer == RecvBuffer(0)

\* The answer to the request to exit, whatever it is.
HostExited ==
    /\ hpc = "exiting" /\ chan.kind \in Requests
    /\ Return(<<>>)
    /\ chan' = NoMsg
    /\ UNCHANGED <<initialized, bufferVars, buffer_received>>

\* handle_exit and handle_fatal.
HostAppEnded ==
    /\ hpc = "loop" /\ chan.kind \in {"EXIT", "FATAL"}
    /\ Return(<<>>)
    /\ chan' = NoMsg
    /\ UNCHANGED <<initialized, bufferVars, buffer_received>>

\* "unexpected status"
HostUnexpected ==
    /\ hpc = "loop" /\ chan.kind \in {"STATUS", "REQUEST_MANIFEST"}
    /\ HostFails

HostStep ==
    /\ \/ HostManifest \/ HostPage \/ HostSendBuffer \/ HostRecvBuffer
       \/ HostExited \/ HostAppEnded \/ HostUnexpected
    /\ UNCHANGED <<requestVars, reliable, deviceVars>>
-----------------------------------------------------------------------------
Init ==
    /\ mem = [i \in 0 .. (MemSize - 1) |-> <<-2, i>>]
    /\ dpc = "menu" /\ call = NoCall
    /\ asked = <<>> /\ last_call = "none" /\ excused = FALSE
    /\ reliable \in BOOLEAN
    /\ chan = NoMsg
    /\ hpc = "idle" /\ initialized = FALSE
    /\ recv_buffer = <<>> /\ recv_buffer_counter = 0
    /\ send_buffer = <<>> /\ send_buffer_counter = 0
    /\ buffer_received = FALSE /\ exit_app = FALSE
    /\ message = <<>> /\ returned = <<>> /\ exchanges = 0

AppStep ==
    \/ \E a \in Addrs, s \in RecvSizes : Call("recv", a, s)
    \/ \E a \in Addrs, s \in SendSizes : Call("send", a, s)
    \/ AppEnds

UserStep == HostExchange(0, TRUE) \/ \E len \in Lengths : HostExchange(len, FALSE)

\* The session is over.
Over == hpc \in {"ended", "failed"} /\ UNCHANGED vars

Next == AppStep \/ UserStep \/ DeviceStep \/ HostStep \/ Over

Spec == Init /\ [][Next]_vars

\* A system call under way goes on and the host answers; nothing makes the app call,
\* nor the user.
FairSpec == Spec /\ WF_vars(DeviceStep) /\ WF_vars(HostStep)
-----------------------------------------------------------------------------
(* Properties. *)

\* sys_xrecv writes only to the buffer it was given, whatever the host answers; and
\* xrecv() returns the message that was given to exchange(), whole and in order,
\* wherever the buffer is cut.  An empty message arrives as one byte of zero.
MessagesAreWhole ==
    [][/\ \A i \in DOMAIN mem : mem'[i] # mem[i] =>
            i \in call.start .. (call.start + call.total - 1) /\ call'.ret =< call.total
       /\ reliable /\ dpc = "recv_wait" /\ dpc' = "app" =>
            LET m == IF message = <<>> THEN <<ZeroByte>> ELSE message
            IN  call'.ret = Len(m) /\ Read(call.start, Len(m))' = m]_vars

\* exchange() returns the bytes the app gave to one xsend(), whole and in order.
RepliesAreWhole ==
    hpc \in {"idle", "ended"} /\ returned # <<>> => returned = asked

\* An assertion of exchange() or of its handlers fails only for an app that misuses
\* the calls, or that ends by itself.
HostFailsForCause == reliable /\ hpc = "failed" => excused

\* When exit_app() has returned and the app was receiving, the VM has left the app.
ExitStopsApp == reliable /\ hpc = "ended" /\ last_call = "recv" => dpc = "menu"

\* A call to xsend() makes exchange() return, and a call to xrecv() returns, unless
\* the app is stopped or the host gives up.
CallsEnd ==
    /\ reliable /\ dpc = "call" /\ call.op = "send" /\ call.size > 0
           ~> hpc \in {"idle", "ended", "failed"}
    /\ reliable /\ dpc = "call" /\ call.op = "recv"
           ~> dpc \in {"app", "menu"} \/ hpc = "failed"
=============================================================================
