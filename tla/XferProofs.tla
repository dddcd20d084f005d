----------------------------- MODULE XferProofs -----------------------------
(***************************************************************************)
(* Proofs about the messages between the app and the host, for every size   *)
(* of a page, of a chunk and of a message, and for any host.                *)
(***************************************************************************)
EXTENDS Xfer, SequenceTheorems, TLAPS

\* The app is in a call.
Calling == {"call", "fault", "ready", "recv_wait", "send_wait"}
Sending == dpc \in Calling /\ call.op = "send"

\* The locals of sys_xsend: what was sent, what is left, and where it is.
CallInv ==
    /\ {call.start, call.total, call.ret, call.size} \subseteq Nat
    /\ call.addr = call.start + call.ret /\ call.ret + call.size = call.total
    /\ call.start + call.total =< MemSize => asked = Read(call.start, call.total)
    /\ dpc \in {"fault", "ready", "send_wait"} => call.size > 0 /\ Mapped(call)

\* How much of the message is in send_buffer: what was sent before this chunk, and the
\* chunk as well once the host has taken it, unless it was the last one.
Collected ==
    IF dpc = "send_wait" /\ chan.kind # "SEND_BUFFER"
    THEN IF call.size = Chunk(call) THEN 0 ELSE call.ret + Chunk(call)
    ELSE IF call.size = 0 THEN 0 ELSE call.ret

BufferInv ==
    /\ Sending => send_buffer = Read(call.start, Collected)
    /\ ~Sending /\ chan.kind # "STATUS" => send_buffer = <<>>

\* Who waits for whom.
ControlInv ==
    /\ hpc = "exiting" => exit_app
    /\ hpc = "idle" \/ (hpc = "ended" /\ returned # <<>>) =>
          chan = NoMsg /\ dpc \in {"menu", "send_wait"}
    /\ chan.kind \in {"EXIT", "FATAL", "STATUS"} => dpc = "menu"
    /\ dpc = "recv_wait" => call.op = "recv"
    /\ dpc = "send_wait" => call.op = "send"
    /\ chan.kind = "SEND_BUFFER" =>
          /\ dpc = "send_wait"
          /\ chan.data = Read(call.addr, Chunk(call))
          /\ chan.last = (call.size = Chunk(call))

SendInv ==
    /\ DOMAIN call = DOMAIN NoCall
    /\ ControlInv
    /\ Sending => CallInv
    /\ hpc \in {"idle", "init", "loop"} => BufferInv
    /\ RepliesAreWhole
-----------------------------------------------------------------------------
(* Sizes and buffers. *)

\* A chunk has a byte at least and is no longer than what is left (BUFFER_MIN_SIZE).
LEMMA ChunkSize ==
    ASSUME NEW c, c.addr \in Nat, c.size \in Nat \ {0}
    PROVE  Chunk(c) \in 1 .. c.size
<1>1. PAGE_SIZE \in Nat \ {0} /\ SEND_SIZE \in Nat \ {0}
    BY XferAssumption
<1>2. c.addr % PAGE_SIZE \in 0 .. (PAGE_SIZE - 1)
    BY <1>1
<1> QED BY <1>1, <1>2 DEF Chunk, BUFFER_MIN_SIZE, Smaller

\* Two parts of a buffer that follow each other (handle_send_buffer).
LEMMA Joined ==
    ASSUME NEW a \in Nat, NEW k \in Nat, NEW n \in Nat
    PROVE  Read(a, k) \o Read(a + k, n) = Read(a, k + n)
<1> DEFINE S == {mem[i] : i \in Nat}
<1>1. /\ Read(a, k) \in Seq(S) /\ Len(Read(a, k)) = k
      /\ Read(a + k, n) \in Seq(S) /\ Len(Read(a + k, n)) = n
      /\ Read(a, k + n) \in Seq(S) /\ Len(Read(a, k + n)) = k + n
    BY DEF Read
<1>2. /\ Read(a, k) \o Read(a + k, n) \in Seq(S)
      /\ Len(Read(a, k) \o Read(a + k, n)) = k + n
    <2> HIDE DEF S
    <2> QED BY <1>1, ConcatProperties
<1>3. ASSUME NEW i \in 1 .. k + n
      PROVE  (Read(a, k) \o Read(a + k, n))[i] = Read(a, k + n)[i]
    <2>1. (Read(a, k) \o Read(a + k, n))[i] =
                IF i =< k THEN Read(a, k)[i] ELSE Read(a + k, n)[i - k]
        <3> HIDE DEF S
        <3> QED BY <1>1, ConcatProperties
    <2>2. Read(a, k + n)[i] = mem[a + i - 1]
        BY DEF Read
    <2>3. CASE i =< k
        <3>1. i \in 1 .. k
            BY <2>3
        <3> QED BY <2>1, <2>2, <2>3, <3>1 DEF Read
    <2>4. CASE ~(i =< k)
        <3>1. i - k \in 1 .. n /\ (a + k) + (i - k) - 1 = a + i - 1
            BY <2>4
        <3>2. Read(a + k, n)[i - k] = mem[(a + k) + (i - k) - 1]
            BY <3>1 DEF Read
        <3> QED BY <2>1, <2>2, <2>4, <3>1, <3>2
    <2> QED BY <2>3, <2>4
<1> HIDE DEF S
<1> QED BY <1>1, <1>2, <1>3, SeqEqual

LEMMA NothingRead == ASSUME NEW a PROVE Read(a, 0) = <<>>
BY DEF Read

\* The fields of a call after a chunk (sys_xsend, sys_xrecv).
LEMMA Advanced ==
    ASSUME NEW c, DOMAIN c = DOMAIN NoCall, NEW n
    PROVE  LET d == Advance(c, n)
           IN  /\ DOMAIN d = DOMAIN NoCall
               /\ d.op = c.op /\ d.start = c.start /\ d.total = c.total
               /\ d.addr = c.addr + n /\ d.size = c.size - n /\ d.ret = c.ret + n
               /\ d.counter = c.counter + 1
BY DEF Advance, NoCall
-----------------------------------------------------------------------------
(* The steps. *)

\* A message of any other kind can take the place of any but a chunk and a refusal.
LEMMA BufferKept ==
    ASSUME BufferInv, chan.kind \notin {"SEND_BUFFER", "STATUS"},
           chan'.kind # "SEND_BUFFER", UNCHANGED <<mem, dpc, call, send_buffer>>
    PROVE  BufferInv'
BY DEF BufferInv, Sending, Collected, Read, Chunk, BUFFER_MIN_SIZE

\* The call of the app goes on with the same locals.
LEMMA CallKept ==
    ASSUME Sending => CallInv, dpc' = dpc, UNCHANGED <<mem, call, asked>>
    PROVE  (Sending => CallInv)'
BY DEF Sending, CallInv, Read, Mapped, Chunk, BUFFER_MIN_SIZE

\* The device is not in a call, neither before the step nor after it.
LEMMA OutsideCalls ==
    SendInv /\ (LaunchRequest \/ LaunchApp \/ AppEnds) => SendInv'
BY DEF LaunchRequest, LaunchApp, AppEnds, SendInv, ControlInv, BufferInv, Sending, Calling,
       RepliesAreWhole, Msg, NoMsg, hostVars, bufferVars, requestVars, appVars

\* A new call starts with nothing of it in send_buffer.
LEMMA CallKeepsSendInv ==
    ASSUME SendInv, NEW op \in {"recv", "send"}, NEW a \in Nat, NEW s \in Nat, Call(op, a, s)
    PROVE  SendInv'
<1>1. /\ dpc = "app" /\ dpc' = "call"
      /\ UNCHANGED <<mem, chan, hpc, send_buffer, exit_app, returned>>
      /\ asked' = IF op = "send" /\ a + s =< MemSize THEN Read(a, s) ELSE asked
    BY DEF Call, hostVars, bufferVars, requestVars
<1>2. /\ DOMAIN call' = DOMAIN NoCall /\ call'.op = op /\ call'.start = a
      /\ call'.total = s /\ call'.addr = a /\ call'.size = s /\ call'.ret = 0
    BY DEF Call, NoCall
<1>3. /\ ~Sending /\ chan.kind \notin {"STATUS", "SEND_BUFFER"}
      /\ ~(hpc = "idle" \/ (hpc = "ended" /\ returned # <<>>))
    BY <1>1 DEF SendInv, ControlInv, Sending, Calling
<1>4. ControlInv' /\ RepliesAreWhole'
    BY <1>1, <1>3 DEF SendInv, ControlInv, RepliesAreWhole
<1>5. (Sending => CallInv)'
    BY <1>1, <1>2 DEF Sending, CallInv, Read
<1>6. Read(a, 0)' = <<>> /\ Collected' = 0
    BY <1>1, <1>2 DEF Read, Collected
<1>7. (hpc \in {"idle", "init", "loop"} => BufferInv)'
    BY <1>1, <1>2, <1>3, <1>6 DEF SendInv, BufferInv, Sending, Read
<1> QED BY <1>2, <1>4, <1>5, <1>7 DEF SendInv

\* The buffer of a call: get_buffer, and the request for a chunk.
LEMMA ChunkKeepsSendInv ==
    SendInv /\ (GetBufferFault \/ GetBufferFaultEnds \/ GetBufferFails
                    \/ RecvRequest \/ SendRequest) => SendInv'
<1> SUFFICES ASSUME SendInv, GetBufferFault \/ GetBufferFaultEnds \/ GetBufferFails
                                \/ RecvRequest \/ SendRequest
             PROVE  SendInv'
    OBVIOUS
<1>1. /\ dpc \in {"call", "fault", "ready"}
      /\ UNCHANGED <<mem, call, asked, hpc, send_buffer, exit_app, returned>>
    BY DEF GetBufferFault, GetBufferFaultEnds, GetBufferFails, RecvRequest, SendRequest,
           SendChunk, HasBuffer, appVars, hostVars, bufferVars, requestVars
<1>2. /\ chan.kind \notin {"STATUS", "SEND_BUFFER"}
      /\ ~(hpc = "idle" \/ (hpc = "ended" /\ returned # <<>>))
    BY <1>1 DEF SendInv, ControlInv
<1>3. RepliesAreWhole' /\ (hpc = "exiting" => exit_app)'
    BY <1>1 DEF SendInv, ControlInv, RepliesAreWhole
<1>4. CASE GetBufferFault \/ GetBufferFaultEnds
    <2>1. dpc' \in {"fault", "ready"} /\ chan'.kind \in {"PAGE", "none"}
        BY <1>4 DEF GetBufferFault, GetBufferFaultEnds, Msg, NoMsg
    <2>2. ControlInv'
        BY <1>1, <1>2, <1>3, <2>1 DEF ControlInv
    <2>3. (Sending => CallInv)'
        BY <1>1, <1>4, <2>1 DEF SendInv, Sending, Calling, CallInv, Read, Mapped, Chunk,
           BUFFER_MIN_SIZE, GetBufferFault, GetBufferFaultEnds
    <2>4. (hpc \in {"idle", "init", "loop"} => BufferInv)'
        BY <1>1, <1>2, <2>1 DEF SendInv, BufferInv, Sending, Calling, Collected, Read
    <2> QED BY <1>1, <1>3, <2>2, <2>3, <2>4 DEF SendInv
<1>5. CASE GetBufferFails
    <2>1. dpc' = "menu" /\ chan'.kind = "STATUS"
        BY <1>5 DEF GetBufferFails, StopApp, Msg
    <2> QED BY <1>1, <1>2, <1>3, <2>1 DEF SendInv, ControlInv, BufferInv, Sending, Calling
<1>6. CASE RecvRequest
    <2>1. dpc' = "recv_wait" /\ chan'.kind = "RECV_BUFFER" /\ call.op = "recv"
        BY <1>6 DEF RecvRequest
    <2> QED BY <1>1, <1>2, <1>3, <2>1 DEF SendInv, ControlInv, BufferInv, Sending, Calling
<1>7. CASE SendRequest
    <2>1. /\ dpc' = "send_wait" /\ call.op = "send" /\ chan'.kind = "SEND_BUFFER"
          /\ chan'.data = Read(call.addr, Chunk(call))
          /\ chan'.last = (call.size = Chunk(call))
        BY <1>7 DEF SendRequest, SendChunk
    <2>2. call.size > 0 /\ Mapped(call)
        BY <1>1, <1>7 DEF SendInv, CallInv, Sending, Calling, SendRequest, SendChunk,
           HasBuffer
    <2>3. ControlInv'
        BY <1>1, <1>2, <1>3, <2>1 DEF ControlInv, Read, Chunk, BUFFER_MIN_SIZE
    <2>4. (Sending => CallInv)'
        BY <1>1, <2>1, <2>2 DEF SendInv, Sending, Calling, CallInv, Read, Mapped, Chunk,
           BUFFER_MIN_SIZE
    <2>5. (hpc \in {"idle", "init", "loop"} => BufferInv)'
        BY <1>1, <2>1 DEF SendInv, BufferInv, Sending, Calling, Collected, Read
    <2> QED BY <1>1, <1>3, <2>3, <2>4, <2>5 DEF SendInv
<1> QED BY <1>4, <1>5, <1>6, <1>7

\* The answer to a chunk, and the end of a call.
LEMMA AnswerKeepsSendInv ==
    SendInv /\ (RecvReply \/ SendReply \/ CallReturns) => SendInv'
<1> SUFFICES ASSUME SendInv, RecvReply \/ SendReply \/ CallReturns PROVE SendInv'
    OBVIOUS
<1>1. /\ dpc \in {"recv_wait", "send_wait", "call"}
      /\ UNCHANGED <<asked, hpc, send_buffer, exit_app, returned>>
    BY DEF RecvReply, SendReply, CallReturns, appVars, hostVars, bufferVars, requestVars
<1>2. RepliesAreWhole' /\ (hpc = "exiting" => exit_app)'
    BY <1>1 DEF SendInv, ControlInv, RepliesAreWhole
<1>3. CASE RecvReply
    <2>1. dpc = "recv_wait" /\ chan.kind = "data" /\ call.op = "recv"
        BY <1>3 DEF RecvReply, SendInv, ControlInv
    <2>2. /\ call'.op = "recv" /\ DOMAIN call' = DOMAIN NoCall
          /\ \/ dpc' = "menu" /\ chan'.kind = "STATUS"
             \/ dpc' \in {"app", "call"} /\ chan'.kind = "none"
        <3>1. \/ call' = call
              \/ \E n : call' = Advance(call, n)
            BY <1>3 DEF RecvReply
        <3>2. call'.op = "recv" /\ DOMAIN call' = DOMAIN NoCall
            BY <2>1, <3>1, Advanced DEF SendInv
        <3>3. \/ StopApp
              \/ dpc' \in {"app", "call"} /\ chan' = NoMsg
            BY <1>3 DEF RecvReply
        <3> QED BY <3>2, <3>3 DEF StopApp, Msg, NoMsg
    <2>3. ~(hpc = "idle" \/ (hpc = "ended" /\ returned # <<>>))
        BY <2>1 DEF SendInv, ControlInv
    <2> QED BY <1>1, <1>2, <2>1, <2>2, <2>3 DEF SendInv, ControlInv, BufferInv, Sending
<1>4. CASE SendReply
    <2>1. /\ dpc = "send_wait" /\ chan.kind = "empty" /\ dpc' = "call" /\ chan' = NoMsg
          /\ call' = Advance(call, Chunk(call)) /\ UNCHANGED mem /\ call.op = "send"
        BY <1>4 DEF SendReply, SendInv, ControlInv
    <2>2. ~(hpc = "idle" \/ (hpc = "ended" /\ returned # <<>>))
        BY <2>1 DEF SendInv, ControlInv, NoMsg
    <2>3. CallInv /\ Sending /\ call.size > 0
        BY <2>1 DEF SendInv, CallInv, Sending, Calling
    <2>4. Chunk(call) \in 1 .. call.size
        BY <2>1, <2>3, ChunkSize DEF CallInv
    <2>5. /\ DOMAIN call' = DOMAIN NoCall
          /\ call'.op = call.op /\ call'.start = call.start /\ call'.total = call.total
          /\ call'.addr = call.addr + Chunk(call) /\ call'.size = call.size - Chunk(call)
          /\ call'.ret = call.ret + Chunk(call)
        BY <2>1, Advanced DEF SendInv
    <2>6. ControlInv'
        BY <1>1, <1>2, <2>1, <2>2 DEF ControlInv, NoMsg
    <2>7. CallInv'
        BY <1>1, <2>1, <2>3, <2>4, <2>5 DEF CallInv, Read
    <2>8. Collected' = Collected
        BY <2>1, <2>3, <2>4, <2>5 DEF Collected, CallInv
    <2>9. (hpc \in {"idle", "init", "loop"} => BufferInv)'
        BY <1>1, <2>1, <2>3, <2>5, <2>8 DEF SendInv, BufferInv, Sending, Calling, Read
    <2> QED BY <1>2, <2>5, <2>6, <2>7, <2>9 DEF SendInv
<1>5. CASE CallReturns
    <2>1. dpc = "call" /\ call.size = 0 /\ dpc' = "app" /\ UNCHANGED <<mem, call, chan>>
        BY <1>5 DEF CallReturns
    <2>2. /\ ~(hpc = "idle" \/ (hpc = "ended" /\ returned # <<>>))
          /\ chan.kind \notin {"STATUS", "SEND_BUFFER"}
        BY <2>1 DEF SendInv, ControlInv
    <2>3. ControlInv'
        BY <1>1, <1>2, <2>1, <2>2 DEF SendInv, ControlInv
    <2>4. hpc \in {"idle", "init", "loop"} => send_buffer = <<>>
        <3>1. Collected = 0
            BY <2>1 DEF Collected
        <3> QED BY <2>2, <3>1, NothingRead DEF SendInv, BufferInv
    <2> QED BY <1>1, <1>2, <2>1, <2>3, <2>4 DEF SendInv, BufferInv, Sending, Calling
<1> QED BY <1>3, <1>4, <1>5

\* The user's call of exchange(): the app is resumed where it waits, or launched.
LEMMA ExchangeKeepsSendInv ==
    ASSUME SendInv, NEW len, NEW exit, HostExchange(len, exit) PROVE SendInv'
<1>1. /\ hpc = "idle" /\ hpc' \in {"init", "loop"} /\ chan'.kind \in {"signature", "empty"}
      /\ UNCHANGED <<mem, dpc, call, asked, send_buffer>>
    BY DEF HostExchange, Msg, bufferVars, deviceVars, appVars
<1>2. chan = NoMsg /\ dpc \in {"menu", "send_wait"} /\ BufferInv
    BY <1>1 DEF SendInv, ControlInv
<1>3. ControlInv' /\ RepliesAreWhole'
    BY <1>1, <1>2 DEF SendInv, ControlInv, RepliesAreWhole
<1>4. BufferInv'
    BY <1>1, <1>2, BufferKept DEF NoMsg
<1> QED BY <1>1, <1>3, <1>4, CallKept DEF SendInv

\* handle_send_buffer: with the last chunk the reply is what the app gave to xsend().
LEMMA SendBufferKeepsSendInv ==
    ASSUME SendInv, HostSendBuffer, UNCHANGED <<requestVars, deviceVars>>
    PROVE  SendInv'
<1>1. UNCHANGED <<mem, dpc, call, asked, exit_app>>
    BY DEF requestVars, deviceVars, appVars
<1>2. hpc = "loop" /\ chan.kind = "SEND_BUFFER"
    BY DEF HostSendBuffer, ReceiveChunk
<1>3. /\ dpc = "send_wait" /\ call.op = "send" /\ Sending /\ CallInv
      /\ call.size > 0 /\ Mapped(call)
      /\ chan.data = Read(call.addr, Chunk(call))
      /\ chan.last = (call.size = Chunk(call))
      /\ send_buffer = Read(call.start, call.ret)
    BY <1>2 DEF SendInv, ControlInv, BufferInv, CallInv, Sending, Calling, Collected
<1>4. (Sending => CallInv)'
    BY <1>1, CallKept DEF SendInv
<1>5. Chunk(call) \in 1 .. call.size
    BY <1>3, ChunkSize DEF CallInv
<1>6. send_buffer \o chan.data = Read(call.start, call.ret + Chunk(call))
    <2>1. call.start \in Nat /\ call.ret \in Nat /\ call.addr = call.start + call.ret
        BY <1>3 DEF CallInv
    <2>2. Chunk(call) \in Nat
        BY <1>3, <1>5 DEF CallInv
    <2>3. Read(call.start, call.ret) \o Read(call.start + call.ret, Chunk(call))
                = Read(call.start, call.ret + Chunk(call))
        BY <2>1, <2>2, Joined
    <2> QED BY <1>3, <2>1, <2>3
<1>7. CASE hpc' = "failed"
    <2>1. chan' = chan
        BY <1>7 DEF HostSendBuffer, ReceiveChunk, HostFails, Return
    <2> QED BY <1>1, <1>3, <1>4, <1>7, <2>1 DEF SendInv, ControlInv, RepliesAreWhole, Read,
               Chunk, BUFFER_MIN_SIZE
<1>8. CASE hpc' # "failed" /\ chan.last
    <2>1. /\ returned' = send_buffer \o chan.data /\ hpc' \in {"idle", "ended"}
          /\ send_buffer' = <<>> /\ chan' = NoMsg
        BY <1>8 DEF HostSendBuffer, ReceiveChunk, HostFails, Return
    <2>2. call.ret + Chunk(call) = call.total /\ call.start + call.total =< MemSize
        <3>1. call.size = Chunk(call)
            BY <1>3, <1>8
        <3>2. /\ call.start \in Nat /\ call.ret \in Nat /\ call.size \in Nat
              /\ call.addr = call.start + call.ret /\ call.ret + call.size = call.total
              /\ call.addr + Chunk(call) =< MemSize
            BY <1>3 DEF CallInv, Mapped
        <3> HIDE DEF Chunk
        <3> QED BY <3>1, <3>2, XferAssumption
    <2>3. returned' = asked
        BY <1>3, <1>6, <2>1, <2>2 DEF CallInv
    <2>4. ControlInv' /\ RepliesAreWhole'
        BY <1>1, <1>3, <2>1, <2>3 DEF ControlInv, RepliesAreWhole, NoMsg
    <2>5. Collected' = 0
        BY <1>1, <1>3, <1>8, <2>1 DEF Collected, NoMsg, Chunk, BUFFER_MIN_SIZE
    <2>6. BufferInv'
        BY <1>1, <2>1, <2>5 DEF BufferInv, Read
    <2> QED BY <1>1, <1>4, <2>4, <2>6 DEF SendInv
<1>9. CASE hpc' # "failed" /\ ~chan.last
    <2>1. /\ send_buffer' = send_buffer \o chan.data /\ chan'.kind = "empty"
          /\ UNCHANGED <<hpc, returned>>
        BY <1>9 DEF HostSendBuffer, ReceiveChunk, HostFails, Msg
    <2>2. ControlInv' /\ RepliesAreWhole'
        BY <1>1, <1>2, <1>3, <2>1 DEF SendInv, ControlInv, RepliesAreWhole
    <2>3. Collected' = call.ret + Chunk(call)
        BY <1>1, <1>3, <1>9, <2>1 DEF Collected, Chunk, BUFFER_MIN_SIZE
    <2>4. BufferInv'
        BY <1>1, <1>3, <1>6, <2>1, <2>3 DEF BufferInv, Sending, Read
    <2> QED BY <1>1, <1>4, <2>2, <2>4 DEF SendInv
<1> QED BY <1>7, <1>8, <1>9

\* The other handlers of exchange() leave send_buffer alone.
LEMMA HandlersKeepSendInv ==
    ASSUME SendInv, UNCHANGED <<requestVars, deviceVars>>,
           \/ HostManifest \/ HostPage \/ HostRecvBuffer
           \/ HostExited \/ HostAppEnded \/ HostUnexpected
    PROVE  SendInv'
<1>1. UNCHANGED <<mem, dpc, call, asked, exit_app>>
    BY DEF requestVars, deviceVars, appVars
<1>2. (Sending => CallInv)'
    BY <1>1, CallKept DEF SendInv
<1>3. CASE HostManifest \/ HostPage
    <2>1. /\ chan.kind \in {"REQUEST_MANIFEST", "PAGE"} /\ hpc \in {"init", "loop"}
          /\ chan'.kind \in {"manifest", "page"} /\ hpc' = "loop"
          /\ UNCHANGED <<send_buffer, returned>>
        BY <1>3 DEF HostManifest, HostPage, Msg, bufferVars
    <2>2. ControlInv' /\ RepliesAreWhole'
        BY <1>1, <2>1 DEF SendInv, ControlInv, RepliesAreWhole
    <2>3. BufferInv'
        BY <1>1, <2>1, BufferKept DEF SendInv
    <2> QED BY <1>1, <1>2, <2>2, <2>3 DEF SendInv
<1>4. CASE HostRecvBuffer
    <2>1. hpc = "loop" /\ chan.kind = "RECV_BUFFER" /\ UNCHANGED <<send_buffer, returned>>
        BY <1>4 DEF HostRecvBuffer, RecvBuffer, ServeChunk, HostFails, bufferVars
    <2>2. \/ hpc' = "failed" /\ chan' = chan
          \/ chan'.kind = "data" /\ ((hpc' = "exiting" /\ exit_app) \/ hpc' = "loop")
        BY <1>4, <2>1 DEF HostRecvBuffer, RecvBuffer, ServeChunk, HostFails
    <2>3. ControlInv' /\ RepliesAreWhole'
        BY <1>1, <2>1, <2>2 DEF SendInv, ControlInv, RepliesAreWhole
    <2>4. (hpc \in {"idle", "init", "loop"} => BufferInv)'
        BY <1>1, <2>1, <2>2, BufferKept DEF SendInv
    <2> QED BY <1>1, <1>2, <2>3, <2>4 DEF SendInv
<1>5. CASE HostExited
    <2>1. hpc = "exiting" /\ returned' = <<>> /\ hpc' = "ended" /\ chan' = NoMsg
        BY <1>5 DEF HostExited, Return, SendInv, ControlInv
    <2> QED BY <1>1, <1>2, <2>1 DEF SendInv, ControlInv, RepliesAreWhole, NoMsg
<1>6. CASE HostAppEnded
    <2>1. /\ hpc = "loop" /\ dpc = "menu" /\ chan.kind \in {"EXIT", "FATAL"}
          /\ returned' = <<>> /\ hpc' \in {"idle", "ended"} /\ chan' = NoMsg
          /\ UNCHANGED send_buffer
        BY <1>6 DEF HostAppEnded, Return, SendInv, ControlInv, bufferVars
    <2>2. ControlInv' /\ RepliesAreWhole'
        BY <1>1, <2>1 DEF SendInv, ControlInv, RepliesAreWhole, NoMsg
    <2>3. BufferInv'
        BY <1>1, <2>1, BufferKept DEF SendInv, NoMsg
    <2> QED BY <1>1, <1>2, <2>2, <2>3 DEF SendInv
<1>7. CASE HostUnexpected
    <2>1. hpc' = "failed" /\ chan' = chan /\ chan.kind # "SEND_BUFFER"
        BY <1>7 DEF HostUnexpected, HostFails
    <2> QED BY <1>1, <1>2, <2>1 DEF SendInv, ControlInv, RepliesAreWhole
<1> QED BY <1>3, <1>4, <1>5, <1>6, <1>7

\* Every step of the app, the user, the device and the host.
LEMMA SendInvStep == SendInv /\ [Next]_vars => SendInv'
<1> SUFFICES ASSUME SendInv, [Next]_vars PROVE SendInv'
    OBVIOUS
<1>1. CASE AppStep
    <2>1. CASE \E a \in Addrs, s \in RecvSizes : Call("recv", a, s)
        BY <2>1, CallKeepsSendInv, XferAssumption
    <2>2. CASE \E a \in Addrs, s \in SendSizes : Call("send", a, s)
        BY <2>2, CallKeepsSendInv, XferAssumption
    <2>3. CASE AppEnds
        BY <2>3, OutsideCalls
    <2> QED BY <1>1, <2>1, <2>2, <2>3 DEF AppStep
<1>2. CASE UserStep
    BY <1>2, ExchangeKeepsSendInv DEF UserStep
<1>3. CASE DeviceStep
    BY <1>3, OutsideCalls, ChunkKeepsSendInv, AnswerKeepsSendInv DEF DeviceStep
<1>4. CASE HostStep
    BY <1>4, SendBufferKeepsSendInv, HandlersKeepSendInv DEF HostStep
<1>5. CASE UNCHANGED vars
    <2>1. UNCHANGED <<mem, dpc, call, chan, hpc, send_buffer, exit_app, returned, asked>>
        BY <1>5 DEF vars, deviceVars, hostVars, bufferVars, requestVars, appVars
    <2>2. ControlInv'
        BY <2>1 DEF SendInv, ControlInv, Read, Chunk, BUFFER_MIN_SIZE
    <2>3. (Sending => CallInv)'
        BY <2>1, CallKept DEF SendInv
    <2>4. (hpc \in {"idle", "init", "loop"} => BufferInv)'
        BY <2>1 DEF SendInv, BufferInv, Sending, Collected, Read, Chunk, BUFFER_MIN_SIZE
    <2> QED BY <2>1, <2>2, <2>3, <2>4 DEF SendInv, RepliesAreWhole
<1> QED BY <1>1, <1>2, <1>3, <1>4, <1>5 DEF Next, Over

\* Wherever the app's buffer lies and however it is cut, and whatever the host answered
\* to xrecv(): what exchange() returns is the bytes of one xsend().
THEOREM ChunksMakeReplies == Spec => []RepliesAreWhole
<1>1. Init => SendInv
    BY DEF Init, SendInv, ControlInv, BufferInv, Sending, Calling, RepliesAreWhole, NoCall,
           NoMsg
<1>2. SendInv => RepliesAreWhole
    BY DEF SendInv
<1> QED BY <1>1, <1>2, SendInvStep, PTL DEF Spec
-----------------------------------------------------------------------------
(* Both directions, and the two counters.  The invariant says what each side *)
(* has of the message under way, and what the app did to make the host fail. *)

Bytes == Int \X Int
Active == hpc \in {"idle", "init", "loop"}
Receiving == dpc \in Calling /\ call.op = "recv"

\* The locals of a system call, and the memory its buffer is in.
Locals ==
    /\ DOMAIN mem = 0 .. (MemSize - 1)
    /\ message \in Seq(Bytes) /\ recv_buffer \in Seq(Bytes) /\ exchanges \in Nat
    /\ dpc \in Calling =>
          /\ call.op \in {"recv", "send"}
          /\ call.start \in Nat /\ call.total \in Nat /\ call.ret \in Nat
          /\ call.size \in Nat /\ call.counter \in Nat
          /\ call.addr = call.start + call.ret /\ call.ret + call.size = call.total
          /\ call.total > 0 => last_call = call.op
          /\ excused \/ call.start + call.total =< MemSize
    /\ dpc \in {"fault", "ready", "send_wait", "recv_wait"} => call.size > 0 /\ Mapped(call)

\* What a message in flight says of both sides.
InFlight ==
    /\ chan.kind = "RECV_BUFFER" =>
          dpc = "recv_wait" /\ chan.counter = call.counter /\ chan.maxsize = Chunk(call)
    /\ chan.kind = "SEND_BUFFER" => chan.counter = call.counter
    /\ chan.kind = "data" =>
          dpc = "recv_wait" /\ hpc \in {"loop", "exiting"} /\ chan.data \in Seq(Bytes)
    /\ chan.kind = "signature" => hpc = "init"
    /\ chan.kind = "REQUEST_MANIFEST" => dpc = "manifest"
    /\ chan.kind = "empty" \/ hpc = "loop" => initialized
    /\ chan.kind \in {"EXIT", "FATAL"} => excused

\* The number of chunks the host has taken of the message the app sends.
Taken ==
    IF dpc = "send_wait" /\ chan.kind # "SEND_BUFFER"
    THEN IF call.size = Chunk(call) THEN 0 ELSE call.counter + 1
    ELSE IF call.size = 0 THEN 0 ELSE call.counter

TakenInv ==
    /\ Sending => send_buffer_counter = Taken
    /\ ~Sending /\ chan.kind # "STATUS" => send_buffer_counter = 0

\* What the app is to receive: an empty message arrives as one byte of zero.
Whole == IF message = <<>> THEN <<ZeroByte>> ELSE message

\* What is left in recv_buffer after k bytes of the message.
Rest(k) == /\ Len(recv_buffer) = Len(Whole) - k
           /\ \A i \in 1 .. Len(recv_buffer) : recv_buffer[i] = Whole[k + i]

\* The first bytes of the message are in the app's buffer.
Got == \A i \in 1 .. call.ret : mem[call.start + i - 1] = Whole[i]

\* The chunk in flight: the next bytes of the message, as many as the device asked for
\* or all that are left.
ChunkInv ==
    LET n == Len(chan.data)  done == call.ret + n
    IN  /\ n > 0 /\ done =< Len(Whole) /\ Fits(chan, Chunk(call))
        /\ \A i \in 1 .. n : chan.data[i] = Whole[call.ret + i]
        /\ chan.p1 = IF done = Len(Whole) THEN 1 ELSE 0
        /\ recv_buffer_counter = IF done = Len(Whole) THEN 0 ELSE call.counter + 1
        /\ Rest(done) /\ Got

ReceiveInv ==
    /\ ~Receiving /\ chan.kind # "STATUS" => recv_buffer = <<>> /\ recv_buffer_counter = 0
    /\ Receiving /\ chan.kind # "data" =>
          /\ recv_buffer_counter = call.counter
          /\ \/ call.ret = 0 /\ call.counter = 0 /\ recv_buffer = <<>>
             \/ /\ call.ret \in 1 .. (Len(message) - 1) /\ call.size > 0
                /\ Rest(call.ret) /\ Got
    /\ chan.kind = "data" => ChunkInv

\* The app has bytes to send that the host has not taken.
Unsent == Sending /\ call.size > 0 /\ ~(dpc = "send_wait" /\ chan.kind # "SEND_BUFFER"
                                            /\ call.size = Chunk(call))

\* An app that does not misuse its calls: it receives a message once, in a buffer that is
\* large enough, and is still running.
CauseInv ==
    /\ Receiving /\ call.total > 0 => call.total >= Len(message)
    /\ Receiving /\ call.total > 0 /\ recv_buffer = <<>> /\ chan.kind # "data"
            => ~buffer_received
    /\ hpc # "idle" /\ buffer_received => last_call = "recv" \/ Unsent
    /\ chan.kind # "STATUS"
    /\ dpc = "menu" => ~initialized
    /\ chan.kind = "REQUEST_MANIFEST" => hpc # "loop"

\* The end of the session.
ExitInv ==
    /\ hpc = "exiting" => \/ dpc = "recv_wait" /\ chan.kind = "data" /\ chan.p1 = 2
                          \/ dpc = "menu" /\ chan.kind = "STATUS"
    /\ hpc = "ended" => /\ chan = NoMsg
                        /\ dpc = "menu" \/ (dpc = "send_wait" /\ last_call = "send")

ReliableInv ==
    /\ ExitInv
    /\ Active => ReceiveInv
    /\ Active /\ ~excused => CauseInv
    /\ HostFailsForCause

XferInv ==
    /\ SendInv /\ Locals /\ InFlight
    /\ Active => TakenInv
    /\ reliable => ReliableInv
-----------------------------------------------------------------------------
(* The steps outside of a message. *)

\* A step that the app's call, its memory, the host's buffers and the message do not see.
SameBuffers == UNCHANGED <<mem, call, message, recv_buffer, recv_buffer_counter,
                           send_buffer_counter, buffer_received>>

\* The app is launched, or ends by itself.
LEMMA LaunchKeepsXferInv ==
    ASSUME XferInv, LaunchRequest \/ LaunchApp \/ AppEnds
    PROVE  XferInv'
<1>1. /\ SameBuffers
      /\ UNCHANGED <<hpc, initialized, exit_app, last_call, exchanges, reliable>>
    BY DEF LaunchRequest, LaunchApp, AppEnds, SameBuffers, hostVars, bufferVars, requestVars,
           appVars
<1>2. /\ dpc \in {"menu", "manifest", "app"} /\ dpc' \in {"menu", "manifest", "app"}
      /\ chan.kind \notin {"RECV_BUFFER", "SEND_BUFFER", "data", "STATUS"}
      /\ hpc # "idle"
    <2>1. \/ chan.kind \in {"signature", "empty", "manifest"}
          \/ dpc = "app" /\ chan.kind \notin {"RECV_BUFFER", "SEND_BUFFER", "data", "STATUS"}
        BY DEF LaunchRequest, LaunchApp, AppEnds, XferInv, SendInv, ControlInv, InFlight
    <2> QED BY <2>1 DEF LaunchRequest, LaunchApp, AppEnds, XferInv, SendInv, ControlInv,
               NoMsg
<1>3. SendInv'
    BY OutsideCalls DEF XferInv
<1>4. Locals' /\ InFlight'
    BY <1>1, <1>2 DEF XferInv, Locals, InFlight, SameBuffers, LaunchRequest, LaunchApp,
       AppEnds, Calling, Msg, NoMsg
<1>5. ~Sending /\ ~Sending' /\ ~Receiving /\ ~Receiving'
    BY <1>2 DEF Sending, Receiving, Calling
<1>6. chan'.kind \in {"REQUEST_MANIFEST", "none", "EXIT", "FATAL"} /\ (excused => excused')
    BY DEF LaunchRequest, LaunchApp, AppEnds, Msg, NoMsg, appVars
<1>7. (Active => TakenInv)'
    BY <1>1, <1>2, <1>5 DEF XferInv, Active, TakenInv, SameBuffers
<1>8. ASSUME reliable PROVE ReliableInv'
    <2>1. ExitInv'
        BY <1>1, <1>2, <1>8 DEF XferInv, ReliableInv, ExitInv, LaunchRequest, LaunchApp,
           AppEnds, NoMsg
    <2>2. (Active => ReceiveInv)'
        BY <1>1, <1>2, <1>5, <1>6, <1>8 DEF XferInv, ReliableInv, Active, ReceiveInv,
           SameBuffers
    <2>3. (Active /\ ~excused => CauseInv)'
        <3>1. SUFFICES ASSUME Active, ~excused, ~excused' PROVE CauseInv'
            BY <1>1, <1>6 DEF Active
        <3>2. CauseInv /\ ~Unsent
            BY <1>5, <1>8, <3>1 DEF XferInv, ReliableInv, Unsent
        <3>3. hpc # "idle" /\ buffer_received => last_call = "recv"
            BY <3>2 DEF CauseInv
        <3>4. dpc' = "menu" => FALSE
            BY <3>1 DEF LaunchRequest, LaunchApp, AppEnds
        <3>5. chan'.kind = "REQUEST_MANIFEST" => hpc' # "loop"
            <4>1. ASSUME LaunchRequest PROVE hpc # "loop"
                BY <3>2, <4>1 DEF LaunchRequest, XferInv, InFlight, CauseInv
            <4> QED BY <1>1, <4>1 DEF LaunchApp, AppEnds, NoMsg, Msg
        <3> QED BY <1>1, <1>5, <1>6, <3>3, <3>4, <3>5 DEF CauseInv, SameBuffers
    <2>4. HostFailsForCause'
        BY <1>1, <1>6, <1>8 DEF XferInv, ReliableInv, HostFailsForCause
    <2> QED BY <2>1, <2>2, <2>3, <2>4 DEF ReliableInv
<1> QED BY <1>1, <1>3, <1>4, <1>7, <1>8 DEF XferInv

\* A new call: nothing of it has been sent or received, and a call the app misuses excuses
\* what happens to the host.
LEMMA CallKeepsXferInv ==
    ASSUME XferInv, NEW op \in {"recv", "send"}, NEW a \in Nat, NEW s \in Nat, Call(op, a, s)
    PROVE  XferInv'
<1>1. /\ dpc = "app" /\ dpc' = "call"
      /\ UNCHANGED <<mem, chan, hpc, initialized, message, recv_buffer, recv_buffer_counter,
                     send_buffer_counter, buffer_received, exchanges, reliable>>
      /\ last_call' = IF s > 0 THEN op ELSE last_call
      /\ excused' = (excused \/ Misused(op, a, s))
    BY DEF Call, hostVars, bufferVars, requestVars
<1>2. /\ call'.op = op /\ call'.start = a /\ call'.total = s /\ call'.addr = a
      /\ call'.size = s /\ call'.ret = 0 /\ call'.counter = 0
    BY DEF Call, NoCall
<1>3. /\ ~Sending /\ ~Receiving /\ hpc # "idle"
      /\ chan.kind \notin {"STATUS", "SEND_BUFFER", "RECV_BUFFER", "data", "EXIT", "FATAL",
                           "REQUEST_MANIFEST"}
    BY <1>1 DEF XferInv, InFlight, SendInv, ControlInv, Sending, Receiving, Calling
<1>4. /\ a + s > MemSize => excused'
      /\ op = "recv" /\ s > 0 /\ ~excused' => last_call # "recv" /\ ~(s < Len(message))
    BY <1>1, Zenon DEF Misused
<1>5. Locals'
    <2>1. excused' \/ call'.start + call'.total =< MemSize
        BY <1>2, <1>4, XferAssumption
    <2> QED BY <1>1, <1>2, <2>1 DEF XferInv, Locals
<1>6. InFlight' /\ SendInv'
    BY <1>1, <1>3, CallKeepsSendInv DEF XferInv, InFlight
<1>7. (Active => TakenInv)'
    BY <1>1, <1>2, <1>3 DEF XferInv, Active, TakenInv, Taken, Sending
<1>8. ASSUME reliable PROVE ReliableInv'
    <2>1. ExitInv'
        BY <1>1, <1>8 DEF XferInv, ReliableInv, ExitInv
    <2>2. (Active => ReceiveInv)'
        BY <1>1, <1>2, <1>3, <1>8 DEF XferInv, ReliableInv, Active, ReceiveInv
    <2>3. (Active /\ ~excused => CauseInv)'
        <3>1. SUFFICES ASSUME Active, ~excused, ~excused' PROVE CauseInv'
            BY <1>1 DEF Active
        <3>2. CauseInv /\ (buffer_received => last_call = "recv")
            BY <1>3, <1>8, <3>1, Zenon DEF XferInv, ReliableInv, CauseInv, Unsent
        <3>3. Receiving' => op = "recv"
            BY <1>2 DEF Receiving
        <3>4. Len(message) \in Nat
            BY DEF XferInv, Locals
        <3>5. (Receiving /\ call.total > 0 => call.total >= Len(message))'
            BY <1>1, <1>2, <1>4, <3>1, <3>3, <3>4
        <3>6. Receiving' /\ call'.total > 0 => ~buffer_received
            BY <1>2, <1>4, <3>1, <3>2, <3>3
        <3>7. buffer_received => last_call' = "recv" \/ Unsent'
            BY <1>1, <1>2, <3>2 DEF Unsent, Sending, Calling
        <3> QED BY <1>1, <1>3, <3>5, <3>6, <3>7 DEF CauseInv
    <2>4. HostFailsForCause'
        BY <1>1, <1>8 DEF XferInv, ReliableInv, HostFailsForCause
    <2> QED BY <2>1, <2>2, <2>3, <2>4 DEF ReliableInv
<1> QED BY <1>1, <1>5, <1>6, <1>7, <1>8 DEF XferInv

\* The buffer of a call: get_buffer, and the request for a chunk.
LEMMA ChunkKeepsXferInv ==
    ASSUME XferInv, GetBufferFault \/ GetBufferFaultEnds \/ RecvRequest \/ SendRequest
    PROVE  XferInv'
<1>1. /\ dpc \in {"call", "fault", "ready"}
      /\ dpc' \in {"fault", "ready", "recv_wait", "send_wait"}
      /\ SameBuffers
      /\ UNCHANGED <<hpc, initialized, last_call, excused, exchanges, reliable>>
    BY DEF GetBufferFault, GetBufferFaultEnds, RecvRequest, SendRequest, SendChunk,
           HasBuffer, SameBuffers, appVars, hostVars, bufferVars, requestVars
<1>2. /\ chan.kind \notin {"STATUS", "SEND_BUFFER", "RECV_BUFFER", "data", "EXIT", "FATAL",
                           "REQUEST_MANIFEST"}
      /\ hpc # "idle"
    BY <1>1 DEF XferInv, SendInv, ControlInv, InFlight
<1>3. /\ chan'.kind \in {"PAGE", "none", "RECV_BUFFER", "SEND_BUFFER"}
      /\ chan'.kind = "RECV_BUFFER" =>
            dpc' = "recv_wait" /\ chan'.counter = call.counter /\ chan'.maxsize = Chunk(call)
      /\ chan'.kind = "SEND_BUFFER" => chan'.counter = call.counter
      /\ dpc' = "send_wait" => chan'.kind = "SEND_BUFFER" /\ call.op = "send"
    BY DEF GetBufferFault, GetBufferFaultEnds, RecvRequest, SendRequest, SendChunk, Msg, NoMsg
<1>4. call.size > 0 /\ Mapped(call)
    BY DEF GetBufferFault, GetBufferFaultEnds, RecvRequest, SendRequest, SendChunk,
           HasBuffer, XferInv, Locals
<1>5. SendInv'
    BY ChunkKeepsSendInv DEF XferInv
<1>6. Locals'
    BY <1>1, <1>4 DEF XferInv, Locals, SameBuffers, Calling, Mapped, Chunk, BUFFER_MIN_SIZE
<1>7. InFlight'
    BY <1>1, <1>3 DEF XferInv, InFlight, SameBuffers, Chunk, BUFFER_MIN_SIZE
<1>8. /\ Sending' = Sending /\ Receiving' = Receiving
      /\ Unsent => Unsent'
    BY <1>1, <1>3, <1>4 DEF Sending, Receiving, Calling, SameBuffers, Unsent
<1>9. (Active => TakenInv)'
    BY <1>1, <1>2, <1>3, <1>8 DEF XferInv, Active, TakenInv, Taken, SameBuffers
<1>10. ASSUME reliable PROVE ReliableInv'
    <2>1. ExitInv'
        BY <1>1, <1>2, <1>10 DEF XferInv, ReliableInv, ExitInv
    <2>2. (Active => ReceiveInv)'
        BY <1>1, <1>2, <1>3, <1>8, <1>10 DEF XferInv, ReliableInv, Active, ReceiveInv,
           SameBuffers, Rest, Got, Whole
    <2>3. (Active /\ ~excused => CauseInv)'
        BY <1>1, <1>2, <1>3, <1>8, <1>10 DEF XferInv, ReliableInv, Active, CauseInv,
           SameBuffers
    <2>4. HostFailsForCause'
        BY <1>1, <1>10 DEF XferInv, ReliableInv, HostFailsForCause
    <2> QED BY <2>1, <2>2, <2>3, <2>4 DEF ReliableInv
<1> QED BY <1>1, <1>5, <1>6, <1>7, <1>9, <1>10 DEF XferInv

\* A buffer that is not mapped: the app is stopped, for a cause of its own.
LEMMA RefusalKeepsXferInv == ASSUME XferInv, GetBufferFails PROVE XferInv'
<1>1. /\ dpc = "call" /\ call.size > 0 /\ ~Mapped(call) /\ dpc' = "menu"
      /\ chan'.kind = "STATUS" /\ SameBuffers
      /\ UNCHANGED <<hpc, initialized, last_call, excused, exchanges, reliable>>
    BY DEF GetBufferFails, StopApp, Msg, SameBuffers, appVars, hostVars, bufferVars,
           requestVars
<1>2. excused
    <2>1. /\ call.start \in Nat /\ call.total \in Nat /\ call.ret \in Nat /\ call.size \in Nat
          /\ call.addr = call.start + call.ret /\ call.ret + call.size = call.total
          /\ excused \/ call.start + call.total =< MemSize
        BY <1>1 DEF XferInv, Locals, Calling
    <2>2. Chunk(call) \in 1 .. call.size
        BY <1>1, <2>1, ChunkSize
    <2> HIDE DEF Chunk
    <2> QED BY <1>1, <2>1, <2>2, XferAssumption DEF Mapped
<1>3. SendInv'
    BY ChunkKeepsSendInv DEF XferInv
<1>4. Locals' /\ InFlight'
    BY <1>1 DEF XferInv, Locals, InFlight, SameBuffers, Calling
<1>5. ~Sending' /\ ~Receiving' /\ hpc # "idle" /\ ~(reliable /\ hpc \in {"exiting", "ended"})
    BY <1>1 DEF Sending, Receiving, Calling, XferInv, SendInv, ControlInv, ReliableInv, ExitInv
<1>6. (Active => TakenInv)'
    BY <1>1, <1>5 DEF TakenInv
<1>7. ASSUME reliable PROVE ReliableInv'
    BY <1>1, <1>2, <1>5, <1>7 DEF XferInv, ReliableInv, ExitInv, ReceiveInv,
       HostFailsForCause
<1> QED BY <1>1, <1>3, <1>4, <1>6, <1>7 DEF XferInv

\* The host has taken a chunk, and the end of a call.
LEMMA ReturnKeepsXferInv ==
    ASSUME XferInv, SendReply \/ CallReturns
    PROVE  XferInv'
<1>1. UNCHANGED <<mem, hpc, initialized, message, recv_buffer, recv_buffer_counter,
                  send_buffer_counter, buffer_received, last_call, excused, exchanges,
                  reliable>>
    BY DEF SendReply, CallReturns, appVars, hostVars, bufferVars, requestVars
<1>2. SendInv'
    BY AnswerKeepsSendInv DEF XferInv
<1>3. CASE SendReply
    <2>1. /\ dpc = "send_wait" /\ chan.kind = "empty" /\ dpc' = "call" /\ chan' = NoMsg
          /\ call' = Advance(call, Chunk(call)) /\ call.op = "send" /\ call.size > 0
          /\ DOMAIN call = DOMAIN NoCall /\ hpc # "idle"
        BY <1>3 DEF SendReply, XferInv, SendInv, ControlInv, Locals, NoMsg
    <2>2. /\ call.start \in Nat /\ call.total \in Nat /\ call.ret \in Nat
          /\ call.size \in Nat /\ call.counter \in Nat
          /\ call.addr = call.start + call.ret /\ call.ret + call.size = call.total
        BY <2>1 DEF XferInv, Locals, Calling
    <2>3. Chunk(call) \in 1 .. call.size
        BY <2>1, <2>2, ChunkSize
    <2>4. /\ call'.op = call.op /\ call'.start = call.start /\ call'.total = call.total
          /\ call'.addr = call.addr + Chunk(call) /\ call'.size = call.size - Chunk(call)
          /\ call'.ret = call.ret + Chunk(call) /\ call'.counter = call.counter + 1
        BY <2>1, Advanced
    <2>5. Locals'
        <3>1. /\ call'.op = "send" /\ call'.start \in Nat /\ call'.total \in Nat
              /\ call'.ret \in Nat /\ call'.size \in Nat /\ call'.counter \in Nat
              /\ call'.addr = call'.start + call'.ret
              /\ call'.ret + call'.size = call'.total
            BY <2>1, <2>2, <2>3, <2>4
        <3>2. /\ call'.total > 0 => last_call' = call'.op
              /\ excused' \/ call'.start + call'.total =< MemSize
            BY <1>1, <2>1, <2>4 DEF XferInv, Locals, Calling
        <3> QED BY <1>1, <2>1, <3>1, <3>2 DEF XferInv, Locals
    <2>6. InFlight'
        BY <1>1, <2>1 DEF XferInv, InFlight, NoMsg
    <2>7. Sending /\ Sending' /\ ~Receiving /\ ~Receiving' /\ (Unsent => Unsent')
        BY <2>1, <2>2, <2>3, <2>4 DEF Sending, Receiving, Calling, Unsent
    <2>8. (Active => TakenInv)'
        <3>1. Taken' = Taken
            BY <2>1, <2>2, <2>3, <2>4 DEF Taken
        <3> QED BY <1>1, <2>7, <3>1 DEF XferInv, Active, TakenInv
    <2>9. ASSUME reliable PROVE ReliableInv'
        <3>1. ExitInv' /\ HostFailsForCause'
            BY <1>1, <2>1, <2>9 DEF XferInv, ReliableInv, ExitInv, HostFailsForCause, NoMsg
        <3>2. (Active => ReceiveInv)'
            BY <1>1, <2>1, <2>7, <2>9 DEF XferInv, ReliableInv, Active, ReceiveInv, NoMsg
        <3>3. (Active /\ ~excused => CauseInv)'
            BY <1>1, <2>1, <2>7, <2>9 DEF XferInv, ReliableInv, Active, CauseInv, NoMsg
        <3> QED BY <3>1, <3>2, <3>3 DEF ReliableInv
    <2> QED BY <1>1, <1>2, <2>5, <2>6, <2>8, <2>9 DEF XferInv
<1>4. CASE CallReturns
    <2>1. /\ dpc = "call" /\ call.size = 0 /\ dpc' = "app" /\ UNCHANGED <<call, chan>>
          /\ hpc # "idle"
          /\ chan.kind \notin {"STATUS", "SEND_BUFFER", "RECV_BUFFER", "data", "EXIT", "FATAL",
                               "REQUEST_MANIFEST"}
        BY <1>4 DEF CallReturns, XferInv, SendInv, ControlInv, InFlight
    <2>2. Locals' /\ InFlight'
        BY <1>1, <2>1 DEF XferInv, Locals, InFlight, Calling
    <2>3. ~Sending' /\ ~Receiving' /\ ~Unsent /\ (Sending \/ Receiving)
        BY <2>1 DEF Sending, Receiving, Calling, Unsent, XferInv, Locals
    <2>4. (Active => TakenInv)'
        BY <1>1, <2>1, <2>3 DEF XferInv, Active, TakenInv, Taken
    <2>5. ASSUME reliable PROVE ReliableInv'
        <3>1. ExitInv' /\ HostFailsForCause'
            BY <1>1, <2>1, <2>5 DEF XferInv, ReliableInv, ExitInv, HostFailsForCause
        <3>2. (Active => ReceiveInv)'
            <4>1. SUFFICES ASSUME Active PROVE ReceiveInv'
                BY <1>1 DEF Active
            <4>2. ReceiveInv
                BY <2>5, <4>1 DEF XferInv, ReliableInv
            <4>3. recv_buffer = <<>> /\ recv_buffer_counter = 0
                BY <2>1, <2>3, <4>2 DEF ReceiveInv
            <4> QED BY <1>1, <2>1, <2>3, <4>3 DEF ReceiveInv
        <3>3. (Active /\ ~excused => CauseInv)'
            BY <1>1, <2>1, <2>3, <2>5 DEF XferInv, ReliableInv, Active, CauseInv
        <3> QED BY <3>1, <3>2, <3>3 DEF ReliableInv
    <2> QED BY <1>1, <1>2, <2>2, <2>4, <2>5 DEF XferInv
<1> QED BY <1>3, <1>4
-----------------------------------------------------------------------------
(* Receiving a message. *)

\* What sys_xrecv does with a reply: it refuses it, or copies n bytes behind those it has,
\* and then returns, asks for the next chunk, or stops for want of room.
Refused == StopApp /\ UNCHANGED <<mem, call>>

CopiesBytes(n) ==
    /\ DOMAIN mem' = DOMAIN mem
    /\ \A i \in DOMAIN mem : mem'[i] # mem[i] =>
            i >= call.start + call.ret /\ i < call.start + call.ret + n
    /\ call'.op = "recv" /\ call'.start = call.start /\ call'.total = call.total
    /\ call'.addr = call.addr + n /\ call'.size = call.size - n
    /\ call'.ret = call.ret + n /\ call'.counter = call.counter + 1
    /\ \/ dpc' = "app" /\ chan' = NoMsg
       \/ StopApp
       \/ dpc' = "call" /\ chan' = NoMsg /\ call'.size > 0

\* With a host that answers as its code does, the bytes are the next ones of the message.
CopiesChunk(n) ==
    /\ hpc = "loop" /\ n = Len(chan.data) /\ ChunkInv /\ Got'
    /\ IF chan.p1 = 1 THEN dpc' = "app"
       ELSE IF call'.size = 0 THEN StopApp ELSE dpc' = "call"

\* The bytes of a buffer at s: t bytes, and n more behind them.
LEMMA Behind ==
    ASSUME NEW s \in Nat, NEW t \in Nat, NEW n \in Nat, NEW m \in Nat, s + t + n =< m,
           NEW i \in 1 .. (t + n)
    PROVE  /\ s + i - 1 \in 0 .. (m - 1)
           /\ i =< t => i \in 1 .. t /\ (s + i - 1) - (s + t) + 1 \notin 1 .. n
           /\ ~(i =< t) => /\ i - t \in 1 .. n /\ t + (i - t) = i
                           /\ (s + i - 1) - (s + t) + 1 = i - t
OBVIOUS

LEMMA Inside ==
    ASSUME NEW a \in Nat, NEW n \in Nat, NEW i \in Nat, i - a + 1 \in 1 .. n
    PROVE  i >= a /\ i < a + n
OBVIOUS

LEMMA Received ==
    ASSUME XferInv, RecvReply
    PROVE  /\ dpc = "recv_wait" /\ chan.kind = "data" /\ call.op = "recv" /\ call.size > 0
           /\ hpc \in {"loop", "exiting"}
           /\ UNCHANGED <<hpc, initialized, message, recv_buffer, recv_buffer_counter,
                          send_buffer_counter, buffer_received, last_call, excused, exchanges,
                          reliable>>
           /\ \/ Refused /\ ~(reliable /\ hpc = "loop")
              \/ \E n \in Nat : n =< call.size /\ CopiesBytes(n) /\ (reliable => CopiesChunk(n))
<1>1. /\ dpc = "recv_wait" /\ chan.kind = "data" /\ call.op = "recv" /\ call.size > 0
      /\ hpc \in {"loop", "exiting"} /\ chan.data \in Seq(Bytes) /\ Mapped(call)
      /\ DOMAIN call = DOMAIN NoCall
    BY DEF RecvReply, XferInv, InFlight, Locals, SendInv, ControlInv
<1>2. UNCHANGED <<hpc, initialized, message, recv_buffer, recv_buffer_counter,
                  send_buffer_counter, buffer_received, last_call, excused, exchanges,
                  reliable>>
    BY DEF RecvReply, appVars, hostVars, bufferVars, requestVars
<1>3. /\ call.start \in Nat /\ call.total \in Nat /\ call.ret \in Nat
      /\ call.size \in Nat /\ call.counter \in Nat
      /\ call.addr = call.start + call.ret /\ call.ret + call.size = call.total
      /\ DOMAIN mem = 0 .. (MemSize - 1)
    BY <1>1 DEF XferInv, Locals, Calling
<1>4. Chunk(call) \in 1 .. call.size
    BY <1>1, <1>3, ChunkSize
<1>5. PICK r \in Answers :
         \/ (ExitRequested(r) \/ ~Fits(r, Chunk(call))) /\ Refused
         \/ /\ ~ExitRequested(r) /\ Fits(r, Chunk(call))
            /\ mem' = Copied(call.addr, r.data)
            /\ call' = Advance(call, Len(r.data))
            /\ IF r.p1 = 1 THEN dpc' = "app" /\ chan' = NoMsg
               ELSE IF Advance(call, Len(r.data)).size = 0 THEN StopApp
               ELSE dpc' = "call" /\ chan' = NoMsg
    BY DEF RecvReply, Refused
<1>6. Len(r.data) \in Nat
    <2>1. CASE r = chan
        BY <1>1, <2>1
    <2>2. CASE \E p1 \in 0 .. 2, n \in 1 .. PAGE_SIZE :
                    r = [kind |-> "data", p1 |-> p1, data |-> Message(-1, n)]
        BY <2>2, XferAssumption DEF Message
    <2> QED BY <2>1, <2>2 DEF Answers
<1>7. reliable => r = chan
    BY DEF Answers
<1>8. reliable /\ hpc = "loop" => ChunkInv
    BY <1>1 DEF XferInv, ReliableInv, Active, ReceiveInv
<1>9. reliable /\ hpc = "exiting" => ExitRequested(r)
    BY <1>1, <1>7 DEF XferInv, ReliableInv, ExitInv, ExitRequested
<1>10. CASE (ExitRequested(r) \/ ~Fits(r, Chunk(call))) /\ Refused
    <2>1. ~(reliable /\ hpc = "loop")
        BY <1>7, <1>8, <1>10 DEF ChunkInv, ExitRequested
    <2> QED BY <1>1, <1>2, <1>10, <2>1
<1>11. CASE /\ ~ExitRequested(r) /\ Fits(r, Chunk(call))
            /\ mem' = Copied(call.addr, r.data)
            /\ call' = Advance(call, Len(r.data))
            /\ IF r.p1 = 1 THEN dpc' = "app" /\ chan' = NoMsg
               ELSE IF Advance(call, Len(r.data)).size = 0 THEN StopApp
               ELSE dpc' = "call" /\ chan' = NoMsg
    <2> DEFINE n == Len(r.data)
    <2>1. n \in Nat /\ n =< Chunk(call) /\ n =< call.size
        BY <1>3, <1>4, <1>6, <1>11 DEF Fits
    <2>2. mem' = [i \in DOMAIN mem |-> IF i - call.addr + 1 \in 1 .. n
                                       THEN r.data[i - call.addr + 1] ELSE mem[i]]
        BY <1>11 DEF Copied, CopiedFrom
    <2> HIDE DEF n
    <2>3. /\ call'.op = "recv" /\ call'.start = call.start /\ call'.total = call.total
          /\ call'.addr = call.addr + n /\ call'.size = call.size - n
          /\ call'.ret = call.ret + n /\ call'.counter = call.counter + 1
        BY <1>1, <1>11, Advanced DEF n
    <2>4. CopiesBytes(n)
        <3>1. ASSUME NEW i \in DOMAIN mem, mem'[i] # mem[i]
              PROVE  i >= call.start + call.ret /\ i < call.start + call.ret + n
            <4>1. i - call.addr + 1 \in 1 .. n /\ i \in Nat
                BY <1>3, <2>2, <3>1, XferAssumption
            <4>2. call.addr = call.start + call.ret /\ call.start + call.ret \in Nat
                BY <1>3
            <4> QED BY <2>1, <4>1, <4>2, Inside
        <3>2. call'.size = 0 \/ call'.size > 0
            BY <1>3, <2>1, <2>3
        <3>3. \/ dpc' = "app" /\ chan' = NoMsg
              \/ StopApp
              \/ dpc' = "call" /\ chan' = NoMsg /\ call'.size > 0
            BY <1>11, <3>2
        <3> QED BY <2>2, <2>3, <3>1, <3>3 DEF CopiesBytes
    <2>5. ASSUME reliable PROVE CopiesChunk(n)
        <3>1. hpc = "loop" /\ r = chan /\ ChunkInv
            BY <1>1, <1>7, <1>8, <1>9, <1>11, <2>5
        <3>2. /\ \A i \in 1 .. n : chan.data[i] = Whole[call.ret + i]
              /\ Got
            BY <3>1 DEF ChunkInv, n
        <3>3. ASSUME NEW i \in 1 .. (call.ret + n)
              PROVE  mem'[call.start + i - 1] = Whole[i]
            <4> DEFINE k == call.start + i - 1
            <4>1. /\ k \in DOMAIN mem
                  /\ i =< call.ret => i \in 1 .. call.ret /\ k - call.addr + 1 \notin 1 .. n
                  /\ ~(i =< call.ret) => /\ i - call.ret \in 1 .. n
                                         /\ call.ret + (i - call.ret) = i
                                         /\ k - call.addr + 1 = i - call.ret
                <5>1. call.start + call.ret + n =< MemSize /\ MemSize \in Nat
                    <6> HIDE DEF Chunk
                    <6> QED BY <1>1, <1>3, <1>4, <2>1, XferAssumption DEF Mapped
                <5> DEFINE s == call.start  t == call.ret
                <5>2. s \in Nat /\ t \in Nat /\ n \in Nat /\ s + t + n =< MemSize
                      /\ i \in 1 .. (t + n)
                    BY <1>3, <2>1, <5>1
                <5>3. k = s + i - 1 /\ call.addr = s + t /\ DOMAIN mem = 0 .. (MemSize - 1)
                    BY <1>3
                <5> HIDE DEF s, t, k
                <5>4. /\ s + i - 1 \in 0 .. (MemSize - 1)
                      /\ i =< t => i \in 1 .. t /\ (s + i - 1) - (s + t) + 1 \notin 1 .. n
                      /\ ~(i =< t) => /\ i - t \in 1 .. n /\ t + (i - t) = i
                                      /\ (s + i - 1) - (s + t) + 1 = i - t
                    BY <5>1, <5>2, Behind
                <5>5. /\ k \in DOMAIN mem
                      /\ i =< t => i \in 1 .. t /\ k - call.addr + 1 \notin 1 .. n
                      /\ ~(i =< t) => /\ i - t \in 1 .. n /\ t + (i - t) = i
                                      /\ k - call.addr + 1 = i - t
                    BY <5>3, <5>4
                <5> QED BY <5>5 DEF t
            <4> HIDE DEF k
            <4>2. CASE i =< call.ret
                <5>1. mem'[k] = mem[k]
                    BY <2>2, <4>1, <4>2
                <5>2. mem[k] = Whole[i]
                    BY <3>2, <4>1, <4>2 DEF Got, k
                <5> QED BY <5>1, <5>2 DEF k
            <4>3. CASE ~(i =< call.ret)
                <5>1. mem'[k] = chan.data[i - call.ret]
                    BY <2>2, <3>1, <4>1, <4>3
                <5> QED BY <3>2, <4>1, <4>3, <5>1 DEF k
            <4> QED BY <4>2, <4>3
        <3>4. Got'
            BY <1>2, <2>3, <3>3 DEF Got, Whole
        <3>5. IF chan.p1 = 1 THEN dpc' = "app"
              ELSE IF call'.size = 0 THEN StopApp ELSE dpc' = "call"
            BY <1>11, <3>1
        <3> QED BY <3>1, <3>4, <3>5 DEF CopiesChunk, n
    <2> QED BY <1>1, <1>2, <2>1, <2>4, <2>5
<1> QED BY <1>5, <1>10, <1>11

\* A device that was given the chunk it asked for goes on; it stops for want of room only
\* if the app's buffer is shorter than the message.
LEMMA RecvReplyKeepsXferInv == ASSUME XferInv, RecvReply PROVE XferInv'
<1>1. /\ dpc = "recv_wait" /\ chan.kind = "data" /\ call.op = "recv" /\ call.size > 0
      /\ hpc \in {"loop", "exiting"}
      /\ UNCHANGED <<hpc, initialized, message, recv_buffer, recv_buffer_counter,
                     send_buffer_counter, buffer_received, last_call, excused, exchanges,
                     reliable>>
    BY Received
<1>2. SendInv'
    BY AnswerKeepsSendInv DEF XferInv
<1>3. ~Sending /\ Receiving
    BY <1>1 DEF Sending, Receiving, Calling
<1>4. CASE Refused /\ ~(reliable /\ hpc = "loop")
    <2>1. dpc' = "menu" /\ chan'.kind = "STATUS" /\ UNCHANGED <<mem, call>>
        BY <1>4 DEF Refused, StopApp, Msg
    <2>2. Locals' /\ InFlight'
        BY <1>1, <2>1 DEF XferInv, Locals, InFlight, Calling
    <2>3. (Active => TakenInv)'
        BY <2>1 DEF TakenInv, Sending, Calling
    <2>4. ASSUME reliable PROVE ReliableInv'
        BY <1>1, <1>4, <2>1, <2>4
           DEF ReliableInv, ExitInv, Active, HostFailsForCause
    <2> QED BY <1>1, <1>2, <2>2, <2>3, <2>4 DEF XferInv
<1>5. ASSUME NEW n \in Nat, n =< call.size, CopiesBytes(n), reliable => CopiesChunk(n)
      PROVE  XferInv'
    <2>1. /\ call.start \in Nat /\ call.total \in Nat /\ call.ret \in Nat
          /\ call.size \in Nat /\ call.counter \in Nat
          /\ call.addr = call.start + call.ret /\ call.ret + call.size = call.total
          /\ last_call = "recv" /\ call.total > 0
        BY <1>1 DEF XferInv, Locals, Calling
    <2>2. /\ DOMAIN mem' = DOMAIN mem
          /\ call'.op = "recv" /\ call'.start = call.start /\ call'.total = call.total
          /\ call'.addr = call.addr + n /\ call'.size = call.size - n
          /\ call'.ret = call.ret + n /\ call'.counter = call.counter + 1
          /\ \/ dpc' = "app" /\ chan'.kind = "none"
             \/ dpc' = "menu" /\ chan'.kind = "STATUS"
             \/ dpc' = "call" /\ chan'.kind = "none" /\ call'.size > 0
        BY <1>5 DEF CopiesBytes, StopApp, Msg, NoMsg
    <2>3. /\ call'.start \in Nat /\ call'.total \in Nat /\ call'.ret \in Nat
          /\ call'.size \in Nat /\ call'.counter \in Nat
          /\ call'.addr = call'.start + call'.ret /\ call'.ret + call'.size = call'.total
        BY <1>5, <2>1, <2>2
    <2>4. Locals'
        <3>1. /\ call'.total > 0 => last_call' = call'.op
              /\ excused' \/ call'.start + call'.total =< MemSize
            BY <1>1, <2>1, <2>2 DEF XferInv, Locals, Calling
        <3> QED BY <1>1, <2>2, <2>3, <3>1 DEF XferInv, Locals
    <2>5. InFlight'
        BY <1>1, <2>2 DEF XferInv, InFlight
    <2>6. ~Sending' /\ (Receiving' <=> dpc' = "call")
        BY <2>2 DEF Sending, Receiving, Calling
    <2>7. (Active => TakenInv)'
        BY <1>1, <1>3, <2>2, <2>6 DEF XferInv, Active, TakenInv
    <2>8. ASSUME reliable PROVE ReliableInv'
        <3> DEFINE whole == Whole
        <3>1. hpc = "loop" /\ n = Len(chan.data) /\ ChunkInv /\ Got'
            BY <1>5, <2>8 DEF CopiesChunk
        <3>2. IF chan.p1 = 1 THEN dpc' = "app"
              ELSE IF call'.size = 0 THEN dpc' = "menu" ELSE dpc' = "call"
            BY <1>5, <2>8 DEF CopiesChunk, StopApp
        <3>3. whole \in Seq(Bytes) /\ recv_buffer \in Seq(Bytes) /\ Len(whole) \in Nat
            <4>1. message \in Seq(Bytes) /\ recv_buffer \in Seq(Bytes)
                BY DEF XferInv, Locals
            <4>2. <<ZeroByte>> \in Seq(Bytes)
                BY DEF ZeroByte, Bytes
            <4> QED BY <4>1, <4>2 DEF Whole
        <3>4. /\ n > 0 /\ call'.ret =< Len(whole)
              /\ chan.p1 = IF call'.ret = Len(whole) THEN 1 ELSE 0
              /\ recv_buffer_counter = IF call'.ret = Len(whole) THEN 0 ELSE call.counter + 1
              /\ Rest(call'.ret)
            BY <2>2, <3>1 DEF ChunkInv
        <3>5. Whole' = Whole
            BY <1>1 DEF Whole
        <3>6. chan.p1 # 1 => Whole = message /\ call'.ret \in 1 .. (Len(message) - 1)
            <4>1. SUFFICES ASSUME chan.p1 # 1
                           PROVE  Whole = message /\ call'.ret \in 1 .. (Len(message) - 1)
                OBVIOUS
            <4>2. call'.ret # Len(whole) /\ call'.ret < Len(whole) /\ call'.ret >= 1
                <5> DEFINE t == call'.ret  w == Len(whole)
                <5>1. t \in Nat /\ t = call.ret + n /\ n > 0 /\ call.ret \in Nat
                    BY <2>1, <2>2, <2>3, <3>4
                <5>2. t # w /\ t =< w /\ w \in Nat
                    BY <3>3, <3>4, <4>1
                <5> HIDE DEF t, w
                <5>3. t < w /\ t >= 1
                    BY <5>1, <5>2
                <5> QED BY <5>2, <5>3 DEF t, w
            <4>3. Len(<<ZeroByte>>) = 1
                OBVIOUS
            <4>4. Whole = message
                BY <2>3, <3>3, <4>2, <4>3 DEF Whole
            <4> QED BY <2>3, <3>3, <4>2, <4>4
        <3>7. ReceiveInv'
            <4>1. ASSUME ~Receiving', chan'.kind # "STATUS"
                  PROVE  recv_buffer = <<>> /\ recv_buffer_counter = 0
                <5>1. chan.p1 = 1
                    BY <2>2, <2>6, <3>2, <4>1
                <5>2. call'.ret = Len(whole)
                    BY <3>4, <5>1
                <5>3. Len(recv_buffer) = 0
                    BY <3>3, <3>4, <5>2 DEF Rest
                <5> QED BY <3>3, <3>4, <5>2, <5>3
            <4>2. ASSUME Receiving'
                  PROVE  /\ recv_buffer_counter = call'.counter
                         /\ call'.ret \in 1 .. (Len(message) - 1) /\ call'.size > 0
                         /\ Rest(call.ret)' /\ Got'
                <5>1. chan.p1 # 1
                    BY <2>6, <3>2, <4>2
                <5>2. call'.size > 0
                    BY <2>2, <2>6, <4>2
                <5>3. Rest(call.ret)'
                    BY <1>1, <3>4, <3>5 DEF Rest
                <5>4. recv_buffer_counter = call'.counter
                    BY <2>2, <3>4, <5>1
                <5> QED BY <3>1, <3>6, <5>1, <5>2, <5>3, <5>4
            <4> QED BY <1>1, <2>2, <4>1, <4>2 DEF ReceiveInv
        <3>8. Active
            BY <3>1 DEF Active
        <3>9. ~excused => chan'.kind # "STATUS"
            <4>1. ~excused => call.total >= Len(message)
                BY <1>3, <2>1, <2>8, <3>8 DEF XferInv, ReliableInv, CauseInv
            <4>2. Len(message) \in Nat
                BY DEF XferInv, Locals
            <4>3. chan'.kind = "STATUS" => chan.p1 # 1 /\ call'.size = 0
                BY <2>2, <3>2
            <4>4. SUFFICES ASSUME chan'.kind = "STATUS", ~excused PROVE FALSE
                OBVIOUS
            <4> DEFINE t == call'.ret  w == Len(message)
            <4>5. t + 0 = call.total /\ t \in Nat /\ w \in Nat
                BY <2>2, <2>3, <4>2, <4>3, <4>4
            <4>6. t \in 1 .. (w - 1) /\ call.total >= w
                BY <3>6, <4>1, <4>3, <4>4
            <4> HIDE DEF t, w
            <4> QED BY <4>5, <4>6
        <3>10. Receiving' => recv_buffer # <<>>
            <4>1. SUFFICES ASSUME Receiving' PROVE Len(recv_buffer) > 0
                BY <3>3
            <4>2. call'.ret < Len(whole)
                BY <2>6, <3>2, <3>3, <3>6, <4>1
            <4> QED BY <2>3, <3>3, <3>4, <4>2 DEF Rest
        <3>11. ~excused => CauseInv'
            BY <1>1, <1>3, <2>1, <2>2, <2>6, <2>8, <3>1, <3>8, <3>9, <3>10
               DEF XferInv, ReliableInv, CauseInv
        <3>12. ExitInv' /\ HostFailsForCause'
            BY <1>1, <3>1 DEF ExitInv, HostFailsForCause
        <3> QED BY <1>1, <3>7, <3>11, <3>12 DEF ReliableInv
    <2> QED BY <1>1, <1>2, <2>4, <2>5, <2>7, <2>8 DEF XferInv
<1> QED BY <1>4, <1>5, Received
-----------------------------------------------------------------------------
(* The host's steps. *)

SameDevice == UNCHANGED <<mem, dpc, call, last_call, excused>>

\* A message is a sequence of bytes.
LEMMA IsMessage ==
    ASSUME NEW k \in Nat, NEW len \in Nat
    PROVE  Message(k, len) \in Seq(Bytes)
BY DEF Message, Bytes

\* The user's call of exchange(): nothing is left of the message before.
LEMMA ExchangeKeepsXferInv ==
    ASSUME XferInv, NEW len \in Nat, NEW exit, HostExchange(len, exit)
    PROVE  XferInv'
<1>1. /\ hpc = "idle" /\ SameDevice
      /\ UNCHANGED <<initialized, recv_buffer, recv_buffer_counter, send_buffer_counter,
                     reliable>>
      /\ message' = Message(exchanges + 1, len) /\ exchanges' = exchanges + 1
      /\ buffer_received' = FALSE
      /\ \/ initialized /\ chan'.kind = "empty" /\ hpc' = "loop"
         \/ ~initialized /\ chan'.kind = "signature" /\ hpc' = "init"
    BY DEF HostExchange, SameDevice, Msg, bufferVars, deviceVars, appVars
<1>2. chan.kind = "none" /\ dpc \in {"menu", "send_wait"}
    BY <1>1 DEF XferInv, SendInv, ControlInv, NoMsg
<1>3. ~Receiving /\ ~Receiving' /\ Sending' = Sending /\ Active /\ Active'
    <2>1. dpc = "send_wait" => call.op = "send"
        BY DEF XferInv, SendInv, ControlInv
    <2> QED BY <1>1, <1>2, <2>1 DEF Receiving, Sending, Calling, SameDevice, Active
<1>4. SendInv'
    BY ExchangeKeepsSendInv DEF XferInv
<1>5. Locals'
    <2>1. exchanges' \in Nat /\ message' \in Seq(Bytes)
        BY <1>1, IsMessage DEF XferInv, Locals
    <2> QED BY <1>1, <2>1 DEF XferInv, Locals, SameDevice, Mapped, Chunk, BUFFER_MIN_SIZE
<1>6. InFlight'
    BY <1>1, <1>2 DEF InFlight
<1>7. TakenInv'
    BY <1>1, <1>2, <1>3 DEF XferInv, TakenInv, Taken, SameDevice, Chunk, BUFFER_MIN_SIZE
<1>8. ASSUME reliable PROVE ReliableInv'
    <2>1. ExitInv' /\ HostFailsForCause'
        BY <1>1 DEF ExitInv, HostFailsForCause
    <2>2. ReceiveInv'
        BY <1>1, <1>2, <1>3, <1>8 DEF XferInv, ReliableInv, ReceiveInv
    <2>3. ~excused => CauseInv'
        BY <1>1, <1>2, <1>3, <1>8 DEF XferInv, ReliableInv, CauseInv, SameDevice
    <2> QED BY <1>1, <2>1, <2>2, <2>3 DEF ReliableInv, SameDevice
<1> QED BY <1>1, <1>4, <1>5, <1>6, <1>7, <1>8 DEF XferInv

\* What a handler leaves alone, and what it therefore keeps.
HostAlone == SameDevice /\ UNCHANGED <<message, exchanges, reliable, exit_app>>

LEMMA LocalsKept ==
    ASSUME Locals, HostAlone, recv_buffer' \in Seq(Bytes)
    PROVE  Locals'
BY DEF Locals, HostAlone, SameDevice, Mapped, Chunk, BUFFER_MIN_SIZE

\* init_app and the pages of a fault.
LEMMA ServiceKeepsXferInv ==
    ASSUME XferInv, HostManifest \/ HostPage, UNCHANGED <<requestVars, reliable, deviceVars>>
    PROVE  XferInv'
<1>1. /\ HostAlone
      /\ UNCHANGED <<recv_buffer, recv_buffer_counter, send_buffer_counter, buffer_received>>
      /\ chan.kind \in {"REQUEST_MANIFEST", "PAGE"} /\ chan'.kind \in {"manifest", "page"}
      /\ hpc \in {"init", "loop"} /\ hpc' = "loop"
      /\ (chan.kind = "REQUEST_MANIFEST" \/ initialized' = initialized)
    BY DEF HostManifest, HostPage, Msg, HostAlone, SameDevice, bufferVars, requestVars,
           deviceVars, appVars
<1>2. SendInv'
    <2>1. UNCHANGED <<requestVars, deviceVars>>
        OBVIOUS
    <2> QED BY <2>1, HandlersKeepSendInv DEF XferInv
<1>3. Locals'
    BY <1>1, LocalsKept DEF XferInv, Locals
<1>4. InFlight'
    BY <1>1 DEF XferInv, InFlight, HostManifest, HostPage
<1>5. Active /\ Active' /\ Sending' = Sending /\ Receiving' = Receiving
    BY <1>1 DEF Active, Sending, Receiving, HostAlone, SameDevice
<1>6. TakenInv'
    BY <1>1, <1>5 DEF XferInv, TakenInv, Taken, HostAlone, SameDevice, Chunk, BUFFER_MIN_SIZE
<1>7. ASSUME reliable PROVE ReliableInv'
    <2>1. ExitInv' /\ HostFailsForCause'
        BY <1>1 DEF ExitInv, HostFailsForCause
    <2>2. ReceiveInv'
        BY <1>1, <1>5, <1>7 DEF XferInv, ReliableInv, ReceiveInv, HostAlone, SameDevice,
           Rest, Got, Whole
    <2>3. ASSUME ~excused PROVE CauseInv'
        <3>1. CauseInv /\ (Unsent => Unsent')
            BY <1>1, <1>5, <1>7, <2>3 DEF XferInv, ReliableInv, Unsent, HostAlone, SameDevice,
               Chunk, BUFFER_MIN_SIZE
        <3>2. dpc' = "menu" => ~initialized'
            BY <1>1, <3>1 DEF CauseInv, XferInv, InFlight, HostAlone, SameDevice
        <3> QED BY <1>1, <1>5, <3>1, <3>2 DEF CauseInv, HostAlone, SameDevice
    <2> QED BY <1>1, <2>1, <2>2, <2>3 DEF ReliableInv, HostAlone, SameDevice
<1> QED BY <1>1, <1>2, <1>3, <1>4, <1>6, <1>7 DEF XferInv, HostAlone

\* The session ends, or an assertion of exchange() fails: neither is undone.
LEMMA EndKeepsXferInv ==
    ASSUME XferInv, HostExited \/ HostAppEnded \/ HostUnexpected,
           UNCHANGED <<requestVars, reliable, deviceVars>>
    PROVE  XferInv'
<1>1. /\ HostAlone
      /\ UNCHANGED <<initialized, recv_buffer, recv_buffer_counter, send_buffer_counter,
                     buffer_received>>
    BY DEF HostExited, HostAppEnded, HostUnexpected, HostFails, HostAlone, SameDevice,
           bufferVars, requestVars, deviceVars, appVars
<1>2. SendInv'
    <2>1. UNCHANGED <<requestVars, deviceVars>>
        OBVIOUS
    <2> QED BY <2>1, HandlersKeepSendInv DEF XferInv
<1>3. Locals'
    BY <1>1, LocalsKept DEF XferInv, Locals
<1>4. CASE HostExited
    <2>1. hpc = "exiting" /\ hpc' = "ended" /\ chan.kind \in Requests /\ chan' = NoMsg
        BY <1>4 DEF HostExited, Return, XferInv, SendInv, ControlInv
    <2>2. InFlight'
        BY <1>1, <2>1 DEF InFlight, NoMsg
    <2>3. ASSUME reliable PROVE ReliableInv'
        BY <1>1, <2>1, <2>3 DEF XferInv, ReliableInv, ExitInv, HostFailsForCause, Active,
           Requests, HostAlone, SameDevice
    <2> QED BY <1>1, <1>2, <1>3, <2>1, <2>2, <2>3 DEF XferInv, Active, HostAlone
<1>5. CASE HostAppEnded
    <2>1. /\ hpc = "loop" /\ dpc = "menu" /\ chan.kind \in {"EXIT", "FATAL"} /\ excused
          /\ hpc' \in {"idle", "ended"} /\ chan' = NoMsg
        BY <1>5 DEF HostAppEnded, Return, XferInv, SendInv, ControlInv, InFlight
    <2>2. InFlight'
        BY <1>1, <2>1 DEF XferInv, InFlight, NoMsg
    <2>3. ~Sending /\ ~Sending' /\ ~Receiving /\ ~Receiving' /\ Active
        BY <1>1, <2>1 DEF Sending, Receiving, Calling, Active, HostAlone, SameDevice
    <2>4. TakenInv'
        BY <1>1, <2>1, <2>3 DEF XferInv, TakenInv
    <2>5. ASSUME reliable PROVE ReliableInv'
        BY <1>1, <2>1, <2>3, <2>5 DEF XferInv, ReliableInv, ExitInv, HostFailsForCause,
           ReceiveInv, HostAlone, SameDevice, NoMsg
    <2> QED BY <1>1, <1>2, <1>3, <2>2, <2>4, <2>5 DEF XferInv, HostAlone
<1>6. CASE HostUnexpected
    <2>1. /\ hpc = "loop" /\ chan.kind \in {"STATUS", "REQUEST_MANIFEST"}
          /\ hpc' = "failed" /\ chan' = chan
        BY <1>6 DEF HostUnexpected, HostFails
    <2>2. InFlight'
        BY <1>1, <2>1 DEF XferInv, InFlight, HostAlone, SameDevice
    <2>3. ASSUME reliable PROVE ReliableInv'
        BY <1>1, <2>1, <2>3 DEF XferInv, ReliableInv, ExitInv, HostFailsForCause, Active,
           CauseInv, HostAlone, SameDevice
    <2> QED BY <1>1, <1>2, <1>3, <2>1, <2>2, <2>3 DEF XferInv, Active, HostAlone
<1> QED BY <1>4, <1>5, <1>6

\* handle_send_buffer: the chunk has the number the host expects.
LEMMA SendBufferKeepsXferInv ==
    ASSUME XferInv, HostSendBuffer, UNCHANGED <<requestVars, reliable, deviceVars>>
    PROVE  XferInv'
<1>1. /\ HostAlone /\ UNCHANGED <<initialized, recv_buffer, recv_buffer_counter, buffer_received>>
      /\ hpc = "loop" /\ chan.kind = "SEND_BUFFER"
    BY DEF HostSendBuffer, ReceiveChunk, HostFails, HostAlone, SameDevice, bufferVars,
           requestVars, deviceVars, appVars
<1>2. /\ dpc = "send_wait" /\ call.op = "send" /\ Sending /\ Active /\ call.size > 0
      /\ chan.counter = call.counter /\ (chan.last <=> call.size = Chunk(call))
    <2>1. chan.last = (call.size = Chunk(call)) /\ dpc = "send_wait" /\ call.op = "send"
        BY <1>1 DEF XferInv, SendInv, ControlInv
    <2> QED BY <1>1, <2>1 DEF XferInv, InFlight, Locals, Sending, Calling, Active
<1>3. SendInv'
    BY SendBufferKeepsSendInv DEF XferInv
<1>4. Locals'
    BY <1>1, LocalsKept DEF XferInv, Locals
<1>5. send_buffer_counter = chan.counter
    BY <1>1, <1>2 DEF XferInv, TakenInv, Taken
<1>6. \/ /\ chan.last /\ hpc' \in {"idle", "ended"} /\ (hpc' = "ended" => exit_app)
         /\ send_buffer_counter' = 0 /\ chan' = NoMsg
      \/ /\ ~chan.last /\ hpc' = "loop"
         /\ send_buffer_counter' = call.counter + 1 /\ chan' = [kind |-> "empty"]
    BY <1>1, <1>2, <1>5 DEF HostSendBuffer, ReceiveChunk, Return, Msg
<1>7. /\ dpc' = "send_wait" /\ call' = call /\ Chunk(call)' = Chunk(call)
      /\ Sending' /\ ~Receiving /\ ~Receiving' /\ chan'.kind \in {"none", "empty"}
    BY <1>1, <1>2, <1>6 DEF HostAlone, SameDevice, Sending, Receiving, Calling, Chunk,
       BUFFER_MIN_SIZE, NoMsg
<1>8. InFlight'
    BY <1>1, <1>6 DEF XferInv, InFlight, NoMsg
<1>9. TakenInv'
    BY <1>2, <1>6, <1>7 DEF TakenInv, Taken
<1>10. ASSUME reliable PROVE ReliableInv'
    <2>1. last_call = "send"
        BY <1>2 DEF XferInv, Locals, Calling
    <2>2. ExitInv' /\ HostFailsForCause'
        BY <1>1, <1>2, <1>6, <1>7, <2>1 DEF ExitInv, HostFailsForCause, HostAlone, SameDevice
    <2>3. ReceiveInv'
        BY <1>1, <1>2, <1>7, <1>10 DEF XferInv, ReliableInv, ReceiveInv
    <2>4. ASSUME ~excused, Active' PROVE CauseInv'
        <3>1. CauseInv
            BY <1>2, <1>10, <2>4 DEF XferInv, ReliableInv
        <3>2. hpc' # "idle" => Unsent'
            BY <1>2, <1>6, <1>7, <2>4 DEF Unsent, Active
        <3> QED BY <1>1, <1>7, <3>1, <3>2 DEF CauseInv, HostAlone, SameDevice
    <2> QED BY <1>1, <2>2, <2>3, <2>4 DEF ReliableInv, HostAlone, SameDevice
<1> QED BY <1>1, <1>3, <1>4, <1>8, <1>9, <1>10 DEF XferInv, HostAlone

\* A sequence is cut after its first n elements (handle_recv_buffer).
LEMMA Cut ==
    ASSUME NEW S, NEW s \in Seq(S), NEW n \in Nat, n =< Len(s)
    PROVE  /\ SubSeq(s, 1, n) \in Seq(S) /\ Len(SubSeq(s, 1, n)) = n
           /\ \A i \in 1 .. n : SubSeq(s, 1, n)[i] = s[i]
           /\ SubSeq(s, n + 1, Len(s)) \in Seq(S)
           /\ Len(SubSeq(s, n + 1, Len(s))) = Len(s) - n
           /\ \A i \in 1 .. (Len(s) - n) : SubSeq(s, n + 1, Len(s))[i] = s[n + i]
<1>1. \A i \in 1 .. Len(s) : s[i] \in S
    OBVIOUS
<1>2. /\ SubSeq(s, 1, n) \in Seq(S)
      /\ Len(SubSeq(s, 1, n)) = IF 1 <= n THEN n - 1 + 1 ELSE 0
      /\ \A i \in 1 .. (n - 1 + 1) : SubSeq(s, 1, n)[i] = s[1 + i - 1]
    <2>1. \A i \in 1 .. n : s[i] \in S
        BY <1>1
    <2> QED BY <2>1, SubSeqProperties
<1>3. /\ SubSeq(s, n + 1, Len(s)) \in Seq(S)
      /\ Len(SubSeq(s, n + 1, Len(s))) = IF n + 1 <= Len(s) THEN Len(s) - (n + 1) + 1 ELSE 0
      /\ \A i \in 1 .. (Len(s) - (n + 1) + 1) : SubSeq(s, n + 1, Len(s))[i] = s[(n + 1) + i - 1]
    <2>1. \A i \in (n + 1) .. Len(s) : s[i] \in S
        BY <1>1
    <2>2. n + 1 \in Int /\ Len(s) \in Int
        OBVIOUS
    <2> QED BY <2>1, <2>2, SubSeqProperties
<1> DEFINE h == SubSeq(s, 1, n)  r == SubSeq(s, n + 1, Len(s))  m == Len(s)
<1>4. /\ h \in Seq(S) /\ Len(h) = IF 1 <= n THEN n - 1 + 1 ELSE 0
      /\ \A i \in 1 .. (n - 1 + 1) : h[i] = s[1 + i - 1]
      /\ r \in Seq(S) /\ Len(r) = IF n + 1 <= m THEN m - (n + 1) + 1 ELSE 0
      /\ \A i \in 1 .. (m - (n + 1) + 1) : r[i] = s[(n + 1) + i - 1]
      /\ m \in Nat /\ n =< m
    BY <1>2, <1>3
<1> HIDE DEF h, r, m
<1>5. h \in Seq(S) /\ Len(h) = n /\ r \in Seq(S) /\ Len(r) = m - n
    <2>1. m \in Nat /\ n =< m
        BY <1>4
    <2>2. /\ n = IF 1 <= n THEN n - 1 + 1 ELSE 0
          /\ m - n = IF n + 1 <= m THEN m - (n + 1) + 1 ELSE 0
        BY <2>1
    <2>3. /\ Len(h) = IF 1 <= n THEN n - 1 + 1 ELSE 0
          /\ Len(r) = IF n + 1 <= m THEN m - (n + 1) + 1 ELSE 0
        BY <1>4, Zenon
    <2>4. Len(h) = n /\ Len(r) = m - n
        BY ONLY <2>2, <2>3
    <2> QED BY <1>4, <2>4
<1>6. ASSUME NEW i \in 1 .. n PROVE h[i] = s[i]
    <2>1. i \in 1 .. (n - 1 + 1) /\ 1 + i - 1 = i
        OBVIOUS
    <2> QED BY <1>4, <2>1
<1>7. ASSUME NEW i \in 1 .. (m - n) PROVE r[i] = s[n + i]
    <2>1. i \in 1 .. (m - (n + 1) + 1) /\ (n + 1) + i - 1 = n + i
        BY <1>4
    <2> QED BY <1>4, <2>1
<1> QED BY <1>5, <1>6, <1>7 DEF h, r, m

\* handle_recv_buffer: the next bytes of the message, or its first ones; a request for more
\* than the message has is the app's fault.
LEMMA RecvBufferKeepsXferInv ==
    ASSUME XferInv, HostRecvBuffer, UNCHANGED <<requestVars, reliable, deviceVars>>
    PROVE  XferInv'
<1>1. /\ HostAlone /\ UNCHANGED <<initialized, send_buffer_counter>>
      /\ hpc = "loop" /\ chan.kind = "RECV_BUFFER"
    BY DEF HostRecvBuffer, RecvBuffer, ServeChunk, HostFails, HostAlone, SameDevice,
           bufferVars, requestVars, deviceVars, appVars
<1>2. /\ dpc = "recv_wait" /\ call.op = "recv" /\ call.size > 0 /\ Receiving /\ ~Sending
      /\ chan.counter = call.counter /\ chan.maxsize = Chunk(call) /\ Active
    BY <1>1 DEF XferInv, SendInv, ControlInv, InFlight, Locals, Receiving, Sending, Calling,
       Active
<1>3. /\ call.start \in Nat /\ call.total \in Nat /\ call.ret \in Nat
      /\ call.size \in Nat /\ call.counter \in Nat /\ call.total > 0
      /\ call.addr = call.start + call.ret /\ call.ret + call.size = call.total
      /\ last_call = "recv"
      /\ message \in Seq(Bytes) /\ recv_buffer \in Seq(Bytes)
    BY <1>2 DEF XferInv, Locals, Calling
<1>4. Chunk(call) \in 1 .. call.size
    BY <1>2, <1>3, ChunkSize
<1>5. SendInv'
    <2>1. UNCHANGED <<requestVars, deviceVars>>
        OBVIOUS
    <2> QED BY <2>1, HandlersKeepSendInv DEF XferInv
<1> DEFINE buffer == IF recv_buffer = <<>> THEN message ELSE recv_buffer
           n      == Smaller(chan.maxsize, Len(buffer))
           rest   == SubSeq(buffer, n + 1, Len(buffer))
<1>6. \/ /\ exit_app /\ hpc' = "exiting" /\ UNCHANGED recv_buffer
         /\ chan' = [kind |-> "data", p1 |-> 2, data |-> <<ZeroByte>>]
      \/ /\ hpc' = "failed" /\ UNCHANGED <<chan, recv_buffer>>
         /\ (recv_buffer = <<>> /\ buffer_received) \/ recv_buffer_counter # chan.counter
      \/ /\ recv_buffer_counter = chan.counter
         /\ hpc' = "loop" /\ recv_buffer' = rest
         /\ recv_buffer_counter' = IF rest = <<>> THEN 0 ELSE recv_buffer_counter + 1
         /\ chan' = [kind |-> "data", p1 |-> IF rest = <<>> THEN 1 ELSE 0,
                     data |-> IF n = 0 THEN <<ZeroByte>> ELSE SubSeq(buffer, 1, n)]
    BY <1>1, Zenon DEF HostRecvBuffer, RecvBuffer, ServeChunk, HostFails, bufferVars
<1>7. /\ buffer \in Seq(Bytes) /\ Len(buffer) \in Nat /\ n \in Nat /\ n =< Len(buffer)
      /\ n =< Chunk(call) /\ (n = Chunk(call) \/ n = Len(buffer))
    BY <1>2, <1>3, <1>4 DEF Smaller
<1> HIDE DEF n
<1>8. /\ rest \in Seq(Bytes) /\ Len(rest) = Len(buffer) - n
      /\ \A i \in 1 .. (Len(buffer) - n) : rest[i] = buffer[n + i]
      /\ SubSeq(buffer, 1, n) \in Seq(Bytes) /\ Len(SubSeq(buffer, 1, n)) = n
      /\ \A i \in 1 .. n : SubSeq(buffer, 1, n)[i] = buffer[i]
    <2> HIDE DEF buffer
    <2> QED BY <1>7, Cut
<1>9. (Active => TakenInv)'
    BY <1>1, <1>2, <1>6 DEF XferInv, TakenInv, Sending, Calling, HostAlone, SameDevice, Active
<1>10. CASE hpc' = "exiting"
    <2>1. /\ exit_app /\ UNCHANGED recv_buffer
          /\ chan' = [kind |-> "data", p1 |-> 2, data |-> <<ZeroByte>>]
        BY <1>6, <1>10
    <2>2. Locals'
        BY <1>1, <1>3, <2>1, LocalsKept DEF XferInv
    <2>3. chan'.kind = "data" /\ chan'.p1 = 2 /\ chan'.data \in Seq(Bytes)
        BY <2>1 DEF Bytes, ZeroByte
    <2>4. InFlight'
        BY <1>1, <1>2, <1>10, <2>3 DEF XferInv, InFlight, HostAlone, SameDevice
    <2>5. ReliableInv'
        BY <1>1, <1>2, <1>10, <2>3 DEF ReliableInv, ExitInv, Active, HostFailsForCause,
           HostAlone, SameDevice
    <2> QED BY <1>5, <1>9, <2>2, <2>4, <2>5 DEF XferInv
<1>11. CASE hpc' = "failed"
    <2>1. /\ UNCHANGED <<chan, recv_buffer>>
          /\ (recv_buffer = <<>> /\ buffer_received) \/ recv_buffer_counter # chan.counter
        BY <1>6, <1>11
    <2>2. Locals'
        BY <1>1, <1>3, <2>1, LocalsKept DEF XferInv
    <2>3. InFlight'
        BY <1>1, <1>2, <1>11, <2>1 DEF XferInv, InFlight, HostAlone, SameDevice, Chunk,
           BUFFER_MIN_SIZE
    <2>4. reliable => excused
        <3>1. SUFFICES ASSUME reliable, ~excused PROVE FALSE
            OBVIOUS
        <3>2. ReceiveInv /\ CauseInv
            BY <1>2, <3>1 DEF XferInv, ReliableInv
        <3>3. recv_buffer_counter = chan.counter
            BY <1>1, <1>2, <3>2 DEF ReceiveInv
        <3> QED BY <1>1, <1>2, <1>3, <2>1, <3>2, <3>3 DEF CauseInv
    <2>5. reliable => ReliableInv'
        BY <1>1, <1>11, <2>4 DEF ReliableInv, ExitInv, Active, HostFailsForCause,
           HostAlone, SameDevice
    <2> QED BY <1>1, <1>5, <1>9, <2>2, <2>3, <2>5 DEF XferInv, HostAlone
<1>12. CASE hpc' = "loop"
    <2> DEFINE data == chan'.data
    <2>1. /\ recv_buffer_counter = call.counter /\ recv_buffer' = rest
          /\ recv_buffer_counter' = IF rest = <<>> THEN 0 ELSE call.counter + 1
          /\ chan'.kind = "data" /\ chan'.p1 = IF rest = <<>> THEN 1 ELSE 0
          /\ data = IF n = 0 THEN <<ZeroByte>> ELSE SubSeq(buffer, 1, n)
        <3> DEFINE first == SubSeq(buffer, 1, n)
        <3>1. /\ recv_buffer_counter = chan.counter /\ recv_buffer' = rest
              /\ recv_buffer_counter' = IF rest = <<>> THEN 0 ELSE recv_buffer_counter + 1
              /\ chan' = [kind |-> "data", p1 |-> IF rest = <<>> THEN 1 ELSE 0,
                          data |-> IF n = 0 THEN <<ZeroByte>> ELSE first]
            BY <1>6, <1>12
        <3> HIDE DEF rest, first
        <3>2. /\ chan'.kind = "data" /\ chan'.p1 = IF rest = <<>> THEN 1 ELSE 0
              /\ data = IF n = 0 THEN <<ZeroByte>> ELSE first
            BY <3>1
        <3> QED BY <1>2, <3>1, <3>2 DEF first
    <2>2. data \in Seq(Bytes)
        <3>1. <<ZeroByte>> \in Seq(Bytes)
            BY DEF ZeroByte, Bytes
        <3> QED BY <1>8, <2>1, <3>1
    <2>3. Locals'
        BY <1>1, <1>8, <2>1, LocalsKept DEF XferInv
    <2>4. InFlight'
        BY <1>1, <1>2, <1>12, <2>1, <2>2 DEF XferInv, InFlight, HostAlone, SameDevice
    <2>5. ASSUME reliable PROVE ReliableInv'
        <3>1. ReceiveInv
            BY <1>2, <2>5 DEF XferInv, ReliableInv
        <3>2. ChunkInv'
            <4> DEFINE w == Whole  k == call.ret  b == Len(buffer)
            <4>1. /\ Whole' = w /\ call'.ret = k /\ Chunk(call)' = Chunk(call)
                  /\ (Got => Got') /\ k \in Nat /\ Chunk(call) \in Nat \ {0}
                <5>1. k \in Nat /\ Chunk(call) \in Nat \ {0}
                    <6> DEFINE c == Chunk(call)  z == call.size
                    <6>1. c \in 1 .. z /\ z \in Nat /\ k \in Nat
                        BY <1>3, <1>4
                    <6> HIDE DEF c, z, k
                    <6>2. c \in Nat \ {0}
                        BY <6>1
                    <6> QED BY <6>1, <6>2 DEF c
                <5>2. UNCHANGED <<mem, call, message>>
                    BY <1>1 DEF HostAlone, SameDevice
                <5> QED BY <5>1, <5>2, Zenon DEF Whole, Got, Chunk, BUFFER_MIN_SIZE
            <4>2. /\ recv_buffer_counter = call.counter
                  /\ \/ k = 0 /\ call.counter = 0 /\ recv_buffer = <<>>
                     \/ k \in 1 .. (Len(message) - 1) /\ Rest(k) /\ Got
                BY <1>1, <1>2, <3>1 DEF ReceiveInv
            <4>3. Len(w) \in Nat /\ w \in Seq(Bytes)
                <5>1. <<ZeroByte>> \in Seq(Bytes)
                    BY DEF ZeroByte, Bytes
                <5> QED BY <1>3, <5>1 DEF Whole
            <4>4. Got
                BY <4>2 DEF Got
            <4>5. CASE message = <<>> /\ k = 0 /\ recv_buffer = <<>>
                <5>1. buffer = <<>> /\ Len(buffer) = 0 /\ n = 0 /\ Len(rest) = 0
                    BY <1>7, <1>8, <4>5
                <5>2. rest = <<>>
                    BY <1>8, <5>1
                <5>3. data = <<ZeroByte>> /\ chan'.p1 = 1 /\ recv_buffer_counter' = 0
                      /\ recv_buffer' = <<>>
                    BY <2>1, <5>1, <5>2
                <5>4. Whole' = <<ZeroByte>> /\ Len(<<ZeroByte>>) = 1
                    BY <4>1, <4>5 DEF Whole
                <5>5. Len(data) = 1 /\ Len(Whole') = 1 /\ Len(recv_buffer') = 0
                    BY <5>3, <5>4
                <5> QED BY <4>1, <4>4, <4>5, <5>3, <5>4, <5>5 DEF ChunkInv, Rest, Fits
            <4>6. CASE ~(message = <<>> /\ k = 0 /\ recv_buffer = <<>>)
                <5>1. /\ b = Len(w) - k /\ b > 0
                      /\ \A i \in 1 .. b : buffer[i] = w[k + i]
                    <6>1. CASE k = 0 /\ recv_buffer = <<>>
                        <7>1. buffer = w /\ Len(w) > 0
                            BY <1>3, <4>6, <6>1 DEF Whole
                        <7> QED BY <4>3, <6>1, <7>1
                    <6>2. CASE k \in 1 .. (Len(message) - 1) /\ Rest(k)
                        <7>1. w = message /\ Len(message) \in Nat
                            BY <1>3, <6>2 DEF Whole
                        <7>2. Len(recv_buffer) = Len(w) - k /\ Len(recv_buffer) > 0
                            BY <6>2, <7>1 DEF Rest
                        <7>3. buffer = recv_buffer
                            BY <7>2
                        <7> QED BY <6>2, <7>2, <7>3 DEF Rest
                    <6> QED BY <4>2, <6>1, <6>2
                <5>2. /\ b \in Nat /\ n \in 1 .. b /\ n =< Chunk(call)
                      /\ (n = Chunk(call) \/ n = b)
                    <6> HIDE DEF buffer
                    <6> QED BY <1>7, <4>1, <5>1
                <5>3. Len(data) = n /\ \A i \in 1 .. n : data[i] = buffer[i]
                    BY <1>8, <2>1, <5>2
                <5>4. /\ Len(rest) = b - n /\ \A i \in 1 .. (b - n) : rest[i] = buffer[n + i]
                      /\ rest \in Seq(Bytes)
                    BY <1>8
                <5>5. rest = <<>> <=> n = b
                    <6> HIDE DEF rest, b
                    <6> QED BY <5>2, <5>4
                <5> HIDE DEF data, rest, buffer, w, k, b
                <5>6. \A i \in 1 .. n : data[i] = w[k + i]
                    BY <5>1, <5>2, <5>3
                <5>7. Len(rest) = Len(w) - (k + n)
                      /\ \A i \in 1 .. Len(rest) : rest[i] = w[(k + n) + i]
                    <6>1. Len(rest) = Len(w) - (k + n)
                        BY <4>1, <4>3, <5>1, <5>2, <5>4
                    <6>2. ASSUME NEW i \in 1 .. (b - n) PROVE rest[i] = w[(k + n) + i]
                        <7>1. n + i \in 1 .. b /\ k + (n + i) = (k + n) + i
                            BY <4>1, <5>2
                        <7> QED BY <5>1, <5>4, <7>1
                    <6> QED BY <5>4, <6>1, <6>2
                <5>8. k + n =< Len(w) /\ (n = b <=> k + n = Len(w))
                    BY <4>1, <4>3, <5>1, <5>2
                <5>9. n =< Chunk(call)' /\ (n = Chunk(call)' \/ chan'.p1 = 1)
                    BY <2>1, <4>1, <5>2, <5>5
                <5>10. n > 0
                    BY <5>2
                <5>11. /\ chan'.p1 = IF k + n = Len(w) THEN 1 ELSE 0
                       /\ recv_buffer_counter' = IF k + n = Len(w) THEN 0 ELSE call.counter + 1
                    BY <2>1, <5>5, <5>8
                <5>12. call'.counter = call.counter
                    BY <1>1 DEF HostAlone, SameDevice
                <5>13. /\ Len(recv_buffer') = Len(w) - (k + n)
                       /\ \A i \in 1 .. Len(recv_buffer') : recv_buffer'[i] = w[(k + n) + i]
                    BY <2>1, <5>7
                <5>14. Whole' = w /\ call'.ret = k /\ Got' /\ Len(chan'.data) = n
                       /\ \A i \in 1 .. n : chan'.data[i] = w[k + i]
                    BY <4>1, <4>4, <5>3, <5>6 DEF data
                <5> QED BY <5>8, <5>9, <5>10, <5>11, <5>12, <5>13, <5>14
                       DEF ChunkInv, Rest, Fits
            <4> QED BY <4>5, <4>6
        <3>3. ReceiveInv'
            BY <1>1, <1>2, <2>1, <3>2 DEF ReceiveInv, Receiving, HostAlone, SameDevice
        <3>4. ~excused => CauseInv'
            BY <1>1, <1>2, <1>3, <1>12, <2>1, <2>5 DEF XferInv, ReliableInv, CauseInv,
               Receiving, HostAlone, SameDevice
        <3> QED BY <1>1, <1>12, <3>3, <3>4 DEF ReliableInv, ExitInv, HostFailsForCause,
                   HostAlone, SameDevice
    <2> QED BY <1>5, <1>9, <2>3, <2>4, <2>5 DEF XferInv
<1> QED BY <1>6, <1>10, <1>11, <1>12
-----------------------------------------------------------------------------
(* Every step, and what it shows. *)

\* Nothing happens.
LEMMA StutterKeepsXferInv == ASSUME XferInv, UNCHANGED vars PROVE XferInv'
<1>1. /\ UNCHANGED <<mem, dpc, call, last_call, excused, message, exchanges, reliable, exit_app,
                     hpc, initialized, chan, recv_buffer, recv_buffer_counter,
                     send_buffer_counter, buffer_received>>
      /\ UNCHANGED vars
    BY DEF vars, deviceVars, hostVars, bufferVars, requestVars, appVars
<1>2. SendInv'
    BY <1>1, SendInvStep DEF XferInv
<1>3. Locals'
    BY <1>1, LocalsKept DEF XferInv, HostAlone, SameDevice, Locals
<1>4. InFlight' /\ Chunk(call)' = Chunk(call)
    BY <1>1 DEF XferInv, InFlight, Chunk, BUFFER_MIN_SIZE
<1>5. (Active => TakenInv)'
    BY <1>1, <1>4 DEF XferInv, Active, TakenInv, Taken, Sending
<1>6. ASSUME reliable PROVE ReliableInv'
    <2>1. ExitInv' /\ HostFailsForCause'
        BY <1>1, <1>6 DEF XferInv, ReliableInv, ExitInv, HostFailsForCause
    <2>2. (Active => ReceiveInv)'
        BY <1>1, <1>4, <1>6 DEF XferInv, ReliableInv, Active, ReceiveInv, ChunkInv, Rest, Got,
           Whole, Receiving, Fits
    <2>3. (Active /\ ~excused => CauseInv)'
        BY <1>1, <1>4, <1>6 DEF XferInv, ReliableInv, Active, CauseInv, Receiving, Unsent, Sending
    <2> QED BY <2>1, <2>2, <2>3 DEF ReliableInv
<1> QED BY <1>1, <1>2, <1>3, <1>4, <1>5, <1>6 DEF XferInv

\* Every step of the app, the user, the device and the host.
LEMMA XferInvStep == XferInv /\ [Next]_vars => XferInv'
<1> SUFFICES ASSUME XferInv, [Next]_vars PROVE XferInv'
    OBVIOUS
<1>1. CASE AppStep
    <2>1. CASE \E a \in Addrs, s \in RecvSizes : Call("recv", a, s)
        BY <2>1, CallKeepsXferInv, XferAssumption
    <2>2. CASE \E a \in Addrs, s \in SendSizes : Call("send", a, s)
        BY <2>2, CallKeepsXferInv, XferAssumption
    <2>3. CASE AppEnds
        BY <2>3, LaunchKeepsXferInv
    <2> QED BY <1>1, <2>1, <2>2, <2>3 DEF AppStep
<1>2. CASE UserStep
    BY <1>2, ExchangeKeepsXferInv, XferAssumption DEF UserStep
<1>3. CASE DeviceStep
    BY <1>3, LaunchKeepsXferInv, ChunkKeepsXferInv, RefusalKeepsXferInv,
       RecvReplyKeepsXferInv, ReturnKeepsXferInv DEF DeviceStep
<1>4. CASE HostStep
    <2>1. UNCHANGED <<requestVars, reliable, deviceVars>>
        BY <1>4 DEF HostStep
    <2> QED BY <1>4, <2>1, ServiceKeepsXferInv, SendBufferKeepsXferInv,
               RecvBufferKeepsXferInv, EndKeepsXferInv DEF HostStep
<1>5. CASE UNCHANGED vars
    BY <1>5, StutterKeepsXferInv
<1> QED BY <1>1, <1>2, <1>3, <1>4, <1>5 DEF Next, Over

LEMMA XferInvInit == Init => XferInv
<1> SUFFICES ASSUME Init PROVE XferInv
    OBVIOUS
<1>1. SendInv
    BY DEF Init, SendInv, ControlInv, BufferInv, Sending, Calling, RepliesAreWhole, NoCall,
           NoMsg
<1>2. Locals /\ InFlight
    BY DEF Init, Locals, InFlight, Calling, NoMsg
<1>3. ~Sending /\ ~Receiving
    BY DEF Init, Sending, Receiving, Calling
<1>4. TakenInv
    BY <1>3 DEF Init, TakenInv
<1>5. ReliableInv
    BY <1>3 DEF Init, ReliableInv, ExitInv, ReceiveInv, CauseInv, HostFailsForCause, NoMsg
<1> QED BY <1>1, <1>2, <1>4, <1>5 DEF XferInv

\* No assertion of exchange() or of its handlers fails, the order of the chunks among them,
\* unless the app misuses a call or ends by itself.
THEOREM HostFailsForCauseAlways == Spec => []HostFailsForCause
<1>1. XferInv => HostFailsForCause
    BY DEF XferInv, ReliableInv, HostFailsForCause
<1> QED BY <1>1, XferInvInit, XferInvStep, PTL DEF Spec

\* When exit_app() has returned to its caller and the app was receiving, the VM has left
\* the app: the answer p1 = 2 reached it.
THEOREM ExitStopsTheApp == Spec => []ExitStopsApp
<1>1. XferInv => ExitStopsApp
    BY DEF XferInv, ReliableInv, ExitInv, ExitStopsApp
<1> QED BY <1>1, XferInvInit, XferInvStep, PTL DEF Spec

\* Only sys_xrecv writes to the app's memory and returns from a call to xrecv().
LEMMA OthersLeaveMemory ==
    [Next]_vars /\ ~RecvReply => UNCHANGED mem /\ ~(dpc = "recv_wait" /\ dpc' = "app")
<1> SUFFICES ASSUME [Next]_vars, ~RecvReply
             PROVE  UNCHANGED mem /\ ~(dpc = "recv_wait" /\ dpc' = "app")
    OBVIOUS
<1>1. CASE AppStep
    <2>1. ASSUME NEW op, NEW a, NEW s, Call(op, a, s)
          PROVE  UNCHANGED mem /\ dpc' = "call"
        BY <2>1 DEF Call
    <2>2. AppEnds => UNCHANGED mem /\ dpc' = "menu"
        BY DEF AppEnds
    <2> QED BY <1>1, <2>1, <2>2 DEF AppStep
<1>2. CASE UserStep
    BY <1>2 DEF UserStep, HostExchange, deviceVars
<1>3. CASE DeviceStep
    BY <1>3 DEF DeviceStep, LaunchRequest, LaunchApp, GetBufferFault, GetBufferFaultEnds,
       GetBufferFails, RecvRequest, SendRequest, SendChunk, SendReply, CallReturns, HasBuffer,
       StopApp
<1>4. CASE HostStep
    BY <1>4 DEF HostStep, deviceVars
<1>5. CASE UNCHANGED vars
    BY <1>5 DEF vars, deviceVars
<1> QED BY <1>1, <1>2, <1>3, <1>4, <1>5 DEF Next, Over

\* What sys_xrecv writes is inside of the app's buffer.
LEMMA WritesInside ==
    ASSUME XferInv, [Next]_vars, NEW i \in DOMAIN mem, mem'[i] # mem[i]
    PROVE  i \in call.start .. (call.start + call.total - 1) /\ call'.ret =< call.total
<1>1. RecvReply
    BY OthersLeaveMemory
<1>2. PICK n \in Nat : n =< call.size /\ CopiesBytes(n)
    BY <1>1, Received DEF Refused
<1>3. /\ call.start \in Nat /\ call.total \in Nat /\ call.ret \in Nat /\ call.size \in Nat
      /\ call.ret + call.size = call.total /\ DOMAIN mem = 0 .. (MemSize - 1)
    BY <1>1, Received DEF XferInv, Locals, Calling
<1>4. i >= call.start + call.ret /\ i < call.start + call.ret + n /\ call'.ret = call.ret + n
    BY <1>2 DEF CopiesBytes
<1>5. i \in Int
    BY <1>3, XferAssumption
<1> DEFINE s == call.start  r == call.ret  t == call.total  z == call.size  r2 == call'.ret
<1>6. /\ s \in Nat /\ r \in Nat /\ t \in Nat /\ z \in Nat /\ n =< z /\ r + z = t
      /\ i >= s + r /\ i < s + r + n /\ r2 = r + n
    BY <1>2, <1>3, <1>4
<1> HIDE DEF s, r, t, z, r2
<1>7. i \in s .. (s + t - 1) /\ r2 =< t
    BY <1>5, <1>6
<1> QED BY <1>7 DEF s, t, r2

\* When xrecv() returns, the app's buffer begins with the message.
LEMMA ReceivesWhole ==
    ASSUME XferInv, [Next]_vars, reliable, dpc = "recv_wait", dpc' = "app"
    PROVE  call'.ret = Len(Whole) /\ Read(call.start, Len(Whole))' = Whole
<1>1. RecvReply
    BY OthersLeaveMemory
<1>2. PICK n \in Nat : CopiesBytes(n) /\ CopiesChunk(n)
    BY <1>1, Received DEF Refused, StopApp
<1>3. UNCHANGED message
    BY <1>1, Received
<1>4. call'.ret = call.ret + n /\ n = Len(chan.data) /\ ChunkInv /\ Got' /\ chan.p1 = 1
    BY <1>2 DEF CopiesBytes, CopiesChunk, StopApp
<1>5. call'.ret = Len(Whole)
    BY <1>4 DEF ChunkInv
<1>6. Whole \in Seq(Bytes)
    <2>1. <<ZeroByte>> \in Seq(Bytes)
        BY DEF ZeroByte, Bytes
    <2> QED BY <2>1 DEF Whole, XferInv, Locals
<1> DEFINE w == Whole
<1>7. Whole' = w
    BY <1>3 DEF Whole
<1>8. \A i \in 1 .. Len(w) : mem'[call'.start + i - 1] = w[i]
    BY <1>4, <1>5, <1>7 DEF Got
<1>9. w = [i \in 1 .. Len(w) |-> w[i]]
    BY <1>6
<1> HIDE DEF w
<1>10. [i \in 1 .. Len(w) |-> mem'[call'.start + i - 1]] = [i \in 1 .. Len(w) |-> w[i]]
    BY <1>8, Zenon
<1> QED BY <1>5, <1>7, <1>9, <1>10 DEF w, Read

\* xrecv() gives the app the message of exchange(), whole and in order, however the buffer
\* and the message are cut; and writes only to the buffer it was given, whatever the host
\* answers.
THEOREM MessagesArriveWhole == Spec => MessagesAreWhole
<1>1. ASSUME XferInv, [Next]_vars
      PROVE  /\ \A i \in DOMAIN mem : mem'[i] # mem[i] =>
                    i \in call.start .. (call.start + call.total - 1) /\ call'.ret =< call.total
             /\ reliable /\ dpc = "recv_wait" /\ dpc' = "app" =>
                    LET m == IF message = <<>> THEN <<ZeroByte>> ELSE message
                    IN  call'.ret = Len(m) /\ Read(call.start, Len(m))' = m
    BY <1>1, WritesInside, ReceivesWhole, Zenon DEF Whole
<1> QED BY <1>1, XferInvInit, XferInvStep, PTL DEF Spec, MessagesAreWhole
=============================================================================
