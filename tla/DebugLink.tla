------------------------------ MODULE DebugLink ------------------------------
(***************************************************************************)
(* The remote tools' way to the board: dbg_* of lib/dbg_client.cpp over    *)
(* net_* of lib/tcp_client.cpp (x86_Windows_Linux), talking to the         *)
(* DebugServer (external) over one TCP connection.                         *)
(*                                                                         *)
(* A read is one request and one response, a response being its length and *)
(* that much data; a write is a request without a response.  read8 and     *)
(* write8 cut their range into requests of at most ChunkMax cells.  TCP    *)
(* delivers in order but in pieces of any size, and may break.  After a    *)
(* failure the descriptor is closed but kept, so that every later call     *)
(* fails too: nothing in the tools connects a second time.                 *)
(*                                                                         *)
(* A cell of the board's memory holds a version: the firmware or a write   *)
(* puts the next one in.  Version 0 is what memset puts in a buffer.       *)
(***************************************************************************)
EXTENDS Integers, Sequences

CONSTANTS
    Cells,          \* cells of the board's memory: 0..Cells-1
    ChunkMax,       \* 0x1000 of the code
    MaxOps,         \* bound: calls of the tool
    MaxVersion,     \* bound: versions of a cell
    ShortReplies,   \* whether the server may answer with no data
    SplitLengths    \* whether TCP may cut a response between its two length bytes

ASSUME DebugLinkAssumption ==
    /\ Cells \in Nat \ {0} /\ ChunkMax \in Nat \ {0}
    /\ MaxOps \in Nat /\ MaxVersion \in Nat
    /\ ShortReplies \in BOOLEAN /\ SplitLengths \in BOOLEAN

VARIABLES
    app,        \* the tool: before dbg_init, running, ended, killed by SIGPIPE
    sock,       \* _socket: never opened, open, or closed and kept
    op,         \* the call in progress or the last one: [kind, addr, count, done]
    pc,         \* where net_transfer is
    left,       \* its `count': units of the response still to come
    at,         \* its `p': where they go in the buffer
    buf,        \* the caller's buffer
    result,     \* what the last call returned
    conn,       \* the TCP connection
    toServer,   \* requests on their way
    toClient,   \* units on their way: length bytes and data
    mem,        \* the board's memory
    ops,        \* calls made
    \* history: memory when the call began, write requests sent and applied,
    \* what has gone wrong with a response
    old, sentWrites, applied, flaws

client  == <<app, sock, op, pc, left, at, buf, result, ops, old>>
channel == <<conn, toServer, toClient>>
vars    == <<client, channel, mem, sentWrites, applied, flaws>>

-----------------------------------------------------------------------------
Kinds == {"read32", "read8", "write8"}
Cell  == 0..Cells - 1

\* The length prefix of a response: two bytes, low first.
LengthOf(n) == <<n, 0>>

\* The next request of the call: all of it for read32, at most ChunkMax
\* cells for read8 and write8.
ChunkSize ==
    LET remain == op.count - op.done
    IN  IF op.kind # "read32" /\ remain > ChunkMax THEN ChunkMax ELSE remain
Request ==
    [write |-> op.kind = "write8", addr |-> op.addr + op.done, count |-> ChunkSize]

EndianRequest == [write |-> TRUE, addr |-> 0, count |-> 0]

NoOp == [kind |-> "read8", addr |-> 0, count |-> 0, done |-> 0]

Init ==
    /\ app = "start" /\ sock = "invalid" /\ pc = "idle"
    /\ op = NoOp /\ left = 0 /\ at = 0
    /\ buf = [k \in Cell |-> 0] /\ result = "none"
    /\ conn = "none" /\ toServer = <<>> /\ toClient = <<>>
    /\ mem = [k \in Cell |-> 1]
    /\ ops = 0
    /\ old = mem /\ sentWrites = 0 /\ applied = 0 /\ flaws = {}

-----------------------------------------------------------------------------
\* dbg_init: net_connect, and the endian request, which has no response.
Connect ==
    /\ app = "start"
    /\ app' = "running"
    /\ sock' = "open"
    /\ conn' = "up"
    /\ toServer' = <<EndianRequest>>
    /\ toClient' = <<>>
    /\ UNCHANGED <<op, pc, left, at, buf, result, ops, old, mem, sentWrites, applied, flaws>>

\* net_connect fails: the descriptor is closed and kept; dbg_init logs an
\* error, which ends a tool that logs its module, and returns -1 to others.
ConnectFails ==
    /\ app = "start"
    /\ app' \in {"running", "ended"}
    /\ sock' = "stale"
    /\ UNCHANGED <<op, pc, left, at, buf, result, ops, old, channel, mem, sentWrites, applied, flaws>>

\* dbg_deinit at the end of main: net_disconnect closes, once more if need be.
Deinit ==
    /\ app = "running" /\ pc = "idle"
    /\ app' = "ended"
    /\ sock' = "stale"
    /\ conn' = IF conn = "up" THEN "down" ELSE conn
    /\ UNCHANGED <<op, pc, left, at, buf, result, ops, old, toServer, toClient,
                   mem, sentWrites, applied, flaws>>

\* The tool calls dbg_host_read32 / dbg_avmips_read32, dbg_host_read8 or
\* dbg_host_write8.  read32 refuses a count of zero, the others do nothing
\* for one; read8 clears the buffer.
Call(kind, addr, count) ==
    /\ app = "running" /\ pc = "idle" /\ ops < MaxOps
    /\ ops' = ops + 1
    /\ op' = [kind |-> kind, addr |-> addr, count |-> count, done |-> 0]
    /\ old' = mem
    /\ buf' = IF kind = "read8"
              THEN [k \in Cell |-> IF k < count THEN 0 ELSE buf[k]]
              ELSE buf
    /\ IF count > 0
       THEN pc' = "send" /\ result' = "none"
       ELSE pc' = "idle" /\ result' = IF kind = "read32" THEN "failed" ELSE "ok"
    /\ UNCHANGED <<app, sock, left, at, channel, mem, sentWrites, applied, flaws>>

\* A request has been dealt with: the loop of read8 or write8 goes on, or
\* the call returns 0.
Done(n) ==
    /\ op' = [op EXCEPT !.done = op.done + n]
    /\ IF op.done + n < op.count
       THEN pc' = "send" /\ result' = "none"
       ELSE pc' = "idle" /\ result' = "ok"

\* FAILED of net_transfer: the descriptor is closed and kept, -1 goes up.
Fail ==
    /\ sock' = "stale"
    /\ conn' = IF conn = "up" THEN "down" ELSE conn
    /\ pc' = "idle"
    /\ result' = "failed"

-----------------------------------------------------------------------------
\* Mutant: every response of a call goes to the start of the buffer.
SendFromStart ==
    /\ app = "running" /\ pc = "send" /\ sock = "open"
    /\ toServer' = IF conn = "up" THEN Append(toServer, Request) ELSE toServer
    /\ IF op.kind = "write8"
       THEN /\ Done(ChunkSize)
            /\ sentWrites' = sentWrites + 1
       ELSE /\ pc' = "length"
            /\ UNCHANGED <<op, result, sentWrites>>
    /\ at' = 0
    /\ UNCHANGED <<app, sock, left, buf, ops, old, conn, toClient, mem, applied, flaws>>

\* Mutant: no call waits for its response.
SendWithoutWaiting ==
    /\ app = "running" /\ pc = "send" /\ sock = "open"
    /\ toServer' = IF conn = "up" THEN Append(toServer, Request) ELSE toServer
    /\ Done(ChunkSize)
    /\ sentWrites' = IF op.kind = "write8" THEN sentWrites + 1 ELSE sentWrites
    /\ at' = op.done
    /\ UNCHANGED <<app, sock, left, buf, ops, old, conn, toClient, mem, applied, flaws>>

\* Mutant: what send returns is not looked at, nor what recv returns after it.
SendUnchecked ==
    /\ app = "running" /\ pc = "send"
    /\ toServer' = IF conn = "up" THEN Append(toServer, Request) ELSE toServer
    /\ Done(ChunkSize)
    /\ sentWrites' = IF op.kind = "write8" THEN sentWrites + 1 ELSE sentWrites
    /\ at' = op.done
    /\ UNCHANGED <<app, sock, left, buf, ops, old, conn, toClient, mem, applied, flaws>>

\* send succeeds.  On a broken connection it may still: what it sends is lost.
Send ==
    /\ app = "running" /\ pc = "send" /\ sock = "open"
    /\ toServer' = IF conn = "up" THEN Append(toServer, Request) ELSE toServer
    /\ IF op.kind = "write8"
       THEN /\ Done(ChunkSize)
            /\ sentWrites' = sentWrites + 1
       ELSE /\ pc' = "length"
            /\ UNCHANGED <<op, result, sentWrites>>
    /\ at' = op.done
    /\ UNCHANGED <<app, sock, left, buf, ops, old, conn, toClient, mem, applied, flaws>>

\* send fails: the descriptor is closed already, or the connection is broken.
SendFails ==
    /\ app = "running" /\ pc = "send"
    /\ sock = "stale" \/ conn = "down"
    /\ Fail
    /\ UNCHANGED <<app, op, left, at, buf, ops, old, toServer, toClient,
                   mem, sentWrites, applied, flaws>>

\* send to a peer that has gone raises SIGPIPE, which nothing handles.
SendKills ==
    /\ app = "running" /\ pc = "send" /\ sock = "open" /\ conn = "down"
    /\ app' = "killed"
    /\ UNCHANGED <<sock, op, pc, left, at, buf, result, ops, old, channel,
                   mem, sentWrites, applied, flaws>>

\* recv of the two length bytes.
RecvLength ==
    /\ app = "running" /\ pc = "length" /\ conn = "up" /\ Len(toClient) >= 2
    /\ left' = toClient[1] + 256 * toClient[2]
    /\ toClient' = SubSeq(toClient, 3, Len(toClient))
    /\ IF left' > 0
       THEN pc' = "data" /\ UNCHANGED <<op, result>>
       ELSE Done(ChunkSize)
    /\ UNCHANGED <<app, sock, at, buf, ops, old, conn, toServer, mem, sentWrites, applied, flaws>>

\* The same recv returns one byte, which is more than zero: the other byte
\* of `len' keeps whatever the stack held.
RecvHalfLength ==
    /\ SplitLengths
    /\ app = "running" /\ pc = "length" /\ conn = "up" /\ toClient # <<>>
    /\ \E garbage \in {0, 1} : left' = Head(toClient) + 256 * garbage
    /\ toClient' = Tail(toClient)
    /\ IF left' > 0
       THEN pc' = "data" /\ UNCHANGED <<op, result>>
       ELSE Done(ChunkSize)
    /\ flaws' = flaws \cup {"split"}
    /\ UNCHANGED <<app, sock, at, buf, ops, old, conn, toServer, mem, sentWrites, applied>>

\* Mutant: the response is taken to arrive in one piece.
RecvDataOnce(n) ==
    /\ app = "running" /\ pc = "data" /\ conn = "up"
    /\ n \in 1..left /\ n <= Len(toClient)
    /\ buf' = [k \in Cell |-> IF k \in at..at + n - 1 THEN toClient[k - at + 1] ELSE buf[k]]
    /\ toClient' = SubSeq(toClient, n + 1, Len(toClient))
    /\ at' = at + n
    /\ left' = 0
    /\ Done(ChunkSize)
    /\ UNCHANGED <<app, sock, ops, old, conn, toServer, mem, sentWrites, applied, flaws>>

\* Mutant: the count of what is still to come is not reduced.
RecvDataUncounted(n) ==
    /\ app = "running" /\ pc = "data" /\ conn = "up"
    /\ n \in 1..left /\ n <= Len(toClient)
    /\ buf' = [k \in Cell |-> IF k \in at..at + n - 1 THEN toClient[k - at + 1] ELSE buf[k]]
    /\ toClient' = SubSeq(toClient, n + 1, Len(toClient))
    /\ at' = at + n
    /\ UNCHANGED <<app, sock, left, pc, op, result, ops, old, conn, toServer, mem,
                   sentWrites, applied, flaws>>

\* recv of as much of the data as has arrived.
RecvData(n) ==
    /\ app = "running" /\ pc = "data" /\ conn = "up"
    /\ n \in 1..left /\ n <= Len(toClient)
    /\ buf' = [k \in Cell |-> IF k \in at..at + n - 1 THEN toClient[k - at + 1] ELSE buf[k]]
    /\ toClient' = SubSeq(toClient, n + 1, Len(toClient))
    /\ at' = at + n
    /\ left' = left - n
    /\ IF left' > 0
       THEN UNCHANGED <<pc, op, result>>
       ELSE Done(ChunkSize)
    /\ UNCHANGED <<app, sock, ops, old, conn, toServer, mem, sentWrites, applied, flaws>>

\* recv fails or returns 0 on a broken connection.
RecvFails ==
    /\ app = "running" /\ pc \in {"length", "data"} /\ conn = "down"
    /\ Fail
    /\ UNCHANGED <<app, op, left, at, buf, ops, old, toServer, toClient,
                   mem, sentWrites, applied, flaws>>

-----------------------------------------------------------------------------
\* The server takes the requests in order.
ServeWrite ==
    /\ conn = "up" /\ toServer # <<>> /\ Head(toServer).write
    /\ LET r == Head(toServer)
       IN  /\ mem' = [k \in Cell |->
                        IF k \in r.addr..r.addr + r.count - 1 THEN mem[k] + 1 ELSE mem[k]]
           /\ applied' = IF r.count > 0 THEN applied + 1 ELSE applied
    /\ toServer' = Tail(toServer)
    /\ UNCHANGED <<client, conn, toClient, sentWrites, flaws>>

ServeRead ==
    /\ conn = "up" /\ toServer # <<>> /\ ~Head(toServer).write
    /\ LET r == Head(toServer)
           data == [k \in 1..r.count |-> mem[r.addr + k - 1]]
       IN  toClient' = toClient \o LengthOf(r.count) \o data
    /\ toServer' = Tail(toServer)
    /\ UNCHANGED <<client, conn, mem, sentWrites, applied, flaws>>

\* It cannot map the range, and answers with no data.
ServeNothing ==
    /\ ShortReplies
    /\ conn = "up" /\ toServer # <<>> /\ ~Head(toServer).write
    /\ toClient' = toClient \o LengthOf(0)
    /\ toServer' = Tail(toServer)
    /\ flaws' = flaws \cup {"short"}
    /\ UNCHANGED <<client, conn, mem, sentWrites, applied>>

\* The firmware changes its memory at any moment.
Change(k) ==
    /\ mem[k] < MaxVersion
    /\ mem' = [mem EXCEPT ![k] = mem[k] + 1]
    /\ UNCHANGED <<client, channel, sentWrites, applied, flaws>>

\* The connection breaks; what was on its way is lost.
Break ==
    /\ conn = "up"
    /\ conn' = "down"
    /\ toServer' = <<>> /\ toClient' = <<>>
    /\ UNCHANGED <<client, mem, sentWrites, applied, flaws>>

-----------------------------------------------------------------------------
Transfer ==
    \/ Send
    \/ SendFails
    \/ SendKills
    \/ RecvLength
    \/ RecvHalfLength
    \/ \E n \in 1..Cells : RecvData(n)
    \/ RecvFails

Server == ServeWrite \/ ServeRead \/ ServeNothing

Tool ==
    \/ Connect
    \/ ConnectFails
    \/ Deinit
    \/ \E kind \in Kinds, addr \in Cell, count \in 0..Cells :
           addr + count <= Cells /\ Call(kind, addr, count)

Next == Tool \/ Transfer \/ Server \/ Break \/ \E k \in Cell : Change(k)

\* A call goes on while it can, and the server answers.  There is no timeout
\* on either side (net_connect's msec is not used), so without an answering
\* server a read would wait for ever.
Fairness == WF_vars(Transfer) /\ WF_vars(Server)

Spec == Init /\ [][Next]_vars /\ Fairness

-----------------------------------------------------------------------------
(***************************************************************************)
(* Properties                                                              *)
(***************************************************************************)

RequestType == [write : BOOLEAN, addr : Nat, count : Nat]

\* Every variable holds a value of its kind; a call never reaches beyond the
\* range it was given.
TypeOK ==
    /\ app \in {"start", "running", "ended", "killed"}
    /\ sock \in {"invalid", "open", "stale"}
    /\ op \in [kind : Kinds, addr : Nat, count : Nat, done : Nat] /\ op.done <= op.count
    /\ pc \in {"idle", "send", "length", "data"}
    /\ left \in Nat /\ at \in Nat
    /\ buf \in [Cell -> Nat] /\ mem \in [Cell -> Nat] /\ old \in [Cell -> Nat]
    /\ result \in {"none", "ok", "failed"}
    /\ conn \in {"none", "up", "down"}
    /\ toServer \in Seq(RequestType) /\ toClient \in Seq(Nat)
    /\ ops \in Nat /\ sentWrites \in Nat /\ applied \in Nat
    /\ flaws \subseteq {"short", "split"}

ReadReturned == pc = "idle" /\ result = "ok" /\ op.kind # "write8"

\* When a read returns 0, its whole buffer holds what the board's memory
\* held at some moment of the call, cell for cell, however TCP cut the
\* responses and read8 the range.
ReadReturnsMemory ==
    ReadReturned =>
        \A k \in 0..op.count - 1 : buf[k] \in old[op.addr + k]..mem[op.addr + k]

\* The code keeps this as long as the server has answered in full and TCP has
\* not cut a length: one of these two is behind every read that returns 0
\* with data the board never held.
ReadsFailByTwoFlaws == flaws = {} => ReadReturnsMemory

\* When a read returns 0, every write the tool made before it has been done
\* on the board: this is what avlog relies on when it has the setting parsed
\* right after write8, which waits for nothing.  Only a cut length breaks it.
WritesBeforeRead ==
    ReadReturned /\ op.count > 0 /\ "split" \notin flaws => applied = sentWrites

\* Between two calls no response is left on the connection and no read is on
\* its way: the next length bytes read are those of the next response.  Only a
\* cut length puts the tool out of step, and then for good.
InSync ==
    pc = "idle" /\ conn = "up" /\ "split" \notin flaws =>
        toClient = <<>> /\ \A j \in 1..Len(toServer) : toServer[j].write

\* Seen from the tool, the protocol is the simple promise of DebugCalls, also
\* with a server that answers short and lengths that are cut: a call succeeds
\* only on an open descriptor, and no failure is ever followed by a success.
Promise == INSTANCE DebugCalls WITH
    link    <- IF sock = "invalid" THEN "none" ELSE IF sock = "open" THEN "up" ELSE "closed",
    calling <- pc # "idle"

ImplementsDebugCalls == Promise!Spec

\* With an answering server, every call returns, or SIGPIPE ends the tool, or
\* a cut length makes it wait for data that nobody sends.
CallsReturn ==
    (pc # "idle") ~> (pc = "idle" \/ app = "killed" \/ "split" \in flaws)
=============================================================================
