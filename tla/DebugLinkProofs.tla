--------------------------- MODULE DebugLinkProofs ---------------------------
(***************************************************************************)
(* TLAPS: the debug link for every memory, request size and number of      *)
(* calls.  First the refinement, which needs only what a call does with    *)
(* its descriptor; then what is on the connection when, from which the     *)
(* order of writes and reads follows.                                      *)
(***************************************************************************)
EXTENDS DebugLink, SequenceTheorems, TLAPS

(***************************************************************************)
(* The promise                                                             *)
(***************************************************************************)

\* A descriptor exists from dbg_init on, only an open one is received from,
\* and a call in progress has not returned.
Descriptor ==
    /\ sock \in {"invalid", "open", "stale"} /\ pc \in {"idle", "send", "length", "data"}
    /\ sock = "invalid" <=> app = "start"
    /\ app = "start" => pc = "idle" /\ result = "none"
    /\ pc \in {"length", "data"} => sock = "open"
    /\ pc # "idle" => result = "none"

LEMMA DescriptorInit == Init => Descriptor
BY DEF Init, Descriptor

\* What is left alone by every action of the other side.
LEMMA OthersKeep ==
    ASSUME Server \/ Break \/ (\E k \in Cell : Change(k)) \/ UNCHANGED vars
    PROVE  UNCHANGED client
<1>1. CASE Server
  BY <1>1 DEF Server, ServeWrite, ServeRead, ServeNothing
<1>2. CASE Break \/ (\E k \in Cell : Change(k)) \/ UNCHANGED vars
  BY <1>2 DEF Break, Change, vars
<1> QED
  BY <1>1, <1>2

\* How a transfer changes descriptor, place and result: it goes on, it
\* succeeds on an open descriptor, it fails, or the tool is killed.
GoesOn   == pc' \in {"send", "length", "data"} /\ result' = "none" /\ UNCHANGED <<app, sock>>
             /\ sock = "open"
Succeeds == pc' = "idle" /\ result' = "ok" /\ UNCHANGED <<app, sock>> /\ sock = "open"
Fails    == pc' = "idle" /\ result' = "failed" /\ sock' = "stale" /\ UNCHANGED app
Killed   == UNCHANGED <<pc, result, sock>> /\ app' = "killed" /\ sock = "open"

LEMMA TransferKinds ==
    ASSUME Descriptor, Transfer
    PROVE  /\ app = "running" /\ pc # "idle"
           /\ GoesOn \/ Succeeds \/ Fails \/ Killed
<1>1. CASE Send
  BY <1>1 DEF Send, Done, Descriptor, GoesOn, Succeeds
<1>2. CASE SendFails \/ RecvFails
  BY <1>2 DEF SendFails, RecvFails, Fail, Fails
<1>3. CASE SendKills
  BY <1>3 DEF SendKills, Killed
<1>4. CASE RecvLength
  BY <1>4 DEF RecvLength, Done, Descriptor, GoesOn, Succeeds
<1>5. CASE RecvHalfLength
  BY <1>5 DEF RecvHalfLength, Done, Descriptor, GoesOn, Succeeds
<1>6. ASSUME NEW n \in 1..Cells, RecvData(n)
      PROVE  app = "running" /\ pc # "idle" /\ (GoesOn \/ Succeeds)
  BY <1>6 DEF RecvData, Done, Descriptor, GoesOn, Succeeds
<1> QED
  BY <1>1, <1>2, <1>3, <1>4, <1>5, <1>6 DEF Transfer

LEMMA DescriptorStep ==
    ASSUME Descriptor, [Next]_vars
    PROVE  Descriptor'
<1>1. CASE Server \/ Break \/ (\E k \in Cell : Change(k)) \/ UNCHANGED vars
  BY <1>1, OthersKeep DEF client, Descriptor
<1>2. CASE Transfer
  BY <1>2, TransferKinds DEF Descriptor, GoesOn, Succeeds, Fails, Killed
<1>3. CASE Connect \/ ConnectFails \/ Deinit
  BY <1>3 DEF Connect, ConnectFails, Deinit, Descriptor
<1>4. ASSUME NEW kind \in Kinds, NEW addr \in Cell, NEW count \in 0..Cells,
             Call(kind, addr, count)
      PROVE  Descriptor'
  BY <1>4 DEF Call, Descriptor
<1> QED
  BY <1>1, <1>2, <1>3, <1>4 DEF Next, Tool

LEMMA PromiseStep ==
    ASSUME Descriptor, [Next]_vars
    PROVE  [Promise!Next]_(Promise!vars)
<1> USE DEF Promise!Next, Promise!vars
<1>1. CASE Server \/ Break \/ (\E k \in Cell : Change(k)) \/ UNCHANGED vars
  BY <1>1, OthersKeep DEF client
<1>2. CASE Transfer
  <2>1. CASE GoesOn \/ Killed
    BY <1>2, <2>1, TransferKinds DEF GoesOn, Killed, Descriptor
  <2>2. CASE Succeeds
    BY <1>2, <2>2, TransferKinds DEF Succeeds, Promise!Succeed
  <2>3. CASE Fails
    BY <1>2, <2>3, TransferKinds DEF Fails, Promise!Fails
  <2> QED
    BY <1>2, <2>1, <2>2, <2>3, TransferKinds
<1>3. CASE Connect \/ ConnectFails
  BY <1>3 DEF Connect, ConnectFails, Descriptor, Promise!Open
<1>4. CASE Deinit
  BY <1>4 DEF Deinit, Descriptor, Promise!Close
<1>5. ASSUME NEW kind \in Kinds, NEW addr \in Cell, NEW count \in 0..Cells,
             Call(kind, addr, count)
      PROVE  Promise!Nothing \/ Promise!Begin
  BY <1>5 DEF Call, Descriptor, Promise!Nothing, Promise!Begin
<1> QED
  BY <1>1, <1>2, <1>3, <1>4, <1>5 DEF Next, Tool

\* dbg_* and net_*: the link implements the promise of DebugCalls.
THEOREM LinkImplementsCalls == Spec => ImplementsDebugCalls
<1>1. Init => Promise!Init
  BY DEF Init, Promise!Init
<1> QED
  BY <1>1, DescriptorInit, DescriptorStep, PromiseStep, PTL
     DEF Spec, ImplementsDebugCalls, Promise!Spec

-----------------------------------------------------------------------------
(***************************************************************************)
(* Types and ranges                                                        *)
(***************************************************************************)

\* A call and its requests stay in the memory it was given.
InRange ==
    /\ op.addr + op.count <= Cells
    /\ pc # "idle" => op.done < op.count
    /\ pc \in {"length", "data"} => op.kind # "write8"
    /\ \A j \in 1..Len(toServer) : toServer[j].addr + toServer[j].count <= Cells

Typed == TypeOK /\ Descriptor /\ InRange

LEMMA ChunkFacts ==
    ASSUME Typed, pc # "idle"
    PROVE  /\ ChunkSize \in Nat \ {0} /\ op.done + ChunkSize <= op.count
           /\ Request \in RequestType
           /\ Request.addr + Request.count <= Cells /\ Request.count = ChunkSize
           /\ Request.write <=> op.kind = "write8"
           /\ Request.addr = op.addr + op.done
<1>1. ChunkSize \in Nat \ {0} /\ op.done + ChunkSize <= op.count
  BY DebugLinkAssumption DEF ChunkSize, Typed, TypeOK, InRange
<1>2. (op.kind = "write8") \in BOOLEAN
  OBVIOUS
<1>3. op.addr + op.done \in Nat /\ op.addr + op.done + ChunkSize <= Cells
  BY <1>1, DebugLinkAssumption DEF Typed, TypeOK, InRange
<1> HIDE DEF ChunkSize
<1>4. Request \in RequestType
  BY <1>1, <1>2, <1>3, Zenon DEF Request, RequestType
<1> QED
  BY <1>1, <1>3, <1>4 DEF Request

\* A request that is dealt with leaves the call in its range.
LEMMA DoneFacts ==
    ASSUME Typed, pc # "idle", Done(ChunkSize)
    PROVE  /\ op' \in [kind : Kinds, addr : Nat, count : Nat, done : Nat]
           /\ op'.kind = op.kind /\ op'.addr = op.addr /\ op'.count = op.count
           /\ op'.done = op.done + ChunkSize /\ op'.done <= op'.count
           /\ \/ pc' = "send" /\ result' = "none" /\ op'.done < op'.count
              \/ pc' = "idle" /\ result' = "ok" /\ op'.done = op'.count
<1>1. ChunkSize \in Nat \ {0} /\ op.done + ChunkSize <= op.count
  BY ChunkFacts
<1>2. op \in [kind : Kinds, addr : Nat, count : Nat, done : Nat]
  BY DEF Typed, TypeOK
<1>3. op' = [op EXCEPT !.done = op.done + ChunkSize]
  BY DEF Done
<1> HIDE DEF ChunkSize
<1>4. /\ op' \in [kind : Kinds, addr : Nat, count : Nat, done : Nat]
      /\ op'.kind = op.kind /\ op'.addr = op.addr /\ op'.count = op.count
      /\ op'.done = op.done + ChunkSize
  BY <1>1, <1>2, <1>3
<1>5. \/ pc' = "send" /\ result' = "none" /\ op.done + ChunkSize < op.count
      \/ pc' = "idle" /\ result' = "ok" /\ ~(op.done + ChunkSize < op.count)
  BY DEF Done
<1> QED
  BY <1>1, <1>2, <1>4, <1>5

\* Sequences by their elements.
LEMMA AppendFacts ==
    ASSUME NEW S, NEW s \in Seq(S), NEW e \in S
    PROVE  /\ Append(s, e) \in Seq(S) /\ Len(Append(s, e)) = Len(s) + 1 /\ Len(s) \in Nat
           /\ \A j \in 1..Len(s) : Append(s, e)[j] = s[j]
           /\ Append(s, e)[Len(s) + 1] = e
BY AppendProperties, LenProperties

LEMMA TailFacts ==
    ASSUME NEW S, NEW s \in Seq(S), s # <<>>
    PROVE  /\ Tail(s) \in Seq(S) /\ Len(Tail(s)) = Len(s) - 1 /\ Len(s) \in Nat \ {0}
           /\ \A j \in 1..Len(s) - 1 : Tail(s)[j] = s[j + 1]
           /\ Head(s) = s[1] /\ Head(s) \in S
BY HeadTailProperties, EmptySeq, LenProperties

LEMMA DropFacts ==
    ASSUME NEW S, NEW s \in Seq(S), NEW m \in Nat \ {0}, m <= Len(s) + 1
    PROVE  /\ SubSeq(s, m, Len(s)) \in Seq(S)
           /\ Len(SubSeq(s, m, Len(s))) = Len(s) - m + 1
           /\ \A j \in 1..Len(s) - m + 1 : SubSeq(s, m, Len(s))[j] = s[m + j - 1]
<1>1. Len(s) \in Nat /\ \A j \in m..Len(s) : s[j] \in S
  BY LenProperties, ElementOfSeq
<1> QED
  BY <1>1, SubSeqProperties

\* A response, as the server appends it.
Response(n, data) == LengthOf(n) \o data

LEMMA ResponseFacts ==
    ASSUME NEW n \in Nat, NEW data \in Seq(Nat), Len(data) = n
    PROVE  /\ Response(n, data) \in Seq(Nat) /\ Len(Response(n, data)) = n + 2
           /\ Response(n, data)[1] = n /\ Response(n, data)[2] = 0
           /\ \A j \in 1..n : Response(n, data)[j + 2] = data[j]
<1> DEFINE prefix == LengthOf(n)
           both   == prefix \o data
<1>1. prefix \in Seq(Nat) /\ Len(prefix) = 2 /\ prefix[1] = n /\ prefix[2] = 0
  BY DEF LengthOf
<1> HIDE DEF prefix
<1>2. /\ both \in Seq(Nat) /\ Len(both) = Len(prefix) + Len(data)
      /\ \A i \in 1..Len(prefix) + Len(data) :
             both[i] = IF i <= Len(prefix) THEN prefix[i] ELSE data[i - Len(prefix)]
  BY <1>1, ConcatProperties
<1> HIDE DEF both
<1>3. both[1] = n /\ both[2] = 0 /\ Len(both) = n + 2
  BY <1>1, <1>2
<1>4. ASSUME NEW j \in 1..n PROVE both[j + 2] = data[j]
  <2>1. j + 2 \in 1..Len(prefix) + Len(data) /\ ~(j + 2 <= 2) /\ j + 2 - 2 = j
    BY <1>1
  <2> QED
    BY <1>1, <1>2, <2>1
<1> QED
  BY <1>2, <1>3, <1>4 DEF Response, both, prefix

LEMMA TypedInit == Init => Typed
<1> SUFFICES ASSUME Init PROVE Typed
  OBVIOUS
<1>1. TypeOK
  BY DebugLinkAssumption DEF Init, TypeOK, NoOp, Kinds
<1>2. InRange
  BY DebugLinkAssumption DEF Init, InRange, NoOp
<1> QED
  BY <1>1, <1>2, DescriptorInit DEF Typed

LEMMA TypedStep ==
    ASSUME Typed, [Next]_vars
    PROVE  Typed'
<1>0. Descriptor'
  BY DescriptorStep DEF Typed
<1> SUFFICES TypeOK' /\ InRange'
  BY <1>0 DEF Typed
<1> USE DebugLinkAssumption
<1>1. CASE UNCHANGED vars
  BY <1>1 DEF vars, client, channel, Typed, TypeOK, InRange
<1>2. CASE Connect
  <2>1. /\ toServer' = <<EndianRequest>> /\ toClient' = <<>> /\ app' = "running" /\ sock' = "open"
        /\ conn' = "up"
        /\ UNCHANGED <<op, pc, left, at, buf, result, ops, old, mem, sentWrites, applied, flaws>>
    BY <1>2 DEF Connect
  <2>2. /\ toServer' \in Seq(RequestType) /\ toClient' \in Seq(Nat)
        /\ \A j \in 1..Len(toServer') : toServer'[j].addr + toServer'[j].count <= Cells
    BY <2>1 DEF EndianRequest, RequestType
  <2> QED
    BY <2>1, <2>2 DEF Typed, TypeOK, InRange
<1>3. CASE ConnectFails \/ Deinit
  BY <1>3 DEF ConnectFails, Deinit, channel, Typed, TypeOK, InRange
<1>4. ASSUME NEW kind \in Kinds, NEW addr \in Cell, NEW count \in 0..Cells,
             addr + count <= Cells, Call(kind, addr, count)
      PROVE  TypeOK' /\ InRange'
  <2>1. /\ op' = [kind |-> kind, addr |-> addr, count |-> count, done |-> 0]
        /\ ops' = ops + 1 /\ old' = mem
        /\ buf' = IF kind = "read8"
                  THEN [k \in Cell |-> IF k < count THEN 0 ELSE buf[k]] ELSE buf
        /\ \/ pc' = "send" /\ result' = "none" /\ count > 0
           \/ pc' = "idle" /\ result' \in {"failed", "ok"}
        /\ UNCHANGED <<app, sock, left, at, channel, mem, sentWrites, applied, flaws>>
    BY <1>4 DEF Call
  <2>2. buf' \in [Cell -> Nat]
    BY <2>1 DEF Typed, TypeOK
  <2>3. op' \in [kind : Kinds, addr : Nat, count : Nat, done : Nat] /\ op'.done <= op'.count
        /\ op'.addr = addr /\ op'.count = count /\ op'.done = 0
    BY <2>1 DEF Cell
  <2> QED
    BY <1>4, <2>1, <2>2, <2>3 DEF Typed, TypeOK, InRange, channel
<1>5. CASE Send
  <2>1. /\ pc = "send" /\ at' = op.done
        /\ toServer' \in {toServer, Append(toServer, Request)}
        /\ \/ Done(ChunkSize) /\ sentWrites' = sentWrites + 1
           \/ pc' = "length" /\ op.kind # "write8" /\ UNCHANGED <<op, result, sentWrites>>
        /\ UNCHANGED <<app, sock, left, buf, ops, old, conn, toClient, mem, applied, flaws>>
    BY <1>5 DEF Send
  <2>2. /\ toServer' \in Seq(RequestType)
        /\ \A j \in 1..Len(toServer') : toServer'[j].addr + toServer'[j].count <= Cells
    <3>1. CASE toServer' = toServer
      BY <3>1 DEF Typed, TypeOK, InRange
    <3>2. CASE toServer' = Append(toServer, Request)
      <4>1. toServer \in Seq(RequestType) /\ Request \in RequestType
            /\ Request.addr + Request.count <= Cells
        BY <2>1, ChunkFacts DEF Typed, TypeOK
      <4>2. \A j \in 1..Len(toServer) : toServer[j].addr + toServer[j].count <= Cells
        BY DEF Typed, InRange
      <4> HIDE DEF Request
      <4> QED
        BY <3>2, <4>1, <4>2, AppendFacts
    <3> QED
      BY <2>1, <3>1, <3>2
  <2>3. CASE Done(ChunkSize)
    BY <2>1, <2>2, <2>3, DoneFacts DEF Typed, TypeOK, InRange
  <2>4. CASE pc' = "length" /\ op.kind # "write8" /\ UNCHANGED <<op, result, sentWrites>>
    BY <2>1, <2>2, <2>4 DEF Typed, TypeOK, InRange
  <2> QED
    BY <2>1, <2>3, <2>4
<1>6. CASE SendFails \/ RecvFails
  BY <1>6 DEF SendFails, RecvFails, Fail, Typed, TypeOK, InRange
<1>7. CASE SendKills
  BY <1>7 DEF SendKills, channel, Typed, TypeOK, InRange
<1>8. CASE RecvLength \/ RecvHalfLength
  <2>1. /\ pc = "length" /\ toClient # <<>>
        /\ \/ toClient' = SubSeq(toClient, 3, Len(toClient)) /\ Len(toClient) >= 2
           \/ toClient' = Tail(toClient)
        /\ \/ left' = toClient[1] + 256 * toClient[2] /\ Len(toClient) >= 2
           \/ left' \in {Head(toClient), Head(toClient) + 256}
        /\ \/ pc' = "data" /\ UNCHANGED <<op, result>>
           \/ Done(ChunkSize)
        /\ flaws' \in {flaws, flaws \cup {"split"}}
        /\ UNCHANGED <<app, sock, at, buf, ops, old, conn, toServer, mem, sentWrites, applied>>
    <3>1. CASE RecvLength
      BY <3>1 DEF RecvLength, Typed, TypeOK
    <3>2. CASE RecvHalfLength
      BY <3>2, DebugLinkAssumption DEF RecvHalfLength, Typed, TypeOK
    <3> QED
      BY <1>8, <3>1, <3>2
  <2>2. toClient \in Seq(Nat)
    BY DEF Typed, TypeOK
  <2>3. toClient' \in Seq(Nat)
    <3>1. CASE toClient' = SubSeq(toClient, 3, Len(toClient)) /\ Len(toClient) >= 2
      <4>1. 3 \in Nat \ {0} /\ 3 <= Len(toClient) + 1
        BY <2>2, <3>1
      <4> QED
        BY <2>2, <3>1, <4>1, DropFacts
    <3>2. CASE toClient' = Tail(toClient)
      BY <2>1, <2>2, <3>2, TailFacts
    <3> QED
      BY <2>1, <3>1, <3>2
  <2>4. left' \in Nat
    <3>1. Len(toClient) >= 2 => toClient[1] \in Nat /\ toClient[2] \in Nat
      BY <2>2
    <3>2. Head(toClient) \in Nat
      BY <2>1, <2>2, TailFacts
    <3> QED
      BY <2>1, <3>1, <3>2
  <2>5. CASE Done(ChunkSize)
    BY <2>1, <2>3, <2>4, <2>5, DoneFacts DEF Typed, TypeOK, InRange
  <2>6. CASE pc' = "data" /\ UNCHANGED <<op, result>>
    BY <2>1, <2>3, <2>4, <2>6 DEF Typed, TypeOK, InRange
  <2> QED
    BY <2>1, <2>5, <2>6
<1>9. ASSUME NEW n \in 1..Cells, RecvData(n)
      PROVE  TypeOK' /\ InRange'
  <2>1. /\ pc = "data" /\ n \in 1..left /\ n <= Len(toClient)
        /\ buf' = [k \in Cell |-> IF k \in at..at + n - 1 THEN toClient[k - at + 1] ELSE buf[k]]
        /\ toClient' = SubSeq(toClient, n + 1, Len(toClient))
        /\ at' = at + n /\ left' = left - n
        /\ UNCHANGED <<pc, op, result>> \/ Done(ChunkSize)
        /\ UNCHANGED <<app, sock, ops, old, conn, toServer, mem, sentWrites, applied, flaws>>
    BY <1>9 DEF RecvData
  <2>2. toClient' \in Seq(Nat)
    <3>1. toClient \in Seq(Nat) /\ n + 1 \in Nat \ {0} /\ n + 1 <= Len(toClient) + 1
      BY <2>1 DEF Typed, TypeOK
    <3>2. SubSeq(toClient, n + 1, Len(toClient)) \in Seq(Nat)
      BY <3>1, DropFacts
    <3> QED
      BY <2>1, <3>2
  <2>3. at' \in Nat /\ left' \in Nat
    BY <2>1 DEF Typed, TypeOK
  <2>4. buf' \in [Cell -> Nat]
    <3>1. \A k \in Cell : k \in at..at + n - 1 => toClient[k - at + 1] \in Nat
      <4>1. toClient \in Seq(Nat) /\ n <= Len(toClient) /\ at \in Nat
        BY <2>1 DEF Typed, TypeOK
      <4>2. ASSUME NEW k \in Cell, k \in at..at + n - 1
            PROVE  k - at + 1 \in 1..Len(toClient)
        BY <4>1, <4>2 DEF Cell
      <4> QED
        BY <4>1, <4>2, ElementOfSeq
    <3> QED
      BY <2>1, <3>1 DEF Typed, TypeOK
  <2>5. CASE Done(ChunkSize)
    BY <2>1, <2>2, <2>3, <2>4, <2>5, DoneFacts DEF Typed, TypeOK, InRange
  <2>6. CASE UNCHANGED <<pc, op, result>>
    BY <2>1, <2>2, <2>3, <2>4, <2>6 DEF Typed, TypeOK, InRange
  <2> QED
    BY <2>1, <2>5, <2>6
<1>10. CASE Server
  <2>1. /\ toServer # <<>> /\ toServer' = Tail(toServer) /\ UNCHANGED <<client, conn, sentWrites>>
    BY <1>10 DEF Server, ServeWrite, ServeRead, ServeNothing
  <2>2. /\ toServer' \in Seq(RequestType) /\ Head(toServer) \in RequestType
        /\ \A j \in 1..Len(toServer') : toServer'[j].addr + toServer'[j].count <= Cells
        /\ Head(toServer).addr + Head(toServer).count <= Cells
    <3>1. toServer \in Seq(RequestType)
          /\ \A j \in 1..Len(toServer) : toServer[j].addr + toServer[j].count <= Cells
      BY DEF Typed, TypeOK, InRange
    <3> QED
      BY <2>1, <3>1, TailFacts
  <2>3. mem' \in [Cell -> Nat] /\ applied' \in Nat /\ flaws' \subseteq {"short", "split"}
    <3>1. CASE ServeWrite
      BY <3>1 DEF ServeWrite, Typed, TypeOK
    <3>2. CASE ServeRead \/ ServeNothing
      BY <3>2 DEF ServeRead, ServeNothing, Typed, TypeOK
    <3> QED
      BY <1>10, <3>1, <3>2 DEF Server
  <2>4. toClient' \in Seq(Nat)
    <3>1. toClient \in Seq(Nat)
      BY DEF Typed, TypeOK
    <3>2. CASE ServeWrite
      BY <3>1, <3>2 DEF ServeWrite
    <3>3. CASE ServeRead
      <4> DEFINE r == Head(toServer)
                 data == [k \in 1..r.count |-> mem[r.addr + k - 1]]
      <4>1. r \in RequestType /\ r.addr + r.count <= Cells /\ mem \in [Cell -> Nat]
        BY <2>2 DEF Typed, TypeOK
      <4>2. data \in Seq(Nat)
        <5>1. r.addr \in Nat /\ r.count \in Nat
          BY <4>1 DEF RequestType
        <5> HIDE DEF r
        <5>2. \A k \in 1..r.count : r.addr + k - 1 \in Cell
          BY <4>1, <5>1 DEF Cell
        <5> QED
          BY <4>1, <5>1, <5>2
      <4>3. LengthOf(r.count) \in Seq(Nat)
        BY <4>1 DEF LengthOf, RequestType
      <4>4. toClient' = toClient \o LengthOf(r.count) \o data
        BY <3>3 DEF ServeRead
      <4> HIDE DEF r, data
      <4> QED
        BY <3>1, <4>2, <4>3, <4>4, ConcatProperties
    <3>4. CASE ServeNothing
      <4>1. LengthOf(0) \in Seq(Nat)
        BY DEF LengthOf
      <4> QED
        BY <3>1, <3>4, <4>1, ConcatProperties DEF ServeNothing
    <3> QED
      BY <1>10, <3>2, <3>3, <3>4 DEF Server
  <2> QED
    BY <2>1, <2>2, <2>3, <2>4 DEF Typed, TypeOK, InRange, client
<1>11. CASE Break
  BY <1>11 DEF Break, client, Typed, TypeOK, InRange
<1>12. ASSUME NEW k \in Cell, Change(k)
       PROVE  TypeOK' /\ InRange'
  BY <1>12 DEF Change, client, channel, Typed, TypeOK, InRange
<1> QED
  BY <1>1, <1>2, <1>3, <1>4, <1>5, <1>6, <1>7, <1>8, <1>9, <1>10, <1>11, <1>12
     DEF Next, Tool, Transfer

-----------------------------------------------------------------------------
(***************************************************************************)
(* What is on the connection, as long as no length was cut                 *)
(***************************************************************************)
Uncut == "split" \notin flaws

\* A read is the last request on its way, or its response is all there is.
Asking ==
    /\ toClient = <<>> /\ Len(toServer) > 0
    /\ \A j \in 1..Len(toServer) : toServer[j].write <=> j < Len(toServer)
Answered ==
    /\ toServer = <<>> /\ Len(toClient) >= 2
    /\ toClient[1] = Len(toClient) - 2 /\ toClient[2] = 0

OnTheWay ==
    conn = "up" /\ Uncut =>
        /\ pc \in {"idle", "send"} =>
               toClient = <<>> /\ \A j \in 1..Len(toServer) : toServer[j].write
        /\ pc = "length" => Asking \/ Answered
        /\ pc = "data" => toServer = <<>> /\ Len(toClient) = left

\* Requests that are not writes of the tool: the endian request, and a read.
Endian == IF toServer # <<>> /\ toServer[1].count = 0 THEN 1 ELSE 0
Asked  == IF toServer # <<>> /\ pc = "length" THEN 1 ELSE 0

\* Every write that was sent is applied or on its way.
Counted ==
    /\ app = "start" => conn = "none" /\ applied = sentWrites
    /\ \A j \in 1..Len(toServer) : toServer[j].count = 0 => j = 1 /\ toServer[j].write
    /\ Uncut =>
          /\ conn = "up" => sentWrites + Endian + Asked = applied + Len(toServer)
          /\ ReadReturned /\ op.count > 0 =>
                 applied = sentWrites /\ (conn = "up" => toServer = <<>>)

Order == Typed /\ OnTheWay /\ Counted

LEMMA OrderInit == Init => Order
BY TypedInit DEF Init, Order, OnTheWay, Counted, ReadReturned, NoOp

\* The connection goes away, and a failed call has returned.
LEMMA OrderWithoutLink ==
    ASSUME Order, [Next]_vars, conn' # "up", UNCHANGED <<sentWrites, applied>>,
           app' # "start", toServer' \in {toServer, <<>>}, flaws \subseteq flaws',
           \/ UNCHANGED <<pc, op, result>> \/ result' = "failed"
    PROVE  Order'
<1>1. Typed'
  BY TypedStep DEF Order
<1>2. OnTheWay'
  BY DEF OnTheWay
<1>3. \A j \in 1..Len(toServer') : toServer'[j].count = 0 => j = 1 /\ toServer'[j].write
  BY DEF Order, Counted
<1>4. Uncut' => Uncut
  BY DEF Uncut
<1> QED
  BY <1>1, <1>2, <1>3, <1>4 DEF Order, Counted, ReadReturned

LEMMA OrderStep ==
    ASSUME Order, [Next]_vars
    PROVE  Order'
<1>0. Typed' /\ Typed /\ TypeOK /\ TypeOK' /\ Descriptor /\ InRange
  BY TypedStep DEF Order, Typed
<1>a. toServer \in Seq(RequestType) /\ toClient \in Seq(Nat)
      /\ Len(toServer) \in Nat /\ Len(toClient) \in Nat
      /\ applied \in Nat /\ sentWrites \in Nat /\ left \in Nat
  BY <1>0, LenProperties DEF TypeOK
<1>1. CASE UNCHANGED vars
  BY <1>0, <1>1 DEF vars, client, channel, Order, OnTheWay, Counted, Uncut, Asking, Answered,
                    Endian, Asked, ReadReturned
<1>2. CASE Connect
  <2>1. /\ toServer' = <<EndianRequest>> /\ toClient' = <<>> /\ app' = "running" /\ conn' = "up"
        /\ app = "start" /\ pc = "idle" /\ result = "none"
        /\ UNCHANGED <<op, pc, result, sentWrites, applied, flaws>>
    BY <1>0, <1>2 DEF Connect, Descriptor
  <2>2. /\ Len(toServer') = 1 /\ toServer'[1].write /\ toServer'[1].count = 0
        /\ toServer' # <<>>
    BY <2>1 DEF EndianRequest
  <2> QED
    BY <1>0, <1>a, <2>1, <2>2 DEF Order, OnTheWay, Counted, Uncut, Endian, Asked, ReadReturned
<1>3. CASE ConnectFails
  BY <1>0, <1>3 DEF ConnectFails, channel, Order, OnTheWay, Counted, Uncut, Asking, Answered,
                    Endian, Asked, ReadReturned, Descriptor
<1>4. CASE Deinit \/ SendFails \/ RecvFails
  <2>1. /\ conn' # "up" /\ app' # "start" /\ UNCHANGED <<sentWrites, applied, toServer, flaws>>
        /\ UNCHANGED <<pc, op, result>> \/ result' = "failed"
    BY <1>0, <1>4 DEF Deinit, SendFails, RecvFails, Fail, TypeOK
  <2> QED
    BY <2>1, OrderWithoutLink
<1>5. CASE SendKills
  <2>1. /\ conn' # "up" /\ app' # "start"
        /\ UNCHANGED <<sentWrites, applied, toServer, flaws, pc, op, result>>
    BY <1>5 DEF SendKills, channel
  <2> QED
    BY <2>1, OrderWithoutLink
<1>6. CASE Break
  <2>1. /\ conn' # "up" /\ app' # "start" /\ toServer' = <<>>
        /\ UNCHANGED <<sentWrites, applied, flaws, pc, op, result>>
    BY <1>6 DEF Break, client, Order, Counted
  <2> QED
    BY <2>1, OrderWithoutLink
<1>7. ASSUME NEW k \in Cell, Change(k)
      PROVE  Order'
  BY <1>0, <1>7 DEF Change, client, channel, Order, OnTheWay, Counted, Uncut, Asking, Answered,
                    Endian, Asked, ReadReturned
<1>8. ASSUME NEW kind \in Kinds, NEW addr \in Cell, NEW count \in 0..Cells,
             Call(kind, addr, count)
      PROVE  Order'
  <2>1. /\ app = "running" /\ pc = "idle" /\ pc' \in {"idle", "send"}
        /\ op'.count = count
        /\ count > 0 => result' = "none"
        /\ UNCHANGED <<app, conn, toServer, toClient, sentWrites, applied, flaws>>
    BY <1>8 DEF Call, channel
  <2>2. OnTheWay'
    BY <2>1 DEF Order, OnTheWay, Uncut
  <2>3. Counted'
    BY <2>1 DEF Order, Counted, Uncut, Endian, Asked, ReadReturned
  <2> QED
    BY <1>0, <2>2, <2>3 DEF Order
<1>9. CASE Send
  <2>1. /\ app = "running" /\ pc = "send"
        /\ toServer' = IF conn = "up" THEN Append(toServer, Request) ELSE toServer
        /\ \/ op.kind = "write8" /\ Done(ChunkSize) /\ sentWrites' = sentWrites + 1
           \/ op.kind # "write8" /\ pc' = "length" /\ UNCHANGED <<op, result, sentWrites>>
        /\ UNCHANGED <<app, conn, toClient, applied, flaws>>
    BY <1>9 DEF Send
  <2>2. /\ Request \in RequestType /\ Request.count \in Nat \ {0}
        /\ Request.write <=> op.kind = "write8"
    BY <1>0, <2>1, ChunkFacts DEF RequestType
  <2>3. /\ op'.kind = op.kind
        /\ op.kind = "write8" => pc' \in {"send", "idle"}
        /\ ReadReturned' => FALSE
    BY <1>0, <2>1, DoneFacts DEF ReadReturned, Descriptor
  <2>4. CASE conn # "up"
    BY <1>0, <2>1, <2>3, <2>4 DEF Order, OnTheWay, Counted, Uncut
  <2>5. CASE conn = "up"
    <3>1. /\ Len(toServer') = Len(toServer) + 1
          /\ \A j \in 1..Len(toServer) : toServer'[j] = toServer[j]
          /\ toServer'[Len(toServer) + 1] = Request
      BY <1>a, <2>1, <2>2, <2>5, AppendFacts
    <3>2. toServer' # <<>>
      BY <1>a, <3>1
    <3>3. \A j \in 1..Len(toServer') : toServer'[j].count = 0 => j = 1 /\ toServer'[j].write
      <4>1. ASSUME NEW j \in 1..Len(toServer'), toServer'[j].count = 0
            PROVE  j \in 1..Len(toServer) /\ toServer'[j] = toServer[j]
        BY <1>a, <2>2, <3>1, <4>1
      <4> QED
        BY <4>1 DEF Order, Counted
    <3>4. Uncut => Endian' = Endian
      <4>1. CASE toServer = <<>>
        BY <2>2, <3>1, <3>2, <4>1 DEF Endian
      <4>2. CASE toServer # <<>>
        <5>1. Len(toServer) >= 1
          BY <1>a, <4>2, EmptySeq
        <5> QED
          BY <3>1, <3>2, <4>2, <5>1 DEF Endian
      <4> QED
        BY <4>1, <4>2
    <3>6. Endian \in {0, 1}
      BY DEF Endian
    <3>5. Uncut => sentWrites + Endian = applied + Len(toServer)
      <4>1. Asked = 0
        BY <2>1 DEF Asked
      <4>2. Uncut => sentWrites + Endian + Asked = applied + Len(toServer)
        BY <2>5 DEF Order, Counted
      <4> QED
        BY <1>a, <3>6, <4>1, <4>2
    <3>7. Counted'
      <4>1. Asked' = IF op.kind = "write8" THEN 0 ELSE 1
        BY <2>1, <2>3, <3>2 DEF Asked
      <4>2. sentWrites' = IF op.kind = "write8" THEN sentWrites + 1 ELSE sentWrites
        BY <2>1
      <4>3. Uncut' => sentWrites' + Endian' + Asked' = applied' + Len(toServer')
        BY <1>a, <2>1, <3>1, <3>4, <3>5, <3>6, <4>1, <4>2 DEF Uncut
      <4> QED
        BY <2>1, <2>3, <3>3, <4>3 DEF Counted
    <3>8. OnTheWay'
      <4>1. Uncut => toClient = <<>> /\ \A j \in 1..Len(toServer) : toServer[j].write
        BY <2>1, <2>5 DEF Order, OnTheWay
      <4>2. CASE op.kind = "write8"
        <5>1. \A j \in 1..Len(toServer') : j \in 1..Len(toServer) \/ j = Len(toServer) + 1
          BY <1>a, <3>1
        <5> QED
          BY <2>1, <2>2, <2>3, <3>1, <4>1, <4>2, <5>1 DEF OnTheWay, Uncut
      <4>3. CASE op.kind # "write8"
        <5>1. \A j \in 1..Len(toServer') :
                  IF j < Len(toServer') THEN j \in 1..Len(toServer) ELSE j = Len(toServer) + 1
          BY <1>a, <3>1
        <5>2. Uncut => Asking'
          BY <1>a, <2>1, <2>2, <3>1, <4>1, <4>3, <5>1 DEF Asking
        <5> QED
          BY <2>1, <4>3, <5>2 DEF OnTheWay, Uncut
      <4> QED
        BY <4>2, <4>3
    <3> QED
      BY <1>0, <3>7, <3>8 DEF Order
  <2> QED
    BY <2>4, <2>5
<1>10. CASE RecvLength
  <2>1. /\ app = "running" /\ pc = "length" /\ conn = "up" /\ Len(toClient) >= 2
        /\ left' = toClient[1] + 256 * toClient[2]
        /\ toClient' = SubSeq(toClient, 3, Len(toClient))
        /\ \/ left' > 0 /\ pc' = "data" /\ UNCHANGED <<op, result>>
           \/ ~(left' > 0) /\ Done(ChunkSize)
        /\ UNCHANGED <<app, conn, toServer, sentWrites, applied, flaws>>
    BY <1>10 DEF RecvLength
  <2>2. toClient # <<>>
    BY <2>1
  <2>3. Uncut => toServer = <<>> /\ toClient[1] = Len(toClient) - 2 /\ toClient[2] = 0
    BY <2>1, <2>2 DEF Order, OnTheWay, Asking, Answered
  <2>4. toClient' \in Seq(Nat) /\ Len(toClient') = Len(toClient) - 2
    <3>1. 3 \in Nat \ {0} /\ 3 <= Len(toClient) + 1 /\ Len(toClient) - 3 + 1 = Len(toClient) - 2
      BY <1>a, <2>1
    <3>2. /\ SubSeq(toClient, 3, Len(toClient)) \in Seq(Nat)
          /\ Len(SubSeq(toClient, 3, Len(toClient))) = Len(toClient) - 3 + 1
      BY <1>a, <3>1, DropFacts
    <3> QED
      BY <2>1, <3>1, <3>2
  <2>5. Uncut => left' = Len(toClient')
    BY <1>a, <2>1, <2>3, <2>4
  <2>6. Len(toClient') = 0 => toClient' = <<>>
    BY <2>4, EmptySeq
  <2>7. pc' \in {"data", "send", "idle"} /\ (pc' # "data" => ~(left' > 0))
    BY <1>0, <2>1, DoneFacts
  <2>8. OnTheWay'
    <3>1. Uncut /\ pc' # "data" => toClient' = <<>>
      BY <1>0, <2>5, <2>6, <2>7 DEF TypeOK
    <3>2. Uncut => toServer' = <<>> /\ left' = Len(toClient') /\ Len(toServer') = 0
      BY <2>1, <2>3, <2>5
    <3>3. Uncut' => Uncut
      BY <2>1 DEF Uncut
    <3> QED
      BY <2>7, <3>1, <3>2, <3>3 DEF OnTheWay
  <2>9. Counted'
    <3>1. Uncut => applied = sentWrites /\ toServer = <<>>
      BY <1>a, <2>1, <2>3 DEF Order, Counted, Endian, Asked
    <3>2. Uncut => Endian' = 0 /\ Asked' = 0 /\ Len(toServer') = 0
      BY <2>1, <3>1 DEF Endian, Asked
    <3>3. /\ Uncut' <=> Uncut
          /\ Uncut => sentWrites' + Endian' + Asked' = applied' + Len(toServer')
      BY <1>a, <2>1, <3>1, <3>2 DEF Uncut
    <3> QED
      BY <2>1, <3>1, <3>3 DEF Order, Counted
  <2> QED
    BY <1>0, <2>8, <2>9 DEF Order
<1>11. CASE RecvHalfLength
  <2>1. ~Uncut' /\ UNCHANGED <<app, conn, toServer, sentWrites, applied>>
    BY <1>11 DEF RecvHalfLength, Uncut
  <2> QED
    BY <1>0, <2>1 DEF Order, OnTheWay, Counted
<1>12. ASSUME NEW n \in 1..Cells, RecvData(n)
       PROVE  Order'
  <2>1. /\ app = "running" /\ pc = "data" /\ conn = "up" /\ n \in 1..left /\ n <= Len(toClient)
        /\ toClient' = SubSeq(toClient, n + 1, Len(toClient))
        /\ left' = left - n
        /\ \/ left' > 0 /\ UNCHANGED <<pc, op, result>>
           \/ ~(left' > 0) /\ Done(ChunkSize)
        /\ UNCHANGED <<app, conn, toServer, sentWrites, applied, flaws>>
    BY <1>12 DEF RecvData
  <2>3. Uncut => toServer = <<>> /\ Len(toClient) = left
    BY <2>1 DEF Order, OnTheWay
  <2>4. toClient' \in Seq(Nat) /\ Len(toClient') = Len(toClient) - n
    <3>1. /\ n + 1 \in Nat \ {0} /\ n + 1 <= Len(toClient) + 1
          /\ Len(toClient) - (n + 1) + 1 = Len(toClient) - n
      BY <1>a, <2>1
    <3>2. /\ SubSeq(toClient, n + 1, Len(toClient)) \in Seq(Nat)
          /\ Len(SubSeq(toClient, n + 1, Len(toClient))) = Len(toClient) - (n + 1) + 1
      BY <1>a, <3>1, DropFacts
    <3> QED
      BY <2>1, <3>1, <3>2
  <2>5. Uncut => left' = Len(toClient')
    BY <2>1, <2>3, <2>4
  <2>6. Len(toClient') = 0 => toClient' = <<>>
    BY <2>4, EmptySeq
  <2>7. pc' \in {"data", "send", "idle"} /\ (pc' # "data" => ~(left' > 0))
    BY <1>0, <2>1, DoneFacts
  <2>8. OnTheWay'
    <3>1. Uncut /\ pc' # "data" => toClient' = <<>>
      BY <1>0, <2>5, <2>6, <2>7 DEF TypeOK
    <3>2. Uncut => toServer' = <<>> /\ left' = Len(toClient') /\ Len(toServer') = 0
      BY <2>1, <2>3, <2>5
    <3>3. Uncut' => Uncut
      BY <2>1 DEF Uncut
    <3> QED
      BY <2>7, <3>1, <3>2, <3>3 DEF OnTheWay
  <2>9. Counted'
    <3>1. Uncut => applied = sentWrites /\ toServer = <<>>
      BY <1>a, <2>1, <2>3 DEF Order, Counted, Endian, Asked
    <3>2. Uncut => Endian' = 0 /\ Asked' = 0 /\ Len(toServer') = 0
      BY <2>1, <3>1 DEF Endian, Asked
    <3>3. /\ Uncut' <=> Uncut
          /\ Uncut => sentWrites' + Endian' + Asked' = applied' + Len(toServer')
      BY <1>a, <2>1, <3>1, <3>2 DEF Uncut
    <3> QED
      BY <2>1, <3>1, <3>3 DEF Order, Counted
  <2> QED
    BY <1>0, <2>8, <2>9 DEF Order
<1>13. CASE Server
  <2>1. /\ conn = "up" /\ toServer # <<>> /\ toServer' = Tail(toServer)
        /\ UNCHANGED <<app, pc, op, left, result, conn, sentWrites>>
    BY <1>13 DEF Server, ServeWrite, ServeRead, ServeNothing, client
  <2>2. /\ Len(toServer) \in Nat \ {0} /\ Len(toServer') = Len(toServer) - 1
        /\ \A j \in 1..Len(toServer) - 1 : toServer'[j] = toServer[j + 1]
        /\ Head(toServer) = toServer[1] /\ Head(toServer) \in RequestType
        /\ toServer' \in Seq(RequestType)
    BY <1>a, <2>1, TailFacts
  <2>3. \A j \in 1..Len(toServer') : toServer'[j].count # 0
    <3>1. ASSUME NEW j \in 1..Len(toServer')
          PROVE  j + 1 \in 1..Len(toServer) /\ toServer'[j] = toServer[j + 1] /\ j + 1 # 1
      BY <2>2
    <3> QED
      BY <3>1 DEF Order, Counted
  <2>4. Endian' = 0
    <3>1. CASE toServer' = <<>>
      BY <3>1 DEF Endian
    <3>2. CASE toServer' # <<>>
      <4>1. 1 \in 1..Len(toServer')
        BY <2>2, <3>2, EmptySeq
      <4> QED
        BY <2>3, <4>1 DEF Endian
    <3> QED
      BY <3>1, <3>2
  <2>5. Uncut => sentWrites + Endian + Asked = applied + Len(toServer)
    BY <2>1 DEF Order, Counted
  <2>6. Uncut => ~(ReadReturned /\ op.count > 0)
    BY <2>1 DEF Order, Counted
  <2>7. app # "start"
    BY <2>1 DEF Order, Counted
  <2>8. Endian = IF Head(toServer).count = 0 THEN 1 ELSE 0
    BY <2>1, <2>2 DEF Endian
  <2>9. CASE ServeWrite
    <3>1. /\ Head(toServer).write /\ UNCHANGED <<toClient, flaws>>
          /\ applied' = IF Head(toServer).count > 0 THEN applied + 1 ELSE applied
      BY <2>9 DEF ServeWrite
    <3>2. Uncut => pc # "data"
      BY <2>1 DEF Order, OnTheWay
    <3>3. pc = "length" /\ Uncut => Asking /\ Len(toServer) > 1
      BY <2>1, <2>2, <3>1 DEF Order, OnTheWay, Asking, Answered
    <3>4. Uncut => Asked' = Asked
      <4>1. CASE pc = "length"
        <5>1. Uncut => toServer' # <<>>
          BY <2>2, <3>3, <4>1
        <5> QED
          BY <2>1, <4>1, <5>1 DEF Asked
      <4>2. CASE pc # "length"
        BY <2>1, <4>2 DEF Asked
      <4> QED
        BY <4>1, <4>2
    <3>5. Head(toServer).count \in Nat
      BY <2>2 DEF RequestType
    <3>6. applied' = IF Endian = 1 THEN applied ELSE applied + 1
      BY <2>8, <3>1, <3>5
    <3>7. Asked \in {0, 1} /\ Endian \in {0, 1}
      BY DEF Asked, Endian
    <3>8. Uncut => sentWrites' + Endian' + Asked' = applied' + Len(toServer')
      <4>1. applied' \in Nat
        BY <1>0 DEF TypeOK
      <4>2. /\ sentWrites' = sentWrites /\ Len(toServer') = Len(toServer) - 1
            /\ sentWrites \in Nat /\ applied \in Nat /\ Len(toServer) \in Nat
        BY <1>a, <2>1, <2>2
      <4>3. SUFFICES ASSUME Uncut
                     PROVE  sentWrites' + Endian' + Asked' = applied' + Len(toServer')
        OBVIOUS
      <4>4. Asked' = Asked /\ sentWrites + Endian + Asked = applied + Len(toServer)
        BY <2>5, <3>4, <4>3
      <4>5. sentWrites' + Endian' + Asked' = sentWrites + Asked
        BY <2>4, <3>7, <4>2, <4>4
      <4>6. applied' + Len(toServer') = applied + Len(toServer) - Endian
        <5>1. CASE Endian = 0
          <6>1. applied' = applied + 1
            BY <3>6, <5>1
          <6> QED
            BY <4>2, <5>1, <6>1
        <5>2. CASE Endian = 1
          <6>1. applied' = applied
            BY <3>6, <5>2
          <6> QED
            BY <4>2, <5>2, <6>1
        <5> QED
          BY <3>7, <5>1, <5>2
      <4>7. sentWrites + Asked = applied + Len(toServer) - Endian
        BY <3>7, <4>2, <4>4
      <4> QED
        BY <4>5, <4>6, <4>7
    <3>9. Counted'
      <4>1. Uncut' <=> Uncut
        BY <3>1 DEF Uncut
      <4>2. Uncut' => ~(ReadReturned' /\ op'.count > 0)
        BY <2>1, <2>6, <4>1 DEF ReadReturned
      <4> QED
        BY <2>1, <2>3, <2>7, <3>8, <4>1, <4>2 DEF Counted
    <3>10. OnTheWay'
      <4>1. CASE pc \in {"idle", "send"}
        <5>1. Uncut => toClient = <<>> /\ \A j \in 1..Len(toServer) : toServer[j].write
          BY <2>1, <4>1 DEF Order, OnTheWay
        <5>2. Uncut => \A j \in 1..Len(toServer') : toServer'[j].write
          BY <2>2, <5>1
        <5> QED
          BY <2>1, <3>1, <4>1, <5>1, <5>2 DEF OnTheWay, Uncut
      <4>2. CASE pc = "length"
        <5>1. ASSUME Uncut, NEW j \in 1..Len(toServer')
              PROVE  toServer'[j].write <=> j < Len(toServer')
          <6>1. j + 1 \in 1..Len(toServer) /\ toServer'[j] = toServer[j + 1]
            BY <2>2
          <6>2. toServer[j + 1].write <=> j + 1 < Len(toServer)
            BY <3>3, <4>2, <5>1, <6>1 DEF Asking
          <6> QED
            BY <2>2, <6>1, <6>2
        <5>2. Uncut => Asking'
          BY <2>2, <3>1, <3>3, <4>2, <5>1 DEF Asking
        <5> QED
          BY <2>1, <3>1, <4>2, <5>2 DEF OnTheWay, Uncut
      <4> QED
        BY <1>0, <2>1, <3>1, <3>2, <4>1, <4>2 DEF TypeOK, OnTheWay, Uncut
    <3> QED
      BY <1>0, <3>9, <3>10 DEF Order
  <2>10. CASE ServeRead \/ ServeNothing
    <3>1. /\ ~Head(toServer).write /\ UNCHANGED applied
          /\ Uncut' <=> Uncut
      BY <2>10 DEF ServeRead, ServeNothing, Uncut
    <3>2. Uncut => pc = "length" /\ Asking /\ Len(toServer) = 1
      <4>1. 1 \in 1..Len(toServer) /\ ~toServer[1].write
        BY <2>2, <3>1
      <4> QED
        BY <1>0, <2>1, <2>2, <4>1 DEF Order, OnTheWay, Asking, Answered, TypeOK
    <3>3. Uncut => toServer' = <<>> /\ Len(toServer') = 0
      <4>1. Uncut => Len(toServer') = 0
        <5>1. Len(toServer') = Len(toServer) - 1
          BY <2>2
        <5>2. CASE Uncut
          <6>1. Len(toServer) = 1
            BY <3>2, <5>2
          <6> QED
            BY <5>1, <6>1
        <5> QED
          BY <5>2
      <4> QED
        BY <2>2, <4>1, EmptySeq
    <3>4. Uncut => Answered'
      <4>1. SUFFICES ASSUME Uncut PROVE Answered'
        OBVIOUS
      <4>2. toClient = <<>>
        BY <3>2, <4>1 DEF Asking
      <4>3. \E n \in Nat, data \in Seq(Nat) : Len(data) = n /\ toClient' = Response(n, data)
        <5>1. CASE ServeRead
          <6> DEFINE r == Head(toServer)
                     data == [k \in 1..r.count |-> mem[r.addr + k - 1]]
          <6>1. r \in RequestType /\ r.addr + r.count <= Cells /\ mem \in [Cell -> Nat]
            BY <1>0, <1>a, <2>1, <2>2, TailFacts DEF TypeOK, InRange
          <6>2. r.addr \in Nat /\ r.count \in Nat
            BY <6>1 DEF RequestType
          <6>3. toClient' = toClient \o LengthOf(r.count) \o data
            BY <5>1 DEF ServeRead
          <6>4. toClient \o LengthOf(r.count) = LengthOf(r.count)
            <7>1. LengthOf(r.count) \in Seq(Nat)
              BY <6>2 DEF LengthOf
            <7> QED
              BY <4>2, <7>1, ConcatEmptySeq
          <6> HIDE DEF r
          <6>5. \A k \in 1..r.count : r.addr + k - 1 \in Cell
            BY <6>1, <6>2, DebugLinkAssumption DEF Cell
          <6>6. data \in Seq(Nat) /\ Len(data) = r.count
            BY <6>1, <6>2, <6>5
          <6> HIDE DEF data
          <6>7. toClient' = Response(r.count, data)
            BY <6>3, <6>4 DEF Response
          <6> QED
            BY <6>2, <6>6, <6>7
        <5>2. CASE ServeNothing
          <6>1. toClient' = LengthOf(0)
            <7>1. LengthOf(0) \in Seq(Nat)
              BY DEF LengthOf
            <7> QED
              BY <4>2, <5>2, <7>1, ConcatEmptySeq DEF ServeNothing
          <6>2. LengthOf(0) = LengthOf(0) \o <<>>
            <7>1. LengthOf(0) \in Seq(Nat)
              BY DEF LengthOf
            <7> QED
              BY <7>1, ConcatEmptySeq
          <6>3. <<>> \in Seq(Nat) /\ Len(<<>>) = 0
            OBVIOUS
          <6> QED
            BY <6>1, <6>2, <6>3 DEF Response
        <5> QED
          BY <2>10, <5>1, <5>2
      <4>4. PICK n \in Nat, data \in Seq(Nat) : Len(data) = n /\ toClient' = Response(n, data)
        BY <4>3
      <4>5. Len(toClient') = n + 2 /\ toClient'[1] = n /\ toClient'[2] = 0
        BY <4>4, ResponseFacts
      <4> QED
        BY <3>3, <4>1, <4>5 DEF Answered
    <3>5. Uncut => sentWrites = applied
      <4>1. Uncut => Endian = 0
        <5>1. Uncut => toServer[1].count # 0
          BY <2>2, <3>1 DEF Order, Counted
        <5> QED
          BY <2>2, <2>8, <5>1
      <4>2. Uncut => Asked = 1
        BY <2>1, <3>2 DEF Asked
      <4>3. Uncut => Len(toServer) = 1
        BY <3>2
      <4> QED
        <5>1. SUFFICES ASSUME Uncut PROVE sentWrites = applied
          OBVIOUS
        <5>2. Endian = 0 /\ Asked = 1 /\ Len(toServer) = 1
          BY <4>1, <4>2, <4>3, <5>1
        <5>3. sentWrites + Endian + Asked = applied + Len(toServer)
          BY <2>5, <5>1
        <5> QED
          BY <1>a, <5>2, <5>3
    <3>6. Uncut => Asked' = 0
      BY <3>3 DEF Asked
    <3>7. Counted'
      <4>1. Uncut' => ~(ReadReturned' /\ op'.count > 0)
        BY <2>1, <2>6, <3>1 DEF ReadReturned
      <4>2. Uncut' => sentWrites' + Endian' + Asked' = applied' + Len(toServer')
        <5>1. sentWrites' = sentWrites /\ applied' = applied /\ (Uncut' <=> Uncut)
          BY <2>1, <3>1
        <5>2. Uncut => Len(toServer') = 0
          BY <3>3
        <5> QED
          BY <1>a, <2>4, <3>5, <3>6, <5>1, <5>2
      <4> QED
        BY <2>1, <2>3, <2>7, <4>1, <4>2 DEF Counted
    <3> QED
      BY <1>0, <2>1, <3>1, <3>2, <3>4, <3>7 DEF Order, OnTheWay
  <2> QED
    BY <1>13, <2>9, <2>10 DEF Server
<1> QED
  BY <1>1, <1>2, <1>3, <1>4, <1>5, <1>6, <1>7, <1>8, <1>9, <1>10, <1>11, <1>12, <1>13
     DEF Next, Tool, Transfer

\* What is on the connection when, in every reachable state.
THEOREM OrderInvariant == Spec => []Order
<1> QED
  BY OrderInit, OrderStep, PTL DEF Spec

\* net_transfer: nothing is left on the connection between two calls, so the
\* next length bytes are those of the next response.
THEOREM LinkInSync == Spec => []InSync
<1>1. Order => InSync
  BY DEF Order, OnTheWay, InSync, Uncut
<1> QED
  BY <1>1, OrderInvariant, PTL

\* dbg_host_write8 before a read: all earlier writes have been done when it returns.
THEOREM WritesAreDone == Spec => []WritesBeforeRead
<1>1. Order => WritesBeforeRead
  BY DEF Order, Counted, WritesBeforeRead, Uncut
<1> QED
  BY <1>1, OrderInvariant, PTL

-----------------------------------------------------------------------------
(***************************************************************************)
(* What a read brings, as long as nothing has gone wrong with a response   *)
(***************************************************************************)
Flawless == flaws = {}

\* What an address has held since the call began.
Held(a) == old[a]..mem[a]

\* The first n cells of the buffer hold what their addresses held.
Filled(n) == \A k \in 0..n - 1 : buf[k] \in Held(op.addr + k)

\* The request on its way asks for the next cells, or their response is there.
InFlight ==
    /\ at = op.done
    /\ conn = "up" =>
          /\ toServer # <<>> =>
                 /\ toServer[Len(toServer)].addr = op.addr + op.done
                 /\ toServer[Len(toServer)].count = ChunkSize
          /\ toServer = <<>> =>
                 /\ Len(toClient) = ChunkSize + 2
                 /\ \A j \in 1..ChunkSize : toClient[j + 2] \in Held(op.addr + op.done + j - 1)

\* The buffer is filled so far, and what is to come continues it.
Coming ==
    conn = "up" =>
        /\ Filled(at)
        /\ at + left = op.done + ChunkSize
        /\ \A j \in 1..left : toClient[j] \in Held(op.addr + at + j - 1)

Versions ==
    /\ \A a \in Cell : old[a] <= mem[a]
    /\ Flawless =>
          /\ pc \in {"send", "length"} /\ op.kind # "write8" => Filled(op.done)
          /\ pc = "length" => InFlight
          /\ pc = "data" => Coming
          /\ ReadReturnsMemory

LEMMA VersionsInit == Init => Versions
BY DebugLinkAssumption DEF Init, Versions, ReadReturnsMemory, ReadReturned, Cell

\* Nothing that a read relies on changes but the memory, which grows, and the
\* queue of requests, whose last one stays.
LEMMA VersionsGrow ==
    ASSUME Order, Order', Versions, UNCHANGED <<client, toClient, flaws>>,
           conn' \in {conn, "down"},
           \A a \in Cell : mem'[a] >= mem[a],
           conn' = "up" /\ toServer # <<>> /\ toServer' # <<>> =>
               toServer'[Len(toServer')] = toServer[Len(toServer)],
           conn' = "up" /\ pc = "length" /\ Flawless => (toServer = <<>> <=> toServer' = <<>>)
    PROVE  Versions'
<1>0. TypeOK /\ TypeOK' /\ InRange
  BY DEF Order, Typed
<1>1. UNCHANGED <<pc, op, at, left, buf, old, result>>
  BY DEF client
<1>2. \A a \in Cell : /\ old'[a] <= mem'[a]
                      /\ \A v : v \in old[a]..mem[a] => v \in old'[a]..mem'[a]
  BY <1>0, <1>1 DEF TypeOK, Versions
<1>3. ChunkSize' = ChunkSize
  BY <1>1 DEF ChunkSize
<1>4. op.addr \in Nat /\ op.count \in Nat /\ op.done \in Nat /\ op.addr + op.count <= Cells
      /\ op.done <= op.count /\ at \in Nat /\ left \in Nat
  BY <1>0 DEF TypeOK, InRange
<1>5. ASSUME NEW k \in 0..op.count - 1, NEW v, v \in old[op.addr + k]..mem[op.addr + k]
      PROVE  v \in old'[op'.addr + k]..mem'[op'.addr + k]
  <2>1. op.addr + k \in Cell
    BY <1>4, DebugLinkAssumption DEF Cell
  <2> QED
    BY <1>1, <1>2, <1>5, <2>1
<1>6. CASE pc = "idle" /\ Flawless
  <2>1. ReadReturnsMemory'
    BY <1>1, <1>4, <1>5, <1>6 DEF Versions, ReadReturnsMemory, ReadReturned
  <2> QED
    BY <1>1, <1>2, <1>6, <2>1 DEF Versions
<1>7. CASE pc # "idle" /\ Flawless
  <2>1. ChunkSize \in Nat \ {0} /\ op.done + ChunkSize <= op.count
    BY <1>7, ChunkFacts DEF Order
  <2>2. ReadReturnsMemory'
    BY <1>1, <1>7 DEF ReadReturnsMemory, ReadReturned
  <2>3. CASE pc \in {"send", "length"} /\ op.kind # "write8"
    <3>1. \A k \in 0..op.done - 1 : buf[k] \in old[op.addr + k]..mem[op.addr + k]
      BY <1>7, <2>3 DEF Versions, Filled, Held
    <3>2. \A k \in 0..op.done - 1 : k \in 0..op.count - 1
      BY <1>4
    <3>3. Filled(op.done)'
      BY <1>1, <1>5, <3>1, <3>2 DEF Filled, Held
    <3>4. pc = "length" => InFlight'
      <4> SUFFICES ASSUME pc = "length" PROVE InFlight'
        OBVIOUS
      <4>1. at' = op'.done
        BY <1>1, <1>7 DEF Versions, InFlight
      <4>2. CASE conn' = "up" /\ toServer' # <<>>
        BY <1>1, <1>3, <1>7, <4>1, <4>2 DEF Versions, InFlight
      <4>3. CASE conn' = "up" /\ toServer' = <<>>
        <5>1. /\ Len(toClient) = ChunkSize + 2
              /\ \A j \in 1..ChunkSize :
                     toClient[j + 2] \in old[op.addr + op.done + j - 1]..mem[op.addr + op.done + j - 1]
          BY <1>7, <4>3 DEF Versions, InFlight, Held
        <5>2. ASSUME NEW j \in 1..ChunkSize
              PROVE  toClient'[j + 2] \in old'[op'.addr + op'.done + j - 1]
                                            ..mem'[op'.addr + op'.done + j - 1]
          <6>1. op.addr + op.done + j - 1 \in Cell
            BY <1>4, <2>1, DebugLinkAssumption DEF Cell
          <6> QED
            BY <1>1, <1>2, <5>1, <6>1
        <5> QED
          BY <1>1, <1>3, <4>1, <4>3, <5>1, <5>2 DEF InFlight, Held
      <4> QED
        BY <4>1, <4>2, <4>3 DEF InFlight
    <3> QED
      BY <1>1, <1>2, <1>7, <2>2, <2>3, <3>3, <3>4 DEF Versions
  <2>4. CASE pc = "data"
    <3>1. SUFFICES ASSUME conn' = "up" PROVE Coming'
      BY <1>1, <1>2, <1>7, <2>2, <2>4 DEF Versions, Coming
    <3>2. /\ conn = "up" /\ at + left = op.done + ChunkSize
          /\ \A k \in 0..at - 1 : buf[k] \in old[op.addr + k]..mem[op.addr + k]
          /\ \A j \in 1..left : toClient[j] \in old[op.addr + at + j - 1]..mem[op.addr + at + j - 1]
      BY <1>7, <2>4, <3>1 DEF Versions, Coming, Filled, Held
    <3>3. \A k \in 0..at - 1 : k \in 0..op.count - 1
      BY <1>4, <2>1, <3>2
    <3>4. Filled(at)'
      BY <1>1, <1>5, <3>2, <3>3 DEF Filled, Held
    <3>5. ASSUME NEW j \in 1..left
          PROVE  toClient'[j] \in old'[op'.addr + at' + j - 1]..mem'[op'.addr + at' + j - 1]
      <4>1. op.addr + at + j - 1 \in Cell
        BY <1>4, <2>1, <3>2, DebugLinkAssumption DEF Cell
      <4> QED
        BY <1>1, <1>2, <3>2, <4>1
    <3> QED
      BY <1>1, <1>3, <3>2, <3>4, <3>5 DEF Coming, Held
  <2>5. CASE pc = "send" /\ op.kind = "write8"
    BY <1>1, <1>2, <1>7, <2>2, <2>5 DEF Versions
  <2> QED
    BY <1>0, <1>7, <2>3, <2>4, <2>5 DEF TypeOK, InRange
<1> QED
  BY <1>1, <1>2, <1>6, <1>7 DEF Versions, Flawless

\* A step that leaves the memory alone and is none of a read in progress.
LEMMA VersionsStop ==
    ASSUME Versions, UNCHANGED <<op, buf, old, mem>>, flaws \subseteq flaws',
           pc' = "idle", UNCHANGED <<pc, result>> \/ result' = "failed"
    PROVE  Versions'
BY DEF Versions, Flawless, ReadReturnsMemory, ReadReturned

LEMMA VersionsStep ==
    ASSUME Order, Versions, [Next]_vars
    PROVE  Versions'
<1>0. Order' /\ TypeOK /\ TypeOK' /\ InRange /\ Descriptor
  BY OrderStep DEF Order, Typed
<1>a. /\ op.addr \in Nat /\ op.count \in Nat /\ op.done \in Nat /\ op.addr + op.count <= Cells
      /\ at \in Nat /\ left \in Nat /\ toClient \in Seq(Nat) /\ Len(toClient) \in Nat
      /\ toServer \in Seq(RequestType) /\ Len(toServer) \in Nat
      /\ mem \in [Cell -> Nat] /\ old \in [Cell -> Nat]
  BY <1>0, LenProperties DEF TypeOK, InRange
<1>c. /\ op.addr \in Nat /\ op.count \in Nat /\ op.done \in Nat
      /\ op.addr + op.count <= Cells /\ at \in Nat /\ left \in Nat /\ Cells \in Nat
  BY <1>a, DebugLinkAssumption
<1>b. Flawless => Uncut
  BY DEF Flawless, Uncut
<1>1. CASE UNCHANGED vars
  <2>1. /\ UNCHANGED <<client, toClient, toServer, flaws, conn, mem>>
        /\ \A a \in Cell : mem'[a] >= mem[a]
    BY <1>a, <1>1 DEF vars, channel
  <2> QED
    BY <1>0, <2>1, VersionsGrow
<1>2. CASE Break
  <2>1. /\ UNCHANGED <<client, flaws, mem>> /\ conn' = "down"
        /\ \A a \in Cell : mem'[a] >= mem[a]
    BY <1>a, <1>2 DEF Break
  <2>2. Versions'
    BY <1>0, <2>1 DEF client, Versions, Flawless, Filled, Held, InFlight, Coming, ReadReturnsMemory,
                      ReadReturned
  <2> QED
    BY <2>2
<1>3. ASSUME NEW k \in Cell, Change(k)
      PROVE  Versions'
  <2>1. /\ UNCHANGED <<client, toClient, toServer, flaws, conn>>
        /\ \A a \in Cell : mem'[a] >= mem[a]
    BY <1>a, <1>3 DEF Change, channel
  <2> QED
    BY <1>0, <2>1, VersionsGrow
<1>4. CASE ServeWrite
  <2>1. /\ UNCHANGED <<client, toClient, flaws, conn>> /\ conn = "up"
        /\ toServer # <<>> /\ Head(toServer).write /\ toServer' = Tail(toServer)
        /\ \A a \in Cell : mem'[a] >= mem[a]
    BY <1>a, <1>4 DEF ServeWrite
  <2>2. /\ Len(toServer') = Len(toServer) - 1 /\ toServer' \in Seq(RequestType)
        /\ \A j \in 1..Len(toServer) - 1 : toServer'[j] = toServer[j + 1]
        /\ Head(toServer) = toServer[1] /\ Len(toServer) \in Nat \ {0}
    BY <1>a, <2>1, TailFacts
  <2>3. toServer' # <<>> => toServer'[Len(toServer')] = toServer[Len(toServer)]
    <3>1. toServer' # <<>> => Len(toServer') >= 1
      BY <2>2, EmptySeq
    <3>2. toServer' # <<>> => Len(toServer) - 1 \in 1..Len(toServer) - 1
      BY <2>2, <3>1
    <3> QED
      BY <2>2, <3>2
  <2>4. pc = "length" /\ Flawless => toServer' # <<>>
    <3>1. pc = "length" /\ Flawless => Asking
      BY <1>b, <2>1 DEF Order, OnTheWay, Answered
    <3>2. Asking => Len(toServer) > 1
      <4>1. 1 \in 1..Len(toServer) /\ toServer[1].write
        BY <2>1, <2>2
      <4> QED
        BY <4>1 DEF Asking
    <3>3. Asking => Len(toServer') >= 1
      BY <2>2, <3>2
    <3>4. Len(toServer') >= 1 => toServer' # <<>>
      OBVIOUS
    <3> QED
      BY <3>1, <3>3, <3>4
  <2> QED
    BY <1>0, <2>1, <2>3, <2>4, VersionsGrow
<1>5. CASE ServeRead
  <2> DEFINE r == Head(toServer)
             data == [k \in 1..r.count |-> mem[r.addr + k - 1]]
  <2>1. /\ conn = "up" /\ toServer # <<>> /\ ~r.write /\ toServer' = Tail(toServer)
        /\ toClient' = toClient \o LengthOf(r.count) \o data
        /\ UNCHANGED <<client, conn, mem, flaws>>
    BY <1>5 DEF ServeRead
  <2>2. /\ Len(toServer') = Len(toServer) - 1 /\ toServer' \in Seq(RequestType)
        /\ r = toServer[1] /\ r \in RequestType /\ Len(toServer) \in Nat \ {0}
    BY <1>a, <2>1, TailFacts
  <2>3. SUFFICES ASSUME Flawless PROVE Versions'
    BY <2>1 DEF client, Versions, Flawless
  <2>4. pc = "length" /\ Asking
    <3>1. 1 \in 1..Len(toServer) /\ ~toServer[1].write
      BY <2>1, <2>2
    <3> QED
      BY <1>0, <1>b, <2>1, <2>3, <3>1 DEF Order, OnTheWay, Answered, TypeOK
  <2>5. Len(toServer) = 1 /\ toClient = <<>>
    BY <2>1, <2>2, <2>4 DEF Asking
  <2>6. toServer' = <<>>
    <3>1. Len(toServer') = 0
      BY <2>2, <2>5
    <3> QED
      BY <2>2, <3>1, EmptySeq
  <2>7. r.addr = op.addr + op.done /\ r.count = ChunkSize /\ at = op.done
    BY <2>1, <2>2, <2>3, <2>4, <2>5 DEF Versions, InFlight
  <2>8. ChunkSize \in Nat \ {0} /\ op.done + ChunkSize <= op.count
    BY <2>4, ChunkFacts DEF Order
  <2> HIDE DEF r
  <2>9. \A k \in 1..r.count : r.addr + k - 1 \in Cell
    <3>1. r.count \in Nat /\ r.addr \in Nat /\ r.addr + r.count <= Cells
      BY <1>c, <2>7, <2>8
    <3> QED
      BY <3>1, DebugLinkAssumption DEF Cell
  <2>10. data \in Seq(Nat) /\ Len(data) = r.count
    BY <1>a, <2>7, <2>8, <2>9
  <2>11. toClient' = Response(r.count, data)
    <3>1. LengthOf(r.count) \in Seq(Nat)
      BY <2>7, <2>8 DEF LengthOf
    <3>2. toClient \o LengthOf(r.count) = LengthOf(r.count)
      BY <2>5, <3>1, ConcatEmptySeq
    <3> HIDE DEF data
    <3> QED
      BY <2>1, <3>2 DEF Response
  <2>12. Len(toClient') = r.count + 2 /\ \A j \in 1..r.count : toClient'[j + 2] = data[j]
    <3>1. r.count \in Nat
      BY <2>7, <2>8
    <3> HIDE DEF data
    <3> QED
      BY <2>10, <2>11, <3>1, ResponseFacts
  <2>13. \A j \in 1..r.count : data[j] \in old[r.addr + j - 1]..mem[r.addr + j - 1]
    <3>1. ASSUME NEW j \in 1..r.count
          PROVE  data[j] \in old[r.addr + j - 1]..mem[r.addr + j - 1]
      <4>1. data[j] = mem[r.addr + j - 1] /\ r.addr + j - 1 \in Cell
        BY <2>9
      <4> HIDE DEF data
      <4> QED
        BY <1>a, <4>1 DEF Versions
    <3> QED
      BY <3>1
  <2> HIDE DEF data
  <2>14. UNCHANGED <<pc, op, at, left, buf, old, result>> /\ ChunkSize' = ChunkSize
    BY <2>1 DEF client, ChunkSize
  <2>15. InFlight'
    BY <2>6, <2>7, <2>12, <2>13, <2>14, <2>1 DEF InFlight, Held
  <2>16. Filled(op.done) /\ Filled(op.done)' = Filled(op.done)
    BY <1>0, <2>1, <2>3, <2>4, <2>14 DEF Versions, InRange, Filled, Held
  <2> QED
    BY <2>1, <2>3, <2>4, <2>14, <2>15, <2>16
       DEF Versions, Flawless, ReadReturnsMemory, ReadReturned
<1>6. CASE ServeNothing \/ RecvHalfLength
  <2>1. flaws' # {} /\ UNCHANGED <<old, mem>>
    BY <1>6 DEF ServeNothing, RecvHalfLength, client
  <2> QED
    BY <2>1 DEF Versions, Flawless
<1>7. CASE Connect \/ ConnectFails \/ Deinit
  <2>1. pc' = "idle" /\ UNCHANGED <<op, buf, old, mem, flaws, pc, result>>
    BY <1>0, <1>7 DEF Connect, ConnectFails, Deinit, Descriptor
  <2> QED
    BY <2>1, VersionsStop
<1>8. CASE SendFails \/ RecvFails
  <2>1. pc' = "idle" /\ UNCHANGED <<op, buf, old, mem, flaws>> /\ result' = "failed"
    BY <1>8 DEF SendFails, RecvFails, Fail
  <2> QED
    BY <2>1, VersionsStop
<1>9. CASE SendKills
  <2>1. UNCHANGED <<sock, op, pc, left, at, buf, result, old, conn, toServer, toClient, mem, flaws>>
    BY <1>9 DEF SendKills, channel
  <2> QED
    BY <2>1 DEF Versions, Flawless, Filled, Held, InFlight, Coming, ChunkSize, ReadReturnsMemory,
                ReadReturned
<1>10. ASSUME NEW kind \in Kinds, NEW addr \in Cell, NEW count \in 0..Cells,
              Call(kind, addr, count)
       PROVE  Versions'
  <2>1. /\ old' = mem /\ UNCHANGED mem /\ op'.count = count /\ op'.done = 0
        /\ \/ count > 0 /\ pc' = "send" /\ result' = "none"
           \/ count = 0 /\ pc' = "idle"
    BY <1>10 DEF Call
  <2>2. Filled(op.done)' /\ ReadReturnsMemory'
    BY <2>1 DEF Filled, ReadReturnsMemory, ReadReturned
  <2> QED
    BY <1>a, <2>1, <2>2 DEF Versions
<1>11. CASE Send
  <2>1. /\ app = "running" /\ pc = "send" /\ at' = op.done
        /\ toServer' = IF conn = "up" THEN Append(toServer, Request) ELSE toServer
        /\ \/ op.kind = "write8" /\ Done(ChunkSize)
           \/ op.kind # "write8" /\ pc' = "length" /\ UNCHANGED <<op, result>>
        /\ UNCHANGED <<left, buf, old, conn, toClient, mem, flaws>>
    BY <1>11 DEF Send
  <2>2. CASE op.kind = "write8"
    <3>1. op'.kind = "write8" /\ pc' \in {"idle", "send"}
      BY <2>1, <2>2, DoneFacts DEF Order
    <3>2. ReadReturnsMemory'
      BY <3>1 DEF ReadReturnsMemory, ReadReturned
    <3> QED
      BY <2>1, <3>1, <3>2 DEF Versions, Flawless
  <2>3. CASE op.kind # "write8"
    <3>1. UNCHANGED <<op, buf, old, mem>> /\ ChunkSize' = ChunkSize /\ pc' = "length"
      BY <2>1, <2>3 DEF ChunkSize
    <3>2. ReadReturnsMemory'
      BY <3>1 DEF ReadReturnsMemory, ReadReturned
    <3>3. Flawless => Filled(op.done)
      BY <2>1, <2>3 DEF Versions
    <3>4. Filled(op.done)' <=> Filled(op.done)
      BY <3>1 DEF Filled, Held
    <3>5. conn = "up" => /\ toServer' # <<>>
                         /\ toServer'[Len(toServer')] = Request
      <4>1. Request \in RequestType
        BY <2>1, ChunkFacts DEF Order
      <4>2. conn = "up" => /\ Len(toServer') = Len(toServer) + 1
                           /\ toServer'[Len(toServer) + 1] = Request
        BY <1>a, <2>1, <4>1, AppendFacts
      <4>3. Len(toServer) + 1 > 0
        BY <1>a
      <4> QED
        BY <4>2, <4>3
    <3>6. Request.addr = op.addr + op.done /\ Request.count = ChunkSize
      BY <2>1, ChunkFacts DEF Order
    <3>7. InFlight'
      BY <2>1, <3>1, <3>5, <3>6 DEF InFlight
    <3> QED
      BY <2>1, <3>1, <3>2, <3>3, <3>4, <3>7 DEF Versions, Flawless
  <2> QED
    BY <2>2, <2>3
<1>12. CASE RecvLength
  <2>1. /\ app = "running" /\ pc = "length" /\ conn = "up" /\ Len(toClient) >= 2
        /\ left' = toClient[1] + 256 * toClient[2]
        /\ toClient' = SubSeq(toClient, 3, Len(toClient))
        /\ IF left' > 0 THEN pc' = "data" /\ UNCHANGED <<op, result>> ELSE Done(ChunkSize)
        /\ UNCHANGED <<at, buf, old, conn, toServer, mem, flaws>>
    BY <1>12 DEF RecvLength
  <2>2. SUFFICES ASSUME Flawless PROVE Versions'
    BY <2>1 DEF Versions, Flawless
  <2>3. toServer = <<>> /\ toClient[1] = Len(toClient) - 2 /\ toClient[2] = 0
    <3>1. toClient # <<>>
      BY <2>1
    <3> QED
      BY <1>b, <2>1, <2>2, <3>1 DEF Order, OnTheWay, Asking, Answered
  <2>4. InFlight /\ Filled(op.done)
    BY <1>0, <2>1, <2>2 DEF Versions, InRange
  <2>5. /\ at = op.done /\ Len(toClient) = ChunkSize + 2
        /\ \A j \in 1..ChunkSize : toClient[j + 2] \in Held(op.addr + op.done + j - 1)
    BY <2>1, <2>3, <2>4 DEF InFlight
  <2>6. ChunkSize \in Nat \ {0}
    BY <2>1, ChunkFacts DEF Order
  <2>7. left' = ChunkSize /\ left' > 0
    BY <2>1, <2>3, <2>5, <2>6
  <2>8. pc' = "data" /\ UNCHANGED <<op, result>> /\ ChunkSize' = ChunkSize
    BY <2>1, <2>7 DEF ChunkSize
  <2>9. \A j \in 1..ChunkSize : toClient'[j] = toClient[j + 2]
    <3>1. 3 \in Nat \ {0} /\ 3 <= Len(toClient) + 1 /\ Len(toClient) - 3 + 1 = ChunkSize
      BY <2>5, <2>6
    <3>2. \A j \in 1..Len(toClient) - 3 + 1 :
              SubSeq(toClient, 3, Len(toClient))[j] = toClient[3 + j - 1]
      BY <1>a, <3>1, DropFacts
    <3>3. \A j \in 1..ChunkSize : 3 + j - 1 = j + 2
      BY <2>6
    <3> QED
      BY <2>1, <3>1, <3>2, <3>3
  <2>10. Filled(at)' <=> Filled(op.done)
    BY <2>1, <2>5, <2>8 DEF Filled, Held
  <2>11. \A j \in 1..left' : toClient'[j] \in Held(op.addr + at + j - 1)
    BY <2>5, <2>7, <2>9
  <2>12. Coming'
    <3>1. at' + left' = op'.done + ChunkSize'
      BY <2>1, <2>5, <2>7, <2>8
    <3>2. \A j \in 1..left' : toClient'[j] \in Held(op.addr + at + j - 1)'
      BY <2>1, <2>8, <2>11 DEF Held
    <3> QED
      BY <2>4, <2>10, <3>1, <3>2 DEF Coming
  <2> QED
    BY <2>1, <2>8, <2>12 DEF Versions, ReadReturnsMemory, ReadReturned
<1>13. ASSUME NEW n \in 1..Cells, RecvData(n)
       PROVE  Versions'
  <2>1. /\ app = "running" /\ pc = "data" /\ conn = "up" /\ n \in 1..left /\ n <= Len(toClient)
        /\ buf' = [k \in Cell |-> IF k \in at..at + n - 1 THEN toClient[k - at + 1] ELSE buf[k]]
        /\ toClient' = SubSeq(toClient, n + 1, Len(toClient))
        /\ at' = at + n /\ left' = left - n
        /\ IF left' > 0 THEN UNCHANGED <<pc, op, result>> ELSE Done(ChunkSize)
        /\ UNCHANGED <<old, conn, toServer, mem, flaws>>
    BY <1>13 DEF RecvData
  <2>2. SUFFICES ASSUME Flawless PROVE Versions'
    BY <2>1 DEF Versions, Flawless
  <2>3. Coming
    BY <2>1, <2>2 DEF Versions
  <2>4. /\ at + left = op.done + ChunkSize
        /\ \A k \in 0..at - 1 : buf[k] \in Held(op.addr + k)
        /\ \A j \in 1..left : toClient[j] \in Held(op.addr + at + j - 1)
    BY <2>1, <2>3 DEF Coming, Filled
  <2>5. ChunkSize \in Nat \ {0} /\ op.done + ChunkSize <= op.count
    BY <2>1, ChunkFacts DEF Order
  <2>6. ASSUME NEW k \in 0..at + n - 1
        PROVE  buf'[k] \in Held(op.addr + k)
    <3>1. k \in Cell
      <4>1. at + n <= op.done + ChunkSize
        <5>1. n <= left /\ n \in Nat
          BY <1>c, <2>1
        <5> QED
          BY <1>c, <2>4, <2>5, <5>1
      <4>2. at + n <= Cells
        BY <1>c, <2>1, <2>5, <4>1
      <4> QED
        BY <1>c, <4>2, DebugLinkAssumption DEF Cell
    <3>2. CASE k \in at..at + n - 1
      <4>1. k - at + 1 \in 1..left /\ op.addr + at + (k - at + 1) - 1 = op.addr + k
        BY <1>a, <2>1, <3>2
      <4>2. toClient[k - at + 1] \in Held(op.addr + k)
        BY <2>4, <4>1
      <4> QED
        BY <2>1, <3>1, <3>2, <4>2
    <3>3. CASE k \notin at..at + n - 1
      <4>1. k \in 0..at - 1
        BY <1>a, <2>1, <3>3
      <4> QED
        BY <2>1, <2>4, <3>1, <3>3, <4>1
    <3> QED
      BY <3>2, <3>3
  <2>7. op'.addr = op.addr /\ op'.count = op.count /\ op'.kind = op.kind
    BY <2>1, DoneFacts DEF Order
  <2>8. Filled(at)'
    <3>1. ASSUME NEW k \in 0..at' - 1
          PROVE  buf'[k] \in old'[op'.addr + k]..mem'[op'.addr + k]
      <4>1. k \in 0..at + n - 1
        <5>1. at' = at + n
          BY <2>1
        <5> QED
          BY <1>c, <3>1, <5>1
      <4> QED
        BY <2>1, <2>6, <2>7, <4>1 DEF Held
    <3> QED
      BY <3>1 DEF Filled, Held
  <2>9. CASE left' > 0
    <3>1. UNCHANGED <<pc, op, result>> /\ ChunkSize' = ChunkSize
      BY <2>1, <2>9 DEF ChunkSize
    <3>2. ASSUME NEW j \in 1..left'
          PROVE  toClient'[j] \in Held(op.addr + at' + j - 1)
      <4>1. n + 1 \in Nat \ {0} /\ n + 1 <= Len(toClient) + 1
        BY <1>a, <2>1
      <4>2. \A i \in 1..Len(toClient) - (n + 1) + 1 :
                SubSeq(toClient, n + 1, Len(toClient))[i] = toClient[n + 1 + i - 1]
        BY <1>a, <4>1, DropFacts
      <4>3. Len(toClient) = left
        BY <1>b, <2>1, <2>2 DEF Order, OnTheWay
      <4>4. /\ j \in 1..Len(toClient) - (n + 1) + 1 /\ n + 1 + j - 1 \in 1..left
            /\ op.addr + at + (n + 1 + j - 1) - 1 = op.addr + at' + j - 1
        BY <1>a, <2>1, <4>3
      <4>5. toClient'[j] = toClient[n + 1 + j - 1]
        BY <2>1, <4>2, <4>4
      <4> QED
        BY <2>4, <4>4, <4>5
    <3>3. Coming'
      <4>1. at' + left' = op'.done + ChunkSize'
        BY <1>a, <2>1, <2>4, <3>1
      <4> QED
        BY <2>1, <2>8, <3>1, <3>2, <4>1 DEF Coming, Held
    <3> QED
      BY <2>1, <3>1, <3>3 DEF Versions, ReadReturnsMemory, ReadReturned
  <2>10. CASE ~(left' > 0)
    <3>1. Done(ChunkSize) /\ left' = 0 /\ at' = op.done + ChunkSize
      <4>1. left' = left - n /\ n <= left /\ n \in Nat /\ ~(left' > 0)
        BY <1>c, <2>1, <2>10
      <4>2. left' = 0 /\ n = left
        BY <1>c, <4>1
      <4> QED
        BY <2>1, <2>4, <2>10, <4>2
    <3>2. /\ op'.done = at' /\ op'.done <= op'.count
          /\ \/ pc' = "send" /\ result' = "none"
             \/ pc' = "idle" /\ result' = "ok" /\ op'.done = op'.count
      BY <2>1, <3>1, DoneFacts DEF Order
    <3>3. Filled(op.done)'
      BY <2>8, <3>2 DEF Filled
    <3>4. ReadReturnsMemory'
      BY <3>2, <3>3 DEF ReadReturnsMemory, ReadReturned, Filled, Held
    <3> QED
      BY <2>1, <3>2, <3>3, <3>4 DEF Versions
  <2> QED
    BY <2>9, <2>10
<1> QED
  BY <1>1, <1>2, <1>3, <1>4, <1>5, <1>6, <1>7, <1>8, <1>9, <1>10, <1>11, <1>12, <1>13
     DEF Next, Tool, Transfer, Server

\* dbg_host_read32 and read8: a read that returns 0 has brought memory of
\* the board, unless the server answered short or a length was cut.
THEOREM ReadsBringMemory == Spec => []ReadsFailByTwoFlaws
<1>1. Versions => ReadsFailByTwoFlaws
  BY DEF Versions, Flawless, ReadsFailByTwoFlaws
<1> QED
  BY <1>1, OrderInvariant, VersionsInit, VersionsStep, PTL DEF Spec
\* net_* and dbg_*: every variable holds a value of its kind, and a call never
\* reaches beyond the range it was given, even with cut lengths and short answers.
THEOREM TypesKept == Spec => []TypeOK
<1>1. Typed /\ [Next]_vars => Typed'
  BY TypedStep
<1>2. Typed => TypeOK
  BY DEF Typed
<1> QED
  BY <1>1, <1>2, TypedInit, PTL DEF Spec
=============================================================================
