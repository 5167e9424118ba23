--------------------------- MODULE RpcConn_proofs ---------------------------
(***************************************************************************)
(* Proofs about one connection: for any threads, any calls and any number  *)
(* of them, the variables keep their types and nobody reads an item that   *)
(* is not the one it expects.  The two cannot be proved apart: an id is an *)
(* integer only because the reader thread is at the start of a frame.      *)
(***************************************************************************)
EXTENDS RpcConn, TLAPS

\* The places where a thread holds read_mutex.
ReadCS == {"recv", "op", "flag", "args", "rend"}

\* A thread holds the mutex that its place in the program says it holds.
LockInv ==
  \A t \in Threads :
    /\ pc[t] \in ReadCS => readOwner[End(t)] = t
    /\ pc[t] = "wbuild" => writeOwner[End(t)] = t

\* The ids a process uses for its requests, and those it uses for responses.
RequestId(e, id) == id \in Nat /\ id >= 2 /\ id % 2 = Parity(Peer(e))
ResponseId(e, id) == id \in Nat /\ id >= 2 /\ id % 2 = Parity(e)

\* The header under construction belongs to the thread that builds it.
BuildInv ==
  /\ \A e \in Ends :
       /\ request_id[e] % 2 = Parity(Peer(e))
       /\ write_id[e] % 2 = Parity(e) => write_id[e] <= rid[Dispatcher(e)]
  /\ \A t \in Callers :
       /\ pc[t] = "wbuild" => /\ RequestId(End(t), write_id[End(t)])
                              /\ write_id[End(t)] = request_id[End(t)]
                              /\ write_op[End(t)] \in Ops
                              /\ (End(t) = "server") <=>
                                   (write_op[End(t)] = "hostFunc")
       /\ pc[t] = "wret" => write_id[End(t)] >= 2
       /\ pc[t] \in {"rlock", "wait", "args", "rend"} =>
            /\ rid[t] >= 2
            /\ rid[t] % 2 = Parity(End(t)) => rid[t] <= rid[Dispatcher(End(t))]
  /\ \A d \in Dispatchers :
       /\ pc[d] \in {"exec", "wlock", "wbuild"} => ResponseId(End(d), rid[d])
       /\ pc[d] = "wbuild" => /\ write_id[End(d)] = rid[d]
                              /\ write_op[End(d)] = Reply

\* What holds of every frame f on its way to process e, or partly read there.
FrameInv(e, f) ==
  /\ f.op = Reply => RequestId(e, f.id)
  /\ f.op # Reply =>
       /\ RequestId(Peer(e), f.id)
       /\ (e = "client") <=> (f.op = "hostFunc")
       /\ f.id <= request_id[Peer(e)]
       /\ f.id > rid[Dispatcher(e)]
       /\ pc[Dispatcher(e)] = "rend" => f.id > read_id[e]
       /\ \A t \in Callers : End(t) = Peer(e) /\ pc[t] = "wbuild" =>
                              f.id < request_id[Peer(e)]

\* Requests reach a process in the order of their ids, which the ids of
\* responses cannot be mistaken for.
Ordered(e) ==
  \A i, j \in 1 .. Len(wire[e]) :
    i < j /\ wire[e][i].op # Reply /\ wire[e][j].op # Reply =>
      wire[e][i].id < wire[e][j].id
OrderInv ==
  \A e \in Ends :
    /\ \A i \in 1 .. Len(wire[e]) : FrameInv(e, wire[e][i])
    /\ Ordered(e)

\* A process has taken no request that its peer has not numbered yet.
TakenInv ==
  \A e \in Ends :
    LET taken == IF pc[Dispatcher(e)] = "rend"
                 THEN read_id[e] ELSE rid[Dispatcher(e)]
    IN  /\ taken <= request_id[Peer(e)]
        /\ \A t \in Callers : End(t) = Peer(e) /\ pc[t] = "wbuild" =>
                               taken < request_id[Peer(e)]

\* The frame whose id is published has not been read any further.
Fresh(e) ==
  /\ wire[e] # <<>>
  /\ wire[e][1].id = read_id[e]
  /\ at[e] = IF wire[e][1].op = Reply THEN "body" ELSE "op"

\* The position in the stream to process e is the one that the holder of
\* read_mutex relies on.
StreamAt(e) ==
  /\ read_id[e] = 0 => at[e] = "id"
  /\ \/ read_id[e] = 0
     \/ Fresh(e)
     \/ /\ readOwner[e] \in Threads
        /\ End(readOwner[e]) = e
        /\ pc[readOwner[e]] \in {"flag", "args", "rend"}
  /\ \A t \in Threads : End(t) = e =>
       /\ pc[t] \in {"recv", "exit"} => read_id[e] = 0
       /\ pc[t] = "op" => Fresh(e) /\ wire[e][1].op # Reply
       /\ pc[t] \in {"flag", "args"} =>
            /\ wire[e] # <<>>
            /\ wire[e][1].id = read_id[e]
            /\ (wire[e][1].op = Reply) <=> (t \in Callers)
            /\ at[e] = "body"
       /\ pc[t] = "rend" => at[e] = "id" /\ read_id[e] >= 2
       /\ t \in Dispatchers =>
            /\ pc[t] \in {"op", "flag", "args", "rend"} => ResponseId(e, read_id[e])
            /\ pc[t] = "rend" => read_id[e] > rid[t]
StreamInv == \A e \in Ends : StreamAt(e)

\* The inductive invariant: the types and the alignment of the streams need the
\* locks, the ids and the order of the frames.
IInv == TypeOK /\ LockInv /\ BuildInv /\ OrderInv /\ TakenInv /\ StreamInv

-----------------------------------------------------------------------------
\* Each process has one peer, one reader thread and one dispatcher, and a
\* request id of one process is never of the parity the other uses.
LEMMA EndFacts ==
  /\ \A t \in Threads : End(t) \in Ends
  /\ \A e \in Ends : /\ Peer(e) \in Ends
                     /\ Peer(e) # e
                     /\ Peer(Peer(e)) = e
                     /\ Reader(e) \in Readers
                     /\ Dispatcher(e) \in Dispatchers
                     /\ End(Reader(e)) = e
                     /\ End(Dispatcher(e)) = e
                     /\ Parity(e) \in {0, 1}
                     /\ Parity(Peer(e)) # Parity(e)
  /\ \A r \in Readers : r = Reader(End(r))
  /\ \A d \in Dispatchers : d = Dispatcher(End(d))
  BY CallersAssumption DEF Threads, Callers, Readers, Dispatchers, End, Ends,
     Peer, Reader, Dispatcher, Parity

\* A thread is of one kind.
LEMMA ThreadKinds ==
  /\ Callers \intersect Readers = {}
  /\ Callers \intersect Dispatchers = {}
  /\ Readers \intersect Dispatchers = {}
  /\ NoThread \notin Threads
  /\ Threads = Callers \union Readers \union Dispatchers
  BY CallersAssumption DEF Threads, Callers, Readers, Dispatchers, NoThread

\* What rpc_read returns, by the position in the first frame.
LEMMA ItemFacts ==
  ASSUME TypeOK, NEW e \in Ends, wire[e] # <<>>
  PROVE  /\ Len(wire[e]) >= 1
         /\ Head(wire[e]) = wire[e][1]
         /\ wire[e][1] \in Frame
         /\ at[e] = "id" => Item(e) = wire[e][1].id
         /\ at[e] = "op" => Item(e) = wire[e][1].op
         /\ at[e] = "body" => Item(e) = wire[e][1].body
         /\ Tail(wire[e]) \in Seq(Frame)
  <1>1. wire[e] \in Seq(Frame)  BY DEF TypeOK, DataOK
  <1>2. QED  BY <1>1 DEF Item

\* rpc_read moves within the first frame and drops it after the payload, and
\* leaves the stream to the other process alone.
LEMMA AdvanceFacts ==
  ASSUME TypeOK, NEW e \in Ends, wire[e] # <<>>, Advance(e)
  PROVE  /\ wire' \in [Ends -> Seq(Frame)]
         /\ at' \in [Ends -> {"id", "op", "body"}]
         /\ \A o \in Ends \ {e} : wire'[o] = wire[o] /\ at'[o] = at[o]
         /\ at[e] = "id" => /\ wire'[e] = wire[e]
                            /\ at'[e] = IF wire[e][1].op = Reply
                                        THEN "body" ELSE "op"
         /\ at[e] = "op" => wire'[e] = wire[e] /\ at'[e] = "body"
         /\ at[e] = "body" => wire'[e] = Tail(wire[e]) /\ at'[e] = "id"
  BY ItemFacts DEF Advance, TypeOK, DataOK

\* The connection starts well-typed.
LEMMA InitTypeOK == Init => TypeOK
  <1> SUFFICES ASSUME Init PROVE TypeOK
    OBVIOUS
  <1> USE EndFacts, ThreadKinds
  <1>1. NoCall \in Call
    BY DEF NoCall, Call
  <1>2. \A t \in Threads : pc[t] \in Places(t)
    BY DEF Init, Places, CallerPC, ReaderPC, DispatcherPC, Callers
  <1>3. pc \in [Threads -> PCs]
    BY <1>2 DEF Init, Places, PCs
  <1>4. DataOK
    <2>1. /\ wire \in [Ends -> Seq(Frame)]
          /\ sent \in [Ends -> Seq(Call)]
          /\ executed \in [Ends -> Seq(Call)]
      BY DEF Init
    <2>2. /\ call \in [Callers -> Call]
          /\ arg \in [Callers \union Dispatchers -> Call]
      BY <1>1 DEF Init
    <2>3. /\ request_id \in [Ends -> Nat]
          /\ readOwner \in [Ends -> Threads \union {NoThread}]
          /\ writeOwner \in [Ends -> Threads \union {NoThread}]
          /\ results \subseteq Call \X Call
      BY DEF Init
    <2>4. QED
      BY <2>1, <2>2, <2>3 DEF Init, DataOK
  <1>5. QED
    BY <1>2, <1>3, <1>4 DEF TypeOK, PcOK

\* One thread moves to a place of its own program.
LEMMA PcMove ==
  ASSUME PcOK, NEW t \in Threads, NEW l \in Places(t), pc' = [pc EXCEPT ![t] = l]
  PROVE  PcOK'
  BY DEF PcOK, Places, PCs

\* One thread moves and wakes those that wait: all stay in their programs.
LEMMA PcBroadcast ==
  ASSUME PcOK, NEW e \in Ends, NEW t \in Threads, NEW l \in Places(t),
         pc' = [Broadcast(e) EXCEPT ![t] = l]
  PROVE  PcOK'
  BY ThreadKinds DEF PcOK, Places, PCs, Broadcast, CallerPC, ReaderPC,
     DispatcherPC

\* Every step keeps the types.  The steps that read need StreamInv: an item is
\* of the type its reader expects because of the position in the frame.
LEMMA NextTypeOK ==
  ASSUME TypeOK, StreamInv, [Next]_vars
  PROVE  TypeOK'
  <1> USE EndFacts, ThreadKinds DEF TypeOK, At
  <1>1. ASSUME NEW t \in Threads, StartRequest(t) PROVE TypeOK'
    <2>1. PcOK'
      BY <1>1, PcMove DEF StartRequest, Places, CallerPC, ReaderPC, DispatcherPC
    <2>2. DataOK'
      <3>1. PICK o \in Ops :
              /\ call' = [call EXCEPT ![t] = [by |-> t, n |-> @.n + 1, op |-> o]]
              /\ write_op' = [write_op EXCEPT ![End(t)] = o]
        BY <1>1, OpsAssumption DEF StartRequest, Ops
      <3>2. call' \in [Callers -> Call]
        BY <1>1, <3>1 DEF StartRequest, Call, DataOK
      <3>3. write_op' \in [Ends -> Ops \union {Reply}]
        BY <3>1 DEF DataOK
      <3>4. QED
        BY <1>1, <3>2, <3>3 DEF StartRequest, stream, history, DataOK
    <2>3. QED  BY <2>1, <2>2 DEF TypeOK
  <1>2. ASSUME NEW t \in Threads, StartResponse(t) PROVE TypeOK'
    <2>1. PcOK'
      BY <1>2, PcMove DEF StartResponse, Places, CallerPC, ReaderPC,
         DispatcherPC
    <2>2. DataOK'
      BY <1>2 DEF StartResponse, stream, conn, local, history, DataOK
    <2>3. QED  BY <2>1, <2>2 DEF TypeOK
  <1>3. ASSUME NEW t \in Threads, WriteEndSuppressed(t) PROVE TypeOK'
    <2>1. PcOK'
      BY <1>3, PcMove DEF WriteEndSuppressed, AfterWrite, Places, CallerPC,
         ReaderPC, DispatcherPC
    <2>2. DataOK'
      BY <1>3 DEF WriteEndSuppressed, stream, conn, local, history, DataOK
    <2>3. QED  BY <2>1, <2>2 DEF TypeOK
  <1>4. ASSUME NEW t \in Threads, WriteEndSend(t) PROVE TypeOK'
    <2>1. PcOK'
      BY <1>4, PcMove DEF WriteEndSend, AfterWrite, Places, CallerPC, ReaderPC,
         DispatcherPC
    <2>2. DataOK'
      <3> DEFINE f == [id |-> write_id[End(t)], op |-> write_op[End(t)],
                       body |-> Payload(t)]
      <3>1. t \in Callers \union Dispatchers
        BY <1>4 DEF WriteEndSend
      <3>2. f \in Frame
        BY <3>1 DEF Payload, Frame, DataOK
      <3>3. wire' \in [Ends -> Seq(Frame)]
        <4> HIDE DEF f
        <4>1. wire' = [wire EXCEPT ![Peer(End(t))] = Append(@, f)]
          BY <1>4 DEF WriteEndSend, f
        <4>2. QED  BY <3>2, <4>1 DEF DataOK
      <3>4. sent' \in [Ends -> Seq(Call)]
        BY <1>4, <3>1 DEF WriteEndSend, DataOK
      <3>5. QED
        BY <1>4, <3>3, <3>4 DEF WriteEndSend, local, DataOK
    <2>3. QED  BY <2>1, <2>2 DEF TypeOK
  <1>5. ASSUME NEW t \in Threads, WriteEndBroken(t) PROVE TypeOK'
    <2>1. PcOK'  BY <1>5 DEF WriteEndBroken, PcOK
    <2>2. DataOK'
      BY <1>5 DEF WriteEndBroken, stream, conn, local, history, DataOK
    <2>3. QED  BY <2>1, <2>2 DEF TypeOK
  <1>5e. ASSUME NEW t \in Threads, WriteEndError(t) PROVE TypeOK'
    <2>1. PcOK'
      BY <1>5e, PcMove DEF WriteEndError, AfterError, Callers,
         Dispatchers, End, Places, CallerPC, ReaderPC,
         DispatcherPC
    <2>2. DataOK'
      BY <1>5e DEF WriteEndError, AfterError, stream, conn, local, history, DataOK
    <2>3. QED  BY <2>1, <2>2 DEF TypeOK
  <1>6. ASSUME NEW t \in Threads, WriteEndReturn(t) PROVE TypeOK'
    <2>1. PcOK'
      BY <1>6, PcMove DEF WriteEndReturn, Places, CallerPC, ReaderPC,
         DispatcherPC
    <2>2. DataOK'
      BY <1>6 DEF WriteEndReturn, stream, conn, local, history, DataOK
    <2>3. QED  BY <2>1, <2>2 DEF TypeOK
  <1>7. ASSUME NEW t \in Threads, AbandonRequest(t) PROVE TypeOK'
    <2>1. PcOK'
      BY <1>7, PcMove DEF AbandonRequest, Callers, Places, CallerPC, ReaderPC,
         DispatcherPC
    <2>2. DataOK'
      BY <1>7 DEF AbandonRequest, stream, conn, local, history, DataOK
    <2>3. QED  BY <2>1, <2>2 DEF TypeOK
  <1>8. ASSUME NEW t \in Threads, ReadLock(t) PROVE TypeOK'
    <2>1. PcOK'
      BY <1>8, PcMove DEF ReadLock, OnTurn, Places, CallerPC, ReaderPC,
         DispatcherPC
    <2>2. DataOK'
      BY <1>8 DEF ReadLock, stream, conn, local, history, DataOK
    <2>3. QED  BY <2>1, <2>2 DEF TypeOK
  <1>9. ASSUME NEW t \in Threads, ReadWait(t) PROVE TypeOK'
    <2>1. PcOK'
      BY <1>9, PcMove DEF ReadWait, Places, CallerPC, ReaderPC, DispatcherPC
    <2>2. DataOK'
      BY <1>9 DEF ReadWait, stream, conn, local, history, DataOK
    <2>3. QED  BY <2>1, <2>2 DEF TypeOK
  <1>10. ASSUME NEW t \in Threads, ReaderRecv(t) PROVE TypeOK'
    <2>1. PcOK'
      BY <1>10, PcBroadcast DEF ReaderRecv, Places, CallerPC, ReaderPC,
         DispatcherPC
    <2>2. DataOK'
      <3>1. End(t) \in Ends /\ wire[End(t)] # <<>> /\ at[End(t)] = "id"
        BY <1>10 DEF ReaderRecv, Readable, StreamInv, StreamAt
      <3>2. Item(End(t)) \in Nat
        BY <3>1, ItemFacts DEF Frame
      <3>3. wire' \in [Ends -> Seq(Frame)] /\ at' \in [Ends -> {"id", "op", "body"}]
        BY <1>10, <3>1, AdvanceFacts DEF ReaderRecv
      <3>4. QED
        BY <1>10, <3>1, <3>2, <3>3 DEF ReaderRecv, local, history, DataOK
    <2>3. QED  BY <2>1, <2>2 DEF TypeOK
  <1>11. ASSUME NEW t \in Threads, ReaderEOF(t) PROVE TypeOK'
    <2>1. PcOK'
      BY <1>11, PcMove DEF ReaderEOF, Places, CallerPC, ReaderPC, DispatcherPC
    <2>2. DataOK'
      BY <1>11 DEF ReaderEOF, stream, conn, local, history, DataOK
    <2>3. QED  BY <2>1, <2>2 DEF TypeOK
  <1>12. ASSUME NEW t \in Threads, ReaderExit(t) PROVE TypeOK'
    <2>1. PcOK'
      BY <1>12, PcMove DEF ReaderExit, Places, CallerPC, ReaderPC, DispatcherPC
    <2>2. DataOK'
      BY <1>12 DEF ReaderExit, stream, conn, local, history, DataOK
    <2>3. QED  BY <2>1, <2>2 DEF TypeOK
  <1>13. ASSUME NEW t \in Threads, ReadArgs(t) PROVE TypeOK'
    <2>1. PcOK'
      BY <1>13, PcMove DEF ReadArgs, Places, CallerPC, ReaderPC, DispatcherPC
    <2>2. DataOK'
      <3>1. End(t) \in Ends /\ wire[End(t)] # <<>> /\ at[End(t)] = "body"
        BY <1>13 DEF ReadArgs, Readable, StreamInv, StreamAt, Fresh
      <3>2. Item(End(t)) \in Call
        BY <3>1, ItemFacts DEF Frame
      <3>3. wire' \in [Ends -> Seq(Frame)] /\ at' \in [Ends -> {"id", "op", "body"}]
        BY <1>13, <3>1, AdvanceFacts DEF ReadArgs
      <3>4. QED
        BY <1>13, <3>1, <3>2, <3>3 DEF ReadArgs, conn, history, DataOK
    <2>3. QED  BY <2>1, <2>2 DEF TypeOK
  <1>14. ASSUME NEW t \in Threads, ReadEnd(t) PROVE TypeOK'
    <2>1. PcOK'
      BY <1>14, PcBroadcast DEF ReadEnd, Callers, Places, CallerPC, ReaderPC,
         DispatcherPC
    <2>2. DataOK'
      BY <1>14 DEF ReadEnd, stream, conn, local, history, DataOK
    <2>3. QED  BY <2>1, <2>2 DEF TypeOK
  <1>15. ASSUME NEW t \in Threads, DispatchSpawn(t) PROVE TypeOK'
    <2>1. PcOK'
      BY <1>15 DEF DispatchSpawn, Places, CallerPC, ReaderPC, DispatcherPC,
         PcOK, PCs
    <2>2. DataOK'
      BY <1>15 DEF DispatchSpawn, stream, conn, local, history, DataOK
    <2>3. QED  BY <2>1, <2>2 DEF TypeOK
  <1>16. ASSUME NEW t \in Threads, DispatchOp(t) PROVE TypeOK'
    <2>1. PcOK'
      BY <1>16, PcMove DEF DispatchOp, Places, CallerPC, ReaderPC, DispatcherPC
    <2>2. DataOK'
      <3>1. End(t) \in Ends /\ wire[End(t)] # <<>> /\ at[End(t)] = "op"
        BY <1>16 DEF DispatchOp, Readable, StreamInv, StreamAt, Fresh
      <3>2. Item(End(t)) \in Ops \union {Reply}
        BY <3>1, ItemFacts DEF Frame
      <3>3. wire' \in [Ends -> Seq(Frame)] /\ at' \in [Ends -> {"id", "op", "body"}]
        BY <1>16, <3>1, AdvanceFacts DEF DispatchOp
      <3>4. QED
        BY <1>16, <3>1, <3>2, <3>3 DEF DispatchOp, conn, history, DataOK
    <2>3. QED  BY <2>1, <2>2 DEF TypeOK
  <1>17. ASSUME NEW t \in Threads, SetSuppress(t) PROVE TypeOK'
    <2>1. PcOK'
      BY <1>17, PcMove DEF SetSuppress, Dispatchers, Places, CallerPC, ReaderPC,
         DispatcherPC
    <2>2. DataOK'
      <3>1. (op[t] \in Async) \in BOOLEAN
        OBVIOUS
      <3>2. suppress_response' \in [Ends -> BOOLEAN]
        BY <1>17, <3>1 DEF SetSuppress, DataOK
      <3>3. QED
        BY <1>17, <3>2 DEF SetSuppress, stream, local, history, DataOK
    <2>3. QED  BY <2>1, <2>2 DEF TypeOK
  <1>18. ASSUME NEW t \in Threads, Execute(t) PROVE TypeOK'
    <2>1. PcOK'
      <3>1. t \in Dispatchers
        BY <1>18 DEF Execute, Dispatchers
      <3>2. CASE \E l \in {"wlock", "spawn"} : pc' = [pc EXCEPT ![t] = l]
        BY <3>1, <3>2, PcMove DEF Places, DispatcherPC
      <3>3. CASE \E c \in Callbacks :
                   pc' = [pc EXCEPT ![t] = "wlock", ![c] = "ready"]
        BY <3>1, <3>3 DEF PcOK, PCs, Places, CallerPC, DispatcherPC, Callers
      <3>4. QED
        BY <1>18, <3>2, <3>3 DEF Execute
    <2>2. DataOK'
      <3>1. t \in Dispatchers
        BY <1>18 DEF Execute, Dispatchers
      <3>2. executed' \in [Ends -> Seq(Call)]
        BY <1>18, <3>1 DEF Execute, DataOK
      <3>3. QED
        BY <1>18, <3>2 DEF Execute, stream, conn, local, DataOK
    <2>3. QED  BY <2>1, <2>2 DEF TypeOK
  <1>19. ASSUME NEW t \in Threads, InvokeHostFunc(t) PROVE TypeOK'
    <2>1. PcOK'
      BY <1>19, PcMove DEF InvokeHostFunc, Dispatchers, Places, CallerPC,
         ReaderPC, DispatcherPC
    <2>2. DataOK'
      <3>1. t \in Dispatchers
        BY <1>19 DEF InvokeHostFunc, Dispatchers
      <3>2. executed' \in [Ends -> Seq(Call)]
        BY <1>19, <3>1 DEF InvokeHostFunc, DataOK
      <3>3. QED
        BY <1>19, <3>2 DEF InvokeHostFunc, stream, conn, local, DataOK
    <2>3. QED  BY <2>1, <2>2 DEF TypeOK
  <1>20. ASSUME NEW e \in Ends, Die(e) PROVE TypeOK'
    BY <1>20 DEF Die, stream, conn, local, history, PcOK, DataOK
  <1>21. CASE UNCHANGED vars
    BY <1>21 DEF vars, stream, conn, local, history, PcOK, DataOK
  <1>22. QED
    BY <1>1, <1>2, <1>3, <1>4, <1>5, <1>5e, <1>6, <1>7, <1>8, <1>9, <1>10, <1>11,
       <1>12, <1>13, <1>14, <1>15, <1>16, <1>17, <1>18, <1>19, <1>20, <1>21
       DEF Next, Progress

\* Every step keeps the two mutexes exclusive.
LEMMA NextLockInv ==
  ASSUME TypeOK, LockInv, [Next]_vars
  PROVE  LockInv'
  <1>a. /\ pc \in [Threads -> PCs]
        /\ readOwner \in [Ends -> Threads \union {NoThread}]
        /\ writeOwner \in [Ends -> Threads \union {NoThread}]
    BY DEF TypeOK, PcOK, DataOK
  <1> USE <1>a, EndFacts, ThreadKinds DEF LockInv, ReadCS, At
  <1>1. ASSUME NEW t \in Threads, StartRequest(t) PROVE LockInv'
    BY <1>1 DEF StartRequest
  <1>2. ASSUME NEW t \in Threads, StartResponse(t) PROVE LockInv'
    BY <1>2 DEF StartResponse
  <1>3. ASSUME NEW t \in Threads, WriteEndSuppressed(t) PROVE LockInv'
    BY <1>3 DEF WriteEndSuppressed, AfterWrite
  <1>4. ASSUME NEW t \in Threads, WriteEndSend(t) PROVE LockInv'
    BY <1>4 DEF WriteEndSend, AfterWrite
  <1>5. ASSUME NEW t \in Threads, WriteEndBroken(t) PROVE LockInv'
    BY <1>5 DEF WriteEndBroken, conn
  <1>5e. ASSUME NEW t \in Threads, WriteEndError(t) PROVE LockInv'
    BY <1>5e DEF WriteEndError, AfterError, conn
  <1>6. ASSUME NEW t \in Threads, WriteEndReturn(t) PROVE LockInv'
    BY <1>6 DEF WriteEndReturn, conn
  <1>7. ASSUME NEW t \in Threads, AbandonRequest(t) PROVE LockInv'
    BY <1>7 DEF AbandonRequest, conn
  <1>8. ASSUME NEW t \in Threads, ReadLock(t) PROVE LockInv'
    BY <1>8 DEF ReadLock, OnTurn
  <1>9. ASSUME NEW t \in Threads, ReadWait(t) PROVE LockInv'
    BY <1>9 DEF ReadWait, conn
  <1>10. ASSUME NEW t \in Threads, ReaderRecv(t) PROVE LockInv'
    BY <1>10 DEF ReaderRecv, Broadcast
  <1>11. ASSUME NEW t \in Threads, ReaderEOF(t) PROVE LockInv'
    BY <1>11 DEF ReaderEOF
  <1>12. ASSUME NEW t \in Threads, ReaderExit(t) PROVE LockInv'
    BY <1>12 DEF ReaderExit, conn
  <1>13. ASSUME NEW t \in Threads, ReadArgs(t) PROVE LockInv'
    BY <1>13 DEF ReadArgs, conn
  <1>14. ASSUME NEW t \in Threads, ReadEnd(t) PROVE LockInv'
    BY <1>14 DEF ReadEnd, Broadcast
  <1>15. ASSUME NEW t \in Threads, DispatchSpawn(t) PROVE LockInv'
    BY <1>15 DEF DispatchSpawn, conn
  <1>16. ASSUME NEW t \in Threads, DispatchOp(t) PROVE LockInv'
    BY <1>16 DEF DispatchOp, conn
  <1>17. ASSUME NEW t \in Threads, SetSuppress(t) PROVE LockInv'
    BY <1>17 DEF SetSuppress
  <1>18. ASSUME NEW t \in Threads, Execute(t) PROVE LockInv'
    BY <1>18 DEF Execute, conn
  <1>19. ASSUME NEW t \in Threads, InvokeHostFunc(t) PROVE LockInv'
    BY <1>19 DEF InvokeHostFunc, conn
  <1>20. ASSUME NEW e \in Ends, Die(e) PROVE LockInv'
    BY <1>20 DEF Die, conn
  <1>21. CASE UNCHANGED vars
    BY <1>21 DEF vars, conn
  <1>22. QED
    BY <1>1, <1>2, <1>3, <1>4, <1>5, <1>5e, <1>6, <1>7, <1>8, <1>9, <1>10, <1>11,
       <1>12, <1>13, <1>14, <1>15, <1>16, <1>17, <1>18, <1>19, <1>20, <1>21
       DEF Next, Progress

\* Every step keeps the header under construction and the ids waited for.
LEMMA NextBuildInv ==
  ASSUME TypeOK, LockInv, BuildInv, StreamInv, [Next]_vars
  PROVE  BuildInv'
  <1>a. /\ pc \in [Threads -> PCs]
        /\ \A d \in Dispatchers : pc[d] \in DispatcherPC
        /\ request_id \in [Ends -> Nat]
        /\ read_id \in [Ends -> Nat]
        /\ write_id \in [Ends -> Nat]
        /\ write_op \in [Ends -> Ops \union {Reply}]
        /\ rid \in [Callers \union Dispatchers -> Nat]
    BY ThreadKinds DEF TypeOK, PcOK, DataOK, Places
  <1>b. /\ \A t, u \in Threads : pc[t] = "wbuild" /\ pc[u] = "wbuild" /\ End(t) = End(u) => t = u
        /\ \A t \in Threads : pc[t] = "wbuild" => writeOwner[End(t)] = t
    BY DEF LockInv
  <1> USE <1>a, <1>b, EndFacts, ThreadKinds DEF BuildInv, RequestId, ResponseId, At
  <1>1. ASSUME NEW t \in Threads, StartRequest(t) PROVE BuildInv'
    <2> DEFINE e == End(t)
    <2>1. /\ t \in Callers
          /\ e \in Ends
          /\ \A u \in Threads : pc[u] = "wbuild" => End(u) # e
          /\ request_id' = [request_id EXCEPT ![e] = @ + 2]
          /\ write_id' = [write_id EXCEPT ![e] = request_id[e] + 2]
          /\ pc' = [pc EXCEPT ![t] = "wbuild"]
          /\ rid' = rid
      BY <1>1 DEF StartRequest
    <2>2. PICK o \in Ops : /\ write_op' = [write_op EXCEPT ![e] = o]
                           /\ (e = "server") <=> (o = "hostFunc")
      <3>1. CASE t \in Apps
        <4>1. e = "client"  BY <3>1 DEF End
        <4>2. \A o \in CallOps : o \in Ops /\ o # "hostFunc"
          BY OpsAssumption
        <4>3. PICK o \in CallOps : write_op' = [write_op EXCEPT ![e] = o]
          BY <1>1, <3>1 DEF StartRequest
        <4>4. QED  BY <4>1, <4>2, <4>3
      <3>2. CASE t \notin Apps
        <4>1. e = "server"
          BY <2>1, <3>2, CallersAssumption DEF End, Readers, Dispatchers
        <4>2. QED  BY <1>1, <3>2, <4>1 DEF StartRequest, Ops
      <3>3. QED  BY <3>1, <3>2
    <2>3. RequestId(e, request_id[e] + 2)
      <3>1. request_id[e] \in Nat /\ request_id[e] % 2 = Parity(Peer(e))
        BY <2>1
      <3>2. QED  BY <3>1
    <2>4. \A x \in Ends :
            /\ request_id'[x] % 2 = Parity(Peer(x))
            /\ write_id'[x] % 2 = Parity(x) =>
                 write_id'[x] <= rid[Dispatcher(x)]
      BY <2>1, <2>3
    <2>5. QED
      <3> HIDE DEF e
      <3>1. \A u \in Callers : pc'[u] = "wbuild" =>
              /\ RequestId(End(u), write_id'[End(u)])
              /\ write_id'[End(u)] = request_id'[End(u)]
              /\ write_op'[End(u)] \in Ops
              /\ (End(u) = "server") <=> (write_op'[End(u)] = "hostFunc")
        BY <2>1, <2>2, <2>3 DEF e
      <3>2. QED
        BY <2>1, <2>2, <2>3, <2>4, <3>1 DEF e
  <1>2. ASSUME NEW t \in Threads, StartResponse(t) PROVE BuildInv'
    <2>1. ResponseId(End(t), rid[t]) /\ t = Dispatcher(End(t))
      BY <1>2 DEF StartResponse
    <2>2. /\ \A u \in Threads : pc[u] = "wbuild" => End(u) # End(t)
          /\ write_id' = [write_id EXCEPT ![End(t)] = rid[t]]
          /\ write_op' = [write_op EXCEPT ![End(t)] = Reply]
          /\ pc' = [pc EXCEPT ![t] = "wbuild"]
          /\ t \in Dispatchers
          /\ request_id' = request_id /\ rid' = rid
      BY <1>2 DEF StartResponse, local
    <2>3. \A x \in Ends : write_id'[x] % 2 = Parity(x) =>
            write_id'[x] <= rid[Dispatcher(x)]
      BY <2>1, <2>2
    <2>4. QED
      BY <2>1, <2>2, <2>3
  <1>3. ASSUME NEW t \in Threads, WriteEndSuppressed(t) PROVE BuildInv'
    BY <1>3 DEF WriteEndSuppressed, AfterWrite, local
  <1>4. ASSUME NEW t \in Threads, WriteEndSend(t) PROVE BuildInv'
    BY <1>4 DEF WriteEndSend, AfterWrite, local
  <1>5. ASSUME NEW t \in Threads, WriteEndBroken(t) PROVE BuildInv'
    BY <1>5 DEF WriteEndBroken, conn, local
  <1>5e. ASSUME NEW t \in Threads, WriteEndError(t) PROVE BuildInv'
    BY <1>5e DEF WriteEndError, AfterError, conn, local
  <1>6. ASSUME NEW t \in Threads, WriteEndReturn(t) PROVE BuildInv'
    BY <1>6 DEF WriteEndReturn, conn
  <1>7. ASSUME NEW t \in Threads, AbandonRequest(t) PROVE BuildInv'
    BY <1>7 DEF AbandonRequest, conn, local
  <1>8. ASSUME NEW t \in Threads, ReadLock(t) PROVE BuildInv'
    BY <1>8 DEF ReadLock, OnTurn, local, Turn
  <1>9. ASSUME NEW t \in Threads, ReadWait(t) PROVE BuildInv'
    BY <1>9 DEF ReadWait, conn, local
  <1>10. ASSUME NEW t \in Threads, ReaderRecv(t) PROVE BuildInv'
    BY <1>10 DEF ReaderRecv, Broadcast, local
  <1>11. ASSUME NEW t \in Threads, ReaderEOF(t) PROVE BuildInv'
    BY <1>11 DEF ReaderEOF, local
  <1>12. ASSUME NEW t \in Threads, ReaderExit(t) PROVE BuildInv'
    BY <1>12 DEF ReaderExit, conn, local
  <1>13. ASSUME NEW t \in Threads, ReadArgs(t) PROVE BuildInv'
    BY <1>13 DEF ReadArgs, conn
  <1>14. ASSUME NEW t \in Threads, ReadEnd(t) PROVE BuildInv'
    <2>1. /\ t \in Callers \union Dispatchers
          /\ pc[t] = "rend"
          /\ pc' = [Broadcast(End(t)) EXCEPT ![t] =
                      IF t \in Dispatchers THEN "exec"
                      ELSE IF t \in Apps THEN "ready" ELSE "idle"]
          /\ request_id' = request_id /\ write_id' = write_id
          /\ write_op' = write_op
      BY <1>14 DEF ReadEnd
    <2>2. CASE t \in Callers
      <3>1. rid' = rid
        BY <1>14, <2>2 DEF ReadEnd
      <3>2. QED
        BY <2>1, <2>2, <3>1 DEF Broadcast
    <2>3. CASE t \in Dispatchers
      <3>1. /\ rid' = [rid EXCEPT ![t] = read_id[End(t)]]
            /\ ResponseId(End(t), read_id[End(t)])
            /\ read_id[End(t)] > rid[t]
            /\ t = Dispatcher(End(t))
        BY <1>14, <2>1, <2>3 DEF ReadEnd, StreamInv, StreamAt
      <3>2. \A x \in Ends : rid[Dispatcher(x)] <= rid'[Dispatcher(x)]
        BY <3>1
      <3>3. \A u \in Callers : rid'[u] = rid[u]
        BY <2>3, <3>1
      <3>4. \A u \in Threads \ {t} : pc'[u] = pc[u] \/ (pc[u] = "wait" /\ pc'[u] = "rlock")
        BY <2>1 DEF Broadcast
      <3>5. pc'[t] = "exec"
        BY <2>1, <2>3 DEF Broadcast
      <3>6. \A u \in Dispatchers : u # t => rid'[u] = rid[u]
        BY <2>3, <3>1
      <3>7. rid'[t] = read_id[End(t)]
        BY <2>3, <3>1
      <3>8. \A x \in Ends : rid[Dispatcher(x)] \in Nat /\ rid'[Dispatcher(x)] \in Nat
        BY <3>1
      <3> HIDE DEF RequestId, ResponseId
      <3>9. QED
        BY <2>1, <2>3, <3>1, <3>2, <3>3, <3>4, <3>5, <3>6, <3>7, <3>8
    <2>4. QED
      BY <2>1, <2>2, <2>3
  <1>15. ASSUME NEW t \in Threads, DispatchSpawn(t) PROVE BuildInv'
    BY <1>15 DEF DispatchSpawn, conn, local
  <1>16. ASSUME NEW t \in Threads, DispatchOp(t) PROVE BuildInv'
    BY <1>16 DEF DispatchOp, conn
  <1>17. ASSUME NEW t \in Threads, SetSuppress(t) PROVE BuildInv'
    BY <1>17 DEF SetSuppress, Dispatchers, local
  <1>18. ASSUME NEW t \in Threads, Execute(t) PROVE BuildInv'
    <2>1. /\ t \in Dispatchers /\ pc[t] = "exec"
          /\ pc'[t] \in {"wlock", "spawn"}
          /\ \A u \in Threads \ {t} :
               pc'[u] = pc[u] \/ (pc[u] = "idle" /\ pc'[u] = "ready")
      BY <1>18 DEF Execute, Dispatchers, Callers
    <2>2. /\ request_id' = request_id /\ write_id' = write_id
          /\ write_op' = write_op /\ rid' = rid
      BY <1>18 DEF Execute, conn, local
    <2>3. \A u \in Threads : pc'[u] \in {"wbuild", "wret", "rlock", "wait", "args", "rend"}
                             => pc'[u] = pc[u]
      BY <2>1
    <2>4. QED
      BY <2>1, <2>2, <2>3
  <1>19. ASSUME NEW t \in Threads, InvokeHostFunc(t) PROVE BuildInv'
    BY <1>19 DEF InvokeHostFunc, conn, local
  <1>20. ASSUME NEW e \in Ends, Die(e) PROVE BuildInv'
    BY <1>20 DEF Die, conn, local
  <1>21. CASE UNCHANGED vars
    BY <1>21 DEF vars, conn, local
  <1>22. QED
    BY <1>1, <1>2, <1>3, <1>4, <1>5, <1>5e, <1>6, <1>7, <1>8, <1>9, <1>10, <1>11,
       <1>12, <1>13, <1>14, <1>15, <1>16, <1>17, <1>18, <1>19, <1>20, <1>21
       DEF Next, Progress

\* What holds of a frame on its way holds until a dispatcher reads a payload.
LEMMA FrameStable ==
  ASSUME TypeOK, LockInv, BuildInv, StreamInv, [Next]_vars,
         NEW e \in Ends, NEW f \in Frame, FrameInv(e, f),
         ~ReadArgs(Dispatcher(e))
  PROVE  FrameInv(e, f)'
  <1>a. /\ pc \in [Threads -> PCs]
        /\ request_id \in [Ends -> Nat]
        /\ read_id \in [Ends -> Nat]
        /\ rid \in [Callers \union Dispatchers -> Nat]
        /\ f.id \in Nat
    BY DEF TypeOK, PcOK, DataOK, Frame
  <1> USE <1>a, EndFacts, ThreadKinds DEF FrameInv, At
  <1>1. ASSUME NEW t \in Threads, StartRequest(t) PROVE FrameInv(e, f)'
    BY <1>1 DEF StartRequest, history
  <1>2. ASSUME NEW t \in Threads, StartResponse(t) PROVE FrameInv(e, f)'
    BY <1>2 DEF StartResponse, local
  <1>3. ASSUME NEW t \in Threads, WriteEndSuppressed(t) PROVE FrameInv(e, f)'
    BY <1>3 DEF WriteEndSuppressed, AfterWrite, local
  <1>4. ASSUME NEW t \in Threads, WriteEndSend(t) PROVE FrameInv(e, f)'
    BY <1>4 DEF WriteEndSend, AfterWrite, local
  <1>5. ASSUME NEW t \in Threads, WriteEndBroken(t) PROVE FrameInv(e, f)'
    BY <1>5 DEF WriteEndBroken, conn, local
  <1>5e. ASSUME NEW t \in Threads, WriteEndError(t) PROVE FrameInv(e, f)'
    BY <1>5e DEF WriteEndError, AfterError, conn, local
  <1>6. ASSUME NEW t \in Threads, WriteEndReturn(t) PROVE FrameInv(e, f)'
    BY <1>6 DEF WriteEndReturn, conn
  <1>7. ASSUME NEW t \in Threads, AbandonRequest(t) PROVE FrameInv(e, f)'
    BY <1>7 DEF AbandonRequest, conn, local
  <1>8. ASSUME NEW t \in Threads, ReadLock(t) PROVE FrameInv(e, f)'
    BY <1>8 DEF ReadLock, OnTurn, local
  <1>9. ASSUME NEW t \in Threads, ReadWait(t) PROVE FrameInv(e, f)'
    BY <1>9 DEF ReadWait, conn, local
  <1>10. ASSUME NEW t \in Threads, ReaderRecv(t) PROVE FrameInv(e, f)'
    <2>1. /\ request_id' = request_id /\ rid' = rid
          /\ \A o \in Ends : o # End(t) => read_id'[o] = read_id[o]
      BY <1>10 DEF ReaderRecv, local
    <2>2. pc[Dispatcher(End(t))] # "rend"
      BY <1>10 DEF ReaderRecv, LockInv, ReadCS
    <2>3. \A u \in Threads : pc'[u] \in {"rend", "wbuild"} => pc'[u] = pc[u]
      BY <1>10 DEF ReaderRecv, Broadcast
    <2>4. QED
      BY <2>1, <2>2, <2>3
  <1>11. ASSUME NEW t \in Threads, ReaderEOF(t) PROVE FrameInv(e, f)'
    BY <1>11 DEF ReaderEOF, local
  <1>12. ASSUME NEW t \in Threads, ReaderExit(t) PROVE FrameInv(e, f)'
    BY <1>12 DEF ReaderExit, conn, local
  <1>13. ASSUME NEW t \in Threads, ReadArgs(t) PROVE FrameInv(e, f)'
    BY <1>13 DEF ReadArgs, conn
  <1>14. ASSUME NEW t \in Threads, ReadEnd(t) PROVE FrameInv(e, f)'
    BY <1>14 DEF ReadEnd, Broadcast, StreamInv, StreamAt
  <1>15. ASSUME NEW t \in Threads, DispatchSpawn(t) PROVE FrameInv(e, f)'
    BY <1>15 DEF DispatchSpawn, conn, local
  <1>16. ASSUME NEW t \in Threads, DispatchOp(t) PROVE FrameInv(e, f)'
    BY <1>16 DEF DispatchOp, conn
  <1>17. ASSUME NEW t \in Threads, SetSuppress(t) PROVE FrameInv(e, f)'
    BY <1>17 DEF SetSuppress, local
  <1>18. ASSUME NEW t \in Threads, Execute(t) PROVE FrameInv(e, f)'
    BY <1>18 DEF Execute, conn, local
  <1>19. ASSUME NEW t \in Threads, InvokeHostFunc(t) PROVE FrameInv(e, f)'
    BY <1>19 DEF InvokeHostFunc, conn, local
  <1>20. ASSUME NEW o \in Ends, Die(o) PROVE FrameInv(e, f)'
    BY <1>20 DEF Die, conn, local
  <1>21. CASE UNCHANGED vars
    BY <1>21 DEF vars, conn, local
  <1>22. QED
    BY <1>1, <1>2, <1>3, <1>4, <1>5, <1>5e, <1>6, <1>7, <1>8, <1>9, <1>10, <1>11,
       <1>12, <1>13, <1>14, <1>15, <1>16, <1>17, <1>18, <1>19, <1>20, <1>21
       DEF Next, Progress

\* When a dispatcher reads a payload, it holds of the frames behind it.
LEMMA FrameRead ==
  ASSUME TypeOK, LockInv, StreamInv, NEW e \in Ends, NEW f \in Frame,
         FrameInv(e, f), ReadArgs(Dispatcher(e)),
         f.op # Reply => f.id > read_id[e]
  PROVE  FrameInv(e, f)'
  <1>1. /\ pc \in [Threads -> PCs]
        /\ \A t \in Callers : pc'[t] = pc[t]
        /\ request_id' = request_id /\ read_id' = read_id /\ rid' = rid
    BY EndFacts, ThreadKinds DEF ReadArgs, conn, TypeOK, PcOK, DataOK
  <1>2. QED
    BY <1>1, EndFacts, ThreadKinds DEF FrameInv, RequestId

\* A stream changes by a writev of the peer or by reading a payload.
LEMMA WireSteps ==
  ASSUME TypeOK, LockInv, StreamInv, [Next]_vars, NEW e \in Ends
  PROVE  \/ wire'[e] = wire[e]
         \/ \E t \in Callers \union Dispatchers :
              /\ End(t) = Peer(e)
              /\ WriteEndSend(t)
              /\ wire'[e] = Append(wire[e], [id   |-> write_id[Peer(e)],
                                             op   |-> write_op[Peer(e)],
                                             body |-> Payload(t)])
         \/ \E t \in Callers \union Dispatchers :
              /\ End(t) = e
              /\ ReadArgs(t)
              /\ wire[e] # <<>>
              /\ wire'[e] = Tail(wire[e])
  <1> USE EndFacts, ThreadKinds DEF At
  <1>1. ASSUME NEW t \in Threads, WriteEndSend(t), wire'[e] # wire[e]
        PROVE  /\ t \in Callers \union Dispatchers
               /\ End(t) = Peer(e)
               /\ wire'[e] = Append(wire[e], [id   |-> write_id[Peer(e)],
                                              op   |-> write_op[Peer(e)],
                                              body |-> Payload(t)])
    <2>1. wire \in [Ends -> Seq(Frame)]
      BY DEF TypeOK, DataOK
    <2>2. Peer(End(t)) = e
      BY <1>1, <2>1 DEF WriteEndSend
    <2>3. End(t) = Peer(e)
      BY <2>2
    <2>4. QED
      BY <1>1, <2>1, <2>2, <2>3 DEF WriteEndSend
  <1>2. ASSUME NEW t \in Threads, ReadArgs(t), wire'[e] # wire[e]
        PROVE  /\ t \in Callers \union Dispatchers
               /\ End(t) = e
               /\ wire[e] # <<>>
               /\ wire'[e] = Tail(wire[e])
    <2>1. wire[End(t)] # <<>> /\ at[End(t)] = "body"
      BY <1>2 DEF ReadArgs, Readable, StreamInv, StreamAt, Fresh
    <2>2. QED
      BY <1>2, <2>1, AdvanceFacts DEF ReadArgs
  <1>3. ASSUME NEW t \in Threads, ReaderRecv(t) PROVE wire'[e] = wire[e]
    <2>1. wire[End(t)] # <<>> /\ at[End(t)] = "id"
      BY <1>3 DEF ReaderRecv, Readable, StreamInv, StreamAt
    <2>2. QED
      BY <1>3, <2>1, AdvanceFacts DEF ReaderRecv
  <1>4. ASSUME NEW t \in Threads, DispatchOp(t) PROVE wire'[e] = wire[e]
    <2>1. wire[End(t)] # <<>> /\ at[End(t)] = "op"
      BY <1>4 DEF DispatchOp, Readable, StreamInv, StreamAt, Fresh
    <2>2. QED
      BY <1>4, <2>1, AdvanceFacts DEF DispatchOp
  <1>5. ASSUME NEW t \in Threads,
               \/ StartRequest(t) \/ StartResponse(t) \/ WriteEndSuppressed(t)
               \/ WriteEndBroken(t) \/ WriteEndError(t) \/ WriteEndReturn(t)
               \/ AbandonRequest(t)
               \/ ReadLock(t) \/ ReadWait(t) \/ ReaderEOF(t) \/ ReaderExit(t)
               \/ ReadEnd(t) \/ DispatchSpawn(t) \/ SetSuppress(t)
               \/ Execute(t) \/ InvokeHostFunc(t)
        PROVE  wire' = wire
    BY <1>5 DEF StartRequest, StartResponse, WriteEndSuppressed, WriteEndBroken,
       WriteEndError, WriteEndReturn, AbandonRequest, ReadLock, ReadWait,
       ReaderEOF, ReaderExit, ReadEnd, DispatchSpawn, SetSuppress, Execute, InvokeHostFunc, stream
  <1>6. ASSUME NEW o \in Ends, Die(o) PROVE wire' = wire
    BY <1>6 DEF Die, stream
  <1>7. CASE UNCHANGED vars
    BY <1>7 DEF vars, stream
  <1>8. QED
    BY <1>1, <1>2, <1>3, <1>4, <1>5, <1>6, <1>7 DEF Next, Progress

\* Every step keeps the frames of a stream well-formed and in order.
LEMMA NextOrderInv ==
  ASSUME IInv, [Next]_vars
  PROVE  OrderInv'
  <1> USE EndFacts, ThreadKinds DEF IInv
  <1>1. TypeOK'
    BY NextTypeOK
  <1>2. ASSUME NEW e \in Ends
        PROVE  /\ \A f \in Frame : (\E i \in 1 .. Len(wire'[e]) : f = wire'[e][i])
                                     => FrameInv(e, f)'
               /\ Ordered(e)'
    <2> DEFINE Kept == \A f \in Frame :
                         (\E i \in 1 .. Len(wire'[e]) : f = wire'[e][i])
                           => FrameInv(e, f)'
    <2>1. wire[e] \in Seq(Frame)
      BY DEF TypeOK, DataOK
    <2>2. \A i \in 1 .. Len(wire[e]) : wire[e][i] \in Frame /\ FrameInv(e, wire[e][i])
      BY <2>1 DEF OrderInv
    <2>3. Ordered(e)
      BY DEF OrderInv
    <2>4. ReadArgs(Dispatcher(e)) => wire[e] # <<>> /\ wire'[e] = Tail(wire[e])
      <3>1. ASSUME ReadArgs(Dispatcher(e)) PROVE wire[e] # <<>> /\ at[e] = "body"
        BY <3>1 DEF ReadArgs, At, StreamInv, StreamAt
      <3>2. QED
        BY <3>1, AdvanceFacts DEF ReadArgs
    <2>5. CASE wire'[e] = wire[e]
      <3>1. ~ReadArgs(Dispatcher(e))
        <4>1. wire[e] # <<>> => Len(Tail(wire[e])) # Len(wire[e])
          BY <2>1
        <4>2. QED  BY <2>4, <2>5, <4>1
      <3>2. \A f \in Frame : FrameInv(e, f) => FrameInv(e, f)'
        BY <3>1, FrameStable
      <3>3. Ordered(e)'
        BY <2>3, <2>5 DEF Ordered
      <3>4. QED
        BY <2>2, <2>5, <3>2, <3>3
    <2>6. ASSUME NEW t \in Callers \union Dispatchers,
                 End(t) = Peer(e),
                 WriteEndSend(t),
                 wire'[e] = Append(wire[e], [id   |-> write_id[Peer(e)],
                                             op   |-> write_op[Peer(e)],
                                             body |-> Payload(t)])
          PROVE  Kept /\ Ordered(e)'
      <3> DEFINE g == [id |-> write_id[Peer(e)], op |-> write_op[Peer(e)],
                       body |-> Payload(t)]
      <3>1. ~ReadArgs(Dispatcher(e))
        <4>1. Len(wire'[e]) = Len(wire[e]) + 1
          BY <2>1, <2>6
        <4>2. wire[e] # <<>> => Len(Tail(wire[e])) = Len(wire[e]) - 1
          BY <2>1
        <4>3. Len(wire[e]) \in Nat
          BY <2>1
        <4>4. ASSUME ReadArgs(Dispatcher(e)) PROVE FALSE
          <5>1. Len(wire'[e]) = Len(wire[e]) - 1
            BY <2>4, <4>2, <4>4
          <5>2. QED  BY <4>1, <4>3, <5>1
        <4>5. QED  BY <4>4
      <3>2. \A f \in Frame : FrameInv(e, f) => FrameInv(e, f)'
        BY <3>1, FrameStable
      <3>3. /\ pc \in [Threads -> PCs]
            /\ pc[t] = "wbuild"
            /\ pc' = [pc EXCEPT ![t] = AfterWrite(t)]
            /\ rid' = rid /\ read_id' = read_id /\ request_id' = request_id
            /\ \A u \in Threads : End(u) = Peer(e) /\ pc[u] = "wbuild" => u = t
            /\ AfterWrite(t) \in {"spawn", "ready", "wret"}
        BY <2>6 DEF WriteEndSend, AfterWrite, At, local, LockInv, TypeOK, PcOK
      <3>4. \A u \in Threads : pc'[u] = "wbuild" => End(u) # Peer(e)
        BY <3>3
      <3>5. g.op # Reply => \A i \in 1 .. Len(wire[e]) :
              wire[e][i].op # Reply => wire[e][i].id < g.id
        <4>1. g.op # Reply => t \in Callers /\ g.id = request_id[Peer(e)]
          BY <2>6, <3>3 DEF BuildInv
        <4>2. QED
          BY <2>2, <2>6, <3>3, <4>1 DEF FrameInv
      <3>6. g \in Frame
        BY DEF TypeOK, DataOK, Frame, Payload
      <3>7. ASSUME NEW f \in Frame, f = g PROVE FrameInv(e, f)'
        <4>1. CASE t \in Callers
          <5>1. /\ RequestId(Peer(e), g.id)
                /\ g.id = request_id[Peer(e)]
                /\ g.op \in Ops
                /\ (Peer(e) = "server") <=> (g.op = "hostFunc")
            BY <2>6, <3>3, <4>1 DEF BuildInv
          <5>2. /\ rid[Dispatcher(e)] < g.id \/ pc[Dispatcher(e)] = "rend"
                /\ pc[Dispatcher(e)] = "rend" => read_id[e] < g.id
            BY <2>6, <3>3, <4>1, <5>1 DEF TakenInv
          <5>3. pc[Dispatcher(e)] = "rend" => rid[Dispatcher(e)] < read_id[e]
            BY DEF StreamInv, StreamAt
          <5>4. g.op # Reply /\ ((e = "client") <=> (g.op = "hostFunc"))
            BY <5>1 DEF Ops, Reply, Ends, Peer
          <5>5. pc'[Dispatcher(e)] = "rend" => pc[Dispatcher(e)] = "rend"
            BY <3>3
          <5>6. /\ rid[Dispatcher(e)] \in Nat /\ read_id[e] \in Nat /\ g.id \in Nat
                /\ request_id[Peer(e)] \in Nat
            BY DEF TypeOK, DataOK
          <5>7. rid[Dispatcher(e)] < g.id
            BY <5>2, <5>3, <5>6
          <5> HIDE DEF g
          <5>8. QED
            BY <3>3, <3>7, <3>4, <5>1, <5>2, <5>4, <5>5, <5>6, <5>7
               DEF FrameInv, RequestId
        <4>2. CASE t \in Dispatchers
          <5>1. g.op = Reply /\ ResponseId(Peer(e), g.id)
            BY <2>6, <3>3, <4>2 DEF BuildInv
          <5> HIDE DEF g
          <5>2. QED
            BY <3>7, <5>1 DEF FrameInv, RequestId, ResponseId
        <4>3. QED  BY <4>1, <4>2
      <3> HIDE DEF g
      <3>8. wire'[e] = Append(wire[e], g)
        BY <2>6 DEF g
      <3>9. Kept
        BY <2>1, <2>2, <3>2, <3>6, <3>7, <3>8
      <3>10. Ordered(e)'
        BY <2>1, <2>3, <3>5, <3>6, <3>8 DEF Ordered
      <3>11. QED  BY <3>9, <3>10
    <2>7. ASSUME NEW t \in Callers \union Dispatchers,
                 End(t) = e,
                 ReadArgs(t),
                 wire[e] # <<>>,
                 wire'[e] = Tail(wire[e])
          PROVE  Kept /\ Ordered(e)'
      <3>1. Ordered(e)'
        BY <2>1, <2>3, <2>7 DEF Ordered
      <3>2. \A i \in 1 .. Len(wire'[e]) : /\ i + 1 \in 2 .. Len(wire[e])
                                          /\ wire'[e][i] = wire[e][i + 1]
        BY <2>1, <2>7
      <3>3. CASE t \in Callers
        <4>1. ~ReadArgs(Dispatcher(e))
          BY <2>7, <3>3 DEF ReadArgs, At, LockInv, ReadCS
        <4>2. \A f \in Frame : FrameInv(e, f) => FrameInv(e, f)'
          BY <4>1, FrameStable
        <4>3. QED
          BY <2>1, <2>2, <3>1, <3>2, <4>2
      <3>4. CASE t \in Dispatchers
        <4>1. t = Dispatcher(e) /\ ReadArgs(Dispatcher(e))
          BY <2>7, <3>4
        <4>2. wire[e][1].op # Reply /\ wire[e][1].id = read_id[e]
          BY <2>7, <3>4 DEF ReadArgs, At, StreamInv, StreamAt
        <4>3. \A i \in 2 .. Len(wire[e]) :
                wire[e][i].op # Reply => wire[e][i].id > read_id[e]
          BY <2>1, <2>3, <4>2 DEF Ordered, Frame
        <4>4. \A f \in Frame : FrameInv(e, f) /\ (f.op # Reply => f.id > read_id[e])
                                 => FrameInv(e, f)'
          BY <4>1, FrameRead
        <4>5. QED
          BY <2>1, <2>2, <3>1, <3>2, <4>3, <4>4
      <3>5. QED  BY <3>3, <3>4
    <2>8. QED
      BY <2>5, <2>6, <2>7, WireSteps
  <1>3. QED
    BY <1>1, <1>2 DEF OrderInv, TypeOK, DataOK

\* Every step keeps the requests taken behind those that were numbered.
LEMMA NextTakenInv ==
  ASSUME IInv, [Next]_vars
  PROVE  TakenInv'
  <1>a. /\ pc \in [Threads -> PCs]
        /\ request_id \in [Ends -> Nat]
        /\ read_id \in [Ends -> Nat]
        /\ rid \in [Callers \union Dispatchers -> Nat]
    BY DEF IInv, TypeOK, PcOK, DataOK
  <1>b. TakenInv
    BY DEF IInv
  <1> USE <1>a, <1>b, EndFacts, ThreadKinds DEF TakenInv, At
  <1>1. ASSUME NEW t \in Threads, StartRequest(t) PROVE TakenInv'
    BY <1>1 DEF StartRequest, IInv, LockInv
  <1>2. ASSUME NEW t \in Threads, StartResponse(t) PROVE TakenInv'
    BY <1>2 DEF StartResponse, local
  <1>3. ASSUME NEW t \in Threads, WriteEndSuppressed(t) PROVE TakenInv'
    BY <1>3 DEF WriteEndSuppressed, AfterWrite, local
  <1>4. ASSUME NEW t \in Threads, WriteEndSend(t) PROVE TakenInv'
    BY <1>4 DEF WriteEndSend, AfterWrite, local
  <1>5. ASSUME NEW t \in Threads, WriteEndBroken(t) PROVE TakenInv'
    BY <1>5 DEF WriteEndBroken, conn, local
  <1>5e. ASSUME NEW t \in Threads, WriteEndError(t) PROVE TakenInv'
    BY <1>5e DEF WriteEndError, AfterError, conn, local
  <1>6. ASSUME NEW t \in Threads, WriteEndReturn(t) PROVE TakenInv'
    BY <1>6 DEF WriteEndReturn, conn
  <1>7. ASSUME NEW t \in Threads, AbandonRequest(t) PROVE TakenInv'
    BY <1>7 DEF AbandonRequest, conn, local
  <1>8. ASSUME NEW t \in Threads, ReadLock(t) PROVE TakenInv'
    BY <1>8 DEF ReadLock, OnTurn, local
  <1>9. ASSUME NEW t \in Threads, ReadWait(t) PROVE TakenInv'
    BY <1>9 DEF ReadWait, conn, local
  <1>10. ASSUME NEW t \in Threads, ReaderRecv(t) PROVE TakenInv'
    <2>1. /\ request_id' = request_id /\ rid' = rid
          /\ \A o \in Ends : o # End(t) => read_id'[o] = read_id[o]
      BY <1>10 DEF ReaderRecv, local
    <2>2. pc[Dispatcher(End(t))] # "rend"
      BY <1>10 DEF ReaderRecv, IInv, LockInv, ReadCS
    <2>3. \A u \in Threads : /\ pc'[u] \in {"rend", "wbuild"} => pc'[u] = pc[u]
                             /\ pc[u] = "rend" => pc'[u] = "rend"
      BY <1>10 DEF ReaderRecv, Broadcast
    <2>4. QED
      BY <2>1, <2>2, <2>3
  <1>11. ASSUME NEW t \in Threads, ReaderEOF(t) PROVE TakenInv'
    BY <1>11 DEF ReaderEOF, local
  <1>12. ASSUME NEW t \in Threads, ReaderExit(t) PROVE TakenInv'
    BY <1>12 DEF ReaderExit, conn, local
  <1>13. ASSUME NEW t \in Threads, ReadArgs(t) PROVE TakenInv'
    <2>1. CASE t \in Callers
      BY <1>13, <2>1 DEF ReadArgs, conn
    <2>2. CASE t \in Dispatchers
      <3>1. /\ wire[End(t)] # <<>> /\ wire[End(t)][1].id = read_id[End(t)]
            /\ wire[End(t)][1].op # Reply
        BY <1>13, <2>2 DEF ReadArgs, IInv, StreamInv, StreamAt
      <3>2. FrameInv(End(t), wire[End(t)][1])
        BY <3>1, ItemFacts DEF IInv, OrderInv, TypeOK, DataOK
      <3>3. /\ read_id[End(t)] <= request_id[Peer(End(t))]
            /\ \A u \in Callers : End(u) = Peer(End(t)) /\ pc[u] = "wbuild" =>
                 read_id[End(t)] < request_id[Peer(End(t))]
        BY <3>1, <3>2 DEF FrameInv
      <3>4. QED
        BY <1>13, <2>2, <3>3 DEF ReadArgs, conn
    <2>3. QED
      BY <1>13, <2>1, <2>2 DEF ReadArgs
  <1>14. ASSUME NEW t \in Threads, ReadEnd(t) PROVE TakenInv'
    <2>1. /\ t \in Callers \union Dispatchers /\ pc[t] = "rend"
          /\ request_id' = request_id
          /\ \A o \in Ends : o # End(t) => read_id'[o] = read_id[o]
          /\ rid' = IF t \in Dispatchers
                    THEN [rid EXCEPT ![t] = read_id[End(t)]] ELSE rid
      BY <1>14 DEF ReadEnd
    <2>2. pc'[t] # "rend" /\ pc'[t] # "wbuild"
      BY <1>14 DEF ReadEnd, Broadcast
    <2>3. \A u \in Threads \ {t} :
            /\ pc'[u] \in {"rend", "wbuild"} => pc'[u] = pc[u]
            /\ pc[u] = "rend" => pc'[u] = "rend"
      BY <1>14 DEF ReadEnd, Broadcast
    <2>4. \A u \in Threads \ {t} : pc[u] = "rend" => End(u) # End(t)
      BY <2>1 DEF IInv, LockInv, ReadCS
    <2>5. QED
      BY <2>1, <2>2, <2>3, <2>4
  <1>15. ASSUME NEW t \in Threads, DispatchSpawn(t) PROVE TakenInv'
    BY <1>15 DEF DispatchSpawn, conn, local
  <1>16. ASSUME NEW t \in Threads, DispatchOp(t) PROVE TakenInv'
    BY <1>16 DEF DispatchOp, conn
  <1>17. ASSUME NEW t \in Threads, SetSuppress(t) PROVE TakenInv'
    BY <1>17 DEF SetSuppress, local
  <1>18. ASSUME NEW t \in Threads, Execute(t) PROVE TakenInv'
    <2>1. \A u \in Threads : /\ pc'[u] \in {"rend", "wbuild"} => pc'[u] = pc[u]
                             /\ pc[u] = "rend" => pc'[u] = "rend"
      BY <1>18 DEF Execute, Callers
    <2>2. request_id' = request_id /\ rid' = rid /\ read_id' = read_id
      BY <1>18 DEF Execute, conn, local
    <2>3. QED
      BY <2>1, <2>2
  <1>19. ASSUME NEW t \in Threads, InvokeHostFunc(t) PROVE TakenInv'
    BY <1>19 DEF InvokeHostFunc, conn, local
  <1>20. ASSUME NEW o \in Ends, Die(o) PROVE TakenInv'
    BY <1>20 DEF Die, conn, local
  <1>21. CASE UNCHANGED vars
    BY <1>21 DEF vars, conn, local
  <1>22. QED
    BY <1>1, <1>2, <1>3, <1>4, <1>5, <1>5e, <1>6, <1>7, <1>8, <1>9, <1>10, <1>11,
       <1>12,
       <1>13, <1>14, <1>15, <1>16, <1>17, <1>18, <1>19, <1>20, <1>21
    DEF Next, Progress, IInv

\* A step that leaves the head of a stream and those who read it alone keeps
\* the position in it.
\* A writev does not change the frame that is being read.
LEMMA AppendHead ==
  ASSUME NEW S, NEW s \in Seq(S), NEW x \in S, s # <<>>
  PROVE  Append(s, x) # <<>> /\ Append(s, x)[1] = s[1]
  OBVIOUS

LEMMA StreamKept ==
  ASSUME TypeOK, NEW e \in Ends, StreamAt(e),
         read_id'[e] = read_id[e], at'[e] = at[e], readOwner'[e] = readOwner[e],
         wire[e] # <<>> => wire'[e] # <<>> /\ wire'[e][1] = wire[e][1],
         \A t \in Threads : End(t) = e =>
           /\ pc'[t] \in ReadCS \union {"exit"} => pc'[t] = pc[t]
           /\ pc[t] \in ReadCS => pc'[t] = pc[t],
         \A d \in Dispatchers : End(d) = e => rid'[d] = rid[d]
  PROVE  StreamAt(e)'
  BY DEF StreamAt, Fresh, ReadCS, ResponseId

\* Every step keeps the position of each stream.  The hard case is ReadLock by a
\* caller: the frame published under the id it waits for is a response, since a
\* request with this id would have to be newer than the ones dispatched.
LEMMA NextStreamInv ==
  ASSUME IInv, [Next]_vars
  PROVE  StreamInv'
  <1>a. /\ TypeOK
        /\ pc \in [Threads -> PCs]
        /\ read_id \in [Ends -> Nat]
        /\ readOwner \in [Ends -> Threads \union {NoThread}]
        /\ at \in [Ends -> {"id", "op", "body"}]
        /\ wire \in [Ends -> Seq(Frame)]
        /\ rid \in [Callers \union Dispatchers -> Nat]
    BY DEF IInv, TypeOK, PcOK, DataOK
  <1>b. \A t, u \in Threads :
          pc[t] \in ReadCS /\ t # u /\ End(t) = End(u) => pc[u] \notin ReadCS
    BY DEF IInv, LockInv
  <1>c. \A e \in Ends : StreamAt(e)
    BY DEF IInv, StreamInv
  <1>d. ASSUME NEW e \in Ends, wire[e] # <<>>
        PROVE  /\ wire[e][1] \in Frame /\ FrameInv(e, wire[e][1])
               /\ Len(wire[e]) >= 1
    BY <1>d, ItemFacts DEF IInv, OrderInv
  <1>e. \A t \in Threads : pc[t] \in ReadCS => readOwner[End(t)] = t
    BY DEF IInv, LockInv
  <1> DEFINE Kept(e) ==
        /\ read_id'[e] = read_id[e] /\ at'[e] = at[e]
        /\ readOwner'[e] = readOwner[e]
        /\ wire[e] # <<>> => wire'[e] # <<>> /\ wire'[e][1] = wire[e][1]
        /\ \A t \in Threads : End(t) = e =>
             /\ pc'[t] \in ReadCS \union {"exit"} => pc'[t] = pc[t]
             /\ pc[t] \in ReadCS => pc'[t] = pc[t]
        /\ \A d \in Dispatchers : End(d) = e => rid'[d] = rid[d]
  <1>k. \A e \in Ends : Kept(e) => StreamAt(e)'
    BY <1>a, <1>c, StreamKept
  <1> USE <1>a, EndFacts, ThreadKinds DEF At
  <1>1. ASSUME NEW t \in Threads, StartRequest(t), NEW e \in Ends PROVE Kept(e)
    BY <1>1 DEF StartRequest, stream, ReadCS
  <1>2. ASSUME NEW t \in Threads, StartResponse(t), NEW e \in Ends PROVE Kept(e)
    BY <1>2 DEF StartResponse, stream, local, ReadCS
  <1>3. ASSUME NEW t \in Threads, WriteEndSuppressed(t), NEW e \in Ends PROVE Kept(e)
    BY <1>3 DEF WriteEndSuppressed, AfterWrite, stream, local, ReadCS
  <1>4. ASSUME NEW t \in Threads, WriteEndSend(t), NEW e \in Ends PROVE Kept(e)
    <2>1. wire[e] # <<>> => wire'[e] # <<>> /\ wire'[e][1] = wire[e][1]
      <3>3. \/ wire'[e] = wire[e]
            \/ \E f \in Frame : wire'[e] = Append(wire[e], f)
        BY <1>4 DEF WriteEndSend, Frame, Payload, TypeOK, DataOK
      <3>4. \A f \in Frame :
              wire[e] # <<>> => /\ Append(wire[e], f) # <<>>
                                /\ Append(wire[e], f)[1] = wire[e][1]
        BY AppendHead
      <3>5. QED
        BY <3>3, <3>4
    <2>2. QED
      BY <1>4, <2>1 DEF WriteEndSend, AfterWrite, local, ReadCS
  <1>5. ASSUME NEW t \in Threads, WriteEndBroken(t), NEW e \in Ends PROVE Kept(e)
    BY <1>5 DEF WriteEndBroken, conn, local, stream, ReadCS
  <1>5e. ASSUME NEW t \in Threads, WriteEndError(t), NEW e \in Ends PROVE Kept(e)
    BY <1>5e DEF WriteEndError, AfterError, conn, local, stream, ReadCS
  <1>6. ASSUME NEW t \in Threads, WriteEndReturn(t), NEW e \in Ends PROVE Kept(e)
    BY <1>6 DEF WriteEndReturn, conn, stream, ReadCS
  <1>7. ASSUME NEW t \in Threads, AbandonRequest(t), NEW e \in Ends PROVE Kept(e)
    BY <1>7 DEF AbandonRequest, conn, local, stream, ReadCS
  <1>8. ASSUME NEW t \in Threads, ReadLock(t) PROVE StreamInv'
    <2>1. /\ read_id' = read_id /\ at' = at /\ wire' = wire /\ rid' = rid
          /\ readOwner[End(t)] = NoThread
          /\ readOwner' = [readOwner EXCEPT ![End(t)] = t]
          /\ pc' = [pc EXCEPT ![t] = OnTurn(t)]
          /\ pc[t] = "rlock"
          /\ Turn(t)
      BY <1>8 DEF ReadLock, stream, local
    <2>2. \A e \in Ends : e # End(t) => StreamAt(e)'
      BY <1>k, <2>1 DEF ReadCS
    <2>3. read_id[End(t)] = 0 \/ Fresh(End(t))
      BY <1>c, <2>1 DEF StreamAt
    <2>4. \A u \in Threads : u # t => pc'[u] = pc[u]
      BY <2>1
    <2>5. CASE t \in Readers
      <3>1. OnTurn(t) = "recv" /\ read_id[End(t)] = 0
        BY <2>1, <2>5 DEF OnTurn, Turn
      <3>2. pc'[t] = "recv"
        BY <2>1, <3>1
      <3>3. StreamAt(End(t))'
        BY <1>c, <2>1, <2>4, <2>5, <3>1, <3>2 DEF StreamAt, Fresh, ResponseId
      <3>4. QED
        BY <2>2, <3>3 DEF StreamInv
    <2>6. CASE t \in Dispatchers
      <3>1. OnTurn(t) = "op" /\ ResponseId(End(t), read_id[End(t)])
        BY <2>1, <2>6 DEF OnTurn, Turn, ResponseId
      <3>2. Fresh(End(t))
        BY <2>3, <3>1 DEF ResponseId
      <3>3. wire[End(t)][1].op # Reply
        BY <1>d, <3>1, <3>2 DEF FrameInv, RequestId, ResponseId, Fresh
      <3>4. pc'[t] = "op"
        BY <2>1, <3>1
      <3>5. StreamAt(End(t))'
        BY <1>c, <2>1, <2>4, <2>6, <3>1, <3>2, <3>3, <3>4
        DEF StreamAt, Fresh, ResponseId
      <3>6. QED
        BY <2>2, <3>5 DEF StreamInv
    <2>7. CASE t \in Callers
      <3>1. OnTurn(t) = "args" /\ read_id[End(t)] = rid[t]
        BY <2>1, <2>7 DEF OnTurn, Turn
      <3>2. /\ rid[t] >= 2
            /\ rid[t] % 2 = Parity(End(t)) => rid[t] <= rid[Dispatcher(End(t))]
        BY <2>1, <2>7 DEF IInv, BuildInv
      <3>3. Fresh(End(t))
        BY <2>3, <3>1, <3>2
      <3>4. wire[End(t)][1].op = Reply
        BY <1>d, <3>1, <3>2, <3>3 DEF FrameInv, RequestId, Fresh
      <3>5. pc'[t] = "args"
        BY <2>1, <3>1
      <3>6. StreamAt(End(t))'
        BY <1>c, <2>1, <2>4, <2>7, <3>1, <3>2, <3>3, <3>4, <3>5
        DEF StreamAt, Fresh, ResponseId
      <3>7. QED
        BY <2>2, <3>6 DEF StreamInv
    <2>8. QED
      BY <2>5, <2>6, <2>7
  <1>9. ASSUME NEW t \in Threads, ReadWait(t), NEW e \in Ends PROVE Kept(e)
    BY <1>9 DEF ReadWait, conn, local, stream, ReadCS
  <1>10. ASSUME NEW t \in Threads, ReaderRecv(t) PROVE StreamInv'
    <2>1. /\ t \in Readers /\ pc[t] = "recv" /\ readOwner[End(t)] = t
          /\ wire[End(t)] # <<>> /\ read_id[End(t)] = 0 /\ at[End(t)] = "id"
      BY <1>10, <1>c, <1>e DEF ReaderRecv, Readable, StreamAt, ReadCS
    <2>2. /\ wire' = wire
          /\ at'[End(t)] = IF wire[End(t)][1].op = Reply THEN "body" ELSE "op"
          /\ \A o \in Ends : o # End(t) => at'[o] = at[o]
      <3>1. wire'[End(t)] = wire[End(t)]
        BY <1>10, <2>1, AdvanceFacts DEF ReaderRecv
      <3>2. wire' = wire
        BY <1>10, <2>1 DEF ReaderRecv, Advance
      <3>3. QED
        BY <1>10, <2>1, <3>2, AdvanceFacts DEF ReaderRecv
    <2>3. Item(End(t)) = wire[End(t)][1].id /\ Item(End(t)) \in Nat
      BY <2>1, ItemFacts DEF Frame
    <2>4. /\ read_id' = [read_id EXCEPT ![End(t)] = Item(End(t))]
          /\ rid' = rid
          /\ readOwner' = [readOwner EXCEPT ![End(t)] = NoThread]
      BY <1>10 DEF ReaderRecv, local
    <2>5. wire[End(t)][1].id >= 2
      BY <1>d, <2>1 DEF FrameInv, RequestId
    <2>6. \A u \in Threads : u # t /\ End(u) = End(t) => pc[u] \notin ReadCS
      BY <1>b, <2>1 DEF ReadCS
    <2>7. /\ pc'[t] = "wait"
          /\ \A u \in Threads \ {t} : pc'[u] = pc[u] \/ (pc[u] = "wait" /\ pc'[u] = "rlock")
      <3>1. \E l \in {"wait"} :
              pc' = [Broadcast(End(t)) EXCEPT ![t] = l]
        BY <1>10 DEF ReaderRecv
      <3>2. QED
        BY <3>1 DEF Broadcast
    <2>8. \A u \in Threads : End(u) = End(t) /\ pc[u] = "exit" => u = t
      <3>1. \A u \in Threads : pc[u] = "exit" => u \in Readers
        BY DEF TypeOK, PcOK, Places, CallerPC, DispatcherPC
      <3>2. QED
        BY <2>1, <3>1
    <2>9. \A u \in Threads : End(u) = End(t) => pc'[u] \notin ReadCS \union {"exit"}
      BY <2>1, <2>6, <2>7, <2>8 DEF ReadCS
    <2>10. StreamAt(End(t))'
      BY <2>1, <2>2, <2>3, <2>4, <2>5, <2>9 DEF StreamAt, Fresh, ReadCS
    <2>11. \A e \in Ends : e # End(t) => Kept(e)
      BY <2>2, <2>4, <2>7 DEF ReadCS
    <2>12. QED
      BY <1>k, <2>10, <2>11 DEF StreamInv
  <1>11. ASSUME NEW t \in Threads, ReaderEOF(t) PROVE StreamInv'
    <2>1. /\ t \in Readers /\ pc[t] = "recv" /\ read_id[End(t)] = 0
          /\ pc' = [pc EXCEPT ![t] = "exit"]
          /\ readOwner' = [readOwner EXCEPT ![End(t)] = NoThread]
          /\ read_id' = read_id /\ at' = at /\ wire' = wire /\ rid' = rid
      BY <1>11, <1>c DEF ReaderEOF, stream, local, StreamAt
    <2>2. \A e \in Ends : e # End(t) => Kept(e)
      BY <2>1 DEF ReadCS
    <2>3. pc'[t] = "exit" /\ \A u \in Threads \ {t} : pc'[u] = pc[u]
      BY <2>1
    <2>4. StreamAt(End(t))'
      BY <1>c, <2>1, <2>3 DEF StreamAt, Fresh, ResponseId
    <2>5. QED
      BY <1>k, <2>2, <2>4 DEF StreamInv
  <1>12. ASSUME NEW t \in Threads, ReaderExit(t), NEW e \in Ends PROVE Kept(e)
    BY <1>12 DEF ReaderExit, conn, local, stream, ReadCS
  <1>13. ASSUME NEW t \in Threads, ReadArgs(t) PROVE StreamInv'
    <2>1. /\ t \in Callers \union Dispatchers /\ pc[t] = "args"
          /\ readOwner[End(t)] = t
          /\ wire[End(t)] # <<>> /\ at[End(t)] = "body"
          /\ wire[End(t)][1].id = read_id[End(t)]
          /\ (wire[End(t)][1].op = Reply) <=> (t \in Callers)
          /\ t \in Dispatchers => ResponseId(End(t), read_id[End(t)])
      BY <1>13, <1>c, <1>e DEF ReadArgs, StreamAt, ReadCS
    <2>2. /\ at'[End(t)] = "id"
          /\ \A o \in Ends : o # End(t) => at'[o] = at[o] /\ wire'[o] = wire[o]
      BY <1>13, <2>1, AdvanceFacts DEF ReadArgs
    <2>3. /\ read_id' = read_id /\ rid' = rid /\ readOwner' = readOwner
          /\ pc' = [pc EXCEPT ![t] = "rend"]
      BY <1>13 DEF ReadArgs, conn
    <2>4. /\ read_id[End(t)] >= 2
          /\ t \in Dispatchers => read_id[End(t)] > rid[t]
      BY <1>d, <2>1 DEF FrameInv, RequestId
    <2>5. \A u \in Threads : u # t /\ End(u) = End(t) => pc[u] \notin ReadCS
      BY <1>b, <2>1 DEF ReadCS
    <2>6. \A e \in Ends : e # End(t) => Kept(e)
      BY <2>2, <2>3 DEF ReadCS
    <2>7. pc'[t] = "rend" /\ \A u \in Threads \ {t} : pc'[u] = pc[u]
      BY <2>3
    <2>8. \A u \in Threads : End(u) = End(t) /\ pc[u] = "exit" => read_id[End(t)] = 0
      BY <1>c DEF StreamAt
    <2>9. StreamAt(End(t))'
      BY <2>1, <2>2, <2>3, <2>4, <2>5, <2>7, <2>8
      DEF StreamAt, Fresh, ReadCS, ResponseId
    <2>10. QED
      BY <1>k, <2>6, <2>9 DEF StreamInv
  <1>14. ASSUME NEW t \in Threads, ReadEnd(t) PROVE StreamInv'
    <2>1. /\ t \in Callers \union Dispatchers /\ pc[t] = "rend"
          /\ at[End(t)] = "id"
          /\ at' = at /\ wire' = wire
          /\ read_id' = [read_id EXCEPT ![End(t)] = 0]
          /\ readOwner' = [readOwner EXCEPT ![End(t)] = NoThread]
          /\ \A d \in Dispatchers : d # t => rid'[d] = rid[d]
      BY <1>14, <1>c DEF ReadEnd, stream, StreamAt
    <2>2. \A u \in Threads : u # t /\ End(u) = End(t) => pc[u] \notin ReadCS
      BY <1>b, <2>1 DEF ReadCS
    <2>3. /\ pc'[t] \in {"exec", "ready", "idle"}
          /\ \A u \in Threads \ {t} : pc'[u] = pc[u] \/ (pc[u] = "wait" /\ pc'[u] = "rlock")
      <3>1. \E l \in {"exec", "ready", "idle"} :
              pc' = [Broadcast(End(t)) EXCEPT ![t] = l]
        BY <1>14 DEF ReadEnd
      <3>2. QED
        BY <3>1 DEF Broadcast
    <2>4. \A e \in Ends : e # End(t) => Kept(e)
      BY <2>1, <2>3 DEF ReadCS
    <2>5. \A u \in Threads : End(u) = End(t) => pc'[u] \notin ReadCS
      BY <2>2, <2>3 DEF ReadCS
    <2>6. StreamAt(End(t))'
      BY <2>1, <2>5 DEF StreamAt, ReadCS
    <2>7. QED
      BY <1>k, <2>4, <2>6 DEF StreamInv
  <1>15. ASSUME NEW t \in Threads, DispatchSpawn(t), NEW e \in Ends PROVE Kept(e)
    BY <1>15 DEF DispatchSpawn, conn, local, stream, ReadCS
  <1>16. ASSUME NEW t \in Threads, DispatchOp(t) PROVE StreamInv'
    <2>1. /\ t \in Dispatchers /\ pc[t] = "op" /\ readOwner[End(t)] = t
          /\ wire[End(t)] # <<>> /\ at[End(t)] = "op"
          /\ wire[End(t)][1].id = read_id[End(t)]
          /\ wire[End(t)][1].op # Reply
          /\ ResponseId(End(t), read_id[End(t)])
      BY <1>16, <1>c, <1>e DEF DispatchOp, StreamAt, Fresh, ReadCS
    <2>2. /\ wire' = wire /\ at'[End(t)] = "body"
          /\ \A o \in Ends : o # End(t) => at'[o] = at[o]
      <3>1. wire' = wire
        BY <1>16, <2>1 DEF DispatchOp, Advance
      <3>2. QED
        BY <1>16, <2>1, <3>1, AdvanceFacts DEF DispatchOp
    <2>3. /\ pc'[t] \in {"flag", "args"}
          /\ \A u \in Threads \ {t} : pc'[u] = pc[u]
      <3>1. End(t) = "client" => Item(End(t)) = "hostFunc"
        BY <1>d, <2>1, ItemFacts DEF FrameInv
      <3>2. QED
        BY <1>16, <3>1 DEF DispatchOp, Ends
    <2>4. read_id' = read_id /\ rid' = rid /\ readOwner' = readOwner
      BY <1>16 DEF DispatchOp, conn
    <2>5. \A u \in Threads : u # t /\ End(u) = End(t) => pc[u] \notin ReadCS
      BY <1>b, <2>1 DEF ReadCS
    <2>6. \A e \in Ends : e # End(t) => Kept(e)
      BY <2>2, <2>3, <2>4 DEF ReadCS
    <2>7. \A u \in Threads : End(u) = End(t) /\ pc[u] = "exit" => read_id[End(t)] = 0
      BY <1>c DEF StreamAt
    <2>8. \A u \in Threads : End(u) = End(t) =>
            /\ pc'[u] \notin {"recv", "op", "rend"}
            /\ pc'[u] \in {"flag", "args"} => u = t
            /\ pc'[u] = "exit" => pc[u] = "exit"
      BY <2>3, <2>5 DEF ReadCS
    <2>9. StreamAt(End(t))'
      BY <2>1, <2>2, <2>3, <2>4, <2>7, <2>8 DEF StreamAt, Fresh, ResponseId
    <2>10. QED
      BY <1>k, <2>6, <2>9 DEF StreamInv
  <1>17. ASSUME NEW t \in Threads, SetSuppress(t) PROVE StreamInv'
    <2>1. /\ t \in Dispatchers /\ pc[t] = "flag"
          /\ pc'[t] = "args"
          /\ \A u \in Threads \ {t} : pc'[u] = pc[u]
          /\ read_id' = read_id /\ rid' = rid /\ readOwner' = readOwner
          /\ at' = at /\ wire' = wire
      BY <1>17 DEF SetSuppress, Dispatchers, stream, local
    <2>2. \A e \in Ends : e # End(t) => Kept(e)
      BY <2>1 DEF ReadCS
    <2>3. \A u \in Threads : u # t /\ End(u) = End(t) => pc[u] \notin ReadCS
      BY <1>b, <2>1 DEF ReadCS
    <2>4. /\ wire[End(t)] # <<>> /\ at[End(t)] = "body"
          /\ wire[End(t)][1].id = read_id[End(t)]
          /\ wire[End(t)][1].op # Reply
          /\ ResponseId(End(t), read_id[End(t)])
      BY <1>c, <2>1 DEF StreamAt
    <2>5. \A u \in Threads : End(u) = End(t) /\ pc[u] = "exit" => read_id[End(t)] = 0
      BY <1>c DEF StreamAt
    <2>6. readOwner[End(t)] = t
      BY <1>e, <2>1 DEF ReadCS
    <2>7. \A u \in Threads : End(u) = End(t) =>
            /\ pc'[u] \notin {"recv", "op", "rend"}
            /\ pc'[u] \in {"flag", "args"} => u = t
            /\ pc'[u] = "exit" => pc[u] = "exit"
      BY <2>1, <2>3 DEF ReadCS
    <2>8. StreamAt(End(t))'
      BY <2>1, <2>4, <2>5, <2>6, <2>7 DEF StreamAt, Fresh, ResponseId
    <2>9. QED
      BY <1>k, <2>2, <2>8 DEF StreamInv
  <1>18. ASSUME NEW t \in Threads, Execute(t), NEW e \in Ends PROVE Kept(e)
    <2>1. /\ pc[t] = "exec" /\ pc'[t] \in {"wlock", "spawn"}
          /\ \A u \in Threads \ {t} :
               pc'[u] = pc[u] \/ (pc[u] = "idle" /\ pc'[u] = "ready")
      BY <1>18 DEF Execute, Dispatchers, Callers
    <2>2. read_id' = read_id /\ rid' = rid /\ readOwner' = readOwner
          /\ at' = at /\ wire' = wire
      BY <1>18 DEF Execute, conn, local, stream
    <2>3. QED
      BY <2>1, <2>2 DEF ReadCS
  <1>19. ASSUME NEW t \in Threads, InvokeHostFunc(t), NEW e \in Ends PROVE Kept(e)
    BY <1>19 DEF InvokeHostFunc, conn, local, stream, ReadCS
  <1>20. ASSUME NEW o \in Ends, Die(o), NEW e \in Ends PROVE Kept(e)
    BY <1>20 DEF Die, conn, local, stream
  <1>21. ASSUME UNCHANGED vars, NEW e \in Ends PROVE Kept(e)
    BY <1>21 DEF vars, conn, local, stream
  <1> HIDE DEF Kept
  <1>22. (\A e \in Ends : Kept(e)) => StreamInv'
    BY <1>k DEF StreamInv
  <1>23. QED
    BY <1>1, <1>2, <1>3, <1>4, <1>5, <1>5e, <1>6, <1>7, <1>8, <1>9, <1>10, <1>11,
       <1>12,
       <1>13, <1>14, <1>15, <1>16, <1>17, <1>18, <1>19, <1>20, <1>21, <1>22
    DEF Next, Progress

\* The inductive invariant holds of a new connection.
LEMMA InitIInv == Init => IInv
  <1> SUFFICES ASSUME Init PROVE IInv
    OBVIOUS
  <1> USE EndFacts, ThreadKinds
  <1>1. \A t \in Threads : pc[t] \in {"idle", "ready", "off", "spawn"}
    BY DEF Init
  <1>2. LockInv
    BY <1>1 DEF LockInv, ReadCS
  <1>3. BuildInv
    <2>1. \A e \in Ends : request_id[e] % 2 = Parity(Peer(e))
      BY DEF Init, Ends, Peer, Parity
    <2>2. \A e \in Ends : write_id[e] <= rid[Dispatcher(e)]
      BY DEF Init
    <2>3. QED
      BY <1>1, <2>1, <2>2 DEF BuildInv
  <1>4. OrderInv
    BY DEF Init, OrderInv, Ordered
  <1>5. TakenInv
    <2>1. \A e \in Ends : /\ pc[Dispatcher(e)] # "rend"
                          /\ rid[Dispatcher(e)] = 0
                          /\ request_id[Peer(e)] \in {0, 1}
      BY <1>1 DEF Init
    <2>2. \A t \in Callers : pc[t] # "wbuild"
      BY <1>1
    <2>3. QED
      BY <2>1, <2>2 DEF TakenInv
  <1>6. StreamInv
    BY <1>1 DEF Init, StreamInv, StreamAt
  <1>7. QED
    BY <1>2, <1>3, <1>4, <1>5, <1>6, InitTypeOK DEF IInv

\* Every step keeps the inductive invariant.
LEMMA NextIInv == IInv /\ [Next]_vars => IInv'
  <1> SUFFICES ASSUME IInv, [Next]_vars PROVE IInv'
    OBVIOUS
  <1>1. TypeOK'
    BY NextTypeOK DEF IInv
  <1>2. LockInv'
    BY NextLockInv DEF IInv
  <1>3. BuildInv'
    BY NextBuildInv DEF IInv
  <1>4. QED
    BY <1>1, <1>2, <1>3, NextOrderInv, NextTakenInv, NextStreamInv DEF IInv

\* The inductive invariant holds of every state of every connection, however many
\* threads call and whatever processes exit.
THEOREM Invariance == Spec => []IInv
  BY InitIInv, NextIInv, PTL DEF Spec

\* The fields of conn_t and the places of the threads stay in their types: an id
\* read by _rpc_read_id_dispatch is an id, an opcode read by rpc_dispatch an
\* opcode, and a thread stays in its own program (rpc.cpp:9-58, 78-84).
THEOREM TypeCorrect == Spec => []TypeOK
  <1>1. IInv => TypeOK
    BY DEF IInv
  <1>2. QED
    BY <1>1, Invariance, PTL

\* Nobody reads an item of the wrong kind, or of a frame that is for another
\* thread, for any number of threads and calls, silent handlers, abandoned
\* requests and exits included (rpc.cpp:12-25, 47-57 and 70-93).
THEOREM Alignment == Spec => []FrameAligned
  <1>1. ASSUME IInv PROVE FrameAligned
    <2> SUFFICES ASSUME NEW t \in Threads
                 PROVE  /\ pc[t] = "recv" => at[End(t)] = "id" /\ read_id[End(t)] = 0
                        /\ pc[t] \in {"op", "flag", "args"} =>
                             /\ wire[End(t)] # <<>>
                             /\ at[End(t)] = IF pc[t] = "op" THEN "op" ELSE "body"
                             /\ Head(wire[End(t)]).id = read_id[End(t)]
                             /\ (Head(wire[End(t)]).op = Reply) <=> (t \in Callers)
                        /\ pc[t] = "exit" => at[End(t)] = "id"
      BY DEF FrameAligned, Readable
    <2>1. End(t) \in Ends /\ StreamAt(End(t))
      BY <1>1, EndFacts DEF IInv, StreamInv
    <2>2. wire[End(t)] # <<>> => Head(wire[End(t)]) = wire[End(t)][1]
      BY <1>1, <2>1, ItemFacts DEF IInv
    <2>3. pc[t] \in {"op", "flag"} => t \notin Callers
      BY <1>1 DEF IInv, TypeOK, PcOK, Places, CallerPC
    <2>4. QED
      BY <2>1, <2>2, <2>3 DEF StreamAt, Fresh
  <1>2. QED
    BY <1>1, Invariance, PTL
-----------------------------------------------------------------------------
(* That the reading of a stream goes on.                                   *)

\* read_mutex is held by a thread of the process that is reading.
HeldInv ==
  \A e \in Ends :
    readOwner[e] # NoThread =>
      /\ readOwner[e] \in Threads /\ End(readOwner[e]) = e
      /\ pc[readOwner[e]] \in ReadCS

\* No wake-up is lost: a thread waits only while its turn has not come.
WakeInv == \A t \in Threads : pc[t] = "wait" => ~Turn(t)

\* The reader thread is gone only when nothing can arrive any more, or the
\* dispatcher is about to create it.
ReaderInv ==
  \A e \in Ends :
    pc[Reader(e)] \in {"off", "exit"} =>
      EOF(e) \/ (pc[Reader(e)] = "off" /\ pc[Dispatcher(e)] = "spawn")

MoveInv == HeldInv /\ WakeInv /\ ReaderInv

LEMMA NextHeldInv ==
  ASSUME IInv, HeldInv, [Next]_vars
  PROVE  HeldInv'
  <1>a. /\ pc \in [Threads -> PCs]
        /\ readOwner \in [Ends -> Threads \union {NoThread}]
        /\ LockInv
    BY DEF IInv, TypeOK, PcOK, DataOK
  <1> USE <1>a, EndFacts, ThreadKinds DEF HeldInv, LockInv, ReadCS, At
  <1>1. ASSUME NEW t \in Threads, StartRequest(t) PROVE HeldInv'
    BY <1>1 DEF StartRequest
  <1>2. ASSUME NEW t \in Threads, StartResponse(t) PROVE HeldInv'
    BY <1>2 DEF StartResponse
  <1>3. ASSUME NEW t \in Threads, WriteEndSuppressed(t) PROVE HeldInv'
    BY <1>3 DEF WriteEndSuppressed, AfterWrite
  <1>4. ASSUME NEW t \in Threads, WriteEndSend(t) PROVE HeldInv'
    BY <1>4 DEF WriteEndSend, AfterWrite
  <1>5. ASSUME NEW t \in Threads, WriteEndBroken(t) PROVE HeldInv'
    BY <1>5 DEF WriteEndBroken, conn
  <1>5e. ASSUME NEW t \in Threads, WriteEndError(t) PROVE HeldInv'
    BY <1>5e DEF WriteEndError, AfterError, conn
  <1>6. ASSUME NEW t \in Threads, WriteEndReturn(t) PROVE HeldInv'
    BY <1>6 DEF WriteEndReturn, conn
  <1>7. ASSUME NEW t \in Threads, AbandonRequest(t) PROVE HeldInv'
    BY <1>7 DEF AbandonRequest, conn
  <1>8. ASSUME NEW t \in Threads, ReadLock(t) PROVE HeldInv'
    BY <1>8 DEF ReadLock, OnTurn
  <1>9. ASSUME NEW t \in Threads, ReadWait(t) PROVE HeldInv'
    BY <1>9 DEF ReadWait, conn
  <1>10. ASSUME NEW t \in Threads, ReaderRecv(t) PROVE HeldInv'
    BY <1>10 DEF ReaderRecv, Broadcast
  <1>11. ASSUME NEW t \in Threads, ReaderEOF(t) PROVE HeldInv'
    BY <1>11 DEF ReaderEOF
  <1>12. ASSUME NEW t \in Threads, ReaderExit(t) PROVE HeldInv'
    BY <1>12 DEF ReaderExit, conn
  <1>13. ASSUME NEW t \in Threads, ReadArgs(t) PROVE HeldInv'
    BY <1>13 DEF ReadArgs, conn
  <1>14. ASSUME NEW t \in Threads, ReadEnd(t) PROVE HeldInv'
    BY <1>14 DEF ReadEnd, Broadcast
  <1>15. ASSUME NEW t \in Threads, DispatchSpawn(t) PROVE HeldInv'
    BY <1>15 DEF DispatchSpawn, conn
  <1>16. ASSUME NEW t \in Threads, DispatchOp(t) PROVE HeldInv'
    <2>1. /\ pc[t] = "op" /\ t \in Dispatchers /\ wire[End(t)] # <<>>
          /\ wire[End(t)][1].op # Reply /\ Item(End(t)) = wire[End(t)][1].op
      BY <1>16, ItemFacts DEF DispatchOp, IInv, StreamInv, StreamAt, Fresh
    <2>2. 1 \in 1 .. Len(wire[End(t)])
      BY <2>1, ItemFacts DEF IInv
    <2>3. End(t) = "server" \/ Item(End(t)) = "hostFunc"
      BY <2>1, <2>2 DEF IInv, OrderInv, FrameInv, Ends
    <2>4. pc'[t] \in {"flag", "args"} /\ \A u \in Threads : u # t => pc'[u] = pc[u]
      BY <1>16, <2>3 DEF DispatchOp
    <2>5. QED
      BY <1>16, <2>4 DEF DispatchOp, conn
  <1>17. ASSUME NEW t \in Threads, SetSuppress(t) PROVE HeldInv'
    BY <1>17 DEF SetSuppress
  <1>18. ASSUME NEW t \in Threads, Execute(t) PROVE HeldInv'
    BY <1>18 DEF Execute, conn
  <1>19. ASSUME NEW t \in Threads, InvokeHostFunc(t) PROVE HeldInv'
    BY <1>19 DEF InvokeHostFunc, conn
  <1>20. ASSUME NEW e \in Ends, Die(e) PROVE HeldInv'
    BY <1>20 DEF Die, conn
  <1>21. CASE UNCHANGED vars
    BY <1>21 DEF vars, conn
  <1>22. QED
    BY <1>1, <1>2, <1>3, <1>4, <1>5, <1>5e, <1>6, <1>7, <1>8, <1>9, <1>10, <1>11,
       <1>12, <1>13, <1>14, <1>15, <1>16, <1>17, <1>18, <1>19, <1>20, <1>21
       DEF Next, Progress

\* A thread's turn is decided by read_id and the id it waits for.
LEMMA TurnKept ==
  ASSUME NEW t \in Threads, read_id'[End(t)] = read_id[End(t)],
         t \in Callers => rid'[t] = rid[t]
  PROVE  Turn(t)' <=> Turn(t)
  BY DEF Turn, End, Parity

\* Whoever changes read_id wakes those that wait for it.
LEMMA NextWakeInv ==
  ASSUME IInv, WakeInv, [Next]_vars
  PROVE  WakeInv'
  <1>a. /\ pc \in [Threads -> PCs] /\ rid \in [Callers \union Dispatchers -> Nat]
        /\ read_id \in [Ends -> Nat]
    BY DEF IInv, TypeOK, PcOK, DataOK
  <1>b. ASSUME NEW t \in Threads, pc'[t] = "wait" => pc[t] = "wait",
               read_id'[End(t)] = read_id[End(t)],
               t \in Callers /\ pc[t] = "wait" => rid'[t] = rid[t]
        PROVE  pc'[t] = "wait" => ~Turn(t)'
    BY <1>b, TurnKept DEF WakeInv
  <1>c. ASSUME read_id' = read_id, \A t \in Threads : pc'[t] = "wait" => pc[t] = "wait",
               \A t \in Callers : pc[t] = "wait" => rid'[t] = rid[t]
        PROVE  WakeInv'
    BY <1>b, <1>c DEF WakeInv
  <1> USE <1>a, EndFacts, ThreadKinds DEF At
  <1>1. ASSUME NEW t \in Threads, StartRequest(t) PROVE WakeInv'
    BY <1>1, <1>c DEF StartRequest
  <1>2. ASSUME NEW t \in Threads, StartResponse(t) PROVE WakeInv'
    BY <1>2, <1>c DEF StartResponse, local
  <1>3. ASSUME NEW t \in Threads, WriteEndSuppressed(t) PROVE WakeInv'
    BY <1>3, <1>c DEF WriteEndSuppressed, AfterWrite, local
  <1>4. ASSUME NEW t \in Threads, WriteEndSend(t) PROVE WakeInv'
    BY <1>4, <1>c DEF WriteEndSend, AfterWrite, local
  <1>5. ASSUME NEW t \in Threads, WriteEndBroken(t) PROVE WakeInv'
    BY <1>5, <1>c DEF WriteEndBroken, conn, local
  <1>5e. ASSUME NEW t \in Threads, WriteEndError(t) PROVE WakeInv'
    BY <1>5e, <1>c DEF WriteEndError, AfterError, conn, local
  <1>6. ASSUME NEW t \in Threads, WriteEndReturn(t) PROVE WakeInv'
    BY <1>6, <1>c DEF WriteEndReturn, conn
  <1>7. ASSUME NEW t \in Threads, AbandonRequest(t) PROVE WakeInv'
    BY <1>7, <1>c DEF AbandonRequest, conn, local
  <1>8. ASSUME NEW t \in Threads, ReadLock(t) PROVE WakeInv'
    BY <1>8, <1>c DEF ReadLock, OnTurn, local
  <1>9. ASSUME NEW t \in Threads, ReadWait(t) PROVE WakeInv'
    <2>1. /\ \A u \in Threads : u # t => pc'[u] = pc[u]
          /\ ~Turn(t) /\ read_id' = read_id /\ rid' = rid
      BY <1>9 DEF ReadWait, conn, local
    <2>2. QED
      BY <1>b, <2>1, TurnKept DEF WakeInv
  <1>10. ASSUME NEW t \in Threads, ReaderRecv(t) PROVE WakeInv'
    <2>1. /\ t \in Readers /\ pc[t] = "recv" /\ wire[End(t)] # <<>> /\ at[End(t)] = "id"
          /\ read_id' = [read_id EXCEPT ![End(t)] = Item(End(t))]
          /\ pc' = [Broadcast(End(t)) EXCEPT ![t] = "wait"] /\ rid' = rid
      BY <1>10 DEF ReaderRecv, Readable, local, IInv, StreamInv, StreamAt
    <2>2. Item(End(t)) # 0
      <3>1. 1 \in 1 .. Len(wire[End(t)]) /\ Item(End(t)) = wire[End(t)][1].id
        BY <2>1, ItemFacts DEF IInv
      <3>2. FrameInv(End(t), wire[End(t)][1])
        BY <3>1 DEF IInv, OrderInv
      <3>3. QED
        BY <3>1, <3>2 DEF FrameInv, RequestId
    <2>3. ~Turn(t)'
      BY <2>1, <2>2 DEF Turn, End
    <2>4. ASSUME NEW u \in Threads, u # t, pc'[u] = "wait" PROVE ~Turn(u)'
      <3>1. pc[u] = "wait" /\ End(u) # End(t)
        BY <2>1, <2>4 DEF Broadcast
      <3>2. QED
        BY <1>b, <2>1, <2>4, <3>1
    <2>5. QED
      BY <2>3, <2>4 DEF WakeInv
  <1>11. ASSUME NEW t \in Threads, ReaderEOF(t) PROVE WakeInv'
    BY <1>11, <1>c DEF ReaderEOF, local
  <1>12. ASSUME NEW t \in Threads, ReaderExit(t) PROVE WakeInv'
    BY <1>12, <1>c DEF ReaderExit, conn, local
  <1>13. ASSUME NEW t \in Threads, ReadArgs(t) PROVE WakeInv'
    BY <1>13, <1>c DEF ReadArgs, conn
  <1>14. ASSUME NEW t \in Threads, ReadEnd(t) PROVE WakeInv'
    <2>1. /\ t \in Callers \union Dispatchers /\ pc'[t] # "wait"
          /\ read_id' = [read_id EXCEPT ![End(t)] = 0]
          /\ \A u \in Threads : u # t => pc'[u] = Broadcast(End(t))[u]
          /\ \A u \in Callers : rid'[u] = rid[u]
      BY <1>14 DEF ReadEnd, Broadcast
    <2>2. ASSUME NEW u \in Threads, pc'[u] = "wait" PROVE ~Turn(u)'
      <3>1. pc[u] = "wait" /\ End(u) # End(t)
        BY <2>1, <2>2 DEF Broadcast
      <3>2. QED
        BY <1>b, <2>1, <2>2, <3>1
    <2>3. QED
      BY <2>2 DEF WakeInv
  <1>15. ASSUME NEW t \in Threads, DispatchSpawn(t) PROVE WakeInv'
    BY <1>15, <1>c DEF DispatchSpawn, conn, local
  <1>16. ASSUME NEW t \in Threads, DispatchOp(t) PROVE WakeInv'
    BY <1>16, <1>c DEF DispatchOp, conn
  <1>17. ASSUME NEW t \in Threads, SetSuppress(t) PROVE WakeInv'
    BY <1>17, <1>c DEF SetSuppress, local
  <1>18. ASSUME NEW t \in Threads, Execute(t) PROVE WakeInv'
    BY <1>18, <1>c DEF Execute, conn, local
  <1>19. ASSUME NEW t \in Threads, InvokeHostFunc(t) PROVE WakeInv'
    BY <1>19, <1>c DEF InvokeHostFunc, conn, local
  <1>20. ASSUME NEW e \in Ends, Die(e) PROVE WakeInv'
    BY <1>20, <1>c DEF Die, conn, local
  <1>21. CASE UNCHANGED vars
    BY <1>21, <1>c DEF vars, conn, local
  <1>22. QED
    BY <1>1, <1>2, <1>3, <1>4, <1>5, <1>5e, <1>6, <1>7, <1>8, <1>9, <1>10, <1>11,
       <1>12, <1>13, <1>14, <1>15, <1>16, <1>17, <1>18, <1>19, <1>20, <1>21
       DEF Next, Progress

\* The reader thread ends at the end of the stream, which has nothing after it.
LEMMA NextReaderInv ==
  ASSUME IInv, ReaderInv, [Next]_vars
  PROVE  ReaderInv'
  <1>a. /\ pc \in [Threads -> PCs] /\ alive \in [Ends -> BOOLEAN]
        /\ wire \in [Ends -> Seq(Frame)] /\ LockInv
        /\ \A d \in Dispatchers : pc[d] \in DispatcherPC
        /\ \A r \in Readers : pc[r] \in ReaderPC
    BY ThreadKinds DEF IInv, TypeOK, PcOK, DataOK, Places
  <1>b. ASSUME alive' = alive,
               \A e \in Ends : wire[e] = <<>> /\ ~alive[Peer(e)] => wire'[e] = <<>>,
               \A t \in Readers : pc'[t] \in {"off", "exit"} => pc'[t] = pc[t],
               \A t \in Dispatchers : pc[t] = "spawn" => pc'[t] = "spawn"
        PROVE  ReaderInv'
    <2> SUFFICES ASSUME NEW e \in Ends, pc'[Reader(e)] \in {"off", "exit"}
                 PROVE  \/ wire'[e] = <<>> /\ ~alive'[Peer(e)]
                        \/ pc'[Reader(e)] = "off" /\ pc'[Dispatcher(e)] = "spawn"
      BY DEF ReaderInv, EOF, Readable, Reader, Dispatcher, Peer
    <2>1. QED
      BY <1>b, EndFacts DEF ReaderInv, EOF, Readable
  <1> USE <1>a, EndFacts, ThreadKinds DEF At
  <1>1. ASSUME NEW t \in Threads, StartRequest(t) PROVE ReaderInv'
    BY <1>1, <1>b DEF StartRequest, stream
  <1>2. ASSUME NEW t \in Threads, StartResponse(t) PROVE ReaderInv'
    BY <1>2, <1>b DEF StartResponse, stream
  <1>3. ASSUME NEW t \in Threads, WriteEndSuppressed(t) PROVE ReaderInv'
    BY <1>3, <1>b DEF WriteEndSuppressed, stream, AfterWrite
  <1>4. ASSUME NEW t \in Threads, WriteEndSend(t) PROVE ReaderInv'
    <2>1. /\ alive' = alive /\ alive[End(t)]
          /\ \A e \in Ends : e # Peer(End(t)) => wire'[e] = wire[e]
          /\ t \in Callers \union Dispatchers /\ pc[t] = "wbuild"
          /\ \A u \in Threads : u # t => pc'[u] = pc[u]
      BY <1>4 DEF WriteEndSend
    <2>2. \A e \in Ends : wire[e] = <<>> /\ ~alive[Peer(e)] => wire'[e] = <<>>
      BY <2>1
    <2>3. QED
      BY <1>b, <2>1, <2>2
  <1>5. ASSUME NEW t \in Threads, WriteEndBroken(t) PROVE ReaderInv'
    <2>1. /\ wire' = wire /\ pc' = pc
          /\ alive' = [alive EXCEPT ![End(t)] = FALSE]
      BY <1>5 DEF WriteEndBroken, stream
    <2>2. QED
      BY <2>1 DEF ReaderInv, EOF, Readable, Reader, Dispatcher, Peer
  <1>5e. ASSUME NEW t \in Threads, WriteEndError(t) PROVE ReaderInv'
    BY <1>5e, <1>b DEF WriteEndError, AfterError, stream
  <1>6. ASSUME NEW t \in Threads, WriteEndReturn(t) PROVE ReaderInv'
    BY <1>6, <1>b DEF WriteEndReturn, stream
  <1>7. ASSUME NEW t \in Threads, AbandonRequest(t) PROVE ReaderInv'
    BY <1>7, <1>b DEF AbandonRequest, stream
  <1>8. ASSUME NEW t \in Threads, ReadLock(t) PROVE ReaderInv'
    BY <1>8, <1>b DEF ReadLock, stream, OnTurn
  <1>9. ASSUME NEW t \in Threads, ReadWait(t) PROVE ReaderInv'
    BY <1>9, <1>b DEF ReadWait, stream
  <1>10. ASSUME NEW t \in Threads, ReaderRecv(t) PROVE ReaderInv'
    <2>1. /\ t \in Readers /\ wire' = wire /\ alive' = alive
          /\ pc' = [Broadcast(End(t)) EXCEPT ![t] = "wait"]
      <3>1. t \in Readers /\ wire[End(t)] # <<>> /\ at[End(t)] = "id"
        BY <1>10 DEF ReaderRecv, Readable, IInv, StreamInv, StreamAt
      <3>2. QED
        BY <1>10, <3>1 DEF ReaderRecv, Advance
    <2>2. /\ pc'[t] = "wait"
          /\ \A u \in Readers \union Dispatchers :
               u # t => pc'[u] = pc[u] \/ (pc[u] = "wait" /\ pc'[u] = "rlock")
      BY <2>1 DEF Broadcast
    <2>3. QED
      BY <1>b, <2>1, <2>2
  <1>11. ASSUME NEW t \in Threads, ReaderEOF(t) PROVE ReaderInv'
    <2>1. /\ t \in Readers /\ wire' = wire /\ alive' = alive
          /\ EOF(End(t)) /\ pc' = [pc EXCEPT ![t] = "exit"]
      BY <1>11 DEF ReaderEOF, stream
    <2>2. QED
      BY <2>1 DEF ReaderInv, EOF, Readable, Reader, Dispatcher, Peer
  <1>12. ASSUME NEW t \in Threads, ReaderExit(t) PROVE ReaderInv'
    <2>1. /\ t \in Readers /\ wire' = wire /\ alive' = alive
          /\ pc[t] = "exit" /\ pc' = [pc EXCEPT ![t] = "off"]
      BY <1>12 DEF ReaderExit, stream
    <2>2. QED
      BY <2>1 DEF ReaderInv, EOF, Readable, Reader, Dispatcher, Peer
  <1>13. ASSUME NEW t \in Threads, ReadArgs(t) PROVE ReaderInv'
    <2>1. /\ t \in Callers \union Dispatchers /\ wire[End(t)] # <<>> /\ alive' = alive
          /\ pc[t] = "args" /\ pc' = [pc EXCEPT ![t] = "rend"]
          /\ \A e \in Ends : e # End(t) => wire'[e] = wire[e]
      BY <1>13 DEF ReadArgs, Readable, Advance
    <2>2. QED
      BY <1>b, <2>1
  <1>14. ASSUME NEW t \in Threads, ReadEnd(t) PROVE ReaderInv'
    <2>1. /\ t \in Callers \union Dispatchers /\ wire' = wire /\ alive' = alive
          /\ pc[t] = "rend"
          /\ \A u \in Threads : u # t => pc'[u] = Broadcast(End(t))[u]
      BY <1>14 DEF ReadEnd, stream, Broadcast
    <2>2. \A u \in Readers \union Dispatchers :
            u # t => pc'[u] = pc[u] \/ (pc[u] = "wait" /\ pc'[u] = "rlock")
      BY <2>1 DEF Broadcast
    <2>3. QED
      BY <1>b, <2>1, <2>2
  <1>15. ASSUME NEW t \in Threads, DispatchSpawn(t) PROVE ReaderInv'
    <2>1. /\ t \in Dispatchers /\ wire' = wire /\ alive' = alive
          /\ \A u \in Threads : pc'[u] = IF u = t \/ (u = Reader(End(t)) /\ pc[u] = "off")
                                         THEN "rlock" ELSE pc[u]
      BY <1>15 DEF DispatchSpawn, stream
    <2>2. \A e \in Ends : t = Dispatcher(e) <=> e = End(t)
      BY <2>1
    <2>3. QED
      BY <2>1, <2>2 DEF ReaderInv, EOF, Readable, Reader, Dispatcher, Peer
  <1>16. ASSUME NEW t \in Threads, DispatchOp(t) PROVE ReaderInv'
    <2>1. wire[End(t)] # <<>> /\ at[End(t)] = "op"
      BY <1>16 DEF DispatchOp, Readable, IInv, StreamInv, StreamAt, Fresh
    <2>2. wire' = wire
      BY <1>16, <2>1 DEF DispatchOp, Advance
    <2>3. QED
      BY <1>16, <1>b, <2>2 DEF DispatchOp
  <1>17. ASSUME NEW t \in Threads, SetSuppress(t) PROVE ReaderInv'
    BY <1>17, <1>b DEF SetSuppress, stream
  <1>18. ASSUME NEW t \in Threads, Execute(t) PROVE ReaderInv'
    <2>1. /\ t \in Dispatchers /\ pc[t] = "exec" /\ wire' = wire /\ alive' = alive
      BY <1>18 DEF Execute, stream, Dispatchers
    <2>2. ASSUME NEW u \in Readers \union Dispatchers, u # t PROVE pc'[u] = pc[u]
      <3>1. \/ \E l \in PCs : pc' = [pc EXCEPT ![t] = l]
            \/ \E c \in Callers : pc' = [pc EXCEPT ![t] = "wlock", ![c] = "ready"]
        BY <1>18 DEF Execute, Callers, PCs, DispatcherPC
      <3>2. QED
        BY <2>2, <3>1
    <2>3. \A r \in Readers : pc'[r] = pc[r]
      BY <2>1, <2>2
    <2>4. \A d \in Dispatchers : pc[d] = "spawn" => pc'[d] = "spawn"
      BY <2>1, <2>2
    <2>5. QED
      BY <1>b, <2>1, <2>3, <2>4
  <1>19. ASSUME NEW t \in Threads, InvokeHostFunc(t) PROVE ReaderInv'
    BY <1>19, <1>b DEF InvokeHostFunc, stream
  <1>20. ASSUME NEW e \in Ends, Die(e) PROVE ReaderInv'
    <2>1. wire' = wire /\ pc' = pc /\ alive' = [alive EXCEPT ![e] = FALSE]
      BY <1>20 DEF Die, stream
    <2>2. QED
      BY <2>1 DEF ReaderInv, EOF, Readable, Reader, Dispatcher, Peer
  <1>21. CASE UNCHANGED vars
    BY <1>21, <1>b DEF vars, stream
  <1>22. QED
    BY <1>1, <1>2, <1>3, <1>4, <1>5, <1>5e, <1>6, <1>7, <1>8, <1>9, <1>10, <1>11,
       <1>12, <1>13, <1>14, <1>15, <1>16, <1>17, <1>18, <1>19, <1>20, <1>21
       DEF Next, Progress

\* A connection's mutexes are held, its threads woken and its streams read as
\* MoveInv says, for any threads, calls and exits (rpc.cpp:12-47, 70-104).
THEOREM MoveInvariance == Spec => []MoveInv
  <1>1. ASSUME Init PROVE MoveInv
    <2>1. /\ \A t \in Threads : pc[t] \in {"idle", "ready", "off", "spawn"}
          /\ \A e \in Ends : /\ pc[Reader(e)] = "off" /\ pc[Dispatcher(e)] = "spawn"
                            /\ readOwner[e] = NoThread
      BY <1>1, EndFacts, ThreadKinds DEF Init, Callers
    <2>2. QED
      BY <2>1 DEF MoveInv, HeldInv, WakeInv, ReaderInv
  <1>2. IInv /\ MoveInv /\ [Next]_vars => MoveInv'
    BY NextHeldInv, NextWakeInv, NextReaderInv DEF MoveInv
  <1>3. QED
    BY <1>1, <1>2, Invariance, PTL DEF Spec
=============================================================================
