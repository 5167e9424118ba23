-------------------------- MODULE RpcService_proofs --------------------------
(***************************************************************************)
(* Proofs that a connection implements RpcService and that every call      *)
(* returns with its own response: for any number of application threads    *)
(* and calls, as long as CUDA calls back on one thread and no handler      *)
(* keeps silent, or there is one application thread only.  Without these   *)
(* the race of rpc_write_end gives a call the response to another.         *)
(***************************************************************************)
EXTENDS RpcConn_proofs

\* CUDA runs the host functions of a process on one thread.
OneCallback == \A c, d \in Callbacks : c = d

\* Every handler responds, or nobody else can be given the wrong response.
Responsive == \/ \A a, b \in Apps : a = b
              \/ "cudaGraphAddKernelNode" \notin CallOps

-----------------------------------------------------------------------------
\* The id of the k-th call that reached the stream to process e.
Serial(e, k) == 2 * k + Parity(e)

\* The calls process e has executed, or is about to.
Taken(e) ==
  IF pc[Dispatcher(e)] \in {"rend", "exec"} THEN Len(executed[e]) + 1
  ELSE Len(executed[e])

\* No other thread of the process makes calls.
Alone(t) == \A u \in Callers : End(u) = End(t) => u = t

\* A caller that waits for no call that was ever sent: its request was taken for
\* an asynchronous response, or it returned the id of one.
Lost(t) ==
  /\ pc[t] \in Waiting \ {"args"} /\ Alone(t)
  /\ \A k \in 1 .. Len(sent[Peer(End(t))]) : Ticket(t) # Serial(Peer(End(t)), k)

\* The k-th call of process e is on its way, in execution or answered, but the
\* answer has not been read.
Pending(e, k) ==
  \/ k > Taken(e)
  \/ k = Taken(e) /\ pc[Dispatcher(e)] \in {"rend", "exec", "wlock", "wbuild"}
  \/ \E i \in 1 .. Len(wire[Peer(e)]) :
       wire[Peer(e)][i].op = Reply /\ wire[Peer(e)][i].id = Serial(e, k)

-----------------------------------------------------------------------------
\* The call a thread is in is its own.
CallInv ==
  \A t \in Callers :
    /\ pc[t] \in Waiting \union {"wbuild", "rend"} =>
         call[t].by = t /\ call[t].op \in IF t \in Apps THEN CallOps ELSE {"hostFunc"}
    /\ pc[t] = "wbuild" => write_op[End(t)] = call[t].op
    /\ pc[t] \in Waiting \union {"rend"} => call[t].op \notin Async

\* suppress_response is set in the server only, and while a handler runs it is
\* set for an asynchronous call only.
SuppressInv ==
  /\ ~suppress_response["client"]
  /\ \A d \in Dispatchers :
       /\ pc[d] \in {"flag", "args"} => op[d] = wire[End(d)][1].op
       /\ pc[d] \in {"rend", "exec", "wlock", "wbuild"} => op[d] = arg[d].op
       /\ pc[d] \in {"args", "rend", "exec", "wlock", "wbuild"} /\ suppress_response[End(d)]
            => op[d] \in Async

\* The calls that have returned have done so with their own response, and the
\* latest call of a thread that waits is not among them.
ResultInv ==
  \A r \in results :
    /\ r[1] = r[2] /\ r[1].by \in Callers
    /\ r[1].n <= call[r[1].by].n
    /\ pc[r[1].by] \in Waiting \union {"wbuild", "rend"} =>
         r[1].n < call[r[1].by].n

Returned(b) == \E r \in results : r[1] = b

\* A thread's calls are sent in their order, and each but the last has returned.
Accounted(e, b) ==
  /\ b.by \in Callers /\ End(b.by) = Peer(e)
  /\ b.n <= call[b.by].n
  /\ pc[b.by] = "wbuild" => b.n < call[b.by].n
  /\ \/ b.op \in Async
     \/ Returned(b)
     \/ b = call[b.by] /\ pc[b.by] \in Waiting \union {"rend"}
SentInv == \A e \in Ends : \A k \in 1 .. Len(sent[e]) : Accounted(e, sent[e][k])

\* A process numbers its requests by how many it has sent, and one more while it
\* builds one, after it has abandoned one, or lost one.
NumberAt(e) ==
  \/ /\ request_id[Peer(e)] = Serial(e, Len(sent[e]))
     /\ \A t \in Callers : End(t) = Peer(e) => pc[t] # "wbuild"
  \/ /\ request_id[Peer(e)] = Serial(e, Len(sent[e]) + 1)
     /\ \/ writeOwner[Peer(e)] \in Callers
        \/ \E t \in Callers : End(t) = Peer(e) /\ Lost(t)
NumberInv == \A e \in Ends : NumberAt(e)

\* The requests on the stream are the calls that were sent and not taken.
RequestInv ==
  \A e \in Ends :
    /\ \A i \in 1 .. Len(wire[e]) :
         wire[e][i].op # Reply =>
           \E k \in 1 .. Len(sent[e]) : /\ wire[e][i].id = Serial(e, k)
                                        /\ wire[e][i].body = sent[e][k]
                                        /\ wire[e][i].op = sent[e][k].op
    /\ \A k \in Taken(e) + 1 .. Len(sent[e]) :
         \E i \in 1 .. Len(wire[e]) :
           wire[e][i].op # Reply /\ wire[e][i].id = Serial(e, k)

\* Calls are executed in the order in which they were sent.
ExecutedAt(e) ==
  LET d == Dispatcher(e)
      n == Len(executed[e])
  IN  /\ Taken(e) <= Len(sent[e])
      /\ \A k \in 1 .. n : executed[e][k] = sent[e][k]
      /\ pc[d] = "rend" => read_id[e] = Serial(e, n + 1)
      /\ pc[d] \in {"rend", "exec"} => arg[d] = sent[e][n + 1]
      /\ pc[d] \in {"wlock", "wbuild"} => n > 0 /\ arg[d] = sent[e][n]
      /\ IF pc[d] = "exec" THEN rid[d] = Serial(e, n + 1)
         ELSE rid[d] = Serial(e, n) \/ (n = 0 /\ rid[d] = 0)
ExecutedInv == \A e \in Ends : ExecutedAt(e)

\* Responses are sent in the order of the calls, and bring back their payloads.
ReplyAt(e) ==
  LET w == wire[Peer(e)]
  IN  /\ \A i \in 1 .. Len(w) :
           w[i].op = Reply =>
             \E k \in 1 .. Len(executed[e]) :
               /\ w[i].id = Serial(e, k) /\ w[i].body = sent[e][k]
               /\ pc[Dispatcher(e)] \in {"wlock", "wbuild"} => k < Len(executed[e])
      /\ \A i, j \in 1 .. Len(w) :
           i < j /\ w[i].op = Reply /\ w[j].op = Reply => w[i].id < w[j].id
ReplyInv == \A e \in Ends : ReplyAt(e)

\* A caller that waits, in a process that runs, can be taken in by no response
\* but its own: that is still to come and comes first, or nobody else calls.
TicketAt(t) ==
  LET e == Peer(End(t))
  IN  IF Alone(t)
      THEN \A j \in 1 .. Len(sent[e]) :
             Ticket(t) = Serial(e, j) => sent[e][j] = call[t]
      ELSE \E k \in 1 .. Len(sent[e]) :
             /\ sent[e][k] = call[t]
             /\ \A j \in 1 .. Len(sent[e]) : Ticket(t) = Serial(e, j) => k <= j
             /\ Pending(e, k)
TicketInv ==
  \A t \in Callers : alive[End(t)] /\ pc[t] \in Waiting => TicketAt(t)

\* What a caller reads is its own response, to a call that was executed.
ReadInv ==
  \A t \in Callers :
    /\ pc[t] = "args" => wire[End(t)][1].body = call[t]
    /\ pc[t] = "rend" => /\ arg[t] = call[t]
                         /\ \E k \in 1 .. Len(executed[Peer(End(t))]) :
                              executed[Peer(End(t))][k] = call[t]

ServiceInv ==
  /\ CallInv /\ SuppressInv /\ ResultInv /\ SentInv /\ NumberInv
  /\ RequestInv /\ ExecutedInv /\ ReplyInv /\ TicketInv /\ ReadInv

-----------------------------------------------------------------------------
\* The steps that change nothing ServiceInv speaks of, suppress_response apart:
\* threads wait, wake up and take their turn, and dispatchers come to the
\* payload of a request.
BeforePayload == {"spawn", "rlock", "wait", "op", "flag", "args"}
Quiet ==
  /\ wire' = wire /\ request_id' = request_id /\ write_id' = write_id
  /\ write_op' = write_op /\ writeOwner' = writeOwner
  /\ call' = call /\ rid' = rid /\ arg' = arg
  /\ sent' = sent /\ executed' = executed /\ results' = results
  /\ \A t \in Callers :
       pc'[t] = pc[t] \/ (pc[t] \in {"rlock", "wait"} /\ pc'[t] \in {"rlock", "wait"})
  /\ \A d \in Dispatchers :
       /\ pc'[d] = pc[d] \/ (pc[d] \in BeforePayload /\ pc'[d] \in BeforePayload)
       /\ pc[d] = "rend" => read_id'[End(d)] = read_id[End(d)]
  /\ \A e \in Ends : alive'[e] => alive[e]

LEMMA StepKinds ==
  ASSUME IInv, [Next]_vars
  PROVE  \/ Quiet
         \/ \E t \in Threads :
              \/ StartRequest(t) \/ StartResponse(t) \/ WriteEndSuppressed(t)
              \/ WriteEndSend(t) \/ WriteEndReturn(t) \/ WriteEndError(t)
              \/ AbandonRequest(t)
              \/ t \in Callers /\ ReadLock(t)
              \/ ReadArgs(t) \/ ReadEnd(t) \/ Execute(t) \/ InvokeHostFunc(t)
  <1>a. /\ pc \in [Threads -> PCs]
        /\ read_id \in [Ends -> Nat]
        /\ wire \in [Ends -> Seq(Frame)]
    BY DEF IInv, TypeOK, PcOK, DataOK
  <1>b. TypeOK /\ LockInv /\ StreamInv
    BY DEF IInv
  <1>c. \A t, u \in Threads :
          pc[t] \in ReadCS /\ t # u /\ End(t) = End(u) => pc[u] \notin ReadCS
    BY <1>b DEF LockInv
  <1> USE <1>a, EndFacts, ThreadKinds DEF At, Quiet, BeforePayload
  <1>1. ASSUME NEW t \in Threads, ReadLock(t), t \notin Callers PROVE Quiet
    BY <1>1 DEF ReadLock, OnTurn, stream, local, history
  <1>2. ASSUME NEW t \in Threads, ReadWait(t) PROVE Quiet
    BY <1>2 DEF ReadWait, stream, conn, local, history
  <1>3. ASSUME NEW t \in Threads, ReaderRecv(t) PROVE Quiet
    <2>1. wire[End(t)] # <<>> /\ at[End(t)] = "id"
      BY <1>b, <1>3 DEF ReaderRecv, Readable, StreamInv, StreamAt
    <2>2. wire' = wire
      BY <1>3, <2>1 DEF ReaderRecv, Advance
    <2>3. \A d \in Dispatchers : pc[d] = "rend" => End(d) # End(t)
      BY <1>3, <1>c DEF ReaderRecv, ReadCS
    <2>4. \A u \in Threads \ {t} :
            pc'[u] = pc[u] \/ (pc[u] = "wait" /\ pc'[u] = "rlock")
      BY <1>3 DEF ReaderRecv, Broadcast
    <2>5. QED
      BY <1>3, <2>2, <2>3, <2>4 DEF ReaderRecv, local, history
  <1>4. ASSUME NEW t \in Threads, ReaderEOF(t) PROVE Quiet
    BY <1>4 DEF ReaderEOF, stream, local, history
  <1>5. ASSUME NEW t \in Threads, ReaderExit(t) PROVE Quiet
    BY <1>5 DEF ReaderExit, stream, conn, local, history
  <1>6. ASSUME NEW t \in Threads, DispatchSpawn(t) PROVE Quiet
    BY <1>6 DEF DispatchSpawn, stream, conn, local, history
  <1>7. ASSUME NEW t \in Threads, DispatchOp(t) PROVE Quiet
    <2>1. wire[End(t)] # <<>> /\ at[End(t)] = "op"
      BY <1>b, <1>7 DEF DispatchOp, Readable, StreamInv, StreamAt, Fresh
    <2>2. wire' = wire
      BY <1>7, <2>1 DEF DispatchOp, Advance
    <2>3. QED
      BY <1>7, <2>2 DEF DispatchOp, conn, history
  <1>8. ASSUME NEW t \in Threads, SetSuppress(t) PROVE Quiet
    BY <1>8 DEF SetSuppress, stream, local, history, Dispatchers
  <1>9. ASSUME NEW t \in Threads, WriteEndBroken(t) PROVE Quiet
    BY <1>9 DEF WriteEndBroken, stream, conn, local, history
  <1>10. ASSUME NEW e \in Ends, Die(e) PROVE Quiet
    BY <1>10 DEF Die, stream, conn, local, history
  <1>11. CASE UNCHANGED vars
    BY <1>11 DEF vars, stream, conn, local, history
  <1>12. QED
    BY <1>1, <1>2, <1>3, <1>4, <1>5, <1>6, <1>7, <1>8, <1>9, <1>10, <1>11
       DEF Next, Progress

\* A process that has ended does not run again.
LEMMA AliveSteps ==
  ASSUME IInv, [Next]_vars, NEW e \in Ends
  PROVE  alive'[e] => alive[e]
  <1>1. ASSUME NEW t \in Threads,
               \/ StartRequest(t) \/ StartResponse(t) \/ WriteEndSuppressed(t)
               \/ WriteEndSend(t) \/ WriteEndReturn(t) \/ WriteEndError(t)
               \/ AbandonRequest(t) \/ ReadLock(t) \/ ReadArgs(t) \/ ReadEnd(t)
               \/ Execute(t) \/ InvokeHostFunc(t)
        PROVE  alive' = alive
    BY <1>1 DEF StartRequest, StartResponse, WriteEndSuppressed, WriteEndSend,
       WriteEndReturn, WriteEndError, AbandonRequest, ReadLock, ReadArgs, ReadEnd,
       Execute, InvokeHostFunc
  <1>2. Callers \subseteq Threads
    BY ThreadKinds
  <1>3. QED
    BY <1>1, <1>2, StepKinds DEF Quiet

\* Such a step keeps every part of ServiceInv but SuppressInv.
LEMMA QuietKeeps ==
  ASSUME IInv, Quiet
  PROVE  /\ CallInv => CallInv'
         /\ ResultInv => ResultInv'
         /\ SentInv => SentInv'
         /\ NumberInv => NumberInv'
         /\ RequestInv => RequestInv'
         /\ ExecutedInv => ExecutedInv'
         /\ ReplyInv => ReplyInv'
         /\ TicketInv => TicketInv'
         /\ ReadInv => ReadInv'
  <1>a. \A e \in Ends : Taken(e)' = Taken(e)
    BY EndFacts DEF Quiet, BeforePayload, Taken
  <1>b. \A e \in Ends, k \in Nat : Pending(e, k) => Pending(e, k)'
    BY <1>a, EndFacts DEF Quiet, BeforePayload, Pending, Serial
  <1>c. \A t \in Callers : Ticket(t)' = Ticket(t)
    BY DEF Quiet, Ticket
  <1>d. \A t \in Callers : Lost(t) => Lost(t)'
    BY <1>c DEF Quiet, Lost, Waiting
  <1> USE EndFacts, ThreadKinds DEF Quiet
  <1>1. CallInv => CallInv'
    BY DEF CallInv, Waiting
  <1>2. ResultInv => ResultInv'
    BY DEF ResultInv, Waiting
  <1>3. SentInv => SentInv'
    BY DEF SentInv, Accounted, Returned, Waiting
  <1>4. NumberInv => NumberInv'
    BY <1>d DEF NumberInv, NumberAt
  <1>5. RequestInv => RequestInv'
    BY <1>a DEF RequestInv
  <1>6. ExecutedInv => ExecutedInv'
    BY <1>a DEF ExecutedInv, ExecutedAt, BeforePayload
  <1>7. ReplyInv => ReplyInv'
    BY DEF ReplyInv, ReplyAt, BeforePayload
  <1>8. TicketInv => TicketInv'
    BY <1>b, <1>c DEF TicketInv, TicketAt, Waiting
  <1>9. ReadInv => ReadInv'
    BY DEF ReadInv
  <1>10. QED
    BY <1>1, <1>2, <1>3, <1>4, <1>5, <1>6, <1>7, <1>8, <1>9

-----------------------------------------------------------------------------
\* The types of the state, as the provers need them.
LEMMA StateTypes ==
  ASSUME IInv
  PROVE  /\ pc \in [Threads -> PCs]
         /\ \A t \in Callers : pc[t] \in CallerPC
         /\ \A d \in Dispatchers : pc[d] \in DispatcherPC
         /\ wire \in [Ends -> Seq(Frame)]
         /\ request_id \in [Ends -> Nat] /\ read_id \in [Ends -> Nat]
         /\ write_id \in [Ends -> Nat]
         /\ write_op \in [Ends -> Ops \union {Reply}]
         /\ suppress_response \in [Ends -> BOOLEAN]
         /\ writeOwner \in [Ends -> Threads \union {NoThread}]
         /\ call \in [Callers -> Call]
         /\ rid \in [Callers \union Dispatchers -> Nat]
         /\ op \in [Dispatchers -> Ops \union {Reply}]
         /\ arg \in [Callers \union Dispatchers -> Call]
         /\ sent \in [Ends -> Seq(Call)] /\ executed \in [Ends -> Seq(Call)]
         /\ results \subseteq Call \X Call
  BY ThreadKinds DEF IInv, TypeOK, PcOK, DataOK, Places

\* Numbers of calls and ids correspond.
LEMMA SerialFacts ==
  ASSUME NEW e \in Ends
  PROVE  /\ \A k \in Nat : Serial(e, k) \in Nat /\ Serial(e, k) % 2 = Parity(e)
         /\ \A j, k \in Nat : /\ Serial(e, j) = Serial(e, k) <=> j = k
                              /\ Serial(e, j) < Serial(e, k) <=> j < k
         /\ \A k \in Nat : Serial(e, k + 1) = Serial(e, k) + 2
  BY EndFacts DEF Serial

LEMMA SerialDiffers ==
  ASSUME NEW e \in Ends, NEW n \in Nat, NEW k \in 1 .. n
  PROVE  Serial(e, n + 1) # Serial(e, k)
  BY EndFacts DEF Serial

\* At most one thread of a process reads, and at most one writes.
LEMMA Exclusion ==
  ASSUME IInv, NEW t \in Threads, NEW u \in Threads, t # u, End(t) = End(u)
  PROVE  /\ pc[t] \in ReadCS => pc[u] \notin ReadCS
         /\ pc[t] = "wbuild" => pc[u] # "wbuild"
  BY DEF IInv, LockInv

\* What a handler's call of CUDA does to the state.
LEMMA ExecuteEffect ==
  ASSUME IInv, NEW t \in Threads, Execute(t)
  PROVE  /\ t = "serverHandler" /\ t \in Dispatchers /\ End(t) = "server"
         /\ pc[t] = "exec"
         /\ \/ pc'[t] = "wlock"
            \/ pc'[t] = "spawn" /\ op[t] = "cudaGraphAddKernelNode"
         /\ \A u \in Callers :
              pc'[u] = pc[u] \/ (pc[u] = "idle" /\ pc'[u] = "ready")
         /\ \A d \in Dispatchers : d # t => pc'[d] = pc[d]
         /\ executed' = [executed EXCEPT ![End(t)] = Append(@, arg[t])]
         /\ UNCHANGED <<alive, stream, conn, local, sent, results>>
  <1>1. /\ t = "serverHandler" /\ t \in Dispatchers /\ pc[t] = "exec"
        /\ executed' = [executed EXCEPT ![End(t)] = Append(@, arg[t])]
        /\ UNCHANGED <<alive, stream, conn, local, sent, results>>
    BY DEF Execute, At, Dispatchers
  <1>2. End(t) = "server"
    BY <1>1, CallersAssumption DEF End, Dispatchers, Callers
  <1>3. t \notin Callers /\ pc \in [Threads -> PCs] /\ Callers \subseteq Threads
        /\ Dispatchers \subseteq Threads
    BY <1>1, StateTypes, ThreadKinds
  <1>4. CASE pc' = [pc EXCEPT ![t] = "wlock"]
    BY <1>1, <1>2, <1>3, <1>4
  <1>5. ASSUME NEW c \in Callbacks, At(c, "idle"),
               pc' = [pc EXCEPT ![t] = "wlock", ![c] = "ready"]
        PROVE  /\ pc'[t] = "wlock"
               /\ \A u \in Callers :
                    pc'[u] = pc[u] \/ (pc[u] = "idle" /\ pc'[u] = "ready")
               /\ \A d \in Dispatchers : d # t => pc'[d] = pc[d]
    <2>1. c \in Callers /\ pc[c] = "idle"
      BY <1>5 DEF At, Callers
    <2>2. c \notin Dispatchers
      BY <2>1, ThreadKinds
    <2>3. QED
      BY <1>1, <1>3, <1>5, <2>1, <2>2
  <1>6. CASE pc' = [pc EXCEPT ![t] = "spawn"] /\ op[t] = "cudaGraphAddKernelNode"
    BY <1>1, <1>2, <1>3, <1>6
  <1>7. QED
    BY <1>1, <1>2, <1>4, <1>5, <1>6 DEF Execute

\* What the end of a frame does to the threads.
LEMMA ReadEndEffect ==
  ASSUME IInv, NEW t \in Threads, ReadEnd(t)
  PROVE  /\ t \in Callers \union Dispatchers /\ pc[t] = "rend"
         /\ t \in Callers => pc'[t] \in {"ready", "idle"} /\ rid' = rid
         /\ t \in Dispatchers => /\ pc'[t] = "exec" /\ results' = results
                                 /\ rid' = [rid EXCEPT ![t] = read_id[End(t)]]
         /\ \A u \in Threads : u # t =>
              pc'[u] = pc[u] \/ (pc[u] = "wait" /\ pc'[u] = "rlock")
         /\ wire' = wire /\ call' = call /\ arg' = arg /\ op' = op
         /\ sent' = sent /\ executed' = executed
         /\ request_id' = request_id /\ write_id' = write_id
         /\ write_op' = write_op /\ writeOwner' = writeOwner
         /\ suppress_response' = suppress_response
         /\ read_id' = [read_id EXCEPT ![End(t)] = 0]
  BY StateTypes, ThreadKinds DEF ReadEnd, Broadcast, At, stream

\* What appending to a sequence does.
LEMMA AppendFacts ==
  ASSUME NEW S, NEW s \in Seq(S), NEW x \in S
  PROVE  /\ Len(Append(s, x)) = Len(s) + 1
         /\ \A i \in 1 .. Len(s) : Append(s, x)[i] = s[i]
         /\ Append(s, x)[Len(s) + 1] = x
  OBVIOUS

\* What sending a frame does: the stream grows by it, and a call is recorded.
LEMMA SendEffect ==
  ASSUME IInv, NEW t \in Threads, WriteEndSend(t)
  PROVE  LET p == Peer(End(t)) IN
         /\ t \in Callers \union Dispatchers /\ pc[t] = "wbuild"
         /\ ~suppress_response[End(t)]
         /\ pc'[t] = AfterWrite(t) /\ \A u \in Threads : u # t => pc'[u] = pc[u]
         /\ \A e \in Ends : e # p => wire'[e] = wire[e] /\ sent'[e] = sent[e]
         /\ Len(wire'[p]) = Len(wire[p]) + 1
         /\ \A i \in 1 .. Len(wire[p]) : wire'[p][i] = wire[p][i]
         /\ wire'[p][Len(wire[p]) + 1] =
              [id |-> write_id[End(t)], op |-> write_op[End(t)], body |-> Payload(t)]
         /\ t \in Callers =>
              /\ Len(sent'[p]) = Len(sent[p]) + 1
              /\ \A k \in 1 .. Len(sent[p]) : sent'[p][k] = sent[p][k]
              /\ sent'[p][Len(sent[p]) + 1] = call[t]
         /\ t \in Dispatchers => sent' = sent
         /\ writeOwner' = [writeOwner EXCEPT ![End(t)] = NoThread]
         /\ read_id' = read_id /\ suppress_response' = suppress_response
         /\ request_id' = request_id /\ write_id' = write_id /\ write_op' = write_op
         /\ call' = call /\ rid' = rid /\ op' = op /\ arg' = arg
         /\ executed' = executed /\ results' = results
  <1> DEFINE p == Peer(End(t))
  <1>a. p = Peer(End(t))
    OBVIOUS
  <1> HIDE DEF p
  <1>b. /\ t \in Callers \union Dispatchers /\ p \in Ends /\ End(t) \in Ends
        /\ wire \in [Ends -> Seq(Frame)] /\ sent \in [Ends -> Seq(Call)]
        /\ pc \in [Threads -> PCs]
    BY <1>a, EndFacts, StateTypes DEF WriteEndSend
  <1> DEFINE f == [id   |-> write_id[End(t)], op   |-> write_op[End(t)],
                   body |-> Payload(t)]
  <1>1. f \in Frame
    BY <1>b, <1>a, StateTypes DEF Frame, Payload
  <1>2. wire' = [wire EXCEPT ![p] = Append(@, f)]
    BY <1>a DEF WriteEndSend
  <1>3. f = [id   |-> write_id[End(t)], op   |-> write_op[End(t)],
             body |-> Payload(t)]
    OBVIOUS
  <1> HIDE DEF f
  <1>4. /\ \A e \in Ends : e # p => wire'[e] = wire[e]
        /\ Len(wire'[p]) = Len(wire[p]) + 1
        /\ \A i \in 1 .. Len(wire[p]) : wire'[p][i] = wire[p][i]
        /\ wire'[p][Len(wire[p]) + 1] = f
    BY <1>b, <1>a, <1>1, <1>2
  <1>5. /\ \A e \in Ends : e # p => sent'[e] = sent[e]
        /\ t \in Callers =>
              /\ Len(sent'[p]) = Len(sent[p]) + 1
              /\ \A k \in 1 .. Len(sent[p]) : sent'[p][k] = sent[p][k]
              /\ sent'[p][Len(sent[p]) + 1] = call[t]
        /\ t \in Dispatchers => sent' = sent
    <2>1. t \in Callers => call[t] \in Call
      BY StateTypes
    <2>2. t \in Callers => sent' = [sent EXCEPT ![p] = Append(@, call[t])]
      BY <1>a DEF WriteEndSend
    <2>3. t \in Dispatchers => sent' = [sent EXCEPT ![p] = @]
      BY <1>a, ThreadKinds DEF WriteEndSend
    <2>4. CASE t \in Callers
      <3>1. t \notin Dispatchers
        BY <2>4, ThreadKinds
      <3>2. /\ sent'[p] = Append(sent[p], call[t])
            /\ \A e \in Ends : e # p => sent'[e] = sent[e]
            /\ sent[p] \in Seq(Call) /\ call[t] \in Call
        BY <1>b, <1>a, <2>1, <2>2, <2>4
      <3>3. QED
        BY <3>1, <3>2, AppendFacts
    <2>5. CASE t \in Dispatchers
      <3>1. t \notin Callers
        BY <2>5, ThreadKinds
      <3>2. QED
        BY <1>b, <1>a, <2>3, <2>5, <3>1
    <2>6. QED
      BY <1>b, <1>a, <2>4, <2>5
  <1>6. /\ pc[t] = "wbuild" /\ ~suppress_response[End(t)]
        /\ pc'[t] = AfterWrite(t) /\ \A u \in Threads : u # t => pc'[u] = pc[u]
    BY <1>b DEF WriteEndSend, At
  <1>7. QED
    BY <1>b, <1>a, <1>3, <1>4, <1>5, <1>6 DEF WriteEndSend, local

\* The stream in the other direction is left alone.
LEMMA SendElsewhere ==
  ASSUME IInv, NEW t \in Threads, WriteEndSend(t), NEW e \in Ends, e # Peer(End(t))
  PROVE  wire'[e] = wire[e] /\ sent'[e] = sent[e]
  BY SendEffect

\* What reading a payload does: the first frame of the stream is gone.
LEMMA ReadArgsEffect ==
  ASSUME IInv, NEW t \in Threads, ReadArgs(t), NEW e, e = End(t)
  PROVE  /\ t \in Callers \union Dispatchers /\ pc[t] = "args"
         /\ wire[e] # <<>> /\ 1 \in 1 .. Len(wire[e])
         /\ wire[e][1].id = read_id[e]
         /\ (wire[e][1].op = Reply) <=> (t \in Callers)
         /\ arg' = [arg EXCEPT ![t] = wire[e][1].body]
         /\ \A o \in Ends : o # e => wire'[o] = wire[o]
         /\ Len(wire'[e]) = Len(wire[e]) - 1
         /\ \A i \in 1 .. Len(wire'[e]) :
              i + 1 \in 2 .. Len(wire[e]) /\ wire'[e][i] = wire[e][i + 1]
         /\ \A i \in 2 .. Len(wire[e]) :
              i - 1 \in 1 .. Len(wire'[e]) /\ wire'[e][i - 1] = wire[e][i]
         /\ pc'[t] = "rend" /\ \A u \in Threads : u # t => pc'[u] = pc[u]
         /\ read_id' = read_id /\ suppress_response' = suppress_response
         /\ request_id' = request_id /\ write_id' = write_id /\ write_op' = write_op
         /\ writeOwner' = writeOwner
         /\ call' = call /\ rid' = rid /\ op' = op
         /\ sent' = sent /\ executed' = executed /\ results' = results
  <1>a. /\ t \in Callers \union Dispatchers /\ pc[t] = "args" /\ e \in Ends
        /\ wire \in [Ends -> Seq(Frame)] /\ pc \in [Threads -> PCs] /\ TypeOK
    BY EndFacts, StateTypes DEF ReadArgs, At, IInv
  <1>1. /\ wire[e] # <<>> /\ at[e] = "body" /\ wire[e][1].id = read_id[e]
        /\ (wire[e][1].op = Reply) <=> (t \in Callers)
    BY <1>a DEF IInv, StreamInv, StreamAt
  <1>2. /\ wire'[e] = Tail(wire[e]) /\ \A o \in Ends : o # e => wire'[o] = wire[o]
        /\ arg' = [arg EXCEPT ![t] = wire[e][1].body]
    BY <1>a, <1>1, AdvanceFacts, ItemFacts DEF ReadArgs
  <1>3. /\ 1 \in 1 .. Len(wire[e])
        /\ Len(wire'[e]) = Len(wire[e]) - 1
        /\ \A i \in 1 .. Len(wire'[e]) :
              i + 1 \in 2 .. Len(wire[e]) /\ wire'[e][i] = wire[e][i + 1]
        /\ \A i \in 2 .. Len(wire[e]) :
              i - 1 \in 1 .. Len(wire'[e]) /\ wire'[e][i - 1] = wire[e][i]
    BY <1>a, <1>1, <1>2
  <1>4. QED
    BY <1>a, <1>1, <1>2, <1>3 DEF ReadArgs, conn, history

\* What a process has taken grows when its dispatcher has read a payload.
LEMMA TakenSteps ==
  ASSUME IInv, [Next]_vars, NEW e \in Ends
  PROVE  /\ ~ReadArgs(Dispatcher(e)) => Taken(e)' = Taken(e)
         /\ ReadArgs(Dispatcher(e)) => /\ Taken(e)' = Len(executed[e]) + 1
                                       /\ Taken(e) = Len(executed[e])
  <1> DEFINE d == Dispatcher(e)
  <1>a. /\ d \in Dispatchers /\ d \in Threads /\ End(d) = e
        /\ \A t \in Dispatchers : End(t) = e => t = d
        /\ d = Dispatcher(e) /\ d \notin Callers
    BY EndFacts, ThreadKinds
  <1>b. pc \in [Threads -> PCs] /\ executed \in [Ends -> Seq(Call)]
        /\ arg \in [Callers \union Dispatchers -> Call]
    BY StateTypes
  <1> HIDE DEF d
  <1> USE <1>a, <1>b, ThreadKinds DEF Taken, At
  <1>1. ASSUME executed'[e] = executed[e],
               pc'[d] \in {"rend", "exec"} <=> pc[d] \in {"rend", "exec"}
        PROVE  Taken(e)' = Taken(e)
    BY <1>1
  <1>2. ASSUME NEW t \in Threads, ReadArgs(t)
        PROVE  /\ t # d => Taken(e)' = Taken(e)
               /\ t = d => /\ Taken(e)' = Len(executed[e]) + 1
                           /\ Taken(e) = Len(executed[e])
    BY <1>2, ReadArgsEffect
  <1>3. ASSUME NEW t \in Threads, ReadEnd(t) PROVE Taken(e)' = Taken(e)
    <2>1. CASE t = d
      BY <1>3, <2>1, ReadEndEffect
    <2>2. CASE t # d
      BY <1>3, <2>2, ReadEndEffect
    <2>3. QED
      BY <2>1, <2>2
  <1>4. ASSUME NEW t \in Threads, Execute(t) PROVE Taken(e)' = Taken(e)
    <2>1. CASE t = d
      <3>1. /\ pc[d] = "exec" /\ pc'[d] \in {"wlock", "spawn"}
            /\ executed'[e] = Append(executed[e], arg[d]) /\ arg[d] \in Call
        BY <1>4, <2>1, ExecuteEffect
      <3>2. QED
        BY <3>1
    <2>2. CASE t # d
      BY <1>4, <2>2, ExecuteEffect
    <2>3. QED
      BY <2>1, <2>2
  <1>5. ASSUME NEW t \in Threads, InvokeHostFunc(t) PROVE Taken(e)' = Taken(e)
    <2>1. CASE t = d
      BY <1>5, <2>1 DEF InvokeHostFunc
    <2>2. CASE t # d
      <3>1. t \in Dispatchers
        BY <1>5 DEF InvokeHostFunc, Dispatchers
      <3>2. End(t) # e
        BY <2>2, <3>1
      <3>3. QED
        BY <1>5, <2>2, <3>2 DEF InvokeHostFunc
    <2>3. QED
      BY <2>1, <2>2
  <1>6. ASSUME NEW t \in Threads,
               \/ StartRequest(t) \/ StartResponse(t) \/ WriteEndSuppressed(t)
               \/ WriteEndSend(t) \/ WriteEndReturn(t) \/ WriteEndError(t)
               \/ AbandonRequest(t)
        PROVE  Taken(e)' = Taken(e)
    BY <1>1, <1>6, SendEffect
       DEF StartRequest, StartResponse, WriteEndSuppressed, WriteEndReturn,
           AbandonRequest, WriteEndError, AfterWrite, AfterError, history, Callers
  <1>7. ASSUME NEW t \in Callers, ReadLock(t) PROVE Taken(e)' = Taken(e)
    BY <1>1, <1>7 DEF ReadLock, history
  <1>8. ASSUME Quiet PROVE Taken(e)' = Taken(e)
    BY <1>1, <1>8 DEF Quiet, BeforePayload
  <1>9. ReadArgs(d) => /\ Taken(e)' = Len(executed[e]) + 1
                        /\ Taken(e) = Len(executed[e])
    BY <1>2
  <1>10. QED
    BY <1>2, <1>3, <1>4, <1>5, <1>6, <1>7, <1>8, <1>9, StepKinds

\* A caller whose turn has come finds the response to its own call.  It can have
\* come for no other one: the response to its call, if that is still to come,
\* would be behind the response to a later call.
LEMMA OwnTurn ==
  ASSUME IInv, ServiceInv, NEW t \in Callers, ReadLock(t)
  PROVE  /\ wire[End(t)] # <<>>
         /\ wire[End(t)][1].op = Reply /\ wire[End(t)][1].body = call[t]
         /\ \E k \in 1 .. Len(executed[Peer(End(t))]) :
              rid[t] = Serial(Peer(End(t)), k) /\ sent[Peer(End(t))][k] = call[t]
  <1> DEFINE e == Peer(End(t))
             w == wire[End(t)]
             n == Len(executed[e])
  <1>a. /\ End(t) \in Ends /\ e \in Ends /\ Peer(e) = End(t)
        /\ t \in Threads /\ Dispatcher(e) \in Dispatchers
        /\ End(t) = Peer(e) /\ e = Peer(End(t)) /\ w = wire[End(t)] /\ n = Len(executed[e])
    BY EndFacts, ThreadKinds
  <1>b. /\ w \in Seq(Frame) /\ n \in Nat /\ rid[t] \in Nat
        /\ sent[e] \in Seq(Call) /\ executed[e] \in Seq(Call)
    BY <1>a, StateTypes
  <1>c. /\ pc[t] = "rlock" /\ readOwner[End(t)] = NoThread
        /\ read_id[End(t)] = rid[t] /\ alive[End(t)]
    BY DEF ReadLock, At, Turn
  <1> HIDE DEF e, w, n
  <1>1. w # <<>> /\ w[1].op = Reply /\ w[1].id = rid[t]
    <2>1. /\ rid[t] >= 2
          /\ rid[t] % 2 = Parity(End(t)) => rid[t] <= rid[Dispatcher(End(t))]
      BY <1>c DEF IInv, BuildInv
    <2>2. Fresh(End(t))
      BY <1>a, <1>c, <2>1, ThreadKinds DEF IInv, StreamInv, StreamAt
    <2>3. w # <<>> /\ w[1] \in Frame /\ FrameInv(End(t), w[1])
      BY <1>a, <1>b, <2>2 DEF Fresh, IInv, OrderInv
    <2>4. w[1].op = Reply
      <3>1. w[1].id = rid[t]
        BY <1>a, <1>c, <2>2 DEF Fresh
      <3>2. w[1].op # Reply => /\ w[1].id % 2 = Parity(End(t))
                               /\ w[1].id > rid[Dispatcher(End(t))]
        BY <1>a, <2>3, EndFacts DEF FrameInv, RequestId
      <3>3. rid[Dispatcher(End(t))] \in Nat
        BY <1>a, EndFacts, StateTypes
      <3>4. QED
        BY <1>b, <2>1, <3>1, <3>2, <3>3
    <2>5. QED
      BY <1>a, <1>c, <2>2, <2>4 DEF Fresh
  <1>2. PICK j \in 1 .. n :
          /\ w[1].id = Serial(e, j) /\ w[1].body = sent[e][j]
          /\ pc[Dispatcher(e)] \in {"wlock", "wbuild"} => j < n
    <2>1. 1 \in 1 .. Len(w)
      BY <1>b, <1>1
    <2>2. QED
      BY <1>a, <1>1, <2>1 DEF ServiceInv, ReplyInv, ReplyAt
  <1>3. n <= Len(sent[e]) /\ n <= Taken(e) /\ Taken(e) \in Nat
    <2>1. Taken(e) <= Len(sent[e])
      BY <1>a DEF ServiceInv, ExecutedInv, ExecutedAt
    <2>2. Taken(e) \in {n, n + 1}
      BY <1>a, <1>b DEF Taken
    <2>3. QED
      BY <1>b, <2>1, <2>2
  <1>4. Ticket(t) = Serial(e, j) /\ j \in 1 .. Len(sent[e])
    BY <1>b, <1>c, <1>1, <1>2, <1>3 DEF Ticket
  <1>5. sent[e][j] = call[t]
    <2>1. CASE Alone(t)
      BY <1>a, <1>c, <1>4, <2>1 DEF ServiceInv, TicketInv, TicketAt, Waiting
    <2>2. CASE ~Alone(t)
      <3>1. PICK k \in 1 .. Len(sent[e]) :
              /\ sent[e][k] = call[t]
              /\ \A i \in 1 .. Len(sent[e]) : Ticket(t) = Serial(e, i) => k <= i
              /\ Pending(e, k)
        BY <1>a, <1>c, <2>2 DEF ServiceInv, TicketInv, TicketAt, Waiting
      <3>2. k <= j
        BY <1>4, <3>1
      <3>3. ~(k > Taken(e))
        BY <1>b, <1>3, <3>2
      <3>4. CASE k = Taken(e) /\ pc[Dispatcher(e)] \in {"rend", "exec", "wlock", "wbuild"}
        <4>1. pc[Dispatcher(e)] \in {"rend", "exec"} => k = n + 1
          BY <1>a, <3>4 DEF Taken
        <4>2. pc[Dispatcher(e)] \in {"wlock", "wbuild"} => k = n
          BY <1>a, <1>b, <3>4 DEF Taken
        <4>3. QED
          BY <1>b, <1>2, <3>2, <3>4, <4>1, <4>2
      <3>5. CASE \E i \in 1 .. Len(w) : w[i].op = Reply /\ w[i].id = Serial(e, k)
        <4>1. PICK i \in 1 .. Len(w) : w[i].op = Reply /\ w[i].id = Serial(e, k)
          BY <3>5
        <4>2. i = 1 \/ w[1].id < w[i].id
          <5>1. 1 \in 1 .. Len(w)
            BY <1>b, <1>1
          <5>2. i # 1 => 1 < i
            BY <4>1
          <5>3. QED
            BY <1>a, <1>1, <4>1, <5>1, <5>2 DEF ServiceInv, ReplyInv, ReplyAt
        <4>3. ~(Serial(e, k) < Serial(e, j))
          <5>1. Serial(e, j) \in Nat /\ Serial(e, k) \in Nat
            BY <1>a, <1>4, <3>1, SerialFacts
          <5>2. QED
            BY <1>2, <4>1, <4>2, <5>1
        <4>4. j = k
          BY <1>a, <1>b, <3>1, <3>2, <4>3, SerialFacts
        <4>5. QED
          BY <3>1, <4>4
      <3>6. QED
        BY <1>a, <3>1, <3>3, <3>4, <3>5 DEF Pending
    <2>3. QED
      BY <2>1, <2>2
  <1>6. QED
    BY <1>a, <1>1, <1>2, <1>4, <1>5

-----------------------------------------------------------------------------
\* The stubs keep their calls to themselves.
LEMMA NextCallInv ==
  ASSUME IInv, CallInv, [Next]_vars
  PROVE  CallInv'
  <1>a. CallInv
    OBVIOUS
  <1>b. \A t, u \in Threads :
          t # u /\ End(t) = End(u) /\ pc[t] = "wbuild" => pc[u] # "wbuild"
    BY Exclusion
  <1>c. \A t \in Threads : pc[t] = "wbuild" => writeOwner[End(t)] = t
    BY DEF IInv, LockInv
  <1> USE <1>a, StateTypes, EndFacts, ThreadKinds DEF At, CallInv, Waiting
  <1>1. ASSUME NEW t \in Threads, StartRequest(t) PROVE CallInv'
    <2>1. PICK o \in IF t \in Apps THEN CallOps ELSE {"hostFunc"} :
            /\ call' = [call EXCEPT ![t] = [by |-> t, n |-> @.n + 1, op |-> o]]
            /\ write_op' = [write_op EXCEPT ![End(t)] = o]
      BY <1>1 DEF StartRequest
    <2>2. /\ t \in Callers /\ pc' = [pc EXCEPT ![t] = "wbuild"]
          /\ \A u \in Threads : End(u) = End(t) => pc[u] # "wbuild"
      BY <1>1, <1>c DEF StartRequest
    <2>3. call'[t].by = t /\ call'[t].op = o /\ write_op'[End(t)] = o
      BY <2>1, <2>2
    <2>4. o \in Ops
      BY <2>1, OpsAssumption DEF Ops
    <2>5. ASSUME NEW u \in Callers, u # t
          PROVE  /\ pc'[u] = pc[u] /\ call'[u] = call[u]
                 /\ pc[u] = "wbuild" => write_op'[End(u)] = write_op[End(u)]
      BY <2>1, <2>2, <2>5
    <2>6. QED
      BY <2>1, <2>2, <2>3, <2>5
  <1>2. ASSUME NEW t \in Threads, StartResponse(t) PROVE CallInv'
    <2>1. \A u \in Threads : End(u) = End(t) => pc[u] # "wbuild"
      BY <1>2, <1>c DEF StartResponse
    <2>2. /\ \A u \in Callers : pc'[u] = pc[u]
          /\ call' = call
          /\ \A e \in Ends : e # End(t) => write_op'[e] = write_op[e]
      BY <1>2 DEF StartResponse, local
    <2>3. QED
      BY <2>1, <2>2
  <1>3. ASSUME NEW t \in Threads, WriteEndSuppressed(t) PROVE CallInv'
    BY <1>3 DEF WriteEndSuppressed, AfterWrite, local
  <1>4. ASSUME NEW t \in Threads, WriteEndSend(t) PROVE CallInv'
    BY <1>4 DEF WriteEndSend, AfterWrite, local
  <1>5. ASSUME NEW t \in Threads, WriteEndReturn(t) PROVE CallInv'
    BY <1>5 DEF WriteEndReturn, conn
  <1>6. ASSUME NEW t \in Threads, AbandonRequest(t) PROVE CallInv'
    BY <1>6 DEF AbandonRequest, conn, local
  <1>6e. ASSUME NEW t \in Threads, WriteEndError(t) PROVE CallInv'
    BY <1>6e DEF WriteEndError, AfterError, conn, local
  <1>7. ASSUME NEW t \in Callers, ReadLock(t) PROVE CallInv'
    BY <1>7 DEF ReadLock, OnTurn, local
  <1>8. ASSUME NEW t \in Threads, ReadArgs(t) PROVE CallInv'
    BY <1>8 DEF ReadArgs, conn
  <1>9. ASSUME NEW t \in Threads, ReadEnd(t) PROVE CallInv'
    BY <1>9 DEF ReadEnd, Broadcast
  <1>10. ASSUME NEW t \in Threads, Execute(t) PROVE CallInv'
    <2>1. /\ \A u \in Callers :
               pc'[u] = pc[u] \/ (pc[u] = "idle" /\ pc'[u] = "ready")
          /\ call' = call /\ write_op' = write_op
      BY <1>10, ExecuteEffect DEF conn, local
    <2>2. QED
      BY <2>1
  <1>11. ASSUME NEW t \in Threads, InvokeHostFunc(t) PROVE CallInv'
    BY <1>11 DEF InvokeHostFunc, conn, local
  <1>12. CASE Quiet
    BY <1>12, QuietKeeps
  <1>13. QED
    BY <1>1, <1>2, <1>3, <1>4, <1>5, <1>6, <1>6e, <1>7, <1>8, <1>9, <1>10, <1>11, <1>12,
       StepKinds

\* A process has results for calls that are over only.
LEMMA NextResultInv ==
  ASSUME IInv, ServiceInv, [Next]_vars
  PROVE  ResultInv'
  <1>a. ResultInv
    BY DEF ServiceInv
  <1>b. \A t \in Callers : pc[t] = "rend" => call[t].by = t /\ arg[t] = call[t]
    BY DEF ServiceInv, CallInv, ReadInv
  <1>c. \A t \in Callers : call[t].n \in Nat
    BY StateTypes DEF Call
  <1>d. \A r \in results : r[1].n \in Nat
    BY StateTypes DEF Call
  <1> USE <1>a, <1>c, <1>d, StateTypes, ThreadKinds DEF At, ResultInv, Waiting
  <1>1. ASSUME NEW t \in Threads, StartRequest(t) PROVE ResultInv'
    <2>1. /\ t \in Callers /\ pc' = [pc EXCEPT ![t] = "wbuild"] /\ results' = results
          /\ call'[t].n = call[t].n + 1
          /\ \A u \in Callers \ {t} : call'[u] = call[u]
      BY <1>1 DEF StartRequest, history
    <2>2. \A u \in Callers : u # t => pc'[u] = pc[u]
      BY <2>1
    <2>3. ASSUME NEW r \in results
          PROVE  /\ r[1].n <= call'[r[1].by].n
                 /\ pc'[r[1].by] \in Waiting \union {"wbuild", "rend"} =>
                      r[1].n < call'[r[1].by].n
      <3>1. r[1].by \in Callers /\ r[1].n <= call[r[1].by].n
        BY <2>3
      <3>2. CASE r[1].by = t
        BY <2>1, <3>1, <3>2
      <3>3. CASE r[1].by # t
        BY <2>1, <2>2, <3>1, <3>3
      <3>4. QED
        BY <3>2, <3>3
    <2>4. QED
      BY <2>1, <2>3
  <1>2. ASSUME NEW t \in Threads, StartResponse(t) PROVE ResultInv'
    BY <1>2 DEF StartResponse, local, history
  <1>3. ASSUME NEW t \in Threads, WriteEndSuppressed(t) PROVE ResultInv'
    BY <1>3 DEF WriteEndSuppressed, AfterWrite, local, history
  <1>4. ASSUME NEW t \in Threads, WriteEndSend(t) PROVE ResultInv'
    BY <1>4 DEF WriteEndSend, AfterWrite, local
  <1>5. ASSUME NEW t \in Threads, WriteEndReturn(t) PROVE ResultInv'
    BY <1>5 DEF WriteEndReturn, conn, history
  <1>6. ASSUME NEW t \in Threads, AbandonRequest(t) PROVE ResultInv'
    BY <1>6 DEF AbandonRequest, conn, local, history
  <1>6e. ASSUME NEW t \in Threads, WriteEndError(t) PROVE ResultInv'
    BY <1>6e DEF WriteEndError, AfterError, conn, local, history
  <1>7. ASSUME NEW t \in Callers, ReadLock(t) PROVE ResultInv'
    BY <1>7 DEF ReadLock, OnTurn, local, history
  <1>8. ASSUME NEW t \in Threads, ReadArgs(t) PROVE ResultInv'
    BY <1>8 DEF ReadArgs, conn, history
  <1>9. ASSUME NEW t \in Threads, ReadEnd(t) PROVE ResultInv'
    <2>1. /\ call' = call /\ pc[t] = "rend"
          /\ \A u \in Callers :
               pc'[u] \in Waiting \union {"wbuild", "rend"} =>
                 pc[u] \in Waiting \union {"wbuild", "rend"} /\ u # t
      BY <1>9 DEF ReadEnd, Broadcast
    <2>2. results' = results \/ (t \in Callers /\ results' = results \union {<<call[t], call[t]>>})
      BY <1>9, <1>b, <2>1 DEF ReadEnd
    <2>3. t \in Callers => call[t].by = t
      BY <1>b, <2>1
    <2>4. QED
      BY <2>1, <2>2, <2>3
  <1>10. ASSUME NEW t \in Threads, Execute(t) PROVE ResultInv'
    BY <1>10, ExecuteEffect DEF conn, local
  <1>11. ASSUME NEW t \in Threads, InvokeHostFunc(t) PROVE ResultInv'
    BY <1>11 DEF InvokeHostFunc, conn, local
  <1>12. CASE Quiet
    BY <1>12, QuietKeeps
  <1>13. QED
    BY <1>1, <1>2, <1>3, <1>4, <1>5, <1>6, <1>6e, <1>7, <1>8, <1>9, <1>10, <1>11, <1>12,
       StepKinds

\* A request has the opcode of its call.
OpInv ==
  \A e \in Ends : \A i \in 1 .. Len(wire[e]) :
    wire[e][i].op # Reply => wire[e][i].body.op = wire[e][i].op

\* The flag is set for the call of the handler that runs, and taken back with the
\* response to it.
LEMMA NextSuppressInv ==
  ASSUME IInv, SuppressInv, OpInv, [Next]_vars
  PROVE  SuppressInv'
  <1>a. SuppressInv /\ IInv
    OBVIOUS
  <1>b. \A d \in Dispatchers :
          /\ d \in Threads /\ End(d) \in Ends /\ d \notin Callers /\ d \notin Readers
          /\ pc[d] \in {"flag", "args"} => wire[End(d)] # <<>> /\ at[End(d)] = "body"
          /\ pc[d] = "op" => wire[End(d)] # <<>> /\ at[End(d)] = "op"
          /\ pc[d] \in DispatcherPC
    BY StateTypes, EndFacts, ThreadKinds DEF IInv, StreamInv, StreamAt, Fresh
  <1>c. /\ pc \in [Threads -> PCs] /\ op \in [Dispatchers -> Ops \union {Reply}]
        /\ suppress_response \in [Ends -> BOOLEAN] /\ wire \in [Ends -> Seq(Frame)]
        /\ arg \in [Callers \union Dispatchers -> Call]
    BY StateTypes
  <1>k. ASSUME suppress_response' = suppress_response, op' = op,
               \A d \in Dispatchers :
                 /\ arg'[d] = arg[d]
                 /\ pc'[d] \in {"flag", "args"} =>
                      pc'[d] = pc[d] /\ wire'[End(d)][1].op = wire[End(d)][1].op
                 /\ pc'[d] \in {"rend", "exec", "wlock", "wbuild"} =>
                      pc[d] \in {"rend", "exec", "wlock", "wbuild"}
        PROVE  SuppressInv'
    BY <1>a, <1>k DEF SuppressInv
  <1> USE <1>b, <1>c DEF At
  <1>1. ASSUME NEW t \in Threads, StartRequest(t) PROVE SuppressInv'
    BY <1>1, <1>k DEF StartRequest, stream
  <1>2. ASSUME NEW t \in Threads, StartResponse(t) PROVE SuppressInv'
    BY <1>2, <1>k DEF StartResponse, stream, local
  <1>3. ASSUME NEW t \in Threads, WriteEndSuppressed(t) PROVE SuppressInv'
    <2>1. /\ suppress_response' = [suppress_response EXCEPT ![End(t)] = FALSE]
          /\ wire' = wire /\ op' = op /\ arg' = arg
          /\ \A d \in Dispatchers : pc'[d] = pc[d] \/ pc'[d] = "spawn"
      BY <1>3 DEF WriteEndSuppressed, AfterWrite, stream, local
    <2>2. \A e \in Ends : suppress_response'[e] => suppress_response[e]
      BY <2>1
    <2>3. "client" \in Ends
      BY DEF Ends
    <2>4. QED
      BY <1>a, <2>1, <2>2, <2>3 DEF SuppressInv
  <1>4. ASSUME NEW t \in Threads, WriteEndSend(t) PROVE SuppressInv'
    <2>1. /\ suppress_response' = suppress_response /\ op' = op /\ arg' = arg
          /\ \A d \in Dispatchers : pc'[d] = pc[d] \/ pc'[d] = "spawn"
      BY <1>4, SendEffect DEF AfterWrite
    <2>2. ASSUME NEW e \in Ends, wire[e] # <<>> PROVE wire'[e][1] = wire[e][1]
      <3>1. \A i \in 1 .. Len(wire[e]) : wire'[e][i] = wire[e][i]
        <4>1. CASE e = Peer(End(t))
          BY <1>4, <4>1, SendEffect
        <4>2. CASE e # Peer(End(t))
          BY <1>4, <4>2, SendEffect
        <4>3. QED
          BY <4>1, <4>2
      <3>2. 1 \in 1 .. Len(wire[e])
        BY <2>2
      <3>3. QED
        BY <3>1, <3>2
    <2>3. QED
      BY <1>k, <2>1, <2>2
  <1>5. ASSUME NEW t \in Threads, WriteEndBroken(t) PROVE SuppressInv'
    BY <1>5, <1>k DEF WriteEndBroken, stream, conn, local
  <1>6. ASSUME NEW t \in Threads, WriteEndReturn(t) PROVE SuppressInv'
    BY <1>6, <1>k DEF WriteEndReturn, stream, conn
  <1>7. ASSUME NEW t \in Threads, AbandonRequest(t) PROVE SuppressInv'
    BY <1>7, <1>k DEF AbandonRequest, stream, conn, local, Callers
  <1>7e. ASSUME NEW t \in Threads, WriteEndError(t) PROVE SuppressInv'
    BY <1>7e, <1>k DEF WriteEndError, AfterError, stream, conn, local, Callers
  <1>8. ASSUME NEW t \in Threads, ReadLock(t) PROVE SuppressInv'
    BY <1>8, <1>k DEF ReadLock, OnTurn, stream, local
  <1>9. ASSUME NEW t \in Threads, ReadWait(t) PROVE SuppressInv'
    BY <1>9, <1>k DEF ReadWait, stream, conn, local
  <1>10. ASSUME NEW t \in Threads, ReaderRecv(t) PROVE SuppressInv'
    <2>1. t \in Readers /\ wire[End(t)] # <<>> /\ at[End(t)] = "id"
      BY <1>10, EndFacts DEF ReaderRecv, Readable, IInv, StreamInv, StreamAt
    <2>2. wire' = wire
      BY <1>10, <2>1 DEF ReaderRecv, Advance
    <2>3. \A d \in Dispatchers : pc'[d] = pc[d] \/ pc'[d] = "rlock"
      BY <1>10, <2>1 DEF ReaderRecv, Broadcast
    <2>4. QED
      BY <1>10, <1>k, <2>2, <2>3 DEF ReaderRecv, local
  <1>11. ASSUME NEW t \in Threads, ReaderEOF(t) PROVE SuppressInv'
    BY <1>11, <1>k DEF ReaderEOF, stream, local
  <1>12. ASSUME NEW t \in Threads, ReaderExit(t) PROVE SuppressInv'
    BY <1>12, <1>k DEF ReaderExit, stream, conn, local
  <1>13. ASSUME NEW t \in Threads, ReadArgs(t) PROVE SuppressInv'
    <2>1. /\ suppress_response' = suppress_response /\ op' = op
          /\ \A d \in Dispatchers : d # t => pc'[d] = pc[d] /\ arg'[d] = arg[d]
          /\ pc'[t] = "rend" /\ pc[t] = "args"
          /\ \A o \in Ends : o # End(t) => wire'[o] = wire[o]
      BY <1>13, ReadArgsEffect
    <2>2. \A d \in Dispatchers : d # t /\ pc[d] \in {"flag", "args"} => End(d) # End(t)
      BY <2>1, Exclusion DEF ReadCS
    <2>3. ASSUME t \in Dispatchers PROVE arg'[t].op = op[t]
      <3>1. /\ arg'[t] = wire[End(t)][1].body /\ wire[End(t)][1].op # Reply
            /\ 1 \in 1 .. Len(wire[End(t)])
        BY <1>13, <2>3, ReadArgsEffect
      <3>2. op[t] = wire[End(t)][1].op
        BY <1>a, <2>1, <2>3 DEF SuppressInv
      <3>3. wire[End(t)][1].body.op = wire[End(t)][1].op
        BY <2>3, <3>1 DEF OpInv
      <3>4. QED
        BY <3>1, <3>2, <3>3
    <2>4. QED
      BY <1>a, <2>1, <2>2, <2>3 DEF SuppressInv
  <1>14. ASSUME NEW t \in Threads, ReadEnd(t) PROVE SuppressInv'
    <2>1. /\ suppress_response' = suppress_response /\ op' = op /\ arg' = arg
          /\ wire' = wire
      BY <1>14, ReadEndEffect
    <2>2. \A d \in Dispatchers :
            /\ pc'[d] \in {"flag", "args"} => pc'[d] = pc[d]
            /\ pc'[d] \in {"rend", "exec", "wlock", "wbuild"} =>
                 pc[d] \in {"rend", "exec", "wlock", "wbuild"}
      BY <1>14, ReadEndEffect
    <2>3. QED
      BY <1>k, <2>1, <2>2
  <1>15. ASSUME NEW t \in Threads, DispatchSpawn(t) PROVE SuppressInv'
    BY <1>15, <1>k DEF DispatchSpawn, stream, conn, local
  <1>16. ASSUME NEW t \in Threads, DispatchOp(t) PROVE SuppressInv'
    <2>1. t \in Dispatchers /\ pc[t] = "op"
      BY <1>16 DEF DispatchOp
    <2>2. /\ suppress_response' = suppress_response /\ arg' = arg
          /\ wire' = wire
          /\ op'[t] = wire[End(t)][1].op
      BY <1>16, <2>1, ItemFacts DEF DispatchOp, Advance, conn, IInv
    <2>3. \A d \in Dispatchers : d # t => op'[d] = op[d] /\ pc'[d] = pc[d]
      BY <1>16 DEF DispatchOp
    <2>4. /\ pc'[t] \in {"flag", "args", "spawn"}
          /\ pc'[t] = "args" => End(t) = "client"
      BY <1>16, <2>1 DEF DispatchOp, Ends
    <2>5. QED
      BY <1>a, <2>1, <2>2, <2>3, <2>4 DEF SuppressInv
  <1>17. ASSUME NEW t \in Threads, SetSuppress(t) PROVE SuppressInv'
    <2>1. /\ t \in Dispatchers /\ pc[t] = "flag" /\ pc'[t] = "args"
          /\ \A d \in Dispatchers : d # t => pc'[d] = pc[d]
          /\ suppress_response' =
               [suppress_response EXCEPT ![End(t)] = op[t] \in Async]
          /\ wire' = wire /\ op' = op /\ arg' = arg
      BY <1>17 DEF SetSuppress, Dispatchers, stream, local
    <2>2. End(t) = "server" /\ \A d \in Dispatchers : d # t => End(d) # End(t)
      BY <1>17, EndFacts, CallersAssumption DEF SetSuppress, End, Dispatchers, Callers
    <2>3. /\ suppress_response'[End(t)] => op[t] \in Async
          /\ \A e \in Ends : e # End(t) => suppress_response'[e] = suppress_response[e]
      BY <2>1
    <2>4. "client" \in Ends
      BY DEF Ends
    <2>5. QED
      BY <1>a, <2>1, <2>2, <2>3, <2>4 DEF SuppressInv
  <1>18. ASSUME NEW t \in Threads, Execute(t) PROVE SuppressInv'
    <2>1. /\ suppress_response' = suppress_response /\ op' = op /\ arg' = arg
          /\ wire' = wire
      BY <1>18, ExecuteEffect DEF conn, local, stream
    <2>2. \A d \in Dispatchers :
            pc'[d] = pc[d] \/ (pc[d] = "exec" /\ pc'[d] \in {"wlock", "spawn"})
      BY <1>18, ExecuteEffect
    <2>3. QED
      BY <1>k, <2>1, <2>2
  <1>19. ASSUME NEW t \in Threads, InvokeHostFunc(t) PROVE SuppressInv'
    BY <1>19, <1>k DEF InvokeHostFunc, stream, conn, local
  <1>20. ASSUME NEW e \in Ends, Die(e) PROVE SuppressInv'
    BY <1>20, <1>k DEF Die, stream, conn, local
  <1>21. CASE UNCHANGED vars
    BY <1>21, <1>k DEF vars, stream, conn, local
  <1>22. QED
    BY <1>1, <1>2, <1>3, <1>4, <1>5, <1>6, <1>7, <1>7e, <1>8, <1>9, <1>10, <1>11, <1>12,
       <1>13, <1>14, <1>15, <1>16, <1>17, <1>18, <1>19, <1>20, <1>21
       DEF Next, Progress

-----------------------------------------------------------------------------
\* What can happen to the stream to a process.
LEMMA StreamSteps ==
  ASSUME IInv, [Next]_vars, NEW e \in Ends
  PROVE  \/ wire'[e] = wire[e] /\ sent'[e] = sent[e]
         \/ \E t \in Threads : WriteEndSend(t) /\ Peer(End(t)) = e
         \/ \E t \in Threads : ReadArgs(t) /\ End(t) = e
  <1>1. ASSUME NEW t \in Threads,
               \/ StartRequest(t) \/ StartResponse(t) \/ WriteEndSuppressed(t)
               \/ WriteEndReturn(t) \/ WriteEndError(t) \/ AbandonRequest(t)
               \/ ReadLock(t)
               \/ InvokeHostFunc(t)
        PROVE  wire' = wire /\ sent' = sent
    BY <1>1 DEF StartRequest, StartResponse, WriteEndSuppressed, WriteEndReturn,
       AbandonRequest, WriteEndError, ReadLock, InvokeHostFunc, stream, history
  <1>2. ASSUME NEW t \in Threads, ReadEnd(t) \/ Execute(t)
        PROVE  wire' = wire /\ sent' = sent
    BY <1>2, ReadEndEffect, ExecuteEffect DEF stream
  <1>3. ASSUME NEW t \in Threads, WriteEndSend(t), Peer(End(t)) # e
        PROVE  wire'[e] = wire[e] /\ sent'[e] = sent[e]
    BY <1>3, SendEffect
  <1>4. ASSUME NEW t \in Threads, ReadArgs(t), End(t) # e
        PROVE  wire'[e] = wire[e] /\ sent'[e] = sent[e]
    BY <1>4, ReadArgsEffect
  <1>5. Quiet => wire' = wire /\ sent' = sent
    BY DEF Quiet
  <1>6. Callers \subseteq Threads
    BY ThreadKinds
  <1>7. QED
    BY <1>1, <1>2, <1>3, <1>4, <1>5, <1>6, StepKinds

\* What can happen to the dispatcher of a process.
LEMMA DispatcherSteps ==
  ASSUME IInv, [Next]_vars, NEW e \in Ends, NEW d, d = Dispatcher(e)
  PROVE  \/ /\ executed'[e] = executed[e] /\ rid'[d] = rid[d] /\ arg'[d] = arg[d]
            /\ \/ pc'[d] = pc[d]
               \/ pc[d] \in BeforePayload /\ pc'[d] \in BeforePayload
               \/ pc[d] = "wlock" /\ pc'[d] = "wbuild"
               \/ pc[d] = "wbuild" /\ pc'[d] \in {"spawn", "off"}
            /\ pc[d] = "rend" => read_id'[e] = read_id[e]
         \/ ReadArgs(d)
         \/ ReadEnd(d)
         \/ /\ pc[d] = "exec" /\ pc'[d] \in {"wlock", "spawn"}
            /\ executed'[e] = Append(executed[e], arg[d])
            /\ wire' = wire /\ sent' = sent /\ rid' = rid /\ arg' = arg
  <1>a. /\ d \in Dispatchers /\ d \in Threads /\ End(d) = e
        /\ d \notin Callers /\ Callers \subseteq Threads
        /\ \A t \in Dispatchers : End(t) = e => t = d
    BY EndFacts, ThreadKinds
  <1>b. /\ pc \in [Threads -> PCs] /\ executed \in [Ends -> Seq(Call)]
        /\ rid \in [Callers \union Dispatchers -> Nat]
        /\ arg \in [Callers \union Dispatchers -> Call]
        /\ read_id \in [Ends -> Nat]
    BY StateTypes
  <1> USE <1>a, <1>b DEF At, BeforePayload
  <1> DEFINE Still ==
        /\ executed'[e] = executed[e] /\ rid'[d] = rid[d] /\ arg'[d] = arg[d]
        /\ \/ pc'[d] = pc[d]
           \/ pc[d] \in BeforePayload /\ pc'[d] \in BeforePayload
           \/ pc[d] = "wlock" /\ pc'[d] = "wbuild"
           \/ pc[d] = "wbuild" /\ pc'[d] \in {"spawn", "off"}
        /\ pc[d] = "rend" => read_id'[e] = read_id[e]
  <1>1. ASSUME NEW t \in Threads, StartRequest(t) PROVE Still
    BY <1>1 DEF StartRequest, history
  <1>2. ASSUME NEW t \in Threads, StartResponse(t) PROVE Still
    BY <1>2 DEF StartResponse, local, history
  <1>3. ASSUME NEW t \in Threads, WriteEndSuppressed(t) PROVE Still
    BY <1>3 DEF WriteEndSuppressed, AfterWrite, local, history
  <1>4. ASSUME NEW t \in Threads, WriteEndSend(t) PROVE Still
    BY <1>4, SendEffect DEF AfterWrite
  <1>5. ASSUME NEW t \in Threads, WriteEndReturn(t) PROVE Still
    BY <1>5 DEF WriteEndReturn, conn, history
  <1>6. ASSUME NEW t \in Threads, AbandonRequest(t) PROVE Still
    BY <1>6 DEF AbandonRequest, conn, local, history, Callers
  <1>6e. ASSUME NEW t \in Threads, WriteEndError(t) PROVE Still
    <2>1. d \notin Apps /\ d \notin Callbacks
      BY DEF Callers
    <2>2. QED
      BY <1>6e, <2>1 DEF WriteEndError, AfterError, conn, local, history
  <1>7. ASSUME NEW t \in Callers, ReadLock(t) PROVE Still
    BY <1>7 DEF ReadLock, local, history
  <1>8. ASSUME NEW t \in Threads, ReadArgs(t), t # d PROVE Still
    BY <1>8, ReadArgsEffect
  <1>9. ASSUME NEW t \in Threads, ReadEnd(t), t # d PROVE Still
    <2>1. pc[t] = "rend" /\ t \in Callers \union Dispatchers
      BY <1>9, ReadEndEffect
    <2>2. pc[d] = "rend" => End(t) # e
      BY <1>9, <2>1, Exclusion DEF ReadCS
    <2>3. pc[d] = "rend" => read_id'[e] = read_id[e]
      BY <1>9, <2>2, ReadEndEffect
    <2>4. /\ rid'[d] = rid[d] /\ arg'[d] = arg[d] /\ executed'[e] = executed[e]
          /\ pc'[d] = pc[d] \/ (pc[d] = "wait" /\ pc'[d] = "rlock")
      BY <1>9, <2>1, ReadEndEffect
    <2>5. QED
      BY <2>3, <2>4
  <1>10. ASSUME NEW t \in Threads, Execute(t)
         PROVE  \/ Still
                \/ /\ pc[d] = "exec" /\ pc'[d] \in {"wlock", "spawn"}
                   /\ executed'[e] = Append(executed[e], arg[d])
                   /\ wire' = wire /\ sent' = sent /\ rid' = rid /\ arg' = arg
    <2>1. t = d \/ (t # d /\ End(t) # e)
      BY <1>10, ExecuteEffect
    <2>2. QED
      BY <1>10, <2>1, ExecuteEffect DEF local, conn, stream
  <1>11. ASSUME NEW t \in Threads, InvokeHostFunc(t)
         PROVE  \/ Still
                \/ /\ pc[d] = "exec" /\ pc'[d] \in {"wlock", "spawn"}
                   /\ executed'[e] = Append(executed[e], arg[d])
                   /\ wire' = wire /\ sent' = sent /\ rid' = rid /\ arg' = arg
    <2>1. t = d \/ (t # d /\ End(t) # e)
      BY <1>11 DEF InvokeHostFunc, Dispatchers
    <2>2. QED
      BY <1>11, <2>1 DEF InvokeHostFunc, local, conn, stream
  <1>12. Quiet => Still
    BY DEF Quiet
  <1> HIDE DEF Still
  <1>13. QED
    BY <1>1, <1>2, <1>3, <1>4, <1>5, <1>6, <1>6e, <1>7, <1>8, <1>9, <1>10, <1>11, <1>12,
       StepKinds DEF Still

\* The request a dispatcher reads is the first one that was not taken.
LEMMA NextRequest ==
  ASSUME IInv, ServiceInv, NEW e \in Ends, pc[Dispatcher(e)] = "args",
         NEW n, n = Len(executed[e])
  PROVE  /\ n + 1 <= Len(sent[e]) /\ n \in Nat /\ Taken(e) = n
         /\ wire[e][1].id = Serial(e, n + 1) /\ read_id[e] = Serial(e, n + 1)
         /\ wire[e][1].body = sent[e][n + 1]
  <1> DEFINE d == Dispatcher(e)
             w == wire[e]
  <1>a. /\ d \in Dispatchers /\ d \in Threads /\ End(d) = e /\ d \notin Callers
        /\ d = Dispatcher(e) /\ w = wire[e] /\ pc[d] = "args"
    BY EndFacts, ThreadKinds
  <1>b. /\ w \in Seq(Frame) /\ sent[e] \in Seq(Call) /\ executed[e] \in Seq(Call)
        /\ rid[d] \in Nat
    BY <1>a, StateTypes
  <1> HIDE DEF d, w
  <1>1. w # <<>> /\ w[1].id = read_id[e] /\ w[1].op # Reply
    BY <1>a DEF IInv, StreamInv, StreamAt
  <1>2. 1 \in 1 .. Len(w)
    BY <1>b, <1>1
  <1>3. PICK k \in 1 .. Len(sent[e]) :
          w[1].id = Serial(e, k) /\ w[1].body = sent[e][k]
    BY <1>a, <1>1, <1>2 DEF ServiceInv, RequestInv
  <1>4. n \in Nat /\ Taken(e) = n
    BY <1>a, <1>b DEF Taken
  <1>k. k \in Nat /\ n + 1 \in Nat
    BY <1>b, <1>3, <1>4
  <1>5. w[1].id > rid[d]
    BY <1>a, <1>1, <1>2 DEF IInv, OrderInv, FrameInv
  <1>6. k > n
    <2>1. rid[d] = Serial(e, n) \/ n = 0
      BY <1>a DEF ServiceInv, ExecutedInv, ExecutedAt
    <2>2. CASE rid[d] = Serial(e, n)
      <3>1. Serial(e, n) < Serial(e, k)
        BY <1>3, <1>4, <1>k, <1>5, <2>2, SerialFacts
      <3>2. n < k
        BY <1>4, <1>k, <3>1, SerialFacts
      <3>3. QED
        BY <3>2
    <2>3. CASE n = 0
      BY <1>3, <2>3
    <2>4. QED
      BY <2>1, <2>2, <2>3
  <1>7. n + 1 \in Taken(e) + 1 .. Len(sent[e])
    BY <1>3, <1>4, <1>6, <1>b
  <1>8. PICK i \in 1 .. Len(w) : w[i].op # Reply /\ w[i].id = Serial(e, n + 1)
    BY <1>a, <1>7 DEF ServiceInv, RequestInv
  <1>9. k = n + 1
    <2>1. CASE i = 1
      <3>1. Serial(e, k) = Serial(e, n + 1)
        BY <1>3, <1>8, <2>1
      <3>2. QED
        BY <1>k, <3>1, SerialFacts
    <2>2. CASE i # 1
      <3>1. w[1].id < w[i].id
        BY <1>a, <1>1, <1>2, <1>8, <2>2 DEF IInv, OrderInv, Ordered
      <3>2. k < n + 1
        <4>1. Serial(e, k) < Serial(e, n + 1)
          BY <1>3, <1>8, <3>1
        <4>2. QED
          BY <1>k, <4>1, SerialFacts
      <3>3. QED
        BY <1>3, <1>4, <1>6, <3>2
    <2>3. QED
      BY <2>1, <2>2
  <1>10. QED
    BY <1>a, <1>1, <1>3, <1>4, <1>9

\* What a caller sends is the next call of its process.
LEMMA NewRequest ==
  ASSUME IInv, ServiceInv, NEW t \in Callers, WriteEndSend(t)
  PROVE  LET p == Peer(End(t))
         IN  /\ write_id[End(t)] = Serial(p, Len(sent[p]) + 1)
             /\ write_op[End(t)] = call[t].op /\ call[t].op # Reply
             /\ Payload(t) = call[t] /\ call[t].by = t
  <1>a. /\ t \in Threads /\ pc[t] = "wbuild" /\ End(t) \in Ends
        /\ Peer(End(t)) \in Ends /\ Peer(Peer(End(t))) = End(t)
    BY ThreadKinds, EndFacts DEF WriteEndSend, At
  <1>1. request_id[End(t)] = Serial(Peer(End(t)), Len(sent[Peer(End(t))]) + 1)
    BY <1>a DEF ServiceInv, NumberInv, NumberAt
  <1>2. write_id[End(t)] = request_id[End(t)] /\ write_op[End(t)] \in Ops
    BY <1>a DEF IInv, BuildInv
  <1>3. call[t].by = t /\ write_op[End(t)] = call[t].op
    BY <1>a DEF ServiceInv, CallInv
  <1>4. QED
    BY <1>1, <1>2, <1>3 DEF Payload, Ops, Reply

\* What a dispatcher sends is the response to the call it has executed last.
LEMMA NewReply ==
  ASSUME IInv, ServiceInv, NEW t \in Dispatchers, pc[t] = "wbuild"
  PROVE  LET n == Len(executed[End(t)])
         IN  /\ n \in Nat /\ n > 0 /\ n <= Len(sent[End(t)])
             /\ write_id[End(t)] = Serial(End(t), n)
             /\ write_op[End(t)] = Reply
             /\ Payload(t) = sent[End(t)][n] /\ arg[t] = sent[End(t)][n]
  <1>a. t \in Threads /\ End(t) \in Ends /\ t = Dispatcher(End(t)) /\ t \notin Callers
    BY ThreadKinds, EndFacts
  <1>1. write_id[End(t)] = rid[t] /\ write_op[End(t)] = Reply
    BY <1>a DEF IInv, BuildInv
  <1>2. /\ Len(executed[End(t)]) > 0
        /\ arg[t] = sent[End(t)][Len(executed[End(t)])]
        /\ rid[t] = Serial(End(t), Len(executed[End(t)]))
        /\ Taken(End(t)) <= Len(sent[End(t)])
    BY <1>a DEF ServiceInv, ExecutedInv, ExecutedAt
  <1>3. Taken(End(t)) = Len(executed[End(t)])
    BY <1>a DEF Taken
  <1>4. Len(executed[End(t)]) \in Nat
    BY <1>a, StateTypes
  <1>5. QED
    BY <1>a, <1>1, <1>2, <1>3, <1>4 DEF Payload

\* The stream brings every call that was sent.
LEMMA NextRequestInv ==
  ASSUME IInv, ServiceInv, [Next]_vars
  PROVE  RequestInv'
  <1> SUFFICES ASSUME NEW e \in Ends
               PROVE  /\ \A i \in 1 .. Len(wire'[e]) :
                           wire'[e][i].op # Reply =>
                             \E k \in 1 .. Len(sent'[e]) :
                               /\ wire'[e][i].id = Serial(e, k)
                               /\ wire'[e][i].body = sent'[e][k]
                               /\ wire'[e][i].op = sent'[e][k].op
                      /\ \A k \in Taken(e)' + 1 .. Len(sent'[e]) :
                           \E i \in 1 .. Len(wire'[e]) :
                             wire'[e][i].op # Reply /\ wire'[e][i].id = Serial(e, k)
    BY DEF RequestInv, Serial
  <1> DEFINE IsCall(f, k) == \* frame f brings the k-th call
               f.id = Serial(e, k) /\ f.body = sent'[e][k] /\ f.op = sent'[e][k].op
             Known == \A i \in 1 .. Len(wire'[e]) :
                        wire'[e][i].op # Reply =>
                          \E k \in 1 .. Len(sent'[e]) : IsCall(wire'[e][i], k)
             Arriving == \A k \in Taken(e)' + 1 .. Len(sent'[e]) :
                           \E i \in 1 .. Len(wire'[e]) :
                             wire'[e][i].op # Reply /\ wire'[e][i].id = Serial(e, k)
             d == Dispatcher(e)
             w == wire[e]
             s == sent[e]
             T == Taken(e)
  <1>a. /\ d \in Dispatchers /\ d \in Threads /\ End(d) = e /\ d \notin Callers
        /\ \A t \in Dispatchers : End(t) = e => t = d
        /\ d = Dispatcher(e) /\ w = wire[e] /\ s = sent[e] /\ T = Taken(e)
    BY EndFacts, ThreadKinds
  <1>b. /\ w \in Seq(Frame) /\ s \in Seq(Call) /\ executed[e] \in Seq(Call)
        /\ Len(w) \in Nat /\ Len(s) \in Nat /\ T \in Nat
    <2>1. w \in Seq(Frame) /\ s \in Seq(Call) /\ executed[e] \in Seq(Call)
      BY <1>a, StateTypes
    <2>2. QED
      BY <1>a, <2>1 DEF Taken
  <1>c. /\ \A i \in 1 .. Len(w) : w[i].op # Reply =>
             \E k \in 1 .. Len(s) : w[i].id = Serial(e, k) /\ w[i].body = s[k]
                                    /\ w[i].op = s[k].op
        /\ \A k \in T + 1 .. Len(s) : \E i \in 1 .. Len(w) :
             w[i].op # Reply /\ w[i].id = Serial(e, k)
    BY <1>a DEF ServiceInv, RequestInv
  <1>d. ~ReadArgs(d) => Taken(e)' = T
    BY <1>a, TakenSteps
  <1> HIDE DEF d, w, s, T
  <1>1. ASSUME wire'[e] = wire[e], sent'[e] = sent[e] PROVE Known /\ Arriving
    <2>1. ~ReadArgs(d)
      <3>1. ReadArgs(d) => Len(wire'[e]) = Len(w) - 1
        BY <1>a, ReadArgsEffect
      <3>2. QED
        BY <1>1, <1>a, <1>b, <3>1
    <2>2. QED
      BY <1>1, <1>a, <1>c, <1>d, <2>1
  <1>2. ASSUME NEW t \in Threads, WriteEndSend(t), Peer(End(t)) = e
        PROVE  Known /\ Arriving
    <2>1. /\ Len(wire'[e]) = Len(w) + 1
          /\ \A i \in 1 .. Len(w) : wire'[e][i] = w[i]
          /\ wire'[e][Len(w) + 1] = [id |-> write_id[End(t)], op |-> write_op[End(t)],
                                     body |-> Payload(t)]
          /\ t \in Callers \union Dispatchers /\ pc[t] = "wbuild"
      BY <1>2, <1>a, SendEffect
    <2>2. Taken(e)' = T
      <3>1. ReadArgs(d) => Len(wire'[e]) = Len(w) - 1
        BY <1>a, ReadArgsEffect
      <3>2. QED
        BY <1>b, <1>d, <2>1, <3>1
    <2>3. CASE t \in Callers
      <3>1. /\ Len(sent'[e]) = Len(s) + 1
            /\ \A k \in 1 .. Len(s) : sent'[e][k] = s[k]
            /\ sent'[e][Len(s) + 1] = call[t]
        BY <1>2, <1>a, <2>3, SendEffect
      <3>2. /\ wire'[e][Len(w) + 1].id = Serial(e, Len(s) + 1)
            /\ wire'[e][Len(w) + 1].op = call[t].op
            /\ wire'[e][Len(w) + 1].body = call[t]
            /\ wire'[e][Len(w) + 1].op # Reply
        BY <1>2, <1>a, <2>1, <2>3, NewRequest
      <3>3. /\ Len(s) + 1 \in 1 .. Len(sent'[e]) /\ Len(w) + 1 \in 1 .. Len(wire'[e])
            /\ \A i \in 1 .. Len(wire'[e]) : i = Len(w) + 1 \/ i \in 1 .. Len(w)
            /\ \A k \in T + 1 .. Len(sent'[e]) : k = Len(s) + 1 \/ k \in T + 1 .. Len(s)
            /\ \A i \in 1 .. Len(w) : i \in 1 .. Len(wire'[e])
            /\ \A k \in 1 .. Len(s) : k \in 1 .. Len(sent'[e])
        BY <1>b, <2>1, <3>1
      <3>4. ASSUME NEW i \in 1 .. Len(wire'[e]), wire'[e][i].op # Reply
            PROVE  \E k \in 1 .. Len(sent'[e]) : IsCall(wire'[e][i], k)
        <4>1. CASE i = Len(w) + 1
          <5>1. IsCall(wire'[e][i], Len(s) + 1)
            BY <3>1, <3>2, <4>1
          <5>2. QED
            BY <3>3, <5>1
        <4>2. CASE i \in 1 .. Len(w)
          <5>1. PICK k \in 1 .. Len(s) : w[i].id = Serial(e, k) /\ w[i].body = s[k]
                                         /\ w[i].op = s[k].op
            BY <1>c, <2>1, <3>4, <4>2
          <5>2. IsCall(wire'[e][i], k)
            BY <2>1, <3>1, <4>2, <5>1
          <5>3. QED
            BY <3>3, <5>2
        <4>3. QED
          BY <3>3, <4>1, <4>2
      <3>5. ASSUME NEW k \in T + 1 .. Len(sent'[e])
            PROVE  \E i \in 1 .. Len(wire'[e]) :
                     wire'[e][i].op # Reply /\ wire'[e][i].id = Serial(e, k)
        BY <1>c, <2>1, <3>2, <3>3
      <3>6. QED
        BY <2>2, <3>4, <3>5
    <2>4. CASE t \in Dispatchers
      <3>1. sent' = sent
        BY <1>2, <2>4, SendEffect
      <3>2. wire'[e][Len(w) + 1].op = Reply
        BY <2>1, <2>4, NewReply
      <3>3. /\ \A i \in 1 .. Len(wire'[e]) : i = Len(w) + 1 \/ i \in 1 .. Len(w)
            /\ \A i \in 1 .. Len(w) : i \in 1 .. Len(wire'[e])
        BY <1>b, <2>1
      <3>4. \A i \in 1 .. Len(wire'[e]) : wire'[e][i].op # Reply =>
              i \in 1 .. Len(w) /\ wire'[e][i] = w[i]
        BY <2>1, <3>2, <3>3
      <3>5. Known
        BY <1>a, <1>c, <3>1, <3>4
      <3>6. ASSUME NEW k \in T + 1 .. Len(s)
            PROVE  \E i \in 1 .. Len(wire'[e]) :
                     wire'[e][i].op # Reply /\ wire'[e][i].id = Serial(e, k)
        BY <1>c, <2>1, <3>3
      <3>7. QED
        BY <1>a, <2>2, <3>1, <3>5, <3>6
    <2>5. QED
      BY <2>1, <2>3, <2>4
  <1>3. ASSUME NEW t \in Threads, ReadArgs(t), End(t) = e
        PROVE  Known /\ Arriving
    <2>1. /\ t \in Callers \union Dispatchers /\ pc[t] = "args"
          /\ (w[1].op = Reply) <=> (t \in Callers)
          /\ \A i \in 1 .. Len(wire'[e]) :
               i + 1 \in 2 .. Len(w) /\ wire'[e][i] = w[i + 1]
          /\ \A i \in 2 .. Len(w) :
               i - 1 \in 1 .. Len(wire'[e]) /\ wire'[e][i - 1] = w[i]
          /\ sent' = sent
      BY <1>3, <1>a, ReadArgsEffect
    <2>2. Known
      <3>1. ASSUME NEW i \in 1 .. Len(wire'[e]), wire'[e][i].op # Reply
            PROVE  \E k \in 1 .. Len(sent'[e]) : IsCall(wire'[e][i], k)
        <4>1. i + 1 \in 2 .. Len(w) /\ wire'[e][i] = w[i + 1]
          BY <2>1
        <4>2. i + 1 \in 1 .. Len(w)
          BY <4>1
        <4>3. QED
          BY <1>a, <1>c, <2>1, <3>1, <4>1, <4>2
      <3>2. QED
        BY <3>1
    <2>3. ASSUME NEW k \in Taken(e)' + 1 .. Len(s)
          PROVE  \E i \in 2 .. Len(w) : w[i].op # Reply /\ w[i].id = Serial(e, k)
      <3>1. /\ k \in T + 1 .. Len(s)
            /\ t \in Dispatchers => w[1].id = Serial(e, T + 1) /\ T + 1 < k
        <4>1. CASE t \in Dispatchers
          <5>1. t = d
            BY <1>3, <1>a, <4>1
          <5>2. Taken(e)' = T + 1
            BY <1>3, <1>a, <5>1, TakenSteps
          <5>3. w[1].id = Serial(e, T + 1)
            <6>1. pc[Dispatcher(e)] = "args"
              BY <1>a, <2>1, <5>1
            <6>2. /\ Taken(e) = Len(executed[e])
                  /\ wire[e][1].id = Serial(e, Len(executed[e]) + 1)
              BY <6>1, NextRequest
            <6>3. QED
              BY <1>a, <6>2
          <5>4. QED
            BY <1>b, <2>3, <5>2, <5>3
        <4>2. CASE t \in Callers
          <5>1. ~ReadArgs(d)
            <6>1. pc[d] # "args"
              BY <1>3, <1>a, <2>1, <4>2, Exclusion DEF ReadCS
            <6>2. QED
              BY <6>1 DEF ReadArgs, At
          <5>2. QED
            BY <1>d, <2>3, <4>2, <5>1, ThreadKinds
        <4>3. QED
          BY <2>1, <4>1, <4>2
      <3>2. PICK i \in 1 .. Len(w) : w[i].op # Reply /\ w[i].id = Serial(e, k)
        BY <1>c, <3>1
      <3>3. i # 1
        <4>1. CASE t \in Callers
          BY <2>1, <3>2, <4>1
        <4>2. CASE t \in Dispatchers
          <5>1. T + 1 \in Nat /\ k \in Nat /\ T + 1 # k
            BY <1>b, <3>1, <4>2
          <5>2. Serial(e, T + 1) # Serial(e, k)
            BY <5>1, SerialFacts
          <5>3. QED
            BY <3>1, <3>2, <4>2, <5>2
        <4>3. QED
          BY <2>1, <4>1, <4>2
      <3>4. i \in 2 .. Len(w)
        BY <1>b, <3>3
      <3>5. QED
        BY <3>2, <3>4
    <2>4. ASSUME NEW k \in Taken(e)' + 1 .. Len(s)
          PROVE  \E i \in 1 .. Len(wire'[e]) :
                   wire'[e][i].op # Reply /\ wire'[e][i].id = Serial(e, k)
      <3>1. PICK i \in 2 .. Len(w) : w[i].op # Reply /\ w[i].id = Serial(e, k)
        BY <2>3
      <3>2. i - 1 \in 1 .. Len(wire'[e]) /\ wire'[e][i - 1] = w[i]
        BY <2>1
      <3>3. QED
        BY <3>1, <3>2
    <2>5. QED
      BY <1>a, <2>1, <2>2, <2>4
  <1> HIDE DEF Known, Arriving
  <1>4. Known /\ Arriving
    BY <1>1, <1>2, <1>3, StreamSteps
  <1>5. QED
    BY <1>4 DEF Known, Arriving

\* The calls that were sent stay as they are.
LEMMA SentGrows ==
  ASSUME IInv, [Next]_vars, NEW e \in Ends
  PROVE  /\ Len(sent[e]) \in Nat /\ Len(sent'[e]) \in Nat
         /\ Len(sent[e]) <= Len(sent'[e])
         /\ \A k \in 1 .. Len(sent[e]) :
              k \in 1 .. Len(sent'[e]) /\ sent'[e][k] = sent[e][k]
  <1>a. sent[e] \in Seq(Call) /\ Len(sent[e]) \in Nat
    BY StateTypes
  <1>1. CASE sent'[e] = sent[e]
    BY <1>a, <1>1
  <1>2. ASSUME NEW t \in Threads, WriteEndSend(t), Peer(End(t)) = e,
               t \in Callers
        PROVE  /\ Len(sent'[e]) = Len(sent[e]) + 1
               /\ \A k \in 1 .. Len(sent[e]) : sent'[e][k] = sent[e][k]
    BY <1>2, SendEffect
  <1>3. ASSUME NEW t \in Threads, WriteEndSend(t) PROVE t \in Callers \/ sent' = sent
    BY <1>3, SendEffect
  <1>4. ASSUME NEW t \in Threads, ReadArgs(t) PROVE sent' = sent
    BY <1>4, ReadArgsEffect
  <1>5. CASE /\ Len(sent'[e]) = Len(sent[e]) + 1
             /\ \A k \in 1 .. Len(sent[e]) : sent'[e][k] = sent[e][k]
    BY <1>a, <1>5
  <1>6. QED
    BY <1>1, <1>2, <1>3, <1>4, <1>5, StreamSteps

\* A dispatcher executes the calls in their order.
LEMMA NextExecutedInv ==
  ASSUME IInv, ServiceInv, [Next]_vars
  PROVE  ExecutedInv'
  <1> SUFFICES ASSUME NEW e \in Ends PROVE ExecutedAt(e)'
    BY DEF ExecutedInv
  <1> DEFINE d == Dispatcher(e)
             n == Len(executed[e])
  <1>a. /\ d \in Dispatchers /\ d \in Threads /\ End(d) = e /\ d \notin Callers
        /\ d = Dispatcher(e) /\ n = Len(executed[e])
    BY EndFacts, ThreadKinds
  <1>b. /\ sent[e] \in Seq(Call) /\ executed[e] \in Seq(Call) /\ n \in Nat
        /\ arg[d] \in Call /\ Len(sent[e]) \in Nat /\ Len(sent'[e]) \in Nat
        /\ pc[d] \in DispatcherPC
    <2>1. n \in Nat
      BY <1>a, StateTypes
    <2>2. QED
      BY <1>a, <2>1, StateTypes, SentGrows
  <1>c. /\ Taken(e) <= Len(sent[e]) /\ Taken(e) \in Nat
        /\ \A k \in 1 .. n : executed[e][k] = sent[e][k]
        /\ pc[d] = "rend" => read_id[e] = Serial(e, n + 1)
        /\ pc[d] \in {"rend", "exec"} => arg[d] = sent[e][n + 1]
        /\ pc[d] \in {"wlock", "wbuild"} => n > 0 /\ arg[d] = sent[e][n]
        /\ IF pc[d] = "exec" THEN rid[d] = Serial(e, n + 1)
           ELSE rid[d] = Serial(e, n) \/ (n = 0 /\ rid[d] = 0)
    <2>1. Taken(e) \in Nat
      BY <1>a, <1>b DEF Taken
    <2>2. QED
      BY <1>a, <2>1 DEF ServiceInv, ExecutedInv, ExecutedAt
  <1>d. /\ Taken(e) = IF pc[d] \in {"rend", "exec"} THEN n + 1 ELSE n
        /\ Taken(e)' = IF pc'[d] \in {"rend", "exec"} THEN Len(executed'[e]) + 1
                       ELSE Len(executed'[e])
    BY <1>a DEF Taken, Dispatcher
  <1>e. /\ Len(sent[e]) <= Len(sent'[e])
        /\ \A k \in 1 .. Len(sent[e]) : sent'[e][k] = sent[e][k]
    BY SentGrows
  <1>g. /\ \A k \in 1 .. n : sent'[e][k] = sent[e][k]
        /\ n > 0 => sent'[e][n] = sent[e][n]
        /\ n + 1 <= Len(sent[e]) => sent'[e][n + 1] = sent[e][n + 1]
    <2>1. n <= Len(sent[e])
      BY <1>b, <1>c, <1>d
    <2>2. QED
      BY <1>b, <1>e, <2>1
  <1>k. ASSUME Taken(e)' <= Len(sent'[e]),
               \A k \in 1 .. Len(executed'[e]) : executed'[e][k] = sent'[e][k],
               pc'[d] = "rend" => read_id'[e] = Serial(e, Len(executed'[e]) + 1),
               pc'[d] \in {"rend", "exec"} => arg'[d] = sent'[e][Len(executed'[e]) + 1],
               pc'[d] \in {"wlock", "wbuild"} =>
                 Len(executed'[e]) > 0 /\ arg'[d] = sent'[e][Len(executed'[e])],
               IF pc'[d] = "exec" THEN rid'[d] = Serial(e, Len(executed'[e]) + 1)
               ELSE \/ rid'[d] = Serial(e, Len(executed'[e]))
                    \/ Len(executed'[e]) = 0 /\ rid'[d] = 0
        PROVE  ExecutedAt(e)'
    BY <1>a, <1>k DEF ExecutedAt, Serial, Dispatcher, Parity
  <1> HIDE DEF d, n
  <1>1. ASSUME executed'[e] = executed[e], rid'[d] = rid[d], arg'[d] = arg[d],
               \/ pc'[d] = pc[d]
               \/ pc[d] \in BeforePayload /\ pc'[d] \in BeforePayload
               \/ pc[d] = "wlock" /\ pc'[d] = "wbuild"
               \/ pc[d] = "wbuild" /\ pc'[d] \in {"spawn", "off"},
               pc[d] = "rend" => read_id'[e] = read_id[e]
        PROVE  ExecutedAt(e)'
    <2>1. Taken(e)' = Taken(e)
      BY <1>1, <1>a, <1>d DEF BeforePayload
    <2>2. Taken(e)' <= Len(sent'[e])
      BY <1>b, <1>c, <1>e, <2>1
    <2>3. /\ pc'[d] \in {"rend", "exec"} => pc'[d] = pc[d] /\ n + 1 <= Len(sent[e])
          /\ pc'[d] \in {"wlock", "wbuild"} => pc[d] \in {"wlock", "wbuild"}
          /\ pc[d] = "exec" => pc'[d] = "exec"
      BY <1>1, <1>c, <1>d DEF BeforePayload
    <2>4. QED
      BY <1>1, <1>a, <1>c, <1>g, <1>k, <2>2, <2>3
  <1>2. CASE ReadArgs(d)
    <2>1. /\ pc[d] = "args" /\ pc'[d] = "rend" /\ arg'[d] = wire[e][1].body
          /\ read_id' = read_id /\ rid' = rid /\ executed' = executed /\ sent' = sent
      BY <1>2, <1>a, <1>b, StateTypes, ReadArgsEffect
    <2>2. /\ n + 1 <= Len(sent[e]) /\ read_id[e] = Serial(e, n + 1)
          /\ wire[e][1].body = sent[e][n + 1]
      BY <1>a, <2>1, NextRequest
    <2>3. QED
      BY <1>a, <1>c, <1>d, <1>k, <2>1, <2>2
  <1>3. CASE ReadEnd(d)
    <2>1. /\ pc[d] = "rend" /\ pc'[d] = "exec" /\ arg' = arg
          /\ rid'[d] = read_id[e] /\ executed' = executed /\ sent' = sent
      BY <1>3, <1>a, StateTypes, ReadEndEffect
    <2>2. QED
      BY <1>a, <1>c, <1>d, <1>k, <2>1
  <1>4. ASSUME pc[d] = "exec", pc'[d] \in {"wlock", "spawn"},
               executed'[e] = Append(executed[e], arg[d]),
               sent' = sent, rid' = rid, arg' = arg
        PROVE  ExecutedAt(e)'
    <2>1. /\ Len(executed'[e]) = n + 1
          /\ \A k \in 1 .. n : executed'[e][k] = executed[e][k]
          /\ executed'[e][n + 1] = arg[d]
      BY <1>4, <1>a, <1>b, AppendFacts
    <2>2. n + 1 <= Len(sent[e]) /\ arg[d] = sent[e][n + 1]
      BY <1>4, <1>c, <1>d
    <2>3. \A k \in 1 .. n + 1 : k = n + 1 \/ k \in 1 .. n
      BY <1>b
    <2>4. \A k \in 1 .. Len(executed'[e]) : executed'[e][k] = sent'[e][k]
      BY <1>4, <1>c, <2>1, <2>2, <2>3
    <2>5. /\ Taken(e)' <= Len(sent'[e])
          /\ Len(executed'[e]) > 0 /\ arg'[d] = sent'[e][Len(executed'[e])]
          /\ rid'[d] = Serial(e, Len(executed'[e]))
      BY <1>4, <1>b, <1>c, <1>d, <2>1, <2>2
    <2>6. QED
      BY <1>4, <1>k, <2>4, <2>5
  <1>5. QED
    BY <1>1, <1>2, <1>3, <1>4, <1>a, DispatcherSteps

\* Responses follow each other in the order of the calls.
LEMMA NextReplyInv ==
  ASSUME IInv, ServiceInv, [Next]_vars
  PROVE  ReplyInv'
  <1> SUFFICES ASSUME NEW e \in Ends PROVE ReplyAt(e)'
    BY DEF ReplyInv
  <1> DEFINE p == Peer(e)
             d == Dispatcher(e)
             n == Len(executed[e])
             w == wire[p]
             v == wire'[p]
             s == sent[e]
             IsReply(f, k) == \* frame f answers the k-th call
               /\ f.id = Serial(e, k) /\ f.body = s[k]
               /\ pc[d] \in {"wlock", "wbuild"} => k < n
             WillBe(f, k) ==
               /\ f.id = Serial(e, k) /\ f.body = sent'[e][k]
               /\ pc'[d] \in {"wlock", "wbuild"} => k < Len(executed'[e])
  <1>a. /\ d \in Dispatchers /\ d \in Threads /\ End(d) = e /\ d \notin Callers
        /\ p \in Ends /\ Peer(p) = e /\ d = Dispatcher(e) /\ p # e
        /\ p = Peer(e) /\ w = wire[p] /\ v = wire'[p] /\ s = sent[e]
        /\ n = Len(executed[e])
        /\ \A t \in Dispatchers : End(t) = e => t = d
    BY EndFacts, ThreadKinds
  <1>b. /\ w \in Seq(Frame) /\ s \in Seq(Call) /\ n \in Nat /\ Len(w) \in Nat
        /\ executed[e] \in Seq(Call) /\ arg[d] \in Call
    <2>1. n \in Nat /\ Len(w) \in Nat
      BY <1>a, StateTypes
    <2>2. QED
      BY <1>a, <2>1, StateTypes
  <1>c. /\ \A i \in 1 .. Len(w) : w[i].op = Reply => \E k \in 1 .. n : IsReply(w[i], k)
        /\ \A i, j \in 1 .. Len(w) :
             i < j /\ w[i].op = Reply /\ w[j].op = Reply => w[i].id < w[j].id
    BY <1>a DEF ServiceInv, ReplyInv, ReplyAt
  <1>d. n <= Len(s) /\ Len(s) \in Nat
    <2>1. Taken(e) <= Len(s)
      BY <1>a DEF ServiceInv, ExecutedInv, ExecutedAt
    <2>2. Taken(e) \in {n, n + 1}
      BY <1>a DEF Taken
    <2>3. QED
      BY <1>b, <2>1, <2>2
  <1>e. \A k \in 1 .. Len(s) : sent'[e][k] = s[k]
    BY <1>a, SentGrows
  <1>k. ASSUME \A i \in 1 .. Len(v) :
                 v[i].op = Reply => \E k \in 1 .. Len(executed'[e]) : WillBe(v[i], k),
               \A i, j \in 1 .. Len(v) :
                 i < j /\ v[i].op = Reply /\ v[j].op = Reply => v[i].id < v[j].id
        PROVE  ReplyAt(e)'
    BY <1>a, <1>k DEF ReplyAt, Serial, Dispatcher, Parity, Peer
  <1> HIDE DEF p, d, n, w, v, s
  <1>g. /\ n <= Len(executed'[e]) /\ Len(executed'[e]) \in Nat
        /\ pc'[d] \in {"wlock", "wbuild"} =>
             pc[d] \in {"wlock", "wbuild"} \/ n < Len(executed'[e])
    <2>1. CASE executed'[e] = executed[e] /\ (pc'[d] \in {"wlock", "wbuild"} =>
                                                pc[d] \in {"wlock", "wbuild"})
      BY <1>a, <1>b, <2>1
    <2>2. CASE executed'[e] = Append(executed[e], arg[d])
      <3>1. Len(executed'[e]) = n + 1
        BY <1>a, <1>b, <2>2
      <3>2. QED
        BY <1>b, <3>1
    <2>3. CASE ReadArgs(d)
      <3>1. executed' = executed /\ pc'[d] = "rend"
        BY <1>a, <2>3, ReadArgsEffect
      <3>2. QED
        BY <2>1, <3>1
    <2>4. CASE ReadEnd(d)
      <3>1. executed' = executed /\ pc'[d] = "exec"
        BY <1>a, <2>4, ReadEndEffect
      <3>2. QED
        BY <2>1, <3>1
    <2>5. QED
      BY <1>a, <2>1, <2>2, <2>3, <2>4, DispatcherSteps DEF BeforePayload
  <1>h. ASSUME NEW f, NEW k \in 1 .. n, IsReply(f, k)
        PROVE  k \in 1 .. Len(executed'[e]) /\ WillBe(f, k)
    <2>1. k \in 1 .. Len(s) /\ k \in 1 .. Len(executed'[e])
      BY <1>b, <1>d, <1>g
    <2>2. f.id = Serial(e, k) /\ f.body = sent'[e][k]
      BY <1>e, <1>h, <2>1
    <2>3. pc'[d] \in {"wlock", "wbuild"} => k < Len(executed'[e])
      BY <1>b, <1>g, <1>h
    <2>4. QED
      BY <2>1, <2>2, <2>3
  <1> HIDE DEF IsReply, WillBe
  <1>1. ASSUME wire'[p] = wire[p] PROVE ReplyAt(e)'
    BY <1>1, <1>a, <1>c, <1>h, <1>k
  <1>2. ASSUME NEW t \in Threads, WriteEndSend(t), Peer(End(t)) = p
        PROVE  ReplyAt(e)'
    <2>1. /\ Len(v) = Len(w) + 1
          /\ \A i \in 1 .. Len(w) : v[i] = w[i]
          /\ v[Len(w) + 1] = [id |-> write_id[End(t)], op |-> write_op[End(t)],
                              body |-> Payload(t)]
          /\ t \in Callers \union Dispatchers /\ pc[t] = "wbuild"
          /\ pc'[t] = AfterWrite(t) /\ executed' = executed
      <3>1. /\ Len(wire'[p]) = Len(wire[p]) + 1
            /\ \A i \in 1 .. Len(wire[p]) : wire'[p][i] = wire[p][i]
            /\ wire'[p][Len(wire[p]) + 1] =
                 [id |-> write_id[End(t)], op |-> write_op[End(t)], body |-> Payload(t)]
        BY <1>2, SendEffect
      <3>2. /\ t \in Callers \union Dispatchers /\ pc[t] = "wbuild"
            /\ pc'[t] = AfterWrite(t) /\ executed' = executed
        BY <1>2, SendEffect
      <3>3. w = wire[p] /\ v = wire'[p]
        BY <1>a
      <3>4. QED
        BY <3>1, <3>2, <3>3
    <2>2. End(t) = e
      BY <1>2, <1>a, EndFacts
    <2>3. /\ \A i \in 1 .. Len(v) : i = Len(w) + 1 \/ (i \in 1 .. Len(w) /\ i < Len(w) + 1)
      BY <1>b, <2>1
    <2>4. v[Len(w) + 1].op = Reply =>
            /\ \E k \in 1 .. Len(executed'[e]) : WillBe(v[Len(w) + 1], k)
            /\ \A i \in 1 .. Len(w) : w[i].op = Reply => w[i].id < v[Len(w) + 1].id
      <3>1. CASE t \in Callers
        BY <1>2, <2>1, <3>1, NewRequest
      <3>2. CASE t \in Dispatchers
        <4>1. t = d
          BY <1>a, <2>2, <3>2
        <4>2. /\ n > 0 /\ write_id[e] = Serial(e, n) /\ Payload(t) = s[n]
          BY <1>a, <2>1, <2>2, <3>2, NewReply
        <4>3. n \in 1 .. Len(executed'[e]) /\ n \in 1 .. Len(s)
          BY <1>a, <1>b, <1>d, <2>1, <4>2
        <4>4. pc'[d] = "spawn"
          BY <2>1, <3>2, <4>1 DEF AfterWrite
        <4>5. WillBe(v[Len(w) + 1], n)
          BY <1>e, <2>1, <2>2, <4>2, <4>3, <4>4 DEF WillBe
        <4>6. ASSUME NEW i \in 1 .. Len(w), w[i].op = Reply
              PROVE  w[i].id < v[Len(w) + 1].id
          <5>1. PICK k \in 1 .. n : IsReply(w[i], k)
            BY <1>c, <4>6
          <5>2. w[i].id = Serial(e, k) /\ k < n
            BY <2>1, <4>1, <5>1 DEF IsReply
          <5>3. Serial(e, k) < Serial(e, n)
            <6>1. k \in Nat /\ n \in Nat /\ k < n
              BY <1>b, <5>2
            <6>2. QED
              BY <6>1, SerialFacts
          <5>4. QED
            BY <2>1, <2>2, <4>2, <5>2, <5>3
        <4>7. QED
          BY <4>3, <4>5, <4>6
      <3>3. QED
        BY <2>1, <3>1, <3>2
    <2>5. ASSUME NEW i \in 1 .. Len(v), v[i].op = Reply
          PROVE  \E k \in 1 .. Len(executed'[e]) : WillBe(v[i], k)
      <3>1. CASE i = Len(w) + 1
        BY <2>4, <2>5, <3>1
      <3>2. CASE i \in 1 .. Len(w)
        BY <1>c, <1>h, <2>1, <2>5, <3>2
      <3>3. QED
        BY <2>3, <3>1, <3>2
    <2>6. ASSUME NEW i \in 1 .. Len(v), NEW j \in 1 .. Len(v),
                 i < j, v[i].op = Reply, v[j].op = Reply
          PROVE  v[i].id < v[j].id
      <3>1. i \in 1 .. Len(w)
        BY <1>b, <2>1, <2>6
      <3>2. CASE j = Len(w) + 1
        BY <2>1, <2>4, <2>6, <3>1, <3>2
      <3>3. CASE j \in 1 .. Len(w)
        BY <1>c, <2>1, <2>6, <3>1, <3>3
      <3>4. QED
        BY <2>3, <3>2, <3>3
    <2>7. QED
      BY <1>k, <2>5, <2>6
  <1>3. ASSUME NEW t \in Threads, ReadArgs(t), End(t) = p
        PROVE  ReplyAt(e)'
    <2>1. \A i \in 1 .. Len(v) : i + 1 \in 2 .. Len(w) /\ v[i] = w[i + 1]
      BY <1>3, <1>a, ReadArgsEffect
    <2>2. \A i \in 1 .. Len(v) : i + 1 \in 1 .. Len(w)
      BY <1>b, <2>1
    <2>3. \A i, j \in 1 .. Len(v) : i < j => i + 1 < j + 1
      OBVIOUS
    <2>4. \A i \in 1 .. Len(v) : v[i].op = Reply =>
            \E k \in 1 .. Len(executed'[e]) : WillBe(v[i], k)
      BY <1>c, <1>h, <2>1, <2>2
    <2>5. \A i, j \in 1 .. Len(v) :
            i < j /\ v[i].op = Reply /\ v[j].op = Reply => v[i].id < v[j].id
      BY <1>c, <2>1, <2>2, <2>3
    <2>6. QED
      BY <1>k, <2>4, <2>5
  <1>4. QED
    BY <1>1, <1>2, <1>3, <1>a, StreamSteps

\* A call that was sent is over when its thread makes another one.
LEMMA NextSentInv ==
  ASSUME IInv, ServiceInv, [Next]_vars
  PROVE  SentInv'
  <1>a. \A e \in Ends : \A k \in 1 .. Len(sent[e]) : Accounted(e, sent[e][k])
    BY DEF ServiceInv, SentInv
  <1>b. /\ \A u \in Callers : u \in Threads /\ call[u].n \in Nat /\ call[u] \in Call
        /\ \A e \in Ends : \A k \in 1 .. Len(sent[e]) : sent[e][k].n \in Nat
        /\ pc \in [Threads -> PCs]
        /\ call \in [Callers -> Call]
    <2>1. \A u \in Callers : u \in Threads /\ call[u] \in Call
      BY StateTypes, ThreadKinds
    <2>2. \A e \in Ends : \A k \in 1 .. Len(sent[e]) : sent[e][k] \in Call
      BY StateTypes
    <2>3. \A c \in Call : c.n \in Nat
      BY DEF Call
    <2>4. QED
      BY <2>1, <2>2, <2>3, StateTypes
  <1>k. ASSUME NEW e \in Ends, NEW b, Accounted(e, b), call'[b.by] = call[b.by],
               results \subseteq results', pc'[b.by] = "wbuild" => pc[b.by] = "wbuild",
               pc[b.by] \in Waiting \union {"rend"} =>
                 pc'[b.by] \in Waiting \union {"rend"} \/ Returned(b)'
        PROVE  Accounted(e, b)'
    BY <1>k DEF Accounted, Returned, Peer
  <1>m. ASSUME sent' = sent, call' = call, results \subseteq results',
               \A u \in Callers : /\ pc'[u] = "wbuild" => pc[u] = "wbuild"
                                  /\ pc[u] \in Waiting \union {"rend"} =>
                                       pc'[u] \in Waiting \union {"rend"}
        PROVE  SentInv'
    <2>1. ASSUME NEW e \in Ends, NEW k \in 1 .. Len(sent[e])
          PROVE  Accounted(e, sent[e][k])'
      <3>1. Accounted(e, sent[e][k]) /\ sent[e][k].by \in Callers
        BY <1>a DEF Accounted
      <3>2. \A b : b = sent[e][k] => Accounted(e, b)'
        BY <1>k, <1>m, <3>1
      <3>3. QED
        BY <1>m, <3>2
    <2>2. QED
      BY <1>m, <2>1 DEF SentInv
  <1> USE <1>b, ThreadKinds DEF At, Waiting
  <1>1. ASSUME NEW t \in Threads, StartRequest(t) PROVE SentInv'
    <2>1. /\ t \in Callers /\ pc[t] = "ready" /\ pc'[t] = "wbuild"
          /\ \A u \in Callers : u # t => pc'[u] = pc[u] /\ call'[u] = call[u]
          /\ call'[t].n = call[t].n + 1
          /\ sent' = sent /\ results' = results
      BY <1>1 DEF StartRequest, history
    <2>2. ASSUME NEW e \in Ends, NEW k \in 1 .. Len(sent[e]), NEW b, b = sent[e][k]
          PROVE  Accounted(e, b)'
      <3>1. Accounted(e, b) /\ b.n \in Nat
        BY <1>a, <2>2
      <3>2. CASE b.by = t
        <4>1. /\ b.by \in Callers /\ End(b.by) = Peer(e) /\ b.n < call'[t].n
              /\ b.op \in Async \/ Returned(b)
          BY <2>1, <3>1, <3>2 DEF Accounted
        <4>2. Returned(b) => Returned(b)'
          BY <2>1 DEF Returned
        <4>3. b.n <= call'[t].n
          BY <2>1, <3>1, <4>1
        <4>4. QED
          BY <2>1, <3>2, <4>1, <4>2, <4>3 DEF Accounted, Peer
      <3>3. CASE b.by # t
        <4>1. b.by \in Callers
          BY <3>1 DEF Accounted
        <4>2. QED
          BY <1>k, <2>1, <3>1, <3>3, <4>1
      <3>4. QED
        BY <3>2, <3>3
    <2>3. QED
      BY <2>1, <2>2 DEF SentInv
  <1>2. ASSUME NEW t \in Threads, StartResponse(t) PROVE SentInv'
    BY <1>2, <1>m DEF StartResponse, local, history
  <1>3. ASSUME NEW t \in Threads, WriteEndSuppressed(t) PROVE SentInv'
    BY <1>3, <1>m DEF WriteEndSuppressed, AfterWrite, local, history
  <1>4. ASSUME NEW t \in Threads, WriteEndSend(t) PROVE SentInv'
    <2>1. /\ t \in Callers \union Dispatchers /\ pc[t] = "wbuild"
          /\ pc'[t] = AfterWrite(t) /\ \A u \in Threads : u # t => pc'[u] = pc[u]
          /\ call' = call /\ results' = results
      BY <1>4, SendEffect
    <2>2. CASE t \in Dispatchers
      <3>1. sent' = sent
        BY <1>4, <2>2, SendEffect
      <3>2. \A u \in Callers : pc'[u] = pc[u]
        BY <2>1, <2>2
      <3>3. QED
        BY <1>m, <2>1, <3>1, <3>2
    <2>3. CASE t \in Callers
      <3> DEFINE p == Peer(End(t))
                 c == call[t]
      <3>1. /\ p \in Ends /\ Peer(p) = End(t) /\ c \in Call
        BY <2>3, EndFacts
      <3>2. /\ pc'[t] = IF c.op \in Async THEN "ready" ELSE "wret"
            /\ c.by = t
        BY <2>1, <2>3 DEF AfterWrite, ServiceInv, CallInv
      <3>3. \A e \in Ends : \A b : b = c /\ e = p => Accounted(e, b)'
        BY <2>1, <2>3, <3>1, <3>2 DEF Accounted, Peer
      <3>4. ASSUME NEW e \in Ends, NEW k \in 1 .. Len(sent[e]), NEW b, b = sent[e][k]
            PROVE  Accounted(e, b)'
        <4>1. Accounted(e, b) /\ b.by \in Callers
          BY <1>a, <3>4 DEF Accounted
        <4>2. /\ pc'[b.by] = "wbuild" => pc[b.by] = "wbuild"
              /\ pc[b.by] \in Waiting \union {"rend"} => pc'[b.by] = pc[b.by]
          BY <2>1, <3>2, <4>1
        <4>3. QED
          BY <1>k, <2>1, <4>1, <4>2
      <3>5. ASSUME NEW e \in Ends, NEW k \in 1 .. Len(sent'[e])
            PROVE  \/ k \in 1 .. Len(sent[e]) /\ sent'[e][k] = sent[e][k]
                   \/ e = p /\ sent'[e][k] = c
        <4>1. CASE e = p
          <5>1. /\ Len(sent'[p]) = Len(sent[p]) + 1
                /\ \A i \in 1 .. Len(sent[p]) : sent'[p][i] = sent[p][i]
                /\ sent'[p][Len(sent[p]) + 1] = c
            BY <1>4, <2>3, SendEffect
          <5>2. Len(sent[p]) \in Nat
            BY <3>1, StateTypes
          <5>3. k \in 1 .. Len(sent[p]) \/ k = Len(sent[p]) + 1
            BY <3>5, <4>1, <5>1, <5>2
          <5>4. QED
            BY <4>1, <5>1, <5>3
        <4>2. CASE e # p
          <5>1. sent'[e] = sent[e]
            BY <1>4, <4>2, SendElsewhere
          <5>2. QED
            BY <3>5, <5>1
        <4>3. QED
          BY <4>1, <4>2
      <3> HIDE DEF p, c
      <3>6. ASSUME NEW e \in Ends, NEW k \in 1 .. Len(sent'[e]), NEW b, b = sent'[e][k]
            PROVE  Accounted(e, b)'
        BY <3>3, <3>4, <3>5, <3>6
      <3>7. QED
        BY <3>6 DEF SentInv
    <2>4. QED
      BY <2>1, <2>2, <2>3
  <1>5. ASSUME NEW t \in Threads, WriteEndReturn(t) PROVE SentInv'
    BY <1>5, <1>m DEF WriteEndReturn, history
  <1>6. ASSUME NEW t \in Threads, AbandonRequest(t) PROVE SentInv'
    BY <1>6, <1>m DEF AbandonRequest, local, history
  <1>6e. ASSUME NEW t \in Threads, WriteEndError(t) PROVE SentInv'
    BY <1>6e, <1>m DEF WriteEndError, AfterError, local, history
  <1>7. ASSUME NEW t \in Callers, ReadLock(t) PROVE SentInv'
    BY <1>7, <1>m DEF ReadLock, OnTurn, local, history
  <1>8. ASSUME NEW t \in Threads, ReadArgs(t) PROVE SentInv'
    BY <1>8, <1>m, ReadArgsEffect
  <1>9. ASSUME NEW t \in Threads, ReadEnd(t) PROVE SentInv'
    <2>1. /\ sent' = sent /\ call' = call /\ pc[t] = "rend"
          /\ t \in Callers \union Dispatchers
          /\ t \in Callers => pc'[t] \in {"ready", "idle"}
          /\ t \in Dispatchers => results' = results
          /\ \A u \in Threads : u # t =>
              pc'[u] = pc[u] \/ (pc[u] = "wait" /\ pc'[u] = "rlock")
      BY <1>9, ReadEndEffect
    <2>2. t \in Callers => results' = results \union {<<call[t], arg[t]>>}
      BY <1>9 DEF ReadEnd
    <2>3. results \subseteq results'
      BY <2>1, <2>2
    <2>4. ASSUME NEW e \in Ends, NEW k \in 1 .. Len(sent[e]), NEW b, b = sent[e][k]
          PROVE  Accounted(e, b)'
      <3>1. Accounted(e, b) /\ b.by \in Callers
        BY <1>a, <2>4 DEF Accounted
      <3>2. CASE b.by # t
        BY <1>k, <2>1, <2>3, <3>1, <3>2
      <3>3. CASE b.by = t
        <4>1. t \in Callers
          BY <3>1, <3>3
        <4>2. Returned(call[t])'
          <5>1. <<call[t], arg[t]>> \in results' /\ <<call[t], arg[t]>>[1] = call[t]
            BY <2>2, <4>1
          <5>2. QED
            BY <2>1, <5>1 DEF Returned
        <4>3. b.op \in Async \/ Returned(b) \/ b = call[t]
          BY <3>1, <3>3 DEF Accounted
        <4>4. Returned(b) => Returned(b)'
          BY <2>3 DEF Returned
        <4>5. QED
          BY <2>1, <3>1, <3>3, <4>1, <4>2, <4>3, <4>4 DEF Accounted, Peer
      <3>4. QED
        BY <3>2, <3>3
    <2>5. QED
      BY <2>1, <2>4 DEF SentInv
  <1>10. ASSUME NEW t \in Threads, Execute(t) PROVE SentInv'
    <2>1. /\ \A u \in Callers :
               pc'[u] = pc[u] \/ (pc[u] = "idle" /\ pc'[u] = "ready")
          /\ call' = call /\ sent' = sent /\ results' = results
      BY <1>10, ExecuteEffect DEF local
    <2>2. QED
      BY <1>m, <2>1
  <1>11. ASSUME NEW t \in Threads, InvokeHostFunc(t) PROVE SentInv'
    BY <1>11, <1>m DEF InvokeHostFunc, local
  <1>12. CASE Quiet
    BY <1>12, QuietKeeps DEF ServiceInv
  <1>13. QED
    BY <1>1, <1>2, <1>3, <1>4, <1>5, <1>6, <1>6e, <1>7, <1>8, <1>9, <1>10, <1>11, <1>12,
       StepKinds

\* A call that is lost stays lost while its thread waits.
LEMMA LostKept ==
  ASSUME NEW t \in Callers, Lost(t), pc'[t] \in {"wret", "rlock", "wait"},
         sent'[Peer(End(t))] = sent[Peer(End(t))], Ticket(t)' = Ticket(t)
  PROVE  Lost(t)'
  BY DEF Lost, Waiting, Alone, Serial, Peer, Parity

\* The numbers of a process agree with its calls when nothing of them changes.
LEMMA NumberKept ==
  ASSUME NEW e \in Ends, NumberAt(e), NEW q, q = Peer(e),
         request_id'[q] = request_id[q], sent'[e] = sent[e],
         writeOwner[q] \in Callers => writeOwner'[q] \in Callers,
         \A t \in Callers : End(t) = q =>
           /\ pc'[t] = "wbuild" => pc[t] = "wbuild"
           /\ Lost(t) => Lost(t)'
  PROVE  NumberAt(e)'
  BY DEF NumberAt, Serial, Peer, Parity

\* A caller whose request is taken for an asynchronous response runs a host
\* function, on the one thread that does, and waits for a call of no number.
LEMMA SuppressedCaller ==
  ASSUME IInv, ServiceInv, OneCallback, NEW t \in Callers, WriteEndSuppressed(t)
  PROVE  LET e == Peer(End(t))
         IN  /\ Alone(t) /\ pc'[t] = "wret"
             /\ request_id[End(t)] = Serial(e, Len(sent[e]) + 1)
             /\ \A k \in 1 .. Len(sent[e]) : write_id[End(t)] # Serial(e, k)
  <1> DEFINE e == Peer(End(t))
  <1>a. /\ t \in Threads /\ t \notin Dispatchers /\ End(t) \in Ends
        /\ e \in Ends /\ Peer(e) = End(t) /\ e = Peer(End(t))
    BY EndFacts, ThreadKinds
  <1>b. Len(sent[e]) \in Nat
    BY <1>a, StateTypes
  <1>c. /\ pc[t] = "wbuild" /\ suppress_response[End(t)]
        /\ pc' = [pc EXCEPT ![t] = AfterWrite(t)] /\ pc \in [Threads -> PCs]
    BY StateTypes DEF WriteEndSuppressed, At
  <1> HIDE DEF e
  <1>1. End(t) = "server"
    BY <1>a, <1>c DEF ServiceInv, SuppressInv, Ends
  <1>2. t \in Callbacks /\ t \notin Apps
    BY <1>1, CallersAssumption DEF End, Callers
  <1>3. pc'[t] = "wret"
    <2>1. call[t].op = "hostFunc"
      BY <1>2, <1>c DEF ServiceInv, CallInv
    <2>2. QED
      BY <1>a, <1>c, <2>1 DEF AfterWrite, Async
  <1>4. Alone(t)
    BY <1>1, <1>2, CallersAssumption DEF OneCallback, Alone, End, Callers
  <1>5. /\ request_id[End(t)] = Serial(e, Len(sent[e]) + 1)
        /\ write_id[End(t)] = request_id[End(t)]
    BY <1>a, <1>c DEF ServiceInv, NumberInv, NumberAt, IInv, BuildInv
  <1>6. ASSUME NEW k \in 1 .. Len(sent[e])
        PROVE  Serial(e, Len(sent[e]) + 1) # Serial(e, k)
    BY <1>a, <1>b, SerialDiffers
  <1>7. QED
    BY <1>a, <1>3, <1>4, <1>5, <1>6

\* Every request id but the one of the call that a lost caller made is in use.
LEMMA NextNumberInv ==
  ASSUME IInv, ServiceInv, OneCallback, [Next]_vars
  PROVE  NumberInv'
  <1> SUFFICES ASSUME NEW e \in Ends PROVE NumberAt(e)'
    BY DEF NumberInv
  <1> DEFINE q == Peer(e)
  <1>a. /\ q \in Ends /\ Peer(q) = e /\ q # e /\ q = Peer(e) /\ NumberAt(e)
        /\ \A t \in Callers : t \in Threads
        /\ \A t \in Dispatchers : t \notin Callers
        /\ \A t \in Threads : End(t) \in Ends /\ (End(t) # q => End(t) = e)
    BY EndFacts, ThreadKinds DEF ServiceInv, NumberInv, Ends
  <1>b. /\ pc \in [Threads -> PCs] /\ writeOwner \in [Ends -> Threads \union {NoThread}]
        /\ request_id \in [Ends -> Nat] /\ write_id \in [Ends -> Nat]
        /\ rid \in [Callers \union Dispatchers -> Nat]
        /\ NoThread \notin Callers
    BY StateTypes, ThreadKinds
  <1>c. \A t \in Threads : pc[t] = "wbuild" => writeOwner[End(t)] = t
    BY DEF IInv, LockInv
  <1>d. Len(sent[e]) \in Nat
    BY StateTypes
  <1> HIDE DEF q
  \* The steps that leave the ids, the calls and the lock of process q alone.
  <1>k. ASSUME request_id'[q] = request_id[q], sent'[e] = sent[e],
               writeOwner[q] \in Callers => writeOwner'[q] \in Callers,
               \A t \in Callers : End(t) = q =>
                 /\ pc'[t] = "wbuild" => pc[t] = "wbuild"
                 /\ Lost(t) => pc'[t] \in {"wret", "rlock", "wait"} /\ Ticket(t)' = Ticket(t)
        PROVE  NumberAt(e)'
    <2>1. \A t \in Callers : End(t) = q /\ Lost(t) => Lost(t)'
      BY <1>k, <1>a, LostKept
    <2>2. QED
      BY <1>k, <1>a, <2>1, NumberKept
  <1>m. \A t \in Callers : Lost(t) => pc[t] \in {"wret", "rlock", "wait"}
    BY DEF Lost, Waiting
  <1> USE <1>a, <1>b, <1>m DEF At
  <1>1. ASSUME NEW t \in Threads, StartRequest(t) PROVE NumberAt(e)'
    <2>1. /\ t \in Callers /\ pc[t] = "ready"
          /\ pc' = [pc EXCEPT ![t] = "wbuild"] /\ writeOwner[End(t)] = NoThread
          /\ writeOwner' = [writeOwner EXCEPT ![End(t)] = t]
          /\ request_id' = [request_id EXCEPT ![End(t)] = @ + 2]
          /\ write_id' = [write_id EXCEPT ![End(t)] = request_id[End(t)] + 2]
          /\ rid' = rid /\ sent' = sent
      BY <1>1 DEF StartRequest, history
    <2>2. CASE End(t) = q
      <3>1. \A u \in Callers : End(u) = q => ~Lost(u)
        <4>1. ASSUME NEW u \in Callers, End(u) = q, Lost(u) PROVE FALSE
          <5>1. t = u
            BY <2>1, <2>2, <4>1 DEF Lost, Alone
          <5>2. QED
            BY <2>1, <4>1, <5>1
        <4>2. QED
          BY <4>1
      <3>2. request_id[q] = Serial(e, Len(sent[e]))
        BY <2>1, <2>2, <3>1 DEF NumberAt
      <3>3. request_id'[q] = Serial(e, Len(sent[e]) + 1)
        <4>1. Serial(e, Len(sent[e]) + 1) = Serial(e, Len(sent[e])) + 2
          BY <1>d, SerialFacts
        <4>2. QED
          BY <2>1, <2>2, <3>2, <4>1
      <3>4. writeOwner'[q] \in Callers
        BY <2>1, <2>2
      <3>5. QED
        BY <2>1, <3>3, <3>4 DEF NumberAt, Serial, Parity, Peer
    <2>3. CASE End(t) # q
      <3>1. \A u \in Callers : End(u) = q => pc'[u] = pc[u] /\ Ticket(u)' = Ticket(u)
        BY <2>1, <2>3 DEF Ticket
      <3>2. QED
        BY <1>k, <2>1, <2>3, <3>1
    <2>4. QED
      BY <2>2, <2>3
  <1>2. ASSUME NEW t \in Threads, StartResponse(t) PROVE NumberAt(e)'
    <2>1. /\ t \in Dispatchers /\ pc[t] = "wlock" /\ writeOwner[End(t)] = NoThread
          /\ pc' = [pc EXCEPT ![t] = "wbuild"]
          /\ writeOwner' = [writeOwner EXCEPT ![End(t)] = t]
          /\ write_id' = [write_id EXCEPT ![End(t)] = rid[t]]
          /\ request_id' = request_id /\ rid' = rid /\ sent' = sent
      BY <1>2 DEF StartResponse, local, history
    <2>2. \A u \in Callers : pc'[u] = pc[u]
      BY <2>1
    <2>3. ASSUME NEW u \in Callers, End(u) = q, Lost(u) PROVE Lost(u)'
      <3>1. CASE pc[u] = "wret" /\ End(t) = q
        <4>1. Ticket(u)' = rid[t]
          BY <2>1, <2>2, <2>3, <3>1 DEF Ticket
        <4>2. rid[t] % 2 = Parity(q)
          BY <2>1, <3>1 DEF IInv, BuildInv, ResponseId
        <4>3. \A k \in Nat : Serial(e, k) # rid[t]
          <5>1. Parity(q) # Parity(e)
            BY EndFacts
          <5>2. \A k \in Nat : Serial(e, k) % 2 = Parity(e)
            BY SerialFacts
          <5>3. QED
            BY <4>2, <5>1, <5>2
        <4>4. \A k \in 1 .. Len(sent[e]) : Ticket(u)' # Serial(e, k)
          BY <4>1, <4>3
        <4>5. QED
          BY <2>1, <2>2, <2>3, <3>1, <4>4
             DEF Lost, Waiting, Alone, Serial, Parity, Peer
      <3>2. CASE ~(pc[u] = "wret" /\ End(t) = q)
        <4>1. Ticket(u)' = Ticket(u)
          BY <2>1, <2>2, <2>3, <3>2 DEF Ticket
        <4>2. QED
          BY <2>1, <2>2, <2>3, <4>1, LostKept
      <3>3. QED
        BY <3>1, <3>2
    <2>4. writeOwner[q] \in Callers => writeOwner'[q] \in Callers
      BY <2>1
    <2>5. QED
      BY <2>1, <2>2, <2>3, <2>4, NumberKept
  <1>3. ASSUME NEW t \in Threads, WriteEndSuppressed(t) PROVE NumberAt(e)'
    <2>1. /\ t \in Callers \union Dispatchers /\ pc[t] = "wbuild"
          /\ suppress_response[End(t)]
          /\ pc' = [pc EXCEPT ![t] = AfterWrite(t)]
          /\ writeOwner' = [writeOwner EXCEPT ![End(t)] = NoThread]
          /\ write_id' = write_id /\ request_id' = request_id /\ rid' = rid
          /\ sent' = sent /\ call' = call
      BY <1>3 DEF WriteEndSuppressed, local, history
    <2>2. \A u \in Callers : u # t => pc'[u] = pc[u] /\ Ticket(u)' = Ticket(u)
      BY <2>1 DEF Ticket
    <2>3. CASE t \in Callers /\ End(t) = q
      <3>1. pc'[t] = "wret" /\ Alone(t)
        BY <1>3, <2>3, SuppressedCaller
      <3>2. /\ request_id[q] = Serial(e, Len(sent[e]) + 1)
            /\ \A k \in 1 .. Len(sent[e]) : write_id[q] # Serial(e, k)
        BY <1>3, <2>3, SuppressedCaller
      <3>3. Lost(t)'
        BY <2>1, <2>3, <3>1, <3>2
           DEF Lost, Waiting, Alone, Serial, Parity, Peer, Ticket
      <3>4. QED
        BY <2>1, <2>3, <3>2, <3>3 DEF NumberAt, Serial, Parity, Peer
    <2>4. CASE ~(t \in Callers /\ End(t) = q)
      <3>1. writeOwner[q] \in Callers => writeOwner'[q] \in Callers
        BY <1>c, <2>1, <2>4
      <3>2. QED
        BY <1>k, <2>1, <2>2, <2>4, <3>1
    <2>5. QED
      BY <2>3, <2>4
  <1>4. ASSUME NEW t \in Threads, WriteEndSend(t) PROVE NumberAt(e)'
    <2>1. /\ t \in Callers \union Dispatchers /\ pc[t] = "wbuild"
          /\ pc'[t] = AfterWrite(t) /\ \A u \in Threads : u # t => pc'[u] = pc[u]
          /\ writeOwner' = [writeOwner EXCEPT ![End(t)] = NoThread]
          /\ write_id' = write_id /\ request_id' = request_id /\ rid' = rid
      BY <1>4, SendEffect
    <2>2. \A u \in Callers : u # t => pc'[u] = pc[u] /\ Ticket(u)' = Ticket(u)
      BY <2>1 DEF Ticket
    <2>3. CASE t \in Callers /\ End(t) = q
      <3>1. Len(sent'[e]) = Len(sent[e]) + 1
        BY <1>4, <2>3, SendEffect
      <3>2. request_id[q] = Serial(e, Len(sent[e]) + 1)
        BY <2>1, <2>3 DEF NumberAt
      <3>3. \A u \in Callers : End(u) = q => pc'[u] # "wbuild"
        <4>1. pc'[t] # "wbuild"
          BY <2>1 DEF AfterWrite
        <4>2. \A u \in Callers : End(u) = q /\ u # t => pc[u] # "wbuild"
          BY <1>c, <2>1, <2>3
        <4>3. QED
          BY <2>2, <4>1, <4>2
      <3>4. QED
        BY <2>1, <3>1, <3>2, <3>3 DEF NumberAt, Serial, Parity, Peer
    <2>4. CASE ~(t \in Callers /\ End(t) = q)
      <3>1. writeOwner[q] \in Callers => writeOwner'[q] \in Callers
        BY <1>c, <2>1, <2>4
      <3>2. sent'[e] = sent[e]
        <4>1. CASE t \in Dispatchers
          BY <1>4, <4>1, SendEffect
        <4>2. CASE End(t) # q
          <5>1. Peer(End(t)) # e
            BY <4>2, EndFacts
          <5>2. QED
            BY <1>4, <5>1, SendElsewhere
        <4>3. QED
          BY <2>1, <2>4, <4>1, <4>2
      <3>3. ASSUME NEW u \in Callers, End(u) = q
            PROVE  u # t
        BY <2>4, <3>3
      <3>4. QED
        BY <1>k, <2>1, <2>2, <3>1, <3>2, <3>3
    <2>5. QED
      BY <2>3, <2>4
  <1>5. ASSUME NEW t \in Threads, WriteEndReturn(t) PROVE NumberAt(e)'
    <2>1. /\ t \in Callers /\ pc[t] = "wret" /\ pc' = [pc EXCEPT ![t] = "rlock"]
          /\ rid' = [rid EXCEPT ![t] = write_id[End(t)]]
          /\ UNCHANGED <<write_id, request_id, writeOwner, sent>>
      BY <1>5 DEF WriteEndReturn, conn, history
    <2>2. \A u \in Callers : Ticket(u)' = Ticket(u)
      BY <2>1 DEF Ticket
    <2>3. QED
      BY <1>k, <2>1, <2>2
  <1>6. ASSUME NEW t \in Threads, AbandonRequest(t) PROVE NumberAt(e)'
    <2>1. /\ pc[t] = "wbuild" /\ pc' = [pc EXCEPT ![t] = "ready"]
          /\ UNCHANGED <<write_id, request_id, writeOwner, rid, sent>>
      BY <1>6 DEF AbandonRequest, conn, local, history
    <2>2. \A u \in Callers : Lost(u) => Ticket(u)' = Ticket(u) /\ pc'[u] = pc[u]
      BY <2>1 DEF Ticket
    <2>3. QED
      BY <1>k, <2>1, <2>2
  <1>6e. ASSUME NEW t \in Threads, WriteEndError(t) PROVE NumberAt(e)'
    <2>1. /\ pc[t] = "wbuild" /\ pc' = [pc EXCEPT ![t] = AfterError(t)]
          /\ AfterError(t) \in {"ready", "idle", "spawn", "off"}
          /\ UNCHANGED <<write_id, request_id, writeOwner, rid, sent>>
      BY <1>6e DEF WriteEndError, AfterError, conn, local, history
    <2>2. \A u \in Callers : Lost(u) => Ticket(u)' = Ticket(u) /\ pc'[u] = pc[u]
      BY <2>1 DEF Ticket
    <2>3. QED
      BY <1>k, <2>1, <2>2
  <1>7. ASSUME NEW t \in Callers, ReadLock(t) PROVE NumberAt(e)'
    <2>1. /\ pc[t] = "rlock" /\ pc' = [pc EXCEPT ![t] = "args"]
          /\ UNCHANGED <<write_id, request_id, writeOwner, rid, sent>>
      BY <1>7 DEF ReadLock, OnTurn, local, history
    <2>2. ~Lost(t)
      <3>1. PICK k \in 1 .. Len(executed[Peer(End(t))]) :
              rid[t] = Serial(Peer(End(t)), k)
        BY <1>7, OwnTurn
      <3>2. k \in 1 .. Len(sent[Peer(End(t))])
        <4>p. Peer(End(t)) \in Ends
          BY EndFacts
        <4>1. Len(executed[Peer(End(t))]) \in Nat /\ Len(sent[Peer(End(t))]) \in Nat
          <5>1. /\ executed[Peer(End(t))] \in Seq(Call)
                /\ sent[Peer(End(t))] \in Seq(Call)
            BY <4>p, StateTypes
          <5>2. QED
            BY <5>1
        <4>2. Taken(Peer(End(t))) <= Len(sent[Peer(End(t))])
          BY <4>p DEF ServiceInv, ExecutedInv, ExecutedAt
        <4>3. Taken(Peer(End(t))) \in {Len(executed[Peer(End(t))]),
                                       Len(executed[Peer(End(t))]) + 1}
          BY <4>1 DEF Taken
        <4>4. QED
          BY <4>1, <4>2, <4>3
      <3>3. QED
        BY <2>1, <3>1, <3>2 DEF Lost, Ticket
    <2>3. \A u \in Callers : Lost(u) => Ticket(u)' = Ticket(u) /\ pc'[u] = pc[u]
      BY <2>1, <2>2 DEF Ticket
    <2>4. QED
      BY <1>k, <2>1, <2>3
  <1>8. ASSUME NEW t \in Threads, ReadArgs(t) PROVE NumberAt(e)'
    <2>1. /\ pc[t] = "args" /\ pc'[t] = "rend" /\ \A u \in Threads : u # t => pc'[u] = pc[u]
          /\ UNCHANGED <<write_id, request_id, writeOwner, rid, sent>>
      BY <1>8, ReadArgsEffect
    <2>2. \A u \in Callers : Lost(u) => Ticket(u)' = Ticket(u) /\ pc'[u] = pc[u]
      BY <2>1 DEF Ticket
    <2>3. QED
      BY <1>k, <2>1, <2>2
  <1>9. ASSUME NEW t \in Threads, ReadEnd(t) PROVE NumberAt(e)'
    <2>1. /\ t \in Callers \union Dispatchers /\ pc[t] = "rend"
          /\ t \in Callers => pc'[t] \in {"ready", "idle"} /\ rid' = rid
          /\ \A u \in Threads : u # t =>
              pc'[u] = pc[u] \/ (pc[u] = "wait" /\ pc'[u] = "rlock")
          /\ UNCHANGED <<write_id, request_id, writeOwner, sent>>
          /\ \A u \in Callers : rid'[u] = rid[u]
      BY <1>9, ReadEndEffect
    <2>2. \A u \in Callers : Lost(u) => Ticket(u)' = Ticket(u)
                                        /\ pc'[u] \in {"wret", "rlock", "wait"}
      BY <2>1 DEF Ticket
    <2>3. QED
      BY <1>k, <2>1, <2>2
  <1>10. ASSUME NEW t \in Threads, Execute(t) PROVE NumberAt(e)'
    <2>1. /\ \A u \in Callers :
               pc'[u] = pc[u] \/ (pc[u] = "idle" /\ pc'[u] = "ready")
          /\ UNCHANGED <<write_id, request_id, writeOwner, rid, sent>>
      BY <1>10, ExecuteEffect DEF conn, local
    <2>2. \A u \in Callers : Lost(u) => Ticket(u)' = Ticket(u) /\ pc'[u] = pc[u]
      BY <2>1 DEF Ticket
    <2>3. QED
      BY <1>k, <2>1, <2>2
  <1>11. ASSUME NEW t \in Threads, InvokeHostFunc(t) PROVE NumberAt(e)'
    <2>1. /\ \A u \in Callers : pc'[u] = pc[u]
          /\ UNCHANGED <<write_id, request_id, writeOwner, rid, sent>>
      BY <1>11 DEF InvokeHostFunc, conn, local, Dispatchers
    <2>2. \A u \in Callers : Ticket(u)' = Ticket(u)
      BY <2>1 DEF Ticket
    <2>3. QED
      BY <1>k, <2>1, <2>2
  <1>12. ASSUME Quiet PROVE NumberAt(e)'
    <2>1. NumberInv'
      BY <1>12, QuietKeeps DEF ServiceInv
    <2>2. QED
      BY <2>1 DEF NumberInv
  <1>13. QED
    BY <1>1, <1>2, <1>3, <1>4, <1>5, <1>6, <1>6e, <1>7, <1>8, <1>9, <1>10, <1>11, <1>12,
       StepKinds

-----------------------------------------------------------------------------
\* The calls that were executed stay as they are.
LEMMA ExecutedGrows ==
  ASSUME IInv, [Next]_vars, NEW e \in Ends, NEW k \in 1 .. Len(executed[e])
  PROVE  k \in 1 .. Len(executed'[e]) /\ executed'[e][k] = executed[e][k]
  <1> DEFINE d == Dispatcher(e)
  <1>a. d \in Dispatchers /\ d \in Threads /\ d = Dispatcher(e)
    BY EndFacts, ThreadKinds
  <1>b. executed[e] \in Seq(Call) /\ arg[d] \in Call
    BY <1>a, StateTypes
  <1> HIDE DEF d
  <1>1. CASE executed'[e] = executed[e]
    BY <1>1
  <1>2. CASE executed'[e] = Append(executed[e], arg[d])
    BY <1>b, <1>2
  <1>3. ReadArgs(d) \/ ReadEnd(d) => executed' = executed
    BY <1>a, ReadArgsEffect, ReadEndEffect
  <1>4. QED
    BY <1>1, <1>2, <1>3, <1>a, DispatcherSteps

\* What can have happened to a caller that waits after a step.
LEMMA WaitingSteps ==
  ASSUME IInv, [Next]_vars, NEW t \in Callers, pc'[t] \in Waiting \union {"rend"}
  PROVE  /\ call'[t] = call[t]
         /\ \/ /\ WriteEndSend(t) \/ WriteEndSuppressed(t)
               /\ pc[t] = "wbuild" /\ pc'[t] = "wret"
            \/ /\ pc'[t] = pc[t] \/ (pc[t] \in {"rlock", "wait"} /\ pc'[t] \in {"rlock", "wait"})
               /\ arg'[t] = arg[t] /\ rid'[t] = rid[t]
            \/ WriteEndReturn(t) /\ pc[t] = "wret" /\ pc'[t] = "rlock"
            \/ ReadLock(t) /\ pc[t] = "rlock" /\ pc'[t] = "args"
            \/ ReadArgs(t) /\ pc[t] = "args" /\ pc'[t] = "rend"
  <1> DEFINE Still ==
        /\ call'[t] = call[t] /\ arg'[t] = arg[t] /\ rid'[t] = rid[t]
        /\ pc'[t] = pc[t] \/ (pc[t] \in {"rlock", "wait"} /\ pc'[t] \in {"rlock", "wait"})
  <1>a. /\ t \in Threads /\ t \notin Dispatchers /\ t \notin Readers
        /\ pc \in [Threads -> PCs] /\ call \in [Callers -> Call]
        /\ rid \in [Callers \union Dispatchers -> Nat]
        /\ arg \in [Callers \union Dispatchers -> Call]
        /\ pc'[t] \notin {"wbuild", "ready", "idle"}
    BY StateTypes, ThreadKinds DEF Waiting
  <1> USE <1>a DEF At
  <1>1. ASSUME NEW u \in Threads, StartRequest(u) PROVE Still
    BY <1>1 DEF StartRequest
  <1>2. ASSUME NEW u \in Threads, StartResponse(u) PROVE Still
    BY <1>2 DEF StartResponse, local
  <1>3. ASSUME NEW u \in Threads, WriteEndSuppressed(u)
        PROVE  \/ Still
               \/ /\ WriteEndSuppressed(t) /\ pc[t] = "wbuild" /\ pc'[t] = "wret"
                  /\ call' = call
    BY <1>3 DEF WriteEndSuppressed, AfterWrite, local
  <1>4. ASSUME NEW u \in Threads, WriteEndSend(u)
        PROVE  \/ Still
               \/ /\ WriteEndSend(t) /\ pc[t] = "wbuild" /\ pc'[t] = "wret"
                  /\ call' = call
    <2>1. /\ call' = call /\ arg' = arg /\ rid' = rid /\ pc[u] = "wbuild"
          /\ pc'[u] = AfterWrite(u) /\ \A v \in Threads : v # u => pc'[v] = pc[v]
      BY <1>4, SendEffect
    <2>2. CASE u = t
      <3>1. pc'[t] \in {"ready", "wret"}
        BY <2>1, <2>2 DEF AfterWrite
      <3>2. QED
        BY <1>4, <2>1, <2>2, <3>1
    <2>3. CASE u # t
      BY <2>1, <2>3
    <2>4. QED
      BY <2>2, <2>3
  <1>5. ASSUME NEW u \in Threads, WriteEndReturn(u), u # t PROVE Still
    BY <1>5 DEF WriteEndReturn
  <1>6. ASSUME NEW u \in Threads, AbandonRequest(u) PROVE Still
    BY <1>6 DEF AbandonRequest, local
  <1>6e. ASSUME NEW u \in Threads, WriteEndError(u) PROVE Still
    <2>1. t \in Apps \/ t \in Callbacks
      BY DEF Callers
    <2>2. QED
      BY <1>6e, <2>1 DEF WriteEndError, AfterError, local
  <1>7. ASSUME NEW u \in Callers, ReadLock(u), u # t PROVE Still
    BY <1>7, ThreadKinds DEF ReadLock, local
  <1>8. ASSUME NEW u \in Threads, ReadArgs(u), u # t PROVE Still
    BY <1>8, ReadArgsEffect
  <1>9. ASSUME NEW u \in Threads, ReadEnd(u) PROVE Still
    <2>1. u # t
      BY <1>9, ReadEndEffect
    <2>2. QED
      BY <1>9, <2>1, ReadEndEffect
  <1>10. ASSUME NEW u \in Threads, Execute(u) PROVE Still
    BY <1>10, ExecuteEffect DEF local
  <1>11. ASSUME NEW u \in Threads, InvokeHostFunc(u) PROVE Still
    BY <1>11 DEF InvokeHostFunc, local, Dispatchers
  <1>12. Quiet => Still
    BY DEF Quiet
  <1>13. /\ WriteEndReturn(t) => call' = call /\ pc[t] = "wret" /\ pc'[t] = "rlock"
         /\ ReadLock(t) => call' = call /\ pc[t] = "rlock" /\ pc'[t] = "args"
         /\ ReadArgs(t) => call' = call /\ pc[t] = "args" /\ pc'[t] = "rend"
    BY DEF WriteEndReturn, ReadLock, OnTurn, ReadArgs, local
  <1> HIDE DEF Still
  <1>14. \/ Still
         \/ /\ WriteEndSend(t) \/ WriteEndSuppressed(t)
            /\ pc[t] = "wbuild" /\ pc'[t] = "wret" /\ call' = call
         \/ WriteEndReturn(t) \/ ReadLock(t) \/ ReadArgs(t)
    BY <1>1, <1>2, <1>3, <1>4, <1>5, <1>6, <1>6e, <1>7, <1>8, <1>9, <1>10, <1>11, <1>12,
       StepKinds
  <1>15. QED
    BY <1>13, <1>14 DEF Still

\* Who changes the id of the header under construction.
LEMMA HeaderSteps ==
  ASSUME IInv, [Next]_vars, NEW q \in Ends
  PROVE  \/ write_id'[q] = write_id[q]
         \/ \E u \in Callers : StartRequest(u) /\ End(u) = q
         \/ \E d \in Dispatchers : StartResponse(d) /\ End(d) = q
  <1>a. write_id \in [Ends -> Nat] /\ Callers \subseteq Threads
    BY StateTypes, ThreadKinds
  <1> USE <1>a
  <1>1. ASSUME NEW u \in Threads, StartRequest(u)
        PROVE  write_id'[q] = write_id[q] \/ (u \in Callers /\ End(u) = q)
    BY <1>1 DEF StartRequest
  <1>2. ASSUME NEW u \in Threads, StartResponse(u)
        PROVE  write_id'[q] = write_id[q] \/ (u \in Dispatchers /\ End(u) = q)
    BY <1>2 DEF StartResponse
  <1>3. ASSUME NEW u \in Threads,
               \/ WriteEndSuppressed(u) \/ WriteEndSend(u) \/ WriteEndReturn(u)
               \/ WriteEndError(u) \/ AbandonRequest(u)
               \/ ReadLock(u) \/ ReadArgs(u) \/ ReadEnd(u)
               \/ Execute(u) \/ InvokeHostFunc(u)
        PROVE  write_id' = write_id
    BY <1>3 DEF WriteEndSuppressed, WriteEndSend, WriteEndReturn, WriteEndError,
       AbandonRequest, ReadLock, ReadArgs, ReadEnd, Execute, InvokeHostFunc, conn
  <1>4. Quiet => write_id' = write_id
    BY DEF Quiet
  <1>5. QED
    BY <1>1, <1>2, <1>3, <1>4, StepKinds

\* What a caller reads is the response to it.
LEMMA NextReadInv ==
  ASSUME IInv, ServiceInv, [Next]_vars
  PROVE  ReadInv'
  <1> SUFFICES ASSUME NEW t \in Callers
               PROVE  /\ pc'[t] = "args" => wire'[End(t)][1].body = call'[t]
                      /\ pc'[t] = "rend" =>
                           /\ arg'[t] = call'[t]
                           /\ \E k \in 1 .. Len(executed'[Peer(End(t))]) :
                                executed'[Peer(End(t))][k] = call'[t]
    BY DEF ReadInv, End, Peer, Callers
  <1> DEFINE q == End(t)
             e == Peer(End(t))
  <1>a. /\ t \in Threads /\ t \notin Dispatchers /\ q \in Ends /\ e \in Ends
        /\ Peer(e) = q /\ q = End(t) /\ e = Peer(End(t))
        /\ arg \in [Callers \union Dispatchers -> Call]
        /\ wire[q] \in Seq(Frame)
    BY EndFacts, ThreadKinds, StateTypes
  <1> HIDE DEF q, e
  <1>1. ASSUME pc'[t] = "args" PROVE wire'[q][1].body = call'[t]
    <2>1. call'[t] = call[t] /\ (ReadLock(t) \/ pc[t] = "args")
      BY <1>1, WaitingSteps DEF Waiting
    <2>2. CASE ReadLock(t)
      <3>1. wire' = wire
        BY <2>2 DEF ReadLock, stream
      <3>2. wire[q][1].body = call[t]
        BY <2>2, <1>a, OwnTurn
      <3>3. QED
        BY <2>1, <3>1, <3>2
    <2>3. CASE pc[t] = "args"
      <3>1. wire[q] # <<>> /\ wire[q][1].body = call[t]
        BY <2>3, <1>a DEF IInv, StreamInv, StreamAt, ServiceInv, ReadInv
      <3>2. CASE wire'[q] = wire[q]
        BY <2>1, <3>1, <3>2
      <3>3. ASSUME NEW u \in Threads, WriteEndSend(u), Peer(End(u)) = q
            PROVE  wire'[q][1] = wire[q][1]
        <4>1. \A i \in 1 .. Len(wire[q]) : wire'[q][i] = wire[q][i]
          BY <3>3, SendEffect
        <4>2. 1 \in 1 .. Len(wire[q])
          BY <1>a, <3>1
        <4>3. QED
          BY <4>1, <4>2
      <3>4. ASSUME NEW u \in Threads, ReadArgs(u), End(u) = q PROVE FALSE
        <4>1. pc[u] = "args" /\ pc'[u] = "rend"
          BY <3>4, ReadArgsEffect
        <4>2. u # t
          BY <1>1, <4>1
        <4>3. QED
          BY <1>a, <2>3, <3>4, <4>1, <4>2, Exclusion DEF ReadCS
      <3>5. QED
        BY <1>a, <2>1, <3>1, <3>2, <3>3, <3>4, StreamSteps
    <2>4. QED
      BY <2>1, <2>2, <2>3
  <1>2. ASSUME pc'[t] = "rend"
        PROVE  /\ arg'[t] = call'[t]
               /\ \E k \in 1 .. Len(executed'[e]) : executed'[e][k] = call'[t]
    <2>1. /\ call'[t] = call[t]
          /\ ReadArgs(t) \/ (pc[t] = "rend" /\ arg'[t] = arg[t])
      BY <1>2, WaitingSteps DEF Waiting
    <2>2. CASE ReadArgs(t)
      <3>1. /\ pc[t] = "args" /\ arg'[t] = wire[q][1].body
            /\ wire[q][1].op = Reply /\ 1 \in 1 .. Len(wire[q]) /\ executed' = executed
        BY <2>2, <1>a, ReadArgsEffect
      <3>2. wire[q][1].body = call[t]
        BY <1>a, <3>1 DEF ServiceInv, ReadInv
      <3>3. PICK k \in 1 .. Len(executed[e]) : wire[q][1].body = sent[e][k]
        BY <1>a, <3>1 DEF ServiceInv, ReplyInv, ReplyAt
      <3>4. executed[e][k] = sent[e][k]
        BY <1>a DEF ServiceInv, ExecutedInv, ExecutedAt
      <3>5. QED
        BY <2>1, <3>1, <3>2, <3>3, <3>4
    <2>3. CASE pc[t] = "rend" /\ arg'[t] = arg[t]
      <3>1. PICK k \in 1 .. Len(executed[e]) : executed[e][k] = call[t]
        BY <2>3, <1>a DEF ServiceInv, ReadInv
      <3>2. k \in 1 .. Len(executed'[e]) /\ executed'[e][k] = executed[e][k]
        BY <1>a, ExecutedGrows
      <3>3. arg[t] = call[t]
        BY <2>3, <1>a DEF ServiceInv, ReadInv
      <3>4. QED
        BY <2>1, <2>3, <3>1, <3>2, <3>3
    <2>4. QED
      BY <2>1, <2>2, <2>3
  <1>3. QED
    BY <1>1, <1>2, <1>a

-----------------------------------------------------------------------------
\* A caller keeps the id it waits for, or comes by one that no call ever had.
LEMMA TicketSteps ==
  ASSUME IInv, ServiceInv, OneCallback, [Next]_vars,
         NEW t \in Callers, pc[t] \in Waiting, pc'[t] \in Waiting
  PROVE  \/ Ticket(t)' = Ticket(t)
         \/ \A j \in 1 .. Len(sent'[Peer(End(t))]) :
              Ticket(t)' # Serial(Peer(End(t)), j)
  <1> DEFINE q == End(t)
             e == Peer(End(t))
  <1>a. /\ t \in Threads /\ t \notin Dispatchers /\ q \in Ends /\ e \in Ends
        /\ Peer(e) = q /\ q = End(t) /\ e = Peer(End(t)) /\ q # e
        /\ Parity(q) # Parity(e)
    BY EndFacts, ThreadKinds
  <1>b. Len(sent'[e]) \in Nat
    BY <1>a, SentGrows
  <1>t. /\ Ticket(t) = IF pc[t] = "wret" THEN write_id[q] ELSE rid[t]
        /\ Ticket(t)' = IF pc'[t] = "wret" THEN write_id'[q] ELSE rid'[t]
    BY <1>a DEF Ticket, End
  <1> HIDE DEF q, e
  <1>1. CASE WriteEndReturn(t)
    <2>1. pc[t] = "wret" /\ pc'[t] = "rlock" /\ rid'[t] = write_id[q]
      BY <1>1, <1>a, StateTypes DEF WriteEndReturn, At
    <2>2. QED
      BY <1>t, <2>1
  <1>2. CASE rid'[t] = rid[t] /\ pc'[t] # "wret" /\ pc[t] # "wret"
    BY <1>2, <1>t
  <1>3. CASE pc'[t] = "wret" /\ pc[t] = "wret"
    <2>1. CASE write_id'[q] = write_id[q]
      BY <1>3, <1>t, <2>1
    <2>2. ASSUME NEW u \in Callers, StartRequest(u), End(u) = q
          PROVE  \A j \in 1 .. Len(sent'[e]) : Ticket(t)' # Serial(e, j)
      <3>1. write_id'[q] = request_id'[q] /\ pc'[u] = "wbuild"
        BY <2>2, <1>a, StateTypes, ThreadKinds DEF StartRequest
      <3>2. NumberAt(e)'
        BY <1>a, NextNumberInv DEF NumberInv
      <3>3. request_id'[q] = Serial(e, Len(sent'[e]) + 1)
        BY <2>2, <1>a, <3>1, <3>2 DEF NumberAt, Peer, Serial, Parity
      <3>4. ASSUME NEW j \in 1 .. Len(sent'[e])
            PROVE  Serial(e, Len(sent'[e]) + 1) # Serial(e, j)
        BY <1>a, <1>b, SerialDiffers
      <3>5. QED
        BY <1>3, <1>t, <3>1, <3>3, <3>4
    <2>3. ASSUME NEW d \in Dispatchers, StartResponse(d), End(d) = q
          PROVE  \A j \in 1 .. Len(sent'[e]) : Ticket(t)' # Serial(e, j)
      <3>1. Ticket(t)' = rid[d] /\ pc[d] = "wlock"
        BY <1>3, <1>a, <1>t, <2>3, StateTypes DEF StartResponse, At
      <3>2. rid[d] % 2 = Parity(q)
        BY <2>3, <3>1 DEF IInv, BuildInv, ResponseId
      <3>3. \A j \in Nat : Serial(e, j) % 2 = Parity(e)
        BY <1>a, SerialFacts
      <3>4. QED
        BY <1>a, <1>b, <3>1, <3>2, <3>3
    <2>4. QED
      BY <1>a, <2>1, <2>2, <2>3, HeaderSteps
  <1>4. CASE ReadLock(t)
    BY <1>4, <1>t DEF ReadLock, At, OnTurn, local
  <1>5. pc[t] # "wbuild" /\ pc'[t] # "rend"
    BY DEF Waiting
  <1>6. QED
    BY <1>1, <1>2, <1>3, <1>4, <1>5, <1>a, WaitingSteps

\* A handler is silent about the addition of a kernel node only, or its caller's
\* process is gone.
LEMMA DispatcherLeaves ==
  ASSUME IInv, [Next]_vars, NEW e \in Ends, NEW d, d = Dispatcher(e),
         pc[d] \in {"exec", "wlock", "wbuild"},
         pc'[d] \notin {"exec", "wlock", "wbuild"}
  PROVE  \/ pc[d] = "exec" /\ op[d] = "cudaGraphAddKernelNode" /\ e = "server"
         \/ WriteEndSend(d) /\ pc[d] = "wbuild"
         \/ WriteEndSuppressed(d) /\ pc[d] = "wbuild"
         \/ ~alive[Peer(e)]
  <1>a. /\ d \in Dispatchers /\ d \in Threads /\ End(d) = e
        /\ d \notin Callers /\ Callers \subseteq Threads
        /\ pc \in [Threads -> PCs]
    BY EndFacts, ThreadKinds, StateTypes
  <1> USE <1>a DEF At
  <1>1. ASSUME NEW t \in Threads, StartRequest(t) PROVE FALSE
    BY <1>1 DEF StartRequest
  <1>2. ASSUME NEW t \in Threads, StartResponse(t) PROVE FALSE
    BY <1>2 DEF StartResponse
  <1>3. ASSUME NEW t \in Threads, WriteEndSuppressed(t)
        PROVE  t = d /\ pc[d] = "wbuild" /\ pc'[d] = "spawn"
    BY <1>3 DEF WriteEndSuppressed, AfterWrite
  <1>4. ASSUME NEW t \in Threads, WriteEndSend(t)
        PROVE  t = d /\ pc[d] = "wbuild" /\ pc'[d] = "spawn"
    BY <1>4 DEF WriteEndSend, AfterWrite
  <1>5. ASSUME NEW t \in Threads, WriteEndReturn(t) PROVE FALSE
    BY <1>5 DEF WriteEndReturn
  <1>6. ASSUME NEW t \in Threads, AbandonRequest(t) PROVE FALSE
    BY <1>6 DEF AbandonRequest, Callers
  <1>6e. ASSUME NEW t \in Threads, WriteEndError(t) PROVE ~alive[Peer(e)]
    BY <1>6e DEF WriteEndError
  <1>7. ASSUME NEW t \in Callers, ReadLock(t) PROVE FALSE
    BY <1>7 DEF ReadLock
  <1>8. ASSUME NEW t \in Threads, ReadArgs(t) PROVE FALSE
    BY <1>8, ReadArgsEffect
  <1>9. ASSUME NEW t \in Threads, ReadEnd(t) PROVE FALSE
    BY <1>9, ReadEndEffect
  <1>10. ASSUME NEW t \in Threads, Execute(t)
         PROVE  /\ pc[d] = "exec" /\ op[d] = "cudaGraphAddKernelNode" /\ e = "server"
                /\ pc'[d] = "spawn"
    <2>1. t = d
      BY <1>10, ExecuteEffect
    <2>2. QED
      BY <1>10, <2>1, ExecuteEffect
  <1>11. ASSUME NEW t \in Threads, InvokeHostFunc(t) PROVE FALSE
    BY <1>11 DEF InvokeHostFunc
  <1>12. Quiet => FALSE
    BY DEF Quiet, BeforePayload
  <1>13. QED
    BY <1>1, <1>2, <1>3, <1>4, <1>5, <1>6, <1>6e, <1>7, <1>8, <1>9, <1>10, <1>11, <1>12,
       StepKinds

\* The answer to a call that waits, in a process that runs, comes unless its
\* handler is silent, and stays until it is read.
LEMMA PendingKept ==
  ASSUME IInv, ServiceInv, [Next]_vars,
         NEW t \in Callers, pc[t] \in Waiting, pc'[t] \in Waiting, alive[End(t)],
         NEW e, e = Peer(End(t)), NEW k \in 1 .. Len(sent[e]),
         sent[e][k] = call[t], Pending(e, k),
         call[t].op # "cudaGraphAddKernelNode"
  PROVE  Pending(e, k)'
  <1> DEFINE q == End(t)
             d == Dispatcher(e)
             n == Len(executed[e])
             w == wire[q]
             v == wire'[q]
  <1>a. /\ t \in Threads /\ t \notin Dispatchers /\ q \in Ends /\ e \in Ends
        /\ Peer(e) = q /\ q = End(t) /\ d \in Dispatchers /\ d \in Threads
        /\ End(d) = e /\ d = Dispatcher(e) /\ w = wire[q] /\ v = wire'[q]
        /\ n = Len(executed[e])
    BY EndFacts, ThreadKinds
  <1>b. /\ w \in Seq(Frame) /\ n \in Nat /\ k \in Nat /\ Len(w) \in Nat
        /\ pc[d] \in DispatcherPC
    <2>1. w \in Seq(Frame) /\ executed[e] \in Seq(Call) /\ sent[e] \in Seq(Call)
      BY <1>a, StateTypes
    <2>2. QED
      BY <1>a, <2>1, StateTypes
  <1>c. call[t].by = t /\ call[t].op \notin Async
    BY DEF ServiceInv, CallInv
  <1>d. Taken(e) = IF pc[d] \in {"rend", "exec"} THEN n + 1 ELSE n
    BY <1>a DEF Taken
  <1>e. /\ ~ReadArgs(d) => Taken(e)' = Taken(e)
        /\ ReadArgs(d) => Taken(e)' = n + 1 /\ Taken(e) = n
    BY <1>a, TakenSteps
  <1>k. ASSUME \/ k > Taken(e)'
               \/ k = Taken(e)' /\ pc'[d] \in {"rend", "exec", "wlock", "wbuild"}
               \/ \E i \in 1 .. Len(v) : v[i].op = Reply /\ v[i].id = Serial(e, k)
        PROVE  Pending(e, k)'
    BY <1>a, <1>k DEF Pending, Serial, Parity, Peer, Dispatcher
  <1> HIDE DEF q, d, n, w, v
  <1>1. CASE k > Taken(e)
    <2>1. CASE ReadArgs(d)
      <3>1. pc'[d] = "rend"
        BY <1>a, <2>1, ReadArgsEffect
      <3>2. k > n + 1 \/ k = n + 1
        BY <1>1, <1>b, <1>e, <2>1
      <3>3. QED
        BY <1>e, <1>k, <2>1, <3>1, <3>2
    <2>2. QED
      BY <1>1, <1>e, <1>k, <2>1
  <1>2. CASE k = Taken(e) /\ pc[d] \in {"rend", "exec", "wlock", "wbuild"}
    <2>1. ~ReadArgs(d)
      BY <1>2 DEF ReadArgs, At
    <2>2. k = Taken(e)'
      BY <1>2, <1>e, <2>1
    <2>3. CASE pc'[d] \in {"rend", "exec", "wlock", "wbuild"}
      BY <1>k, <2>2, <2>3
    <2>4. CASE pc'[d] \notin {"rend", "exec", "wlock", "wbuild"}
      <3>1. pc[d] # "rend"
        <4>1. ReadEnd(d) => pc'[d] = "exec"
          BY <1>a, ReadEndEffect
        <4>2. QED
          BY <1>a, <2>1, <2>4, <4>1, DispatcherSteps DEF BeforePayload
      <3>2. \/ pc[d] = "exec" /\ op[d] = "cudaGraphAddKernelNode" /\ e = "server"
            \/ WriteEndSend(d) /\ pc[d] = "wbuild"
            \/ WriteEndSuppressed(d) /\ pc[d] = "wbuild"
        BY <1>2, <1>a, <2>4, <3>1, DispatcherLeaves
      <3>3. arg[d] = call[t] /\ op[d] = call[t].op
        <4>1. arg[d] = sent[e][k]
          <5>1. ExecutedAt(e)
            BY <1>a DEF ServiceInv, ExecutedInv
          <5>2. CASE pc[d] \in {"rend", "exec"}
            BY <1>2, <1>a, <1>d, <5>1, <5>2 DEF ExecutedAt
          <5>3. CASE pc[d] \in {"wlock", "wbuild"}
            BY <1>2, <1>a, <1>d, <5>1, <5>3 DEF ExecutedAt
          <5>4. QED
            BY <1>2, <5>2, <5>3
        <4>2. op[d] = arg[d].op
          BY <1>2, <1>a DEF ServiceInv, SuppressInv
        <4>3. QED
          BY <4>1, <4>2
      <3>4. CASE pc[d] = "exec" /\ op[d] = "cudaGraphAddKernelNode" /\ e = "server"
        BY <3>3, <3>4
      <3>5. CASE WriteEndSend(d)
        <4>1. /\ Len(v) = Len(w) + 1
              /\ v[Len(w) + 1] = [id |-> write_id[e], op |-> write_op[e],
                                  body |-> Payload(d)]
              /\ pc[d] = "wbuild"
          <5>1. Peer(End(d)) = q /\ End(d) = e
            BY <1>a
          <5>2. /\ Len(wire'[q]) = Len(wire[q]) + 1
                /\ wire'[q][Len(wire[q]) + 1] = [id |-> write_id[e], op |-> write_op[e],
                                                 body |-> Payload(d)]
                /\ pc[d] = "wbuild"
            BY <1>a, <3>5, <5>1, SendEffect
          <5>3. w = wire[q] /\ v = wire'[q]
            BY <1>a
          <5>4. QED
            BY <5>2, <5>3
        <4>2. write_id[e] = Serial(e, n) /\ write_op[e] = Reply
          BY <1>a, <4>1, NewReply
        <4>3. k = n
          BY <1>2, <1>d, <4>1
        <4>4. Len(w) + 1 \in 1 .. Len(v)
          BY <1>b, <4>1
        <4>5. QED
          BY <1>k, <4>1, <4>2, <4>3, <4>4
      <3>6. CASE WriteEndSuppressed(d)
        <4>1. pc[d] = "wbuild" /\ suppress_response[End(d)]
          BY <3>6 DEF WriteEndSuppressed, At
        <4>2. op[d] \in Async
          BY <1>a, <4>1 DEF ServiceInv, SuppressInv
        <4>3. QED
          BY <1>c, <3>3, <4>2
      <3>7. QED
        BY <3>2, <3>4, <3>5, <3>6
    <2>5. QED
      BY <2>3, <2>4
  <1>3. ASSUME NEW i \in 1 .. Len(w), w[i].op = Reply, w[i].id = Serial(e, k)
        PROVE  Pending(e, k)'
    <2>1. CASE wire'[q] = wire[q]
      BY <1>3, <1>a, <1>k, <2>1
    <2>2. ASSUME NEW u \in Threads, WriteEndSend(u), Peer(End(u)) = q
          PROVE  Pending(e, k)'
      <3>1. /\ Len(wire'[q]) = Len(wire[q]) + 1
            /\ \A j \in 1 .. Len(wire[q]) : wire'[q][j] = wire[q][j]
        BY <2>2, SendEffect
      <3>2. i \in 1 .. Len(v) /\ v[i] = w[i]
        <4>1. Len(v) = Len(w) + 1 /\ \A j \in 1 .. Len(w) : v[j] = w[j]
          BY <1>a, <3>1
        <4>2. QED
          BY <1>b, <4>1
      <3>3. QED
        BY <1>3, <1>k, <3>2
    <2>3. ASSUME NEW u \in Threads, ReadArgs(u), End(u) = q
          PROVE  Pending(e, k)'
      <3>1. /\ u \in Callers \union Dispatchers /\ pc[u] = "args" /\ pc'[u] = "rend"
            /\ (w[1].op = Reply) <=> (u \in Callers)
            /\ 1 \in 1 .. Len(w)
            /\ \A j \in 2 .. Len(w) : j - 1 \in 1 .. Len(v) /\ v[j - 1] = w[j]
        <4>1. /\ u \in Callers \union Dispatchers /\ pc[u] = "args" /\ pc'[u] = "rend"
              /\ (wire[q][1].op = Reply) <=> (u \in Callers)
              /\ 1 \in 1 .. Len(wire[q])
              /\ \A j \in 2 .. Len(wire[q]) :
                   j - 1 \in 1 .. Len(wire'[q]) /\ wire'[q][j - 1] = wire[q][j]
          BY <2>3, ReadArgsEffect
        <4>2. w = wire[q] /\ v = wire'[q]
          BY <1>a
        <4>3. QED
          BY <4>1, <4>2
      <3>2. i # 1
        <4>1. SUFFICES ASSUME i = 1 PROVE FALSE
          OBVIOUS
        <4>2. u \in Callers /\ u # t
          BY <1>3, <3>1, <4>1 DEF Waiting
        <4>3. w[1].body = call[u] /\ call[u].by = u
          BY <1>a, <2>3, <3>1, <4>2 DEF ServiceInv, ReadInv, CallInv, Waiting
        <4>4. PICK j \in 1 .. n : w[1].id = Serial(e, j) /\ w[1].body = sent[e][j]
          BY <1>a, <1>3, <4>1 DEF ServiceInv, ReplyInv, ReplyAt
        <4>5. j = k
          <5>1. Serial(e, j) = Serial(e, k) /\ j \in Nat
            BY <1>3, <4>1, <4>4
          <5>2. QED
            BY <1>a, <1>b, <5>1, SerialFacts
        <4>6. QED
          BY <1>c, <4>2, <4>3, <4>4, <4>5
      <3>3. i \in 2 .. Len(w)
        BY <1>b, <3>2
      <3>4. QED
        BY <1>3, <1>k, <3>1, <3>3
    <2>4. QED
      BY <1>a, <2>1, <2>2, <2>3, StreamSteps
  <1>4. QED
    BY <1>1, <1>2, <1>3, <1>a DEF Pending

\* Where several threads call no handler is silent.
LEMMA NobodySilent ==
  ASSUME ServiceInv, Responsive, NEW t \in Callers, pc[t] \in Waiting, ~Alone(t)
  PROVE  call[t].op # "cudaGraphAddKernelNode"
  <1>1. call[t].op \in IF t \in Apps THEN CallOps ELSE {"hostFunc"}
    BY DEF ServiceInv, CallInv
  <1>2. ASSUME t \in Apps PROVE \E u \in Apps : u # t
    <2>1. \A u \in Callers : End(u) = End(t) => u \in Apps
      BY <1>2, CallersAssumption DEF End, Callers, Readers, Dispatchers
    <2>2. QED
      BY <2>1 DEF Alone
  <1>3. QED
    BY <1>1, <1>2 DEF Responsive

\* A call that is sent has not been taken yet.
LEMMA NewPending ==
  ASSUME IInv, ServiceInv, [Next]_vars, NEW t \in Callers, WriteEndSend(t),
         NEW e, e = Peer(End(t))
  PROVE  Len(sent[e]) + 1 > Taken(e)'
  <1>a. /\ t \in Threads /\ e \in Ends /\ Dispatcher(e) \in Threads
    BY EndFacts, ThreadKinds
  <1>b. /\ Len(sent[e]) \in Nat /\ Taken(e) \in Nat
    BY <1>a, StateTypes DEF Taken
  <1>1. Len(sent'[e]) = Len(sent[e]) + 1
    BY <1>a, SendEffect
  <1>2. ~ReadArgs(Dispatcher(e))
    <2>1. ReadArgs(Dispatcher(e)) => sent' = sent
      BY <1>a, ReadArgsEffect
    <2>2. QED
      BY <1>b, <1>1, <2>1
  <1>3. Taken(e)' = Taken(e) /\ Taken(e) <= Len(sent[e])
    BY <1>a, <1>2, TakenSteps DEF ServiceInv, ExecutedInv, ExecutedAt
  <1>4. QED
    BY <1>b, <1>3

\* No caller that waits is taken in.
LEMMA NextTicketInv ==
  ASSUME IInv, ServiceInv, OneCallback, Responsive, [Next]_vars
  PROVE  TicketInv'
  <1> SUFFICES ASSUME NEW t \in Callers, alive'[End(t)], pc'[t] \in Waiting
               PROVE  TicketAt(t)'
    BY DEF TicketInv, End
  <1> DEFINE q == End(t)
             e == Peer(End(t))
  <1>a. /\ t \in Threads /\ t \notin Dispatchers /\ q \in Ends /\ e \in Ends
        /\ Peer(e) = q /\ q = End(t) /\ e = Peer(End(t))
    BY EndFacts, ThreadKinds
  <1>b. Len(sent[e]) \in Nat /\ Len(sent'[e]) \in Nat
    BY <1>a, SentGrows
  <1>c. call'[t] = call[t]
    BY WaitingSteps
  <1>d. Alone(t)' <=> Alone(t)
    BY DEF Alone
  <1>e. alive[End(t)]
    BY <1>a, AliveSteps
  <1>k. /\ Alone(t) => (TicketAt(t) <=> \A j \in 1 .. Len(sent[e]) :
                          Ticket(t) = Serial(e, j) => sent[e][j] = call[t])
        /\ ~Alone(t) => (TicketAt(t) <=> \E k \in 1 .. Len(sent[e]) :
             /\ sent[e][k] = call[t]
             /\ \A j \in 1 .. Len(sent[e]) : Ticket(t) = Serial(e, j) => k <= j
             /\ Pending(e, k))
    BY <1>a DEF TicketAt
  <1>m. /\ Alone(t) => (TicketAt(t)' <=> \A j \in 1 .. Len(sent'[e]) :
                          Ticket(t)' = Serial(e, j) => sent'[e][j] = call'[t])
        /\ ~Alone(t) => (TicketAt(t)' <=> \E k \in 1 .. Len(sent'[e]) :
             /\ sent'[e][k] = call'[t]
             /\ \A j \in 1 .. Len(sent'[e]) : Ticket(t)' = Serial(e, j) => k <= j
             /\ Pending(e, k)')
    BY <1>a, <1>d DEF TicketAt, Serial, Parity, Peer, End
  <1> HIDE DEF q, e
  <1>1. CASE pc[t] \in Waiting
    <2>1. TicketAt(t)
      BY <1>1, <1>e DEF ServiceInv, TicketInv
    <2>2. \/ Ticket(t)' = Ticket(t)
          \/ \A j \in 1 .. Len(sent'[e]) : Ticket(t)' # Serial(e, j)
      BY <1>1, <1>a, TicketSteps
    <2>3. CASE Alone(t)
      <3>1. sent'[e] = sent[e]
        <4>1. ASSUME NEW u \in Threads, WriteEndSend(u), Peer(End(u)) = e
              PROVE  sent' = sent
          <5>1. pc[u] = "wbuild" /\ u \in Callers \union Dispatchers
            BY <4>1, SendEffect
          <5>2. End(u) = End(t)
            BY <4>1, <1>a, EndFacts
          <5>3. u \notin Callers
            BY <1>1, <2>3, <5>1, <5>2 DEF Alone, Waiting
          <5>4. QED
            BY <4>1, <5>1, <5>3, SendEffect
        <4>2. ASSUME NEW u \in Threads, ReadArgs(u) PROVE sent' = sent
          BY <4>2, ReadArgsEffect
        <4>3. QED
          BY <1>a, <4>1, <4>2, StreamSteps
      <3>2. QED
        BY <1>c, <1>k, <1>m, <2>1, <2>2, <2>3, <3>1
    <2>4. CASE ~Alone(t)
      <3>1. PICK k \in 1 .. Len(sent[e]) :
              /\ sent[e][k] = call[t]
              /\ \A j \in 1 .. Len(sent[e]) : Ticket(t) = Serial(e, j) => k <= j
              /\ Pending(e, k)
        BY <1>k, <2>1, <2>4
      <3>2. k \in 1 .. Len(sent'[e]) /\ sent'[e][k] = call'[t]
        BY <1>a, <1>c, <3>1, SentGrows
      <3>3. ASSUME NEW j \in 1 .. Len(sent'[e]), Ticket(t)' = Serial(e, j)
            PROVE  k <= j
        <4>1. Ticket(t) = Serial(e, j)
          BY <2>2, <3>3
        <4>2. CASE j \in 1 .. Len(sent[e])
          BY <3>1, <4>1, <4>2
        <4>3. CASE j \notin 1 .. Len(sent[e])
          BY <1>b, <4>3
        <4>4. QED
          BY <4>2, <4>3
      <3>4. Pending(e, k)'
        BY <1>1, <1>a, <1>e, <2>4, <3>1, PendingKept, NobodySilent
      <3>5. QED
        BY <1>m, <2>4, <3>2, <3>3, <3>4
    <2>5. QED
      BY <2>3, <2>4
  <1>2. CASE WriteEndSend(t)
    <2>1. /\ Len(sent'[e]) = Len(sent[e]) + 1 /\ sent'[e][Len(sent[e]) + 1] = call[t]
          /\ write_id' = write_id /\ pc'[t] = AfterWrite(t)
      BY <1>2, <1>a, SendEffect
    <2>2. Ticket(t)' = Serial(e, Len(sent[e]) + 1)
      <3>1. pc'[t] = "wret"
        BY <1>a, <2>1 DEF AfterWrite, Waiting
      <3>2. write_id[q] = Serial(e, Len(sent[e]) + 1)
        BY <1>2, <1>a, NewRequest
      <3>3. QED
        BY <1>a, <2>1, <3>1, <3>2 DEF Ticket
    <2>3. ASSUME NEW j \in 1 .. Len(sent'[e]), Ticket(t)' = Serial(e, j)
          PROVE  j = Len(sent[e]) + 1
      <3>1. j \in 1 .. Len(sent[e]) \/ j = Len(sent[e]) + 1
        BY <1>b, <2>1
      <3>2. j \notin 1 .. Len(sent[e])
        BY <1>a, <1>b, <2>2, <2>3, SerialDiffers
      <3>3. QED
        BY <3>1, <3>2
    <2>4. CASE Alone(t)
      BY <1>c, <1>m, <2>1, <2>3, <2>4
    <2>5. CASE ~Alone(t)
      <3>1. Len(sent[e]) + 1 > Taken(e)'
        BY <1>2, <1>a, NewPending
      <3>2. ASSUME NEW k \in Nat, k = Len(sent[e]) + 1 PROVE TicketAt(t)'
        <4>1. Pending(e, k)'
          BY <3>1, <3>2 DEF Pending
        <4>2. k \in 1 .. Len(sent'[e]) /\ sent'[e][k] = call'[t]
          BY <1>b, <1>c, <2>1, <3>2
        <4>3. \A j \in 1 .. Len(sent'[e]) : Ticket(t)' = Serial(e, j) => k <= j
          BY <1>b, <2>3, <3>2
        <4>4. QED
          BY <1>m, <2>5, <4>1, <4>2, <4>3
      <3>3. QED
        BY <1>b, <3>2
    <2>6. QED
      BY <2>4, <2>5
  <1>3. CASE WriteEndSuppressed(t)
    <2>1. /\ Alone(t) /\ pc'[t] = "wret"
          /\ \A k \in 1 .. Len(sent[e]) : write_id[q] # Serial(e, k)
      BY <1>3, <1>a, SuppressedCaller
    <2>2. write_id' = write_id /\ sent' = sent
      BY <1>3 DEF WriteEndSuppressed, history
    <2>3. Ticket(t)' = write_id[q]
      BY <1>a, <2>1, <2>2 DEF Ticket
    <2>4. QED
      BY <1>m, <2>1, <2>2, <2>3
  <1>4. QED
    <2>1. \/ pc[t] \in Waiting \/ WriteEndSend(t) \/ WriteEndSuppressed(t)
      BY WaitingSteps DEF Waiting
    <2>2. QED
      BY <1>1, <1>2, <1>3, <2>1

-----------------------------------------------------------------------------
\* A connection starts without frames, calls and waiting threads.
LEMMA InitServiceInv == Init => ServiceInv
  <1> SUFFICES ASSUME Init PROVE ServiceInv
    OBVIOUS
  <1>1. /\ \A t \in Callers : pc[t] \in {"ready", "idle"}
        /\ \A d \in Dispatchers : pc[d] = "spawn"
    BY ThreadKinds DEF Init, Callers
  <1>2. /\ \A e \in Ends : Len(wire[e]) = 0 /\ Len(sent[e]) = 0 /\ Len(executed[e]) = 0
        /\ results = {} /\ \A e \in Ends : ~suppress_response[e]
        /\ \A e \in Ends : request_id[Peer(e)] = Parity(e)
        /\ \A d \in Dispatchers : rid[d] = 0
    BY EndFacts DEF Init, Ends, Peer, Parity
  <1>3. CallInv /\ TicketInv /\ ReadInv
    BY <1>1 DEF CallInv, TicketInv, ReadInv, Waiting
  <1>4. SuppressInv
    BY <1>1, <1>2 DEF SuppressInv, Ends
  <1>5. ResultInv /\ SentInv
    BY <1>2 DEF ResultInv, SentInv
  <1>6. NumberInv
    BY <1>1, <1>2, EndFacts DEF NumberInv, NumberAt, Serial
  <1>7. \A e \in Ends : Taken(e) = 0
    BY <1>1, <1>2, EndFacts DEF Taken
  <1>8. RequestInv
    BY <1>2, <1>7 DEF RequestInv
  <1>9. ExecutedInv
    BY <1>1, <1>2, <1>7, EndFacts DEF ExecutedInv, ExecutedAt
  <1>10. ReplyInv
    BY <1>2, EndFacts DEF ReplyInv, ReplyAt
  <1>11. QED
    BY <1>3, <1>4, <1>5, <1>6, <1>8, <1>9, <1>10 DEF ServiceInv

\* Every step keeps every part.
LEMMA NextServiceInv ==
  ASSUME IInv, ServiceInv, OneCallback, Responsive, [Next]_vars
  PROVE  ServiceInv'
  <1>1. CallInv' /\ SuppressInv' /\ ResultInv' /\ SentInv'
    <2>1. OpInv
      BY DEF OpInv, ServiceInv, RequestInv
    <2>2. QED
      BY <2>1, NextCallInv, NextSuppressInv, NextResultInv, NextSentInv DEF ServiceInv
  <1>2. NumberInv' /\ RequestInv' /\ ExecutedInv' /\ ReplyInv'
    BY NextNumberInv, NextRequestInv, NextExecutedInv, NextReplyInv
  <1>3. TicketInv' /\ ReadInv'
    BY NextTicketInv, NextReadInv
  <1>4. QED
    BY <1>1, <1>2, <1>3 DEF ServiceInv

\* Requests, executions, responses and waiting threads correspond as ServiceInv
\* says, for any number of application threads and calls, abandoned requests,
\* asynchronous calls and exits included (rpc.cpp:9-175, server.cpp:257-289,
\* client.cpp:174-241).
THEOREM ServiceInvariance ==
  ASSUME OneCallback, Responsive
  PROVE  Spec => []ServiceInv
  <1>1. Init => ServiceInv
    BY InitServiceInv
  <1>2. IInv /\ ServiceInv /\ [Next]_vars => ServiceInv'
    BY NextServiceInv
  <1>3. QED
    BY <1>1, <1>2, Invariance, PTL DEF Spec

\* A call that returns returns with the response to itself (rpc.cpp:70-76,
\* 172-175).
THEOREM OwnResponses ==
  ASSUME OneCallback, Responsive
  PROVE  Spec => []OwnResponse
  <1>1. ServiceInv => OwnResponse
    BY DEF ServiceInv, ResultInv, OwnResponse
  <1>2. QED
    BY <1>1, ServiceInvariance, PTL

-----------------------------------------------------------------------------
\* A caller's writev sends its next call, after the one before has returned.
LEMMA SendImplements ==
  ASSUME IInv, ServiceInv, NEW t \in Callers, WriteEndSend(t)
  PROVE  Service!Send
  <1> DEFINE e == Peer(End(t))
             c == Service!Last(sent'[e])
  <1>a. t \in Threads /\ e \in Ends /\ e \in Service!Ends /\ pc[t] = "wbuild"
    BY EndFacts, ThreadKinds DEF WriteEndSend, Ends, Service!Ends, At, Dispatchers
  <1>1. /\ sent' = [sent EXCEPT ![e] = Append(@, call[t])]
        /\ UNCHANGED <<executed, results>>
    BY DEF WriteEndSend
  <1>2. sent[e] \in Seq(Call) /\ call[t] \in Call
    BY <1>a, StateTypes
  <1>3. sent'[e] = Append(sent[e], call[t])
    BY <1>a, <1>1, StateTypes
  <1>4. Len(sent'[e]) = Len(sent[e]) + 1 /\ c = call[t]
    BY <1>2, <1>3, AppendFacts DEF Service!Last
  <1>5. c.by = t
    BY <1>a, <1>4 DEF ServiceInv, CallInv
  <1>6. Service!Destination(c) = e
    BY <1>5, CallersAssumption
       DEF Service!Destination, Peer, End, Callers, Readers, Dispatchers
  <1>7. Service!Ready(c)
    <2> SUFFICES ASSUME NEW b \in Service!ToSet(sent[e]), b.by = t
                 PROVE  b.n < c.n /\ (b.op \in Async \/ Service!Returned(b))
      BY <1>5, <1>6 DEF Service!Ready
    <2>1. PICK k \in 1 .. Len(sent[e]) : b = sent[e][k]
      BY <1>2 DEF Service!ToSet
    <2>2. Accounted(e, b)
      BY <1>a, <2>1 DEF ServiceInv, SentInv
    <2>3. QED
      BY <1>a, <1>4, <2>2 DEF Accounted, Returned, Service!Returned, Waiting
  <1>8. t \in Apps \union Callbacks
    BY DEF Callers
  <1> HIDE DEF e
  <1>9. QED
    BY <1>a, <1>1, <1>4, <1>5, <1>6, <1>7, <1>8 DEF Service!Send

\* A handler executes the next call.
LEMMA ExecuteImplements ==
  ASSUME IInv, ServiceInv, NEW d \in Dispatchers, pc[d] = "exec",
         executed' = [executed EXCEPT ![End(d)] = Append(@, arg[d])],
         UNCHANGED <<sent, results>>
  PROVE  Service!Execute
  <1> DEFINE e == End(d)
  <1>a. e \in Ends /\ e \in Service!Ends /\ d = Dispatcher(e)
    BY EndFacts, ThreadKinds DEF Ends, Service!Ends
  <1>1. Len(executed[e]) \in Nat /\ Len(sent[e]) \in Nat
    BY <1>a, StateTypes
  <1>2. Len(executed[e]) + 1 <= Len(sent[e]) /\ arg[d] = sent[e][Len(executed[e]) + 1]
    BY <1>a DEF ServiceInv, ExecutedInv, ExecutedAt, Taken
  <1> HIDE DEF e
  <1>3. executed' = [executed EXCEPT ![e] = Append(@, sent[e][Len(@) + 1])]
    BY <1>2 DEF e
  <1>4. Len(executed[e]) < Len(sent[e])
    BY <1>1, <1>2
  <1>5. UNCHANGED <<sent, results>>
    OBVIOUS
  <1>6. QED
    BY <1>a, <1>3, <1>4, <1>5 DEF Service!Execute

\* A caller that has read its response returns from a call that was executed.
LEMMA ReturnImplements ==
  ASSUME IInv, ServiceInv, NEW t \in Callers, ReadEnd(t)
  PROVE  Service!Return
  <1> DEFINE e == Peer(End(t))
             c == call[t]
  <1>a. e \in Ends /\ e \in Service!Ends /\ pc[t] = "rend"
    BY EndFacts, ThreadKinds DEF ReadEnd, At, Ends, Service!Ends
  <1>1. c \in Service!ToSet(executed[e])
    <2>1. PICK k \in 1 .. Len(executed[e]) : executed[e][k] = c
      BY <1>a DEF ServiceInv, ReadInv
    <2>2. executed[e] \in Seq(Call)
      BY <1>a, StateTypes
    <2>3. QED
      BY <2>1, <2>2 DEF Service!ToSet
  <1>2. c.by = t /\ c.op \notin Async /\ c \in Call
    BY <1>a, StateTypes DEF ServiceInv, CallInv
  <1>3. ~Service!Returned(c)
    <2> SUFFICES ASSUME NEW r \in results, r[1] = c PROVE FALSE
      BY DEF Service!Returned
    <2>1. r[1].n < call[r[1].by].n
      BY <1>a, <1>2 DEF ServiceInv, ResultInv
    <2>2. QED
      BY <1>2, <2>1 DEF Call
  <1>4. results' = results \union {<<c, c>>} /\ UNCHANGED <<sent, executed>>
    BY <1>a DEF ReadEnd, ServiceInv, ReadInv
  <1> HIDE DEF c, e
  <1>5. QED
    BY <1>a, <1>1, <1>2, <1>3, <1>4 DEF Service!Return

\* Every step of a connection is a step of the service or none.
LEMMA StepImplements ==
  ASSUME IInv, ServiceInv, [Next]_vars
  PROVE  [Service!Next]_(Service!vars)
  <1>1. CASE UNCHANGED history
    BY <1>1 DEF history, Service!vars
  <1>2. CASE Quiet
    BY <1>2 DEF Quiet, Service!vars
  <1>3. ASSUME NEW t \in Threads, WriteEndSend(t)
        PROVE  Service!Send \/ UNCHANGED history
    <2>1. CASE t \in Callers
      BY <1>3, <2>1, SendImplements
    <2>2. CASE t \notin Callers
      <3>1. sent' = [sent EXCEPT ![Peer(End(t))] = @]
        BY <1>3, <2>2 DEF WriteEndSend
      <3>2. sent' = sent
        BY <3>1, StateTypes
      <3>3. QED
        BY <1>3, <3>2 DEF WriteEndSend, history
    <2>3. QED
      BY <2>1, <2>2
  <1>4. ASSUME NEW t \in Threads, ReadEnd(t)
        PROVE  Service!Return \/ UNCHANGED history
    <2>1. CASE t \in Callers
      BY <1>4, <2>1, ReturnImplements
    <2>2. CASE t \notin Callers
      BY <1>4, <2>2 DEF ReadEnd, history
    <2>3. QED
      BY <2>1, <2>2
  <1>5. ASSUME NEW t \in Threads, Execute(t) \/ InvokeHostFunc(t)
        PROVE  Service!Execute
    BY <1>5, ExecuteImplements DEF Execute, InvokeHostFunc, At, Dispatchers
  <1>6. QED
    <2>1. ASSUME NEW t \in Threads,
                 \/ StartRequest(t) \/ StartResponse(t) \/ WriteEndSuppressed(t)
                 \/ WriteEndReturn(t) \/ WriteEndError(t) \/ AbandonRequest(t)
                 \/ ReadLock(t)
                 \/ ReadArgs(t)
          PROVE  UNCHANGED history
      BY <2>1 DEF StartRequest, StartResponse, WriteEndSuppressed, WriteEndReturn,
                  AbandonRequest, WriteEndError, ReadLock, ReadArgs
    <2>2. QED
      BY <1>1, <1>2, <1>3, <1>4, <1>5, <2>1, StepKinds DEF Service!Next

\* The connection implements RpcService: every call is executed at most once and
\* in the order of the writev's that sent it, and returns after its execution
\* with its own result (rpc.cpp, server.cpp:257-289, client.cpp:174-241).
THEOREM Refinement ==
  ASSUME OneCallback, Responsive
  PROVE  Spec => ImplementsService
  <1>1. Init => Service!Init
    BY DEF Init, Service!Init, Ends, Service!Ends
  <1>2. IInv /\ ServiceInv /\ [Next]_vars => [Service!Next]_(Service!vars)
    BY StepImplements
  <1>3. QED
    BY <1>1, <1>2, Invariance, ServiceInvariance, PTL
       DEF Spec, ImplementsService, Service!Spec

-----------------------------------------------------------------------------
(* That a call under way is not lost.                                      *)

\* A thread's calls are sent in the order in which it makes them.
SeqInv ==
  \A e \in Ends : \A j, k \in 1 .. Len(sent[e]) :
    j < k /\ sent[e][j].by = sent[e][k].by => sent[e][j].n < sent[e][k].n

\* A response is read once: the answer to a call that has one is not to come.
Answered(b) == Returned(b) \/ \E t \in Callers : pc[t] = "rend" /\ call[t] = b
AnswerInv ==
  \A e \in Ends : \A k \in 1 .. Len(sent[e]) :
    Pending(e, k) => ~Answered(sent[e][k])

\* The answer to a call whose thread waits is to come, unless its handler was
\* silent; and what an application thread waits for was sent.
LossAt(t) ==
  LET e == Peer(End(t))
  IN  /\ t \in Apps => \E k \in 1 .. Len(sent[e]) : sent[e][k] = call[t]
      /\ \A k \in 1 .. Len(sent[e]) :
           sent[e][k] = call[t] =>
             Pending(e, k) \/ call[t].op = "cudaGraphAddKernelNode"
LossInv == \A t \in Callers : alive[End(t)] /\ pc[t] \in Waiting => LossAt(t)

\* Where nobody else uses the connection a thread waits for its own call.
SoleAt(t) ==
  LET n == Len(sent["server"])
  IN  n > 0 /\ Ticket(t) = Serial("server", n) /\ sent["server"][n] = call[t]
SoleInv ==
  Callbacks = {} =>
    \A t \in Apps : Apps = {t} /\ pc[t] \in Waiting => SoleAt(t)

CourseInv == SeqInv /\ AnswerInv /\ LossInv /\ SoleInv

\* What a process has sent grows by the calls of its peer's threads.
LEMMA SentSteps ==
  ASSUME IInv, [Next]_vars, NEW e \in Ends
  PROVE  \/ sent'[e] = sent[e]
         \/ \E t \in Callers : WriteEndSend(t) /\ Peer(End(t)) = e
  <1>1. ASSUME NEW t \in Threads, WriteEndSend(t) PROVE t \in Callers \/ sent' = sent
    BY <1>1, SendEffect
  <1>2. ASSUME NEW t \in Threads, ReadArgs(t) PROVE sent' = sent
    BY <1>2, ReadArgsEffect
  <1>3. QED
    BY <1>1, <1>2, StreamSteps

\* The call a thread is about to send is later than those it has sent.
LEMMA LaterCall ==
  ASSUME IInv, ServiceInv, NEW t \in Callers, pc[t] = "wbuild",
         NEW e \in Ends, NEW k \in 1 .. Len(sent[e]), sent[e][k].by = t
  PROVE  /\ sent[e][k].n < call[t].n
         /\ sent[e][k].n \in Nat /\ call[t].n \in Nat
  <1>1. sent[e] \in Seq(Call) /\ call[t] \in Call
    BY StateTypes
  <1>2. sent[e][k] \in Call
    BY <1>1
  <1>3. QED
    BY <1>1, <1>2 DEF ServiceInv, SentInv, Accounted, Call

\* The order in which a thread makes its calls is that in which they are sent.
LEMMA NextSeqInv ==
  ASSUME IInv, ServiceInv, SeqInv, [Next]_vars
  PROVE  SeqInv'
  <1> SUFFICES ASSUME NEW e \in Ends, NEW j \in 1 .. Len(sent'[e]),
                      NEW k \in 1 .. Len(sent'[e]), j < k,
                      sent'[e][j].by = sent'[e][k].by
               PROVE  sent'[e][j].n < sent'[e][k].n
    BY DEF SeqInv
  <1>a. /\ \A i \in 1 .. Len(sent[e]) : sent'[e][i] = sent[e][i]
        /\ Len(sent[e]) \in Nat /\ Len(sent'[e]) \in Nat
    BY SentGrows
  <1>1. CASE k \in 1 .. Len(sent[e])
    <2>1. j \in 1 .. Len(sent[e])
      BY <1>1, <1>a
    <2>2. QED
      BY <1>1, <1>a, <2>1 DEF SeqInv
  <1>2. CASE k \notin 1 .. Len(sent[e])
    <2>1. sent'[e] # sent[e]
      BY <1>2
    <2>2. PICK t \in Callers : WriteEndSend(t) /\ Peer(End(t)) = e
      BY <2>1, SentSteps
    <2>3. /\ Len(sent'[e]) = Len(sent[e]) + 1 /\ sent'[e][Len(sent[e]) + 1] = call[t]
          /\ pc[t] = "wbuild" /\ call[t].by = t
      BY <2>2, ThreadKinds, SendEffect, NewRequest
    <2>4. k = Len(sent[e]) + 1 /\ j \in 1 .. Len(sent[e])
      BY <1>2, <1>a, <2>3
    <2>5. QED
      BY <1>a, <2>3, <2>4, LaterCall
  <1>3. QED
    BY <1>1, <1>2

\* No answer is to come for a second time.
LEMMA PendingBefore ==
  ASSUME IInv, ServiceInv, [Next]_vars,
         NEW e \in Ends, NEW k \in 1 .. Len(sent[e]), Pending(e, k)'
  PROVE  Pending(e, k)
  <1> DEFINE q == Peer(e)
             d == Dispatcher(e)
             n == Len(executed[e])
             w == wire[q]
             v == wire'[q]
  <1>a. /\ q \in Ends /\ Peer(q) = e /\ q = Peer(e) /\ d \in Dispatchers /\ d \in Threads
        /\ End(d) = e /\ d = Dispatcher(e) /\ w = wire[q] /\ v = wire'[q]
        /\ n = Len(executed[e]) /\ \A u \in Dispatchers : End(u) = e => u = d
    BY EndFacts, ThreadKinds
  <1>b. /\ n \in Nat /\ k \in Nat /\ Len(w) \in Nat /\ Taken(e) \in Nat
    <2>1. w \in Seq(Frame) /\ executed[e] \in Seq(Call) /\ sent[e] \in Seq(Call)
      BY <1>a, StateTypes
    <2>2. QED
      BY <1>a, <2>1 DEF Taken
  <1>e. /\ ~ReadArgs(d) => Taken(e)' = Taken(e)
        /\ ReadArgs(d) => Taken(e)' = n + 1 /\ Taken(e) = n
    BY <1>a, TakenSteps
  <1>k. \/ k > Taken(e)'
        \/ k = Taken(e)' /\ pc'[d] \in {"rend", "exec", "wlock", "wbuild"}
        \/ \E i \in 1 .. Len(v) : v[i].op = Reply /\ v[i].id = Serial(e, k)
    BY <1>a DEF Pending, Serial, Parity, Peer, Dispatcher
  <1>l. ASSUME \/ k > Taken(e)
               \/ k = Taken(e) /\ pc[d] \in {"rend", "exec", "wlock", "wbuild"}
               \/ \E i \in 1 .. Len(w) : w[i].op = Reply /\ w[i].id = Serial(e, k)
        PROVE  Pending(e, k)
    BY <1>a, <1>l DEF Pending
  <1> HIDE DEF q, d, n, w, v
  <1>1. CASE k > Taken(e)'
    BY <1>1, <1>b, <1>e, <1>l
  <1>2. CASE k = Taken(e)' /\ pc'[d] \in {"rend", "exec", "wlock", "wbuild"}
    <2>1. CASE ReadArgs(d)
      BY <1>2, <1>b, <1>e, <1>l, <2>1
    <2>2. CASE ~ReadArgs(d)
      <3>1. pc[d] \in {"rend", "exec", "wlock", "wbuild"}
        <4>1. ReadEnd(d) => pc[d] = "rend"
          BY <1>a, ReadEndEffect
        <4>2. QED
          BY <1>2, <1>a, <2>2, <4>1, DispatcherSteps DEF BeforePayload
      <3>2. QED
        BY <1>2, <1>e, <1>l, <2>2, <3>1
    <2>3. QED
      BY <2>1, <2>2
  <1>3. ASSUME NEW i \in 1 .. Len(v), v[i].op = Reply, v[i].id = Serial(e, k)
        PROVE  Pending(e, k)
    <2>1. CASE wire'[q] = wire[q]
      BY <1>3, <1>a, <1>l, <2>1
    <2>2. ASSUME NEW u \in Threads, WriteEndSend(u), Peer(End(u)) = q
          PROVE  Pending(e, k)
      <3>1. End(u) = e
        BY <2>2, <1>a, EndFacts
      <3>2. /\ Len(wire'[q]) = Len(wire[q]) + 1
            /\ \A j \in 1 .. Len(wire[q]) : wire'[q][j] = wire[q][j]
            /\ wire'[q][Len(wire[q]) + 1] =
                 [id |-> write_id[End(u)], op |-> write_op[End(u)], body |-> Payload(u)]
            /\ u \in Callers \union Dispatchers /\ pc[u] = "wbuild"
        BY <2>2, SendEffect
      <3>3. CASE i \in 1 .. Len(w)
        BY <1>3, <1>a, <1>l, <3>2, <3>3
      <3>4. CASE i = Len(w) + 1
        <4>1. write_op[e] = Reply /\ write_id[e] = Serial(e, k)
          BY <1>3, <1>a, <3>1, <3>2, <3>4
        <4>2. u \notin Callers
          BY <2>2, <3>1, <4>1, NewRequest
        <4>3. u = d
          BY <1>a, <3>1, <3>2, <4>2
        <4>4. write_id[e] = Serial(e, n)
          BY <1>a, <3>2, <4>3, NewReply
        <4>5. k = n
          <5>1. Serial(e, k) = Serial(e, n)
            BY <4>1, <4>4
          <5>2. QED
            BY <1>b, <5>1, SerialFacts
        <4>6. Taken(e) = n
          BY <1>a, <3>2, <4>3 DEF Taken
        <4>7. QED
          BY <1>l, <3>2, <4>3, <4>5, <4>6
      <3>5. QED
        BY <1>a, <1>b, <1>3, <3>2, <3>3, <3>4
    <2>3. ASSUME NEW u \in Threads, ReadArgs(u), End(u) = q
          PROVE  Pending(e, k)
      <3>1. \A j \in 1 .. Len(wire'[q]) :
              j + 1 \in 2 .. Len(wire[q]) /\ wire'[q][j] = wire[q][j + 1]
        BY <2>3, <1>a, ReadArgsEffect
      <3>2. i + 1 \in 1 .. Len(w) /\ v[i] = w[i + 1]
        BY <1>3, <1>a, <1>b, <3>1
      <3>3. QED
        BY <1>3, <1>l, <3>2
    <2>4. QED
      BY <1>a, <2>1, <2>2, <2>3, StreamSteps
  <1>4. QED
    BY <1>1, <1>2, <1>3, <1>k

\* Once its response is read no answer to a call is to come.
LEMMA ReadOnce ==
  ASSUME IInv, ServiceInv, SeqInv, NEW t \in Callers, ReadArgs(t),
         NEW e, e = Peer(End(t)), NEW k \in 1 .. Len(sent[e]), sent[e][k] = call[t]
  PROVE  ~Pending(e, k)'
  <1> DEFINE q == End(t)
             d == Dispatcher(e)
             n == Len(executed[e])
             w == wire[q]
             v == wire'[q]
  <1>a. /\ t \in Threads /\ t \notin Dispatchers /\ q \in Ends /\ e \in Ends
        /\ Peer(e) = q /\ q = End(t) /\ d \in Dispatchers /\ d \in Threads
        /\ d = Dispatcher(e) /\ w = wire[q] /\ v = wire'[q] /\ n = Len(executed[e])
    BY EndFacts, ThreadKinds
  <1>b. /\ n \in Nat /\ k \in Nat /\ Len(w) \in Nat
    <2>1. w \in Seq(Frame) /\ executed[e] \in Seq(Call) /\ sent[e] \in Seq(Call)
      BY <1>a, StateTypes
    <2>2. QED
      BY <1>a, <2>1
  <1>c. /\ pc[t] = "args" /\ (w[1].op = Reply) /\ 1 \in 1 .. Len(w)
        /\ \A i \in 1 .. Len(v) : i + 1 \in 2 .. Len(w) /\ v[i] = w[i + 1]
        /\ pc'[d] = pc[d] /\ executed' = executed
    <2>1. /\ pc[t] = "args" /\ (wire[q][1].op = Reply) /\ 1 \in 1 .. Len(wire[q])
          /\ \A i \in 1 .. Len(wire'[q]) :
               i + 1 \in 2 .. Len(wire[q]) /\ wire'[q][i] = wire[q][i + 1]
          /\ pc'[d] = pc[d] /\ executed' = executed
      BY <1>a, ReadArgsEffect
    <2>2. QED
      BY <2>1, <1>a
  <1>d. /\ Taken(e) = IF pc[d] \in {"rend", "exec"} THEN n + 1 ELSE n
        /\ Taken(e)' = Taken(e)
    BY <1>a, <1>c DEF Taken, Dispatcher
  <1>k. SUFFICES ASSUME \/ k > Taken(e)
                        \/ k = Taken(e) /\ pc[d] \in {"rend", "exec", "wlock", "wbuild"}
                        \/ \E i \in 1 .. Len(v) :
                             v[i].op = Reply /\ v[i].id = Serial(e, k)
                 PROVE  FALSE
    BY <1>a, <1>c, <1>d DEF Pending, Serial, Parity, Peer, Dispatcher
  <1> HIDE DEF q, d, n, w, v
  <1>1. /\ \A i \in 1 .. Len(w) : w[i].op = Reply =>
             \E j \in 1 .. n : /\ w[i].id = Serial(e, j) /\ w[i].body = sent[e][j]
                               /\ pc[d] \in {"wlock", "wbuild"} => j < n
        /\ \A i, j \in 1 .. Len(w) :
             i < j /\ w[i].op = Reply /\ w[j].op = Reply => w[i].id < w[j].id
    <2>1. ReplyAt(e) /\ w = wire[Peer(e)]
      BY <1>a DEF ServiceInv, ReplyInv
    <2>2. QED
      BY <1>a, <2>1 DEF ReplyAt
  <1>2. PICK j \in 1 .. n : /\ w[1].id = Serial(e, j) /\ w[1].body = sent[e][j]
                            /\ pc[d] \in {"wlock", "wbuild"} => j < n
    BY <1>c, <1>1
  <1>3. w[1].body = call[t]
    BY <1>a, <1>c DEF ServiceInv, ReadInv
  <1>4. j \in 1 .. Len(sent[e])
    <2>1. Taken(e) <= Len(sent[e])
      BY <1>a DEF ServiceInv, ExecutedInv, ExecutedAt
    <2>2. sent[e] \in Seq(Call)
      BY <1>a, StateTypes
    <2>3. QED
      BY <1>b, <1>d, <2>1, <2>2
  <1>5. j = k
    <2>1. sent[e][j] = sent[e][k] /\ sent[e][k].n \in Nat
      <3>1. sent[e] \in Seq(Call)
        BY <1>a, StateTypes
      <3>2. sent[e][k] \in Call
        BY <3>1
      <3>3. QED
        BY <1>2, <1>3, <3>2 DEF Call
    <2>2. ~(j < k) /\ ~(k < j)
      BY <1>a, <1>4, <2>1 DEF SeqInv
    <2>3. QED
      BY <1>b, <1>4, <2>2
  <1>6. ASSUME NEW i \in 1 .. Len(v), v[i].op = Reply, v[i].id = Serial(e, k)
        PROVE  FALSE
    <2>1. i + 1 \in 1 .. Len(w) /\ 1 < i + 1 /\ w[i + 1] = v[i]
      BY <1>6, <1>b, <1>c
    <2>2. w[1].id < w[i + 1].id
      BY <1>1, <1>6, <1>c, <2>1
    <2>3. w[1].id = w[i + 1].id /\ w[1].id \in Nat
      <3>1. w[1].id = Serial(e, k) /\ w[i + 1].id = Serial(e, k)
        BY <1>2, <1>5, <1>6, <2>1
      <3>2. Serial(e, k) \in Nat
        BY <1>a, <1>b, SerialFacts
      <3>3. QED
        BY <3>1, <3>2
    <2>4. QED
      BY <2>2, <2>3
  <1>7. QED
    BY <1>2, <1>5, <1>6, <1>b, <1>d, <1>k

\* The calls that return do so when rpc_read_end releases their response.
LEMMA ResultSteps ==
  ASSUME IInv, [Next]_vars
  PROVE  \/ results' = results
         \/ \E t \in Callers :
              /\ ReadEnd(t) /\ pc[t] = "rend"
              /\ results' = results \union {<<call[t], arg[t]>>}
  <1>1. ASSUME NEW t \in Threads, ReadEnd(t), t \in Callers
        PROVE  pc[t] = "rend" /\ results' = results \union {<<call[t], arg[t]>>}
    BY <1>1 DEF ReadEnd, At
  <1>2. ASSUME NEW t \in Threads, ReadEnd(t), t \notin Callers
        PROVE  results' = results
    BY <1>2, ReadEndEffect
  <1>3. ASSUME NEW t \in Threads,
               \/ StartRequest(t) \/ StartResponse(t) \/ WriteEndSuppressed(t)
               \/ WriteEndReturn(t) \/ WriteEndError(t) \/ AbandonRequest(t)
               \/ ReadLock(t)
               \/ InvokeHostFunc(t)
        PROVE  results' = results
    BY <1>3 DEF StartRequest, StartResponse, WriteEndSuppressed, WriteEndReturn,
       AbandonRequest, WriteEndError, ReadLock, InvokeHostFunc, history
  <1>4. ASSUME NEW t \in Threads, WriteEndSend(t) \/ ReadArgs(t) \/ Execute(t)
        PROVE  results' = results
    BY <1>4, SendEffect, ReadArgsEffect, ExecuteEffect
  <1>5. Quiet => results' = results
    BY DEF Quiet
  <1>6. QED
    BY <1>1, <1>2, <1>3, <1>4, <1>5, StepKinds

\* A call is answered when its thread reads the response.
LEMMA AnsweredBefore ==
  ASSUME IInv, [Next]_vars, NEW b,
         \/ \E r \in results' : r[1] = b
         \/ \E t \in Callers : pc'[t] = "rend" /\ call'[t] = b
  PROVE  Answered(b) \/ \E t \in Callers : ReadArgs(t) /\ call[t] = b
  <1>1. ASSUME NEW t \in Callers, pc'[t] = "rend", call'[t] = b
        PROVE  Answered(b) \/ (ReadArgs(t) /\ call[t] = b)
    <2>1. call'[t] = call[t] /\ (pc[t] = "rend" \/ ReadArgs(t))
      BY <1>1, WaitingSteps
    <2>2. QED
      BY <1>1, <2>1 DEF Answered
  <1>2. ASSUME NEW r \in results', r[1] = b PROVE Answered(b)
    <2>1. CASE r \in results
      BY <1>2, <2>1 DEF Answered, Returned
    <2>2. CASE r \notin results
      <3>1. PICK t \in Callers : pc[t] = "rend" /\ r = <<call[t], arg[t]>>
        BY <1>2, <2>2, ResultSteps
      <3>2. QED
        BY <1>2, <3>1 DEF Answered
    <2>3. QED
      BY <2>1, <2>2
  <1>3. QED
    BY <1>1, <1>2

\* A response is read once.
LEMMA NextAnswerInv ==
  ASSUME IInv, ServiceInv, SeqInv, AnswerInv, [Next]_vars
  PROVE  AnswerInv'
  <1> SUFFICES ASSUME NEW e \in Ends, NEW k \in 1 .. Len(sent'[e]),
                      Pending(e, k)', Answered(sent[e][k])'
               PROVE  FALSE
    BY DEF AnswerInv
  <1>a. /\ \A i \in 1 .. Len(sent[e]) : sent'[e][i] = sent[e][i]
        /\ Len(sent[e]) \in Nat /\ Len(sent'[e]) \in Nat
    BY SentGrows
  <1>1. CASE k \in 1 .. Len(sent[e])
    <2>1. sent'[e][k] = sent[e][k]
      BY <1>1, <1>a
    <2>2. Pending(e, k)
      BY <1>1, PendingBefore
    <2>3. ~Answered(sent[e][k])
      BY <1>1, <2>2 DEF AnswerInv
    <2>4. PICK t \in Callers : ReadArgs(t) /\ call[t] = sent[e][k]
      <3> DEFINE b == sent[e][k]
      <3>1. \/ \E r \in results' : r[1] = sent'[e][k]
            \/ \E t \in Callers : pc'[t] = "rend" /\ call'[t] = sent'[e][k]
        BY DEF Answered, Returned
      <3>2. \/ \E r \in results' : r[1] = b
            \/ \E t \in Callers : pc'[t] = "rend" /\ call'[t] = b
        BY <2>1, <3>1
      <3>3. QED
        BY <2>3, <3>2, AnsweredBefore
    <2>5. e = Peer(End(t))
      <3>1. call[t].by = t
        BY <2>4, ReadArgsEffect, ThreadKinds DEF ServiceInv, CallInv, Waiting
      <3>2. End(t) = Peer(e)
        BY <1>1, <2>4, <3>1 DEF ServiceInv, SentInv, Accounted
      <3>3. QED
        BY <3>2, EndFacts
    <2>6. QED
      BY <1>1, <2>4, <2>5, ReadOnce
  <1>2. CASE k \notin 1 .. Len(sent[e])
    <2>1. sent'[e] # sent[e]
      BY <1>2
    <2>2. PICK t \in Callers : WriteEndSend(t) /\ Peer(End(t)) = e
      BY <2>1, SentSteps
    <2>3. /\ Len(sent'[e]) = Len(sent[e]) + 1 /\ sent'[e][Len(sent[e]) + 1] = call[t]
          /\ pc[t] = "wbuild" /\ call[t].by = t /\ results' = results /\ call' = call
          /\ pc'[t] # "rend" /\ \A u \in Callers : u # t => pc'[u] = pc[u]
      <3>1. t \in Threads /\ t \notin Dispatchers
        BY ThreadKinds
      <3>2. pc'[t] \in {"ready", "wret"}
        BY <2>2, <3>1, SendEffect DEF AfterWrite
      <3>3. \A u \in Callers : u # t => pc'[u] = pc[u]
        <4>1. \A u \in Threads : u # t => pc'[u] = pc[u]
          BY <2>2, <3>1, SendEffect
        <4>2. QED
          BY <4>1, ThreadKinds
      <3>4. QED
        BY <2>2, <3>1, <3>2, <3>3, SendEffect, NewRequest
    <2>4. sent'[e][k] = call[t]
      <3>1. k = Len(sent[e]) + 1
        BY <1>2, <1>a, <2>3
      <3>2. QED
        BY <2>3, <3>1
    <2>5. ASSUME NEW r \in results, r[1] = call[t] PROVE FALSE
      <3>1. r[1].n < call[t].n
        BY <2>3, <2>5 DEF ServiceInv, ResultInv
      <3>2. call[t].n \in Nat
        <4>1. call[t] \in Call
          BY StateTypes
        <4>2. QED
          BY <4>1 DEF Call
      <3>3. QED
        BY <2>5, <3>1, <3>2
    <2>6. ASSUME NEW u \in Callers, pc'[u] = "rend", call[u] = call[t] PROVE FALSE
      <3>1. u # t /\ pc[u] = "rend"
        BY <2>3, <2>6
      <3>2. call[u].by = u
        BY <3>1 DEF ServiceInv, CallInv
      <3>3. QED
        BY <2>3, <2>6, <3>1, <3>2
    <2>7. QED
      BY <2>3, <2>4, <2>5, <2>6 DEF Answered, Returned
  <1>3. QED
    BY <1>1, <1>2

\* The response a thread waits for is to come.
LEMMA NextLossInv ==
  ASSUME IInv, ServiceInv, LossInv, [Next]_vars
  PROVE  LossInv'
  <1> SUFFICES ASSUME NEW t \in Callers, alive'[End(t)], pc'[t] \in Waiting
               PROVE  LossAt(t)'
    BY DEF LossInv, End
  <1> DEFINE e == Peer(End(t))
  <1>a. /\ t \in Threads /\ t \notin Dispatchers /\ End(t) \in Ends /\ e \in Ends
        /\ Peer(e) = End(t) /\ e = Peer(End(t))
    BY EndFacts, ThreadKinds
  <1>l. alive[End(t)]
    BY <1>a, AliveSteps
  <1>b. /\ call'[t] = call[t] /\ call[t].by = t
        /\ pc[t] \in Waiting \union {"wbuild"}
    <2>1. call'[t] = call[t] /\ pc[t] \in Waiting \union {"wbuild"}
      BY WaitingSteps DEF Waiting
    <2>2. QED
      BY <2>1 DEF ServiceInv, CallInv
  <1>c. /\ \A i \in 1 .. Len(sent[e]) : i \in 1 .. Len(sent'[e]) /\ sent'[e][i] = sent[e][i]
        /\ Len(sent[e]) \in Nat /\ Len(sent'[e]) \in Nat
    BY <1>a, SentGrows
  <1>d. ASSUME t \in Apps => \E k \in 1 .. Len(sent'[e]) : sent'[e][k] = call[t],
               \A k \in 1 .. Len(sent'[e]) :
                 sent'[e][k] = call[t] =>
                   Pending(e, k)' \/ call[t].op = "cudaGraphAddKernelNode"
        PROVE  LossAt(t)'
    BY <1>a, <1>b, <1>d DEF LossAt, Peer, End
  <1>e. LossAt(t) => /\ t \in Apps => \E k \in 1 .. Len(sent[e]) : sent[e][k] = call[t]
                     /\ \A k \in 1 .. Len(sent[e]) :
                          sent[e][k] = call[t] =>
                            Pending(e, k) \/ call[t].op = "cudaGraphAddKernelNode"
    BY <1>a DEF LossAt
  <1> HIDE DEF e
  <1>1. CASE pc[t] \in Waiting
    <2>1. LossAt(t)
      BY <1>1, <1>l DEF LossInv
    <2>2. t \in Apps => \E k \in 1 .. Len(sent'[e]) : sent'[e][k] = call[t]
      BY <1>c, <1>e, <2>1
    <2>3. ASSUME NEW k \in 1 .. Len(sent'[e]), sent'[e][k] = call[t],
                 call[t].op # "cudaGraphAddKernelNode"
          PROVE  Pending(e, k)'
      <3>1. CASE k \in 1 .. Len(sent[e])
        <4>1. sent[e][k] = call[t] /\ Pending(e, k)
          BY <1>c, <1>e, <2>1, <2>3, <3>1
        <4>2. QED
          BY <1>1, <1>a, <1>l, <2>3, <3>1, <4>1, PendingKept
      <3>2. CASE k \notin 1 .. Len(sent[e])
        <4>1. sent'[e] # sent[e]
          BY <3>2
        <4>2. PICK u \in Callers : WriteEndSend(u) /\ Peer(End(u)) = e
          BY <1>a, <4>1, SentSteps
        <4>3. /\ Len(sent'[e]) = Len(sent[e]) + 1
              /\ sent'[e][Len(sent[e]) + 1] = call[u]
              /\ pc[u] = "wbuild" /\ call[u].by = u
          BY <4>2, ThreadKinds, SendEffect, NewRequest
        <4>4. k = Len(sent[e]) + 1
          BY <1>c, <3>2, <4>3
        <4>5. u = t
          BY <1>b, <2>3, <4>3, <4>4
        <4>6. QED
          BY <1>1, <4>3, <4>5 DEF Waiting
      <3>3. QED
        BY <3>1, <3>2
    <2>4. QED
      BY <1>d, <2>2, <2>3
  <1>2. CASE pc[t] = "wbuild"
    <2>1. ASSUME NEW k \in 1 .. Len(sent[e]), sent[e][k] = call[t] PROVE FALSE
      BY <1>2, <1>a, <1>b, <2>1, LaterCall
    <2>2. CASE WriteEndSend(t)
      <3>1. Len(sent'[e]) = Len(sent[e]) + 1 /\ sent'[e][Len(sent[e]) + 1] = call[t]
        BY <1>a, <2>2, SendEffect
      <3>2. ASSUME NEW k \in 1 .. Len(sent'[e]), sent'[e][k] = call[t]
            PROVE  Pending(e, k)'
        <4>1. k = Len(sent[e]) + 1
          BY <1>c, <2>1, <3>1, <3>2
        <4>2. k > Taken(e)'
          BY <1>a, <2>2, <4>1, NewPending
        <4>3. QED
          BY <4>2 DEF Pending
      <3>3. Len(sent[e]) + 1 \in 1 .. Len(sent'[e])
        BY <1>c, <3>1
      <3>4. QED
        BY <1>d, <3>1, <3>2, <3>3
    <2>3. CASE WriteEndSuppressed(t)
      <3>1. sent' = sent /\ suppress_response[End(t)]
        BY <2>3 DEF WriteEndSuppressed, history
      <3>2. t \notin Apps
        BY <3>1 DEF ServiceInv, SuppressInv, End
      <3>3. QED
        BY <1>d, <2>1, <3>1, <3>2
    <2>4. QED
      BY <1>2, <2>2, <2>3, WaitingSteps DEF Waiting
  <1>3. QED
    BY <1>1, <1>2, <1>b

\* Without host functions the server calls nobody.
LEMMA ClientNotCalled ==
  ASSUME IInv, ServiceInv, Callbacks = {}
  PROVE  /\ Len(sent["client"]) = 0
         /\ pc["clientDispatch"] \notin {"rend", "exec", "wlock", "wbuild"}
  <1>a. /\ "client" \in Ends /\ Peer("client") = "server"
        /\ Dispatcher("client") = "clientDispatch"
    BY DEF Ends, Peer, Dispatcher
  <1>b. /\ sent["client"] \in Seq(Call) /\ executed["client"] \in Seq(Call)
        /\ Len(sent["client"]) \in Nat /\ Len(executed["client"]) \in Nat
    BY <1>a, StateTypes
  <1>1. \A t \in Callers : End(t) = "client"
    BY DEF Callers, End
  <1>2. ASSUME Len(sent["client"]) > 0 PROVE FALSE
    <2>1. 1 \in 1 .. Len(sent["client"])
      BY <1>b, <1>2
    <2>2. /\ sent["client"][1].by \in Callers
          /\ End(sent["client"][1].by) = "server"
      BY <1>a, <2>1 DEF ServiceInv, SentInv, Accounted
    <2>3. QED
      BY <1>1, <2>2
  <1>3. ExecutedAt("client")
    BY <1>a DEF ServiceInv, ExecutedInv
  <1>4. Taken("client") <= 0
    BY <1>a, <1>b, <1>2, <1>3 DEF ExecutedAt
  <1>5. QED
    BY <1>a, <1>b, <1>2, <1>3, <1>4 DEF ExecutedAt, Taken

\* A thread that has the connection to itself waits for its own call.
LEMMA NextSoleInv ==
  ASSUME IInv, ServiceInv, SoleInv, [Next]_vars
  PROVE  SoleInv'
  <1> SUFFICES ASSUME Callbacks = {}, NEW t \in Apps, Apps = {t}, pc'[t] \in Waiting
               PROVE  SoleAt(t)'
    BY DEF SoleInv
  <1>a. /\ t \in Callers /\ t \in Threads /\ Callers = {t} /\ End(t) = "client"
        /\ Peer("client") = "server" /\ "client" \in Ends /\ "server" \in Ends
        /\ t \notin Dispatchers
    BY ThreadKinds DEF Callers, End, Peer, Ends
  <1>b. call'[t] = call[t]
    BY <1>a, WaitingSteps
  <1>c. Len(sent["server"]) \in Nat
    BY <1>a, StateTypes
  <1>d. /\ Ticket(t) = IF pc[t] = "wret" THEN write_id["client"] ELSE rid[t]
        /\ Ticket(t)' = IF pc'[t] = "wret" THEN write_id'["client"] ELSE rid'[t]
    BY <1>a DEF Ticket, End
  <1>1. CASE pc[t] \in Waiting
    <2>1. SoleAt(t)
      BY <1>1 DEF SoleInv
    <2>2. sent'["server"] = sent["server"]
      <3>1. ASSUME NEW u \in Callers, WriteEndSend(u) PROVE FALSE
        BY <3>1, <1>1, <1>a DEF WriteEndSend, At, Waiting
      <3>2. QED
        BY <1>a, <3>1, SentSteps
    <2>3. write_id'["client"] = write_id["client"]
      <3>1. ASSUME NEW u \in Callers, StartRequest(u) PROVE FALSE
        BY <3>1, <1>1, <1>a DEF StartRequest, At, Waiting
      <3>2. ASSUME NEW d \in Dispatchers, StartResponse(d), End(d) = "client"
            PROVE  FALSE
        <4>1. d = "clientDispatch" /\ pc[d] = "wlock"
          BY <3>2, EndFacts DEF StartResponse, At, Dispatcher
        <4>2. QED
          BY <4>1, ClientNotCalled
      <3>3. QED
        BY <1>a, <3>1, <3>2, HeaderSteps
    <2>4. Ticket(t)' = Ticket(t)
      <3>1. ASSUME pc'[t] = pc[t] \/ (pc[t] \in {"rlock", "wait"} /\ pc'[t] \in {"rlock", "wait"}),
                   rid'[t] = rid[t]
            PROVE  Ticket(t)' = Ticket(t)
        BY <1>d, <2>3, <3>1
      <3>2. CASE WriteEndReturn(t)
        <4>1. pc[t] = "wret" /\ pc'[t] = "rlock" /\ rid'[t] = write_id["client"]
          BY <1>a, <3>2, StateTypes DEF WriteEndReturn, At
        <4>2. QED
          BY <1>d, <4>1
      <3>3. CASE ReadLock(t)
        <4>1. pc[t] = "rlock" /\ pc'[t] = "args" /\ rid' = rid
          BY <1>a, <3>3, StateTypes DEF ReadLock, At, OnTurn, local
        <4>2. QED
          BY <1>d, <4>1
      <3>4. QED
        BY <1>1, <1>a, <3>1, <3>2, <3>3, WaitingSteps DEF Waiting
    <2>5. QED
      BY <1>b, <2>1, <2>2, <2>4 DEF SoleAt, Serial, Parity
  <1>2. CASE WriteEndSend(t)
    <2>1. /\ Len(sent'["server"]) = Len(sent["server"]) + 1
          /\ sent'["server"][Len(sent["server"]) + 1] = call[t]
          /\ write_id' = write_id /\ pc'[t] = AfterWrite(t)
      <3>1. Peer(End(t)) = "server"
        BY <1>a
      <3>2. QED
        BY <1>2, <1>a, <3>1, SendEffect
    <2>2. Ticket(t)' = Serial("server", Len(sent["server"]) + 1)
      <3>1. pc'[t] = "wret"
        BY <1>a, <2>1 DEF AfterWrite, Waiting
      <3>2. write_id["client"] = Serial("server", Len(sent["server"]) + 1)
        BY <1>2, <1>a, NewRequest
      <3>3. QED
        BY <1>d, <2>1, <3>1, <3>2
    <2>3. QED
      BY <1>b, <1>c, <2>1, <2>2 DEF SoleAt, Serial, Parity
  <1>3. CASE WriteEndSuppressed(t)
    BY <1>3, <1>a DEF WriteEndSuppressed, ServiceInv, SuppressInv
  <1>4. QED
    BY <1>1, <1>2, <1>3, <1>a, WaitingSteps DEF Waiting

\* The course of a call, whatever other threads do in the meantime: it is sent in
\* its turn, its answer is to come until it is read, and it is read once
\* (rpc.cpp:70-93, 159-176, server.cpp:278-289).
THEOREM CourseInvariance ==
  ASSUME OneCallback, Responsive
  PROVE  Spec => []CourseInv
  <1>1. ASSUME Init PROVE CourseInv
    <2>1. /\ \A t \in Callers : pc[t] \in {"ready", "idle"}
          /\ \A e \in Ends : Len(sent[e]) = 0
      BY <1>1, ThreadKinds DEF Init, Callers
    <2>2. SeqInv /\ AnswerInv
      BY <2>1 DEF SeqInv, AnswerInv
    <2>3. \A t \in Callers : pc[t] \notin Waiting
      BY <2>1 DEF Waiting
    <2>4. LossInv /\ SoleInv
      BY <2>3 DEF LossInv, SoleInv, Callers
    <2>5. QED
      BY <2>2, <2>4 DEF CourseInv
  <1>2. IInv /\ ServiceInv /\ CourseInv /\ [Next]_vars => CourseInv'
    BY NextSeqInv, NextAnswerInv, NextLossInv, NextSoleInv DEF CourseInv
  <1>3. QED
    BY <1>1, <1>2, Invariance, ServiceInvariance, PTL DEF Spec

\* The response at the head of a stream finds its thread.
LEMMA ReaderOfReply ==
  ASSUME IInv, ServiceInv, CourseInv, NEW e \in Ends,
         wire[e] # <<>>, wire[e][1].op = Reply
  PROVE  LET c == wire[e][1].body
             p == Peer(e)
         IN  \E k \in 1 .. Len(sent[p]) :
               /\ wire[e][1].id = Serial(p, k) /\ sent[p][k] = c
               /\ \/ c.op \in Async
                  \/ \E t \in Callers : call[t] = c /\ pc[t] \in Waiting /\ End(t) = e
  <1> DEFINE p == Peer(e)
  <1>a. p \in Ends /\ Peer(p) = e /\ p = Peer(e)
    BY EndFacts
  <1>b. /\ Len(wire[e]) \in Nat /\ 1 \in 1 .. Len(wire[e])
        /\ Len(sent[p]) \in Nat /\ Len(executed[p]) \in Nat
    <2>1. wire[e] \in Seq(Frame) /\ sent[p] \in Seq(Call) /\ executed[p] \in Seq(Call)
      BY <1>a, StateTypes
    <2>2. QED
      BY <2>1
  <1> HIDE DEF p
  <1>1. PICK k \in 1 .. Len(executed[p]) :
          wire[e][1].id = Serial(p, k) /\ wire[e][1].body = sent[p][k]
    BY <1>a, <1>b DEF ServiceInv, ReplyInv, ReplyAt
  <1>2. k \in 1 .. Len(sent[p])
    <2>1. Taken(p) <= Len(sent[p])
      BY <1>a DEF ServiceInv, ExecutedInv, ExecutedAt
    <2>2. QED
      BY <1>b, <2>1 DEF Taken
  <1>3. Pending(p, k)
    BY <1>a, <1>b, <1>1 DEF Pending
  <1>4. ~Answered(sent[p][k])
    BY <1>a, <1>2, <1>3 DEF CourseInv, AnswerInv
  <1>5. Accounted(p, sent[p][k])
    BY <1>a, <1>2 DEF ServiceInv, SentInv
  <1>6. QED
    BY <1>a, <1>1, <1>2, <1>4, <1>5 DEF Accounted, Answered

-----------------------------------------------------------------------------
(* That asynchronous calls have no response where no host functions run.   *)

\* Then the flag stays set until the handler of an asynchronous call is done.
FlagInv ==
  /\ Callbacks = {}
  /\ pc["serverHandler"] \in {"args", "rend", "exec", "wlock", "wbuild"}
  /\ op["serverHandler"] \in Async
  => suppress_response["server"]
AsyncInv ==
  CallInv /\ SuppressInv /\ OpInv /\ FlagInv /\ (Callbacks = {} => NoResponseToAsync)

\* A stub sends the opcode of its call.
LEMMA NextOpInv ==
  ASSUME IInv, CallInv, OpInv, [Next]_vars
  PROVE  OpInv'
  <1> SUFFICES ASSUME NEW e \in Ends, NEW i \in 1 .. Len(wire'[e]),
                      wire'[e][i].op # Reply
               PROVE  wire'[e][i].body.op = wire'[e][i].op
    BY DEF OpInv
  <1>a. wire[e] \in Seq(Frame) /\ Len(wire[e]) \in Nat
    BY StateTypes
  <1>1. CASE wire'[e] = wire[e]
    BY <1>1 DEF OpInv
  <1>2. ASSUME NEW t \in Threads, WriteEndSend(t), Peer(End(t)) = e
        PROVE  wire'[e][i].body.op = wire'[e][i].op
    <2>1. /\ t \in Callers \union Dispatchers /\ pc[t] = "wbuild"
          /\ Len(wire'[e]) = Len(wire[e]) + 1
          /\ \A j \in 1 .. Len(wire[e]) : wire'[e][j] = wire[e][j]
          /\ wire'[e][Len(wire[e]) + 1] =
               [id |-> write_id[End(t)], op |-> write_op[End(t)], body |-> Payload(t)]
      BY <1>2, SendEffect
    <2>2. CASE i \in 1 .. Len(wire[e])
      BY <2>1, <2>2 DEF OpInv
    <2>3. CASE i \notin 1 .. Len(wire[e])
      <3>1. i = Len(wire[e]) + 1
        BY <1>a, <2>1, <2>3
      <3>2. t \in Callers
        BY <2>1, <3>1 DEF IInv, BuildInv
      <3>3. QED
        BY <2>1, <3>1, <3>2 DEF CallInv, Payload
    <2>4. QED
      BY <2>2, <2>3
  <1>3. ASSUME NEW t \in Threads, ReadArgs(t), End(t) = e
        PROVE  wire'[e][i].body.op = wire'[e][i].op
    <2>1. i + 1 \in 2 .. Len(wire[e]) /\ wire'[e][i] = wire[e][i + 1]
      BY <1>3, ReadArgsEffect
    <2>2. QED
      BY <1>a, <2>1 DEF OpInv
  <1>4. QED
    BY <1>1, <1>2, <1>3, StreamSteps

\* Who sets the flag, or comes to answer a request.
LEMMA FlagSteps ==
  ASSUME IInv, SuppressInv, Callbacks = {}, [Next]_vars, NEW d, d = "serverHandler",
         pc'[d] \in {"args", "rend", "exec", "wlock", "wbuild"}
  PROVE  \/ suppress_response'["server"] = (op'[d] \in Async)
         \/ /\ suppress_response'["server"] = suppress_response["server"]
            /\ op'[d] = op[d]
            /\ pc[d] \in {"args", "rend", "exec", "wlock", "wbuild"}
  <1>a. /\ d \in Dispatchers /\ d \in Threads /\ d \notin Callers /\ d \notin Readers
        /\ End(d) = "server" /\ "server" \in Ends /\ "client" \in Ends
        /\ d # "clientDispatch" /\ Callers \subseteq Threads
    BY CallersAssumption DEF Dispatchers, Threads, Callers, Readers, End, Ends
  <1>b. /\ pc \in [Threads -> PCs] /\ op \in [Dispatchers -> Ops \union {Reply}]
        /\ suppress_response \in [Ends -> BOOLEAN]
    BY StateTypes
  <1>c. \A t \in Callers \union Dispatchers : t # d => End(t) = "client"
    BY <1>a DEF Callers, Dispatchers, End
  <1>d. ~suppress_response["client"]
    BY DEF SuppressInv
  <1> DEFINE Kept == /\ suppress_response'["server"] = suppress_response["server"]
                     /\ op'[d] = op[d]
                     /\ pc[d] \in {"args", "rend", "exec", "wlock", "wbuild"}
  <1> USE <1>a, <1>b, EndFacts, ThreadKinds DEF At
  <1>1. ASSUME NEW t \in Threads, StartRequest(t) PROVE Kept
    BY <1>1 DEF StartRequest
  <1>2. ASSUME NEW t \in Threads, StartResponse(t) PROVE Kept
    BY <1>2 DEF StartResponse, local
  <1>3. ASSUME NEW t \in Threads, WriteEndSuppressed(t) PROVE Kept
    <2>1. t \in Callers \union Dispatchers /\ suppress_response[End(t)]
      BY <1>3 DEF WriteEndSuppressed
    <2>2. t = d
      BY <1>c, <1>d, <2>1
    <2>3. pc'[d] = "spawn"
      BY <1>3, <2>2 DEF WriteEndSuppressed, AfterWrite
    <2>4. QED
      BY <2>3
  <1>4. ASSUME NEW t \in Threads, WriteEndSend(t) PROVE Kept
    BY <1>4 DEF WriteEndSend, local, AfterWrite
  <1>5. ASSUME NEW t \in Threads, WriteEndBroken(t) PROVE Kept
    BY <1>5 DEF WriteEndBroken, conn, local
  <1>6. ASSUME NEW t \in Threads, WriteEndReturn(t) PROVE Kept
    BY <1>6 DEF WriteEndReturn, conn
  <1>7. ASSUME NEW t \in Threads, AbandonRequest(t) PROVE Kept
    BY <1>7 DEF AbandonRequest, conn, local, Callers
  <1>7e. ASSUME NEW t \in Threads, WriteEndError(t) PROVE Kept
    BY <1>7e DEF WriteEndError, AfterError, conn, local, Callers
  <1>8. ASSUME NEW t \in Threads, ReadLock(t) PROVE Kept
    BY <1>8 DEF ReadLock, OnTurn, local
  <1>9. ASSUME NEW t \in Threads, ReadWait(t) PROVE Kept
    BY <1>9 DEF ReadWait, conn, local
  <1>10. ASSUME NEW t \in Threads, ReaderRecv(t) PROVE Kept
    BY <1>10 DEF ReaderRecv, Broadcast, local
  <1>11. ASSUME NEW t \in Threads, ReaderEOF(t) PROVE Kept
    BY <1>11 DEF ReaderEOF, local
  <1>12. ASSUME NEW t \in Threads, ReaderExit(t) PROVE Kept
    BY <1>12 DEF ReaderExit, conn, local
  <1>13. ASSUME NEW t \in Threads, ReadArgs(t) PROVE Kept
    BY <1>13 DEF ReadArgs, conn
  <1>14. ASSUME NEW t \in Threads, ReadEnd(t) PROVE Kept
    BY <1>14 DEF ReadEnd, Broadcast
  <1>15. ASSUME NEW t \in Threads, DispatchSpawn(t) PROVE Kept
    BY <1>15 DEF DispatchSpawn, conn, local
  <1>16. ASSUME NEW t \in Threads, DispatchOp(t) PROVE Kept
    <2>1. t # d
      BY <1>16 DEF DispatchOp
    <2>2. QED
      BY <1>16, <2>1 DEF DispatchOp, conn
  <1>17. ASSUME NEW t \in Threads, SetSuppress(t) PROVE suppress_response'["server"] = (op'[d] \in Async)
    BY <1>17 DEF SetSuppress, local
  <1>18. ASSUME NEW t \in Threads, Execute(t) PROVE Kept
    BY <1>18, ExecuteEffect DEF conn, local
  <1>19. ASSUME NEW t \in Threads, InvokeHostFunc(t) PROVE Kept
    BY <1>19 DEF InvokeHostFunc, conn, local
  <1>20. ASSUME NEW e \in Ends, Die(e) PROVE Kept
    BY <1>20 DEF Die, conn, local
  <1>21. CASE UNCHANGED vars
    BY <1>21 DEF vars, conn, local
  <1>22. QED
    BY <1>1, <1>2, <1>3, <1>4, <1>5, <1>6, <1>7, <1>7e, <1>8, <1>9, <1>10, <1>11, <1>12,
       <1>13, <1>14, <1>15, <1>16, <1>17, <1>18, <1>19, <1>20, <1>21
       DEF Next, Progress

\* The handler that writes a response has not been told to suppress it.
LEMMA NextNoResponse ==
  ASSUME IInv, SuppressInv, FlagInv, Callbacks = {}, NoResponseToAsync, [Next]_vars
  PROVE  NoResponseToAsync'
  <1> SUFFICES ASSUME NEW i \in 1 .. Len(wire'["client"]), wire'["client"][i].op = Reply
               PROVE  wire'["client"][i].body.op \notin Async
    BY DEF NoResponseToAsync
  <1>a. "client" \in Ends /\ wire["client"] \in Seq(Frame) /\ Len(wire["client"]) \in Nat
    BY StateTypes DEF Ends
  <1>1. CASE wire'["client"] = wire["client"]
    BY <1>1 DEF NoResponseToAsync
  <1>2. ASSUME NEW t \in Threads, WriteEndSend(t), Peer(End(t)) = "client"
        PROVE  wire'["client"][i].body.op \notin Async
    <2>1. /\ t \in Callers \union Dispatchers /\ pc[t] = "wbuild"
          /\ ~suppress_response[End(t)]
          /\ Len(wire'["client"]) = Len(wire["client"]) + 1
          /\ \A j \in 1 .. Len(wire["client"]) : wire'["client"][j] = wire["client"][j]
          /\ wire'["client"][Len(wire["client"]) + 1] =
               [id |-> write_id[End(t)], op |-> write_op[End(t)], body |-> Payload(t)]
      BY <1>2, SendEffect
    <2>2. CASE i \in 1 .. Len(wire["client"])
      BY <2>1, <2>2 DEF NoResponseToAsync
    <2>3. CASE i \notin 1 .. Len(wire["client"])
      <3>1. t = "serverHandler" /\ End(t) = "server" /\ t \in Dispatchers
        BY <1>2, <2>1, CallersAssumption
           DEF Peer, End, Callers, Dispatchers, Readers
      <3>2. op[t] = arg[t].op /\ op[t] \notin Async
        BY <2>1, <3>1 DEF SuppressInv, FlagInv
      <3>3. Payload(t) = arg[t]
        BY <3>1, ThreadKinds DEF Payload
      <3>4. i = Len(wire["client"]) + 1
        BY <1>a, <2>1, <2>3
      <3>5. QED
        BY <2>1, <3>2, <3>3, <3>4
    <2>4. QED
      BY <2>2, <2>3
  <1>3. ASSUME NEW t \in Threads, ReadArgs(t), End(t) = "client"
        PROVE  wire'["client"][i].body.op \notin Async
    <2>1. i + 1 \in 2 .. Len(wire["client"]) /\ wire'["client"][i] = wire["client"][i + 1]
      BY <1>3, ReadArgsEffect
    <2>2. QED
      BY <1>a, <2>1 DEF NoResponseToAsync
  <1>4. QED
    BY <1>a, <1>1, <1>2, <1>3, StreamSteps

\* The flag and the opcode of a handler belong to the request it answers
\* (server.cpp:278-289, rpc.cpp:159-167).
THEOREM AsyncInvariance == Spec => []AsyncInv
  <1>1. ASSUME Init PROVE AsyncInv
    <2>1. /\ \A t \in Callers : pc[t] \in {"ready", "idle"}
          /\ \A d \in Dispatchers : pc[d] = "spawn"
          /\ \A e \in Ends : Len(wire[e]) = 0 /\ ~suppress_response[e]
      BY <1>1, ThreadKinds DEF Init, Callers
    <2>2. CallInv
      BY <2>1 DEF CallInv, Waiting
    <2>3. QED
      BY <2>1, <2>2 DEF AsyncInv, SuppressInv, OpInv, FlagInv, NoResponseToAsync, Ends,
         Dispatchers
  <1>2. ASSUME IInv, AsyncInv, [Next]_vars PROVE AsyncInv'
    <2>1. CallInv' /\ SuppressInv' /\ OpInv'
      BY <1>2, NextCallInv, NextSuppressInv, NextOpInv DEF AsyncInv
    <2>2. FlagInv'
      BY <1>2, FlagSteps DEF AsyncInv, FlagInv
    <2>3. QED
      BY <1>2, <2>1, <2>2, NextNoResponse DEF AsyncInv
  <1>3. QED
    BY <1>1, <1>2, Invariance, PTL DEF Spec

\* Where no host functions run a call sent with RPC_ASYNC_BIT has no response, for
\* any number of threads and calls (rpc.h:7-8, server.cpp:278-289).
THEOREM AsyncUnanswered ==
  ASSUME Callbacks = {}
  PROVE  Spec => []NoResponseToAsync
  <1>1. AsyncInv => NoResponseToAsync
    BY DEF AsyncInv
  <1>2. QED
    BY <1>1, AsyncInvariance, PTL

-----------------------------------------------------------------------------
(* That the connection does not stand still.                               *)

\* A process that runs does not leave unread what has arrived (rpc.cpp:12-47,
\* 70-104, 164-176).
THEOREM NobodyStandsStill ==
  ASSUME OneCallback, Responsive
  PROVE  Spec => []ReadingGoesOn
  <1>1. ASSUME IInv, ServiceInv, MoveInv, CourseInv, AsyncInv PROVE ReadingGoesOn
    <2> SUFFICES ASSUME NEW e \in Ends, alive[e], wire[e] # <<>>
                 PROVE
      IF readOwner[e] # NoThread
        THEN pc[readOwner[e]] \in {"recv", "op", "flag", "args", "rend"}
      ELSE IF read_id[e] = 0
        THEN pc[Reader(e)] = "rlock" \/ pc[Dispatcher(e)] = "spawn"
      ELSE IF Head(wire[e]).op # Reply THEN pc[Dispatcher(e)] # "wait"
      ELSE LET c == Head(wire[e]).body
           IN  \/ c.op \in Async /\ Callbacks # {}
               \/ \E t \in Callers :
                    /\ call[t] = c /\ pc[t] \in {"wret", "rlock", "wait"}
                    /\ IF Ticket(t) = read_id[e] THEN pc[t] # "wait"
                       ELSE Apps # {t} \/ Callbacks # {}
      BY DEF ReadingGoesOn, Readable
    <2>a. /\ Reader(e) \in Threads /\ Dispatcher(e) \in Threads /\ Peer(e) \in Ends
          /\ End(Reader(e)) = e /\ End(Dispatcher(e)) = e /\ Reader(e) \in Readers
          /\ Dispatcher(e) \in Dispatchers /\ Reader(e) \notin Callers
          /\ Dispatcher(e) \notin Callers \union Readers
          /\ Callers \subseteq Threads
      BY EndFacts, ThreadKinds
    <2>b. /\ Head(wire[e]) = wire[e][1] /\ 1 \in 1 .. Len(wire[e])
      BY <1>1, ItemFacts DEF IInv
    <2>c. pc[Reader(e)] \in ReaderPC
      BY <1>1, <2>a DEF IInv, TypeOK, PcOK, Places
    <2>1. CASE readOwner[e] # NoThread
      BY <1>1, <2>1 DEF MoveInv, HeldInv, ReadCS
    <2>2. CASE readOwner[e] = NoThread /\ read_id[e] = 0
      <3>1. pc[Reader(e)] # "recv"
        BY <1>1, <2>2, <2>a, ThreadKinds DEF IInv, LockInv, ReadCS
      <3>2. pc[Reader(e)] # "wait"
        BY <1>1, <2>2, <2>a DEF MoveInv, WakeInv, Turn
      <3>3. pc[Reader(e)] \in {"off", "exit"} => pc[Dispatcher(e)] = "spawn"
        BY <1>1 DEF MoveInv, ReaderInv, EOF, Readable
      <3>4. QED
        BY <2>2, <2>c, <3>1, <3>2, <3>3 DEF ReaderPC
    <2>3. ASSUME readOwner[e] = NoThread, read_id[e] # 0
          PROVE  wire[e][1].id = read_id[e]
      BY <1>1, <2>3, ThreadKinds DEF IInv, StreamInv, StreamAt, Fresh
    <2>4. CASE readOwner[e] = NoThread /\ read_id[e] # 0 /\ wire[e][1].op # Reply
      <3>1. FrameInv(e, wire[e][1])
        BY <1>1, <2>b DEF IInv, OrderInv
      <3>2. read_id[e] >= 2 /\ read_id[e] % 2 = Parity(e)
        BY <2>3, <2>4, <3>1, EndFacts DEF FrameInv, RequestId
      <3>3. pc[Dispatcher(e)] # "wait"
        BY <1>1, <2>a, <3>2 DEF MoveInv, WakeInv, Turn
      <3>4. QED
        BY <2>4, <2>b, <3>3
    <2>5. CASE readOwner[e] = NoThread /\ read_id[e] # 0 /\ wire[e][1].op = Reply
      <3> DEFINE c == wire[e][1].body
                 p == Peer(e)
      <3>1. PICK k \in 1 .. Len(sent[p]) :
              /\ wire[e][1].id = Serial(p, k) /\ sent[p][k] = c
              /\ \/ c.op \in Async
                 \/ \E t \in Callers : call[t] = c /\ pc[t] \in Waiting /\ End(t) = e
        BY <1>1, <2>5, ReaderOfReply
      <3>2. CASE c.op \in Async
        <4>1. ASSUME Callbacks = {} PROVE FALSE
          <5>1. e = "client"
            <6>1. Accounted(p, sent[p][k])
              BY <1>1, <2>a, <3>1 DEF ServiceInv, SentInv
            <6>2. sent[p][k].by \in Apps /\ End(sent[p][k].by) = Peer(p)
              BY <4>1, <6>1 DEF Accounted, Callers
            <6>3. QED
              BY <6>2, EndFacts DEF End
          <5>2. NoResponseToAsync
            BY <1>1, <4>1 DEF AsyncInv
          <5>3. QED
            BY <2>5, <2>b, <3>2, <5>1, <5>2 DEF NoResponseToAsync
        <4>2. QED
          BY <2>5, <2>b, <3>2, <4>1
      <3>3. ASSUME NEW t \in Callers, call[t] = c, pc[t] \in Waiting, End(t) = e
            PROVE  /\ pc[t] \in {"wret", "rlock", "wait"}
                   /\ IF Ticket(t) = read_id[e] THEN pc[t] # "wait"
                      ELSE Apps # {t} \/ Callbacks # {}
        <4>1. pc[t] # "args"
          BY <1>1, <2>5, <2>a, <3>3, ThreadKinds DEF IInv, LockInv, ReadCS
        <4>2. Ticket(t) = read_id[e] => pc[t] # "wait"
          BY <1>1, <2>a, <3>3 DEF MoveInv, WakeInv, Turn, Ticket
        <4>3. ASSUME Apps = {t}, Callbacks = {} PROVE Ticket(t) = read_id[e]
          <5>1. SoleAt(t)
            BY <1>1, <3>3, <4>3 DEF CourseInv, SoleInv
          <5>2. e = "client" /\ p = "server" /\ p \in Ends
            BY <3>3, <4>3 DEF End, Peer, Ends
          <5>3. sent["server"] \in Seq(Call) /\ call[t] \in Call
            BY <1>1, <5>2, StateTypes
          <5>4. k = Len(sent["server"])
            <6>1. ~(k < Len(sent["server"]))
              BY <1>1, <3>1, <3>3, <5>1, <5>2, <5>3
                 DEF CourseInv, SeqInv, SoleAt, Call
            <6>2. QED
              BY <5>2, <5>3, <6>1
          <5>5. QED
            BY <2>3, <2>5, <3>1, <5>1, <5>2, <5>4 DEF SoleAt
        <4>4. QED
          BY <3>3, <4>1, <4>2, <4>3 DEF Waiting
      <3>4. QED
        BY <2>5, <2>b, <3>1, <3>2, <3>3
    <2>6. QED
      BY <2>1, <2>2, <2>4, <2>5
  <1>2. QED
    BY <1>1, Invariance, ServiceInvariance, MoveInvariance, CourseInvariance,
       AsyncInvariance, PTL

\* The call whose response a caller waits for is not lost (rpc.cpp:159-176,
\* server.cpp:278-289, manual_server.cpp:261-263).
THEOREM CallsNotLost ==
  ASSUME OneCallback, Responsive
  PROVE  Spec => []NoCallLost
  <1>1. ASSUME IInv, ServiceInv, CourseInv PROVE NoCallLost
    <2> SUFFICES ASSUME NEW t \in Callers, alive[End(t)], pc[t] \in Waiting,
                        call[t].op # "cudaGraphAddKernelNode",
                        t \in Apps \/ \E k \in DOMAIN sent["client"] :
                                        sent["client"][k] = call[t]
                 PROVE  UnderWay(call[t], Peer(End(t)))
      BY DEF NoCallLost, Callers
    <2> DEFINE e == Peer(End(t))
    <2>a. /\ e \in Ends /\ End(t) \in Ends /\ Peer(e) = End(t) /\ e = Peer(End(t))
          /\ Dispatcher(e) \in Dispatchers
      BY EndFacts, ThreadKinds
    <2>b. /\ sent[e] \in Seq(Call) /\ executed[e] \in Seq(Call)
          /\ Len(sent[e]) \in Nat /\ Len(executed[e]) \in Nat
          /\ wire[e] \in Seq(Frame)
      BY <1>1, <2>a, StateTypes
    <2>c. LossAt(t)
      BY <1>1 DEF CourseInv, LossInv
    <2>d. t \notin Apps => e = "client"
      BY CallersAssumption DEF End, Peer, Callers, Readers, Dispatchers
    <2>1. PICK k \in 1 .. Len(sent[e]) : sent[e][k] = call[t]
      <3>1. CASE t \in Apps
        BY <2>a, <2>c, <3>1 DEF LossAt
      <3>2. CASE t \notin Apps
        BY <2>b, <2>d, <3>2
      <3>3. QED
        BY <3>1, <3>2
    <2>2. Pending(e, k)
      BY <2>a, <2>c, <2>1 DEF LossAt
    <2> HIDE DEF e
    <2>3. CASE k > Taken(e)
      <3>1. PICK i \in 1 .. Len(wire[e]) :
              wire[e][i].op # Reply /\ wire[e][i].id = Serial(e, k)
        <4>1. k \in Taken(e) + 1 .. Len(sent[e])
          BY <2>b, <2>3 DEF Taken
        <4>2. QED
          BY <1>1, <2>a, <4>1 DEF ServiceInv, RequestInv
      <3>2. PICK j \in 1 .. Len(sent[e]) :
              wire[e][i].id = Serial(e, j) /\ wire[e][i].body = sent[e][j]
        BY <1>1, <2>a, <3>1 DEF ServiceInv, RequestInv
      <3>3. j = k
        <4>1. Serial(e, j) = Serial(e, k) /\ j \in Nat /\ k \in Nat
          BY <3>1, <3>2
        <4>2. QED
          BY <2>a, <4>1, SerialFacts
      <3>4. QED
        BY <2>a, <2>1, <3>1, <3>2, <3>3 DEF UnderWay
    <2>4. CASE /\ k = Taken(e)
               /\ pc[Dispatcher(e)] \in {"rend", "exec", "wlock", "wbuild"}
      <3>1. ExecutedAt(e)
        BY <1>1, <2>a DEF ServiceInv, ExecutedInv
      <3>2. arg[Dispatcher(e)] = sent[e][k]
        BY <2>b, <2>4, <3>1 DEF ExecutedAt, Taken
      <3>3. QED
        BY <2>a, <2>1, <2>4, <3>2 DEF UnderWay
    <2>5. ASSUME NEW i \in 1 .. Len(wire[Peer(e)]),
                 wire[Peer(e)][i].op = Reply, wire[Peer(e)][i].id = Serial(e, k)
          PROVE  UnderWay(call[t], e)
      <3>1. PICK j \in 1 .. Len(executed[e]) :
              wire[Peer(e)][i].id = Serial(e, j) /\ wire[Peer(e)][i].body = sent[e][j]
        BY <1>1, <2>a, <2>5 DEF ServiceInv, ReplyInv, ReplyAt
      <3>2. j = k
        <4>1. Serial(e, j) = Serial(e, k) /\ j \in Nat /\ k \in Nat
          BY <2>5, <3>1
        <4>2. QED
          BY <2>a, <4>1, SerialFacts
      <3>3. QED
        BY <2>a, <2>1, <2>5, <3>1, <3>2 DEF UnderWay
    <2>6. QED
      BY <2>2, <2>3, <2>4, <2>5, <2>a DEF Pending
  <1>2. QED
    BY <1>1, Invariance, ServiceInvariance, CourseInvariance, PTL
=============================================================================
