------------------------------ MODULE RpcConn ------------------------------
(***************************************************************************)
(* One SCUDA connection: the two conn_t structures of rpc.h, one in the    *)
(* client process and one in the server process, the functions of rpc.cpp  *)
(* both processes call on them, and the threads that call these functions: *)
(*                                                                         *)
(*   - application threads of the client, inside the CUDA stubs;           *)
(*   - the client's dispatch thread, which runs host functions that CUDA   *)
(*     graphs call back (client.cpp);                                      *)
(*   - the server's handler thread, which executes requests (server.cpp);  *)
(*   - CUDA's own callback threads in the server, which ask the client to  *)
(*     run a host function (invoke_host_func of server.cpp);               *)
(*   - one reader thread per process, which reads the request id that      *)
(*     starts each frame and wakes the thread the frame is for (rpc.cpp).  *)
(*                                                                         *)
(* A frame is what one writev sends: the request id, the opcode unless the *)
(* frame is a response, and the payload.  The threads read a frame item by *)
(* item, each trusting that the item it needs is the next one.             *)
(***************************************************************************)
EXTENDS Integers, Sequences

CONSTANTS
  Apps,        \* application threads of the client
  Callbacks,   \* threads on which the CUDA runtime of the server calls back
  CallOps,     \* the kinds of call the application makes
  MaxCalls,    \* bound: calls made by each application or callback thread
  Mortal       \* the processes that may exit

Ends == {"client", "server"}
Peer(e) == IF e = "client" THEN "server" ELSE "client"

Reader(e) == IF e = "client" THEN "clientReader" ELSE "serverReader"
Dispatcher(e) == IF e = "client" THEN "clientDispatch" ELSE "serverHandler"
Readers == {"clientReader", "serverReader"}
Dispatchers == {"clientDispatch", "serverHandler"}
Callers == Apps \union Callbacks
Threads == Callers \union Readers \union Dispatchers
NoThread == "noThread"

(***************************************************************************)
(* The kinds of call, each named by a function that makes it:              *)
(*   cudaMalloc              sends a request and waits for its response;   *)
(*   cudaStreamSynchronize   does too, and its handler returns only when   *)
(*                           the host functions launched have run;         *)
(*   cudaGraphLaunch         is sent with RPC_ASYNC_BIT and not waited for,*)
(*                           and the graph may hold a host function;       *)
(*   cudaGraphAddKernelNode  has a handler that does not respond when CUDA *)
(*                           refuses the node;                             *)
(*   cudaLaunchKernel        returns with the request half built when the  *)
(*                           kernel was never registered;                  *)
(*   hostFunc                is opcode 1, the server's call of the client. *)
(***************************************************************************)
Ops == {"cudaMalloc", "cudaStreamSynchronize", "cudaGraphLaunch",
        "cudaGraphAddKernelNode", "cudaLaunchKernel", "hostFunc"}
Reply == "reply"             \* write_op = -1: the frame has no opcode
Async == {"cudaGraphLaunch"} \* the opcodes sent with RPC_ASYNC_BIT

ASSUME CallersAssumption ==
  /\ Apps \intersect Callbacks = {}
  /\ Callers \intersect (Readers \union Dispatchers \union {NoThread}) = {}
ASSUME OpsAssumption == CallOps \subseteq Ops \ {"hostFunc"}
ASSUME BoundAssumption == MaxCalls \in Nat
ASSUME MortalAssumption == Mortal \subseteq Ends

\* The process a thread runs in.
End(t) == IF t \in Apps \union {"clientReader", "clientDispatch"}
          THEN "client" ELSE "server"

\* What a payload identifies: the caller's n-th call.
Call == [by : Threads \union {NoThread}, n : Nat, op : Ops \union {Reply}]
NoCall == [by |-> NoThread, n |-> 0, op |-> Reply]
Frame == [id : Nat, op : Ops \union {Reply}, body : Call]

VARIABLES
  alive,       \* the processes that run
  wire,        \* frames sent to a process and not wholly read
  at,          \* the item of the first of these that is read next
  request_id, read_id, write_id, write_op, suppress_response,
  readOwner,   \* the thread that holds read_mutex
  writeOwner,  \* the thread that holds write_mutex
  pc,          \* where a thread is
  call,        \* the latest call of a caller
  rid,         \* the request id a caller waits for, a dispatcher answers
  op,          \* the opcode a dispatcher read
  arg,         \* the payload a thread read
  sent,        \* history: calls sent to a process, in order
  executed,    \* history: calls a process executed, in order
  results      \* history: pairs of a call and the payload it returned with

conn == <<request_id, read_id, write_id, write_op, suppress_response,
          readOwner, writeOwner>>
stream == <<wire, at>>
local == <<call, rid, op, arg>>
history == <<sent, executed, results>>
vars == <<alive, stream, conn, pc, local, history>>

CallerPC == {"idle", "ready", "wbuild", "wret", "rlock", "wait", "args", "rend"}
ReaderPC == {"off", "rlock", "wait", "recv", "exit"}
DispatcherPC == {"spawn", "rlock", "wait", "op", "flag", "args", "rend", "exec",
                 "wlock", "wbuild", "off"}
PCs == CallerPC \union ReaderPC \union DispatcherPC
Places(t) == IF t \in Callers THEN CallerPC
             ELSE IF t \in Readers THEN ReaderPC ELSE DispatcherPC

PcOK == pc \in [Threads -> PCs] /\ \A t \in Threads : pc[t] \in Places(t)

DataOK ==
  /\ alive \in [Ends -> BOOLEAN]
  /\ wire \in [Ends -> Seq(Frame)]
  /\ at \in [Ends -> {"id", "op", "body"}]
  /\ request_id \in [Ends -> Nat]
  /\ read_id \in [Ends -> Nat]
  /\ write_id \in [Ends -> Nat]
  /\ write_op \in [Ends -> Ops \union {Reply}]
  /\ suppress_response \in [Ends -> BOOLEAN]
  /\ readOwner \in [Ends -> Threads \union {NoThread}]
  /\ writeOwner \in [Ends -> Threads \union {NoThread}]
  /\ call \in [Callers -> Call]
  /\ rid \in [Callers \union Dispatchers -> Nat]
  /\ op \in [Dispatchers -> Ops \union {Reply}]
  /\ arg \in [Callers \union Dispatchers -> Call]
  /\ sent \in [Ends -> Seq(Call)]
  /\ executed \in [Ends -> Seq(Call)]
  /\ results \subseteq Call \X Call

TypeOK == PcOK /\ DataOK

(***************************************************************************)
(* A connection as rpc_open and client_handler leave it: the client numbers*)
(* its requests from 2 in steps of 2, the server from 3.                   *)
(***************************************************************************)
Init ==
  /\ alive = [e \in Ends |-> TRUE]
  /\ wire = [e \in Ends |-> <<>>]
  /\ at = [e \in Ends |-> "id"]
  /\ request_id = [e \in Ends |-> IF e = "client" THEN 0 ELSE 1]
  /\ read_id = [e \in Ends |-> 0]
  /\ write_id = [e \in Ends |-> 0]
  /\ write_op = [e \in Ends |-> Reply]
  /\ suppress_response = [e \in Ends |-> FALSE]
  /\ readOwner = [e \in Ends |-> NoThread]
  /\ writeOwner = [e \in Ends |-> NoThread]
  /\ pc = [t \in Threads |-> IF t \in Apps THEN "ready"
                             ELSE IF t \in Callbacks THEN "idle"
                             ELSE IF t \in Readers THEN "off" ELSE "spawn"]
  /\ call = [t \in Callers |-> NoCall]
  /\ rid = [t \in Callers \union Dispatchers |-> 0]
  /\ op = [d \in Dispatchers |-> Reply]
  /\ arg = [t \in Callers \union Dispatchers |-> NoCall]
  /\ sent = [e \in Ends |-> <<>>]
  /\ executed = [e \in Ends |-> <<>>]
  /\ results = {}

\* A thread of a process that runs is at l.
At(t, l) == alive[End(t)] /\ pc[t] = l

-----------------------------------------------------------------------------
(* rpc_read: the next item of the stream, whatever the reader expects.     *)

Readable(e) == wire[e] # <<>>
Item(e) == Head(wire[e])[at[e]]
Advance(e) ==
  /\ at' = [at EXCEPT ![e] = IF @ = "body" THEN "id"
                             ELSE IF @ = "id" /\ Head(wire[e]).op # Reply
                                  THEN "op" ELSE "body"]
  /\ wire' = [wire EXCEPT ![e] = IF at[e] = "body" THEN Tail(@) ELSE @]

\* Every byte the peer sent was read and the peer is gone: recv returns 0.
\* Mutants of EOF: the reader does not notice; it takes a pause for the end.
EOFUnnoticed(e) == e \notin Ends
EOFWhenEmpty(e) == ~Readable(e)
EOF(e) == ~Readable(e) /\ ~alive[Peer(e)]

\* pthread_cond_broadcast(read_cond): the threads that wait must lock again.
\* Mutant of Broadcast: a forgotten wake-up.
NoBroadcast(e) == [t \in Threads |-> IF End(t) = e THEN pc[t] ELSE pc[t]]
Broadcast(e) == [t \in Threads |-> IF pc[t] = "wait" /\ End(t) = e
                                   THEN "rlock" ELSE pc[t]]

-----------------------------------------------------------------------------
(* Writing: rpc_write_start_request .. rpc_write_end.                      *)

\* rpc_write_start_request by a stub, or by invoke_host_func for opcode 1.
StartRequest(t) ==
  /\ t \in Callers
  /\ At(t, "ready")
  /\ call[t].n < MaxCalls
  /\ writeOwner[End(t)] = NoThread
  /\ \E o \in IF t \in Apps THEN CallOps ELSE {"hostFunc"} :
       /\ call' = [call EXCEPT ![t] = [by |-> t, n |-> @.n + 1, op |-> o]]
       /\ write_op' = [write_op EXCEPT ![End(t)] = o]
  /\ writeOwner' = [writeOwner EXCEPT ![End(t)] = t]
  /\ request_id' = [request_id EXCEPT ![End(t)] = @ + 2]
  /\ write_id' = [write_id EXCEPT ![End(t)] = request_id[End(t)] + 2]
  /\ pc' = [pc EXCEPT ![t] = "wbuild"]
  /\ UNCHANGED <<alive, stream, read_id, suppress_response, readOwner, rid, op,
                 arg, history>>

\* rpc_write_start_response, with the id rpc_read_end returned.
StartResponse(d) ==
  /\ d \in Dispatchers
  /\ At(d, "wlock")
  /\ writeOwner[End(d)] = NoThread
  /\ writeOwner' = [writeOwner EXCEPT ![End(d)] = d]
  /\ write_id' = [write_id EXCEPT ![End(d)] = rid[d]]
  /\ write_op' = [write_op EXCEPT ![End(d)] = Reply]
  /\ pc' = [pc EXCEPT ![d] = "wbuild"]
  /\ UNCHANGED <<alive, stream, request_id, read_id, suppress_response,
                 readOwner, local, history>>

\* Where rpc_write_end leaves a thread: only a caller that will wait for the
\* response uses the value it returns.
\* Mutant of AfterWrite: a stub that does not wait for the response.
AfterWriteNoWait(t) == IF t \in Dispatchers THEN "spawn" ELSE "ready"
AfterWrite(t) == IF t \in Dispatchers THEN "spawn"
                 ELSE IF call[t].op \in Async THEN "ready" ELSE "wret"

\* rpc_write_end with suppress_response set: nothing is sent.
WriteEndSuppressed(t) ==
  /\ t \in Callers \union Dispatchers
  /\ At(t, "wbuild")
  /\ suppress_response[End(t)]
  /\ suppress_response' = [suppress_response EXCEPT ![End(t)] = FALSE]
  /\ writeOwner' = [writeOwner EXCEPT ![End(t)] = NoThread]
  /\ pc' = [pc EXCEPT ![t] = AfterWrite(t)]
  /\ UNCHANGED <<alive, stream, request_id, read_id, write_id, write_op,
                 readOwner, local, history>>

Payload(t) == IF t \in Callers THEN call[t] ELSE arg[t]

\* rpc_write_end: writev and unlock.  For a peer that is gone this still
\* succeeds: its kernel answers the frame with a reset.
WriteEndSend(t) ==
  /\ t \in Callers \union Dispatchers
  /\ At(t, "wbuild")
  /\ ~suppress_response[End(t)]
  /\ wire' = [wire EXCEPT ![Peer(End(t))] =
                Append(@, [id   |-> write_id[End(t)],
                           op   |-> write_op[End(t)],
                           body |-> Payload(t)])]
  /\ sent' = [sent EXCEPT ![Peer(End(t))] =
                IF t \in Callers THEN Append(@, call[t]) ELSE @]
  /\ writeOwner' = [writeOwner EXCEPT ![End(t)] = NoThread]
  /\ pc' = [pc EXCEPT ![t] = AfterWrite(t)]
  /\ UNCHANGED <<alive, at, request_id, read_id, write_id, write_op,
                 suppress_response, readOwner, local, executed, results>>

\* rpc_write_end after such a reset, which also follows when the peer left
\* frames unread: writev raises SIGPIPE, which no process of SCUDA handles or
\* ignores, so the whole process ends.
WriteEndBroken(t) ==
  /\ t \in Callers \union Dispatchers
  /\ At(t, "wbuild")
  /\ ~suppress_response[End(t)]
  /\ ~alive[Peer(End(t))] /\ wire[Peer(End(t))] # <<>>
  /\ alive' = [alive EXCEPT ![End(t)] = FALSE]
  /\ UNCHANGED <<stream, conn, pc, local, history>>

\* rpc_write_end, when the reset is first noticed: writev returns an error, and
\* write_mutex stays locked.  A stub or a host function returns; client_handler
\* goes on, while the client's dispatch thread ends.
AfterError(t) == IF t \in Apps THEN "ready"
                 ELSE IF t \in Callbacks THEN "idle"
                 ELSE IF End(t) = "server" THEN "spawn" ELSE "off"
WriteEndError(t) ==
  /\ t \in Callers \union Dispatchers
  /\ At(t, "wbuild")
  /\ ~suppress_response[End(t)]
  /\ ~alive[Peer(End(t))] /\ wire[Peer(End(t))] # <<>>
  /\ pc' = [pc EXCEPT ![t] = AfterError(t)]
  /\ UNCHANGED <<alive, stream, conn, local, history>>

\* rpc_write_end reads write_id for its return value after the unlock.
WriteEndReturn(t) ==
  /\ t \in Callers
  /\ At(t, "wret")
  /\ rid' = [rid EXCEPT ![t] = write_id[End(t)]]
  /\ pc' = [pc EXCEPT ![t] = "rlock"]
  /\ UNCHANGED <<alive, stream, conn, call, op, arg, history>>

\* cudaLaunchKernel of a function that was never registered returns between
\* rpc_write_start_request and rpc_write_end.
AbandonRequest(t) ==
  /\ t \in Apps
  /\ At(t, "wbuild")
  /\ call[t].op = "cudaLaunchKernel"
  /\ pc' = [pc EXCEPT ![t] = "ready"]
  /\ UNCHANGED <<alive, stream, conn, local, history>>

-----------------------------------------------------------------------------
(* Reading: rpc_read_start, rpc_dispatch and _rpc_read_id_dispatch take    *)
(* read_mutex and wait on read_cond for the read_id that is their turn.    *)

Parity(e) == IF e = "client" THEN 1 ELSE 0

\* Mutants of Turn: a dispatcher that ignores the parity, a caller that takes
\* any response.
TurnOfAnyParity(t) ==
  LET id == read_id[End(t)]
  IN  IF t \in Callers THEN id = rid[t]
      ELSE IF t \in Readers THEN id = 0 ELSE id >= 2
TurnOfAnyResponse(t) ==
  LET id == read_id[End(t)]
  IN  IF t \in Callers THEN id >= 2 /\ id % 2 # Parity(End(t))
      ELSE IF t \in Readers THEN id = 0
      ELSE id >= 2 /\ id % 2 = Parity(End(t))
Turn(t) ==
  LET id == read_id[End(t)]
  IN  IF t \in Callers THEN id = rid[t]
      ELSE IF t \in Readers THEN id = 0
      ELSE id >= 2 /\ id % 2 = Parity(End(t))

\* Where a thread goes on when its turn has come.
\* Mutant of OnTurn: the frame of a response has an opcode too.
OnTurnOpcode(t) == IF t \in Readers THEN "recv" ELSE "op"
OnTurn(t) == IF t \in Callers THEN "args"
             ELSE IF t \in Readers THEN "recv" ELSE "op"

\* pthread_mutex_lock(read_mutex), and it is this thread's turn.
ReadLock(t) ==
  /\ At(t, "rlock")
  /\ readOwner[End(t)] = NoThread
  /\ Turn(t)
  /\ readOwner' = [readOwner EXCEPT ![End(t)] = t]
  /\ pc' = [pc EXCEPT ![t] = OnTurn(t)]
  /\ UNCHANGED <<alive, stream, request_id, read_id, write_id, write_op,
                 suppress_response, writeOwner, local, history>>

\* pthread_mutex_lock(read_mutex), and it is not: pthread_cond_wait.
ReadWait(t) ==
  /\ At(t, "rlock")
  /\ readOwner[End(t)] = NoThread
  /\ ~Turn(t)
  /\ pc' = [pc EXCEPT ![t] = "wait"]
  /\ UNCHANGED <<alive, stream, conn, local, history>>

\* The reader thread publishes the id of the next frame, wakes the threads
\* that wait for one, and waits until the frame has been read.
ReaderRecv(r) ==
  /\ r \in Readers
  /\ At(r, "recv")
  /\ Readable(End(r))
  /\ read_id' = [read_id EXCEPT ![End(r)] = Item(End(r))]
  /\ Advance(End(r))
  /\ readOwner' = [readOwner EXCEPT ![End(r)] = NoThread]
  /\ pc' = [Broadcast(End(r)) EXCEPT ![r] = "wait"]
  /\ UNCHANGED <<alive, request_id, write_id, write_op, suppress_response,
                 writeOwner, local, history>>

\* The reader thread meets the end of the stream and leaves its loop, which
\* unlocks read_mutex and wakes nobody.
ReaderEOF(r) ==
  /\ r \in Readers
  /\ At(r, "recv")
  /\ EOF(End(r))
  /\ readOwner' = [readOwner EXCEPT ![End(r)] = NoThread]
  /\ pc' = [pc EXCEPT ![r] = "exit"]
  /\ UNCHANGED <<alive, stream, request_id, read_id, write_id, write_op,
                 suppress_response, writeOwner, local, history>>

\* conn->rpc_thread = 0, and the thread ends.
ReaderExit(r) ==
  /\ r \in Readers
  /\ At(r, "exit")
  /\ pc' = [pc EXCEPT ![r] = "off"]
  /\ UNCHANGED <<alive, stream, conn, local, history>>

\* A caller or a dispatcher reads the payload of its frame.
ReadArgs(t) ==
  /\ t \in Callers \union Dispatchers
  /\ At(t, "args")
  /\ Readable(End(t))
  /\ arg' = [arg EXCEPT ![t] = Item(End(t))]
  /\ Advance(End(t))
  /\ pc' = [pc EXCEPT ![t] = "rend"]
  /\ UNCHANGED <<alive, conn, call, rid, op, history>>

\* rpc_read_end: the frame is done, and a caller returns to its program.
ReadEnd(t) ==
  /\ t \in Callers \union Dispatchers
  /\ At(t, "rend")
  /\ read_id' = [read_id EXCEPT ![End(t)] = 0]
  /\ readOwner' = [readOwner EXCEPT ![End(t)] = NoThread]
  /\ rid' = IF t \in Dispatchers
            THEN [rid EXCEPT ![t] = read_id[End(t)]] ELSE rid
  /\ results' = IF t \in Callers
                THEN results \union {<<call[t], arg[t]>>} ELSE results
  /\ pc' = [Broadcast(End(t)) EXCEPT ![t] = IF t \in Dispatchers THEN "exec"
                                            ELSE IF t \in Apps THEN "ready"
                                            ELSE "idle"]
  /\ UNCHANGED <<alive, stream, request_id, write_id, write_op,
                 suppress_response, writeOwner, call, op, arg, sent, executed>>

-----------------------------------------------------------------------------
(* Dispatching: rpc_dispatch, the loops that call it, and the handlers.    *)

\* rpc_dispatch creates the reader thread unless there is one.
DispatchSpawn(d) ==
  /\ d \in Dispatchers
  /\ At(d, "spawn")
  /\ pc' = [t \in Threads |->
              IF t = d \/ (t = Reader(End(d)) /\ pc[t] = "off")
              THEN "rlock" ELSE pc[t]]
  /\ UNCHANGED <<alive, stream, conn, local, history>>

\* rpc_dispatch reads the opcode.  The client's dispatch thread knows one
\* opcode only, and for any other calls rpc_dispatch again.
DispatchOp(d) ==
  /\ d \in Dispatchers
  /\ At(d, "op")
  /\ Readable(End(d))
  /\ op' = [op EXCEPT ![d] = Item(End(d))]
  /\ Advance(End(d))
  /\ pc' = [pc EXCEPT ![d] = IF End(d) = "server" THEN "flag"
                             ELSE IF Item(End(d)) = "hostFunc" THEN "args"
                             ELSE "spawn"]
  /\ UNCHANGED <<alive, conn, call, rid, arg, history>>

\* client_handler copies RPC_ASYNC_BIT to suppress_response, without a lock.
\* Mutants of SetSuppress: kernel launches count as asynchronous; the bit is
\* dropped.
SetSuppressLaunches(d) ==
  /\ d = "serverHandler"
  /\ At(d, "flag")
  /\ suppress_response' =
       [suppress_response EXCEPT ![End(d)] = op[d] \in Async \union {"cudaLaunchKernel"}]
  /\ pc' = [pc EXCEPT ![d] = "args"]
  /\ UNCHANGED <<alive, stream, request_id, read_id, write_id, write_op,
                 readOwner, writeOwner, local, history>>
SetSuppressNever(d) ==
  /\ d = "serverHandler"
  /\ At(d, "flag")
  /\ pc' = [pc EXCEPT ![d] = "args"]
  /\ UNCHANGED <<alive, stream, conn, local, history>>
SetSuppress(d) ==
  /\ d = "serverHandler"
  /\ At(d, "flag")
  /\ suppress_response' = [suppress_response EXCEPT ![End(d)] = op[d] \in Async]
  /\ pc' = [pc EXCEPT ![d] = "args"]
  /\ UNCHANGED <<alive, stream, request_id, read_id, write_id, write_op,
                 readOwner, writeOwner, local, history>>

\* A handler calls CUDA.  A synchronisation returns when no host function is
\* due; a graph launch may make one due; a kernel node may be refused, and
\* then the handler does not respond.
Execute(d) ==
  /\ d = "serverHandler"
  /\ At(d, "exec")
  /\ op[d] = "cudaStreamSynchronize" => \A c \in Callbacks : pc[c] = "idle"
  /\ executed' = [executed EXCEPT ![End(d)] = Append(@, arg[d])]
  /\ \/ pc' = [pc EXCEPT ![d] = "wlock"]
     \/ /\ op[d] = "cudaGraphLaunch"
        /\ \E c \in Callbacks :
             /\ At(c, "idle")
             /\ call[c].n < MaxCalls
             /\ pc' = [pc EXCEPT ![d] = "wlock", ![c] = "ready"]
     \/ /\ op[d] = "cudaGraphAddKernelNode"
        /\ pc' = [pc EXCEPT ![d] = "spawn"]
  /\ UNCHANGED <<alive, stream, conn, local, sent, results>>

\* The client's dispatch thread runs the host function.
InvokeHostFunc(d) ==
  /\ d = "clientDispatch"
  /\ At(d, "exec")
  /\ executed' = [executed EXCEPT ![End(d)] = Append(@, arg[d])]
  /\ pc' = [pc EXCEPT ![d] = "wlock"]
  /\ UNCHANGED <<alive, stream, conn, local, sent, results>>

-----------------------------------------------------------------------------

\* A process exits.  What it sent before can still be read.
Die(e) ==
  /\ e \in Mortal
  /\ alive[e]
  /\ alive' = [alive EXCEPT ![e] = FALSE]
  /\ UNCHANGED <<stream, conn, pc, local, history>>

\* The steps a thread takes once it is inside the library.
Progress(t) ==
  \/ StartResponse(t) \/ AbandonRequest(t)
  \/ WriteEndSuppressed(t) \/ WriteEndSend(t) \/ WriteEndBroken(t)
  \/ WriteEndError(t) \/ WriteEndReturn(t)
  \/ ReadLock(t) \/ ReadWait(t) \/ ReadArgs(t) \/ ReadEnd(t)
  \/ ReaderRecv(t) \/ ReaderEOF(t) \/ ReaderExit(t)
  \/ DispatchSpawn(t) \/ DispatchOp(t)
  \/ SetSuppress(t) \/ Execute(t) \/ InvokeHostFunc(t)

Next ==
  \/ \E t \in Threads : StartRequest(t) \/ Progress(t)
  \/ \E e \in Ends : Die(e)

Spec == Init /\ [][Next]_vars

(***************************************************************************)
(* The operating system runs every thread, so a thread that can go on does.*)
(* An application need not make another call; CUDA does call back.         *)
(***************************************************************************)
Fairness ==
  /\ \A t \in Threads : WF_vars(Progress(t))
  /\ \A c \in Callbacks : WF_vars(StartRequest(c))

FairSpec == Spec /\ Fairness

-----------------------------------------------------------------------------
(* Properties.                                                             *)

\* Nobody reads an item of the wrong kind, or of a frame that is another
\* thread's: the reader thread is at an id, a dispatcher at an opcode and later
\* at the payload of a request, a caller at the payload of a response, each of
\* the frame whose id is read_id; and between frames the stream is at an id.
\* (rpc.cpp:12-25, 47-57 and 70-93, one stream read by up to five threads.)
FrameAligned ==
  \A t \in Threads :
    /\ pc[t] = "recv" => at[End(t)] = "id" /\ read_id[End(t)] = 0
    /\ pc[t] \in {"op", "flag", "args"} =>
         /\ Readable(End(t))
         /\ at[End(t)] = IF pc[t] = "op" THEN "op" ELSE "body"
         /\ Head(wire[End(t)]).id = read_id[End(t)]
         /\ (Head(wire[End(t)]).op = Reply) <=> (t \in Callers)
    /\ pc[t] = "exit" => at[End(t)] = "id"

\* A call that returns returns with the response to itself and not to a call
\* of another thread or to an earlier call of its own, also when two threads
\* came to wait for the same request id (rpc.cpp:70-76, 172-175).
OwnResponse == \A r \in results : r[1] = r[2]

\* A caller that has sent its request and has not found its response, and the id
\* it waits for, or is about to.
Waiting == {"wret", "rlock", "wait", "args"}
Ticket(t) == IF pc[t] = "wret" THEN write_id[End(t)] ELSE rid[t]

\* A process that runs does not leave unread what has arrived: either a thread is
\* reading, or the one whose turn it is has been woken, or is not asleep yet.  The
\* reader thread is gone only when nothing can arrive any more, a published
\* request finds the dispatcher awake, and a published response its caller.  Where
\* nobody but the caller uses the connection there is no exception; otherwise the
\* caller may have returned another's id from rpc_write_end, or the response be
\* one that should have been suppressed (rpc.cpp:12-47, 70-104, 164-176).
ReadingGoesOn ==
  \A e \in Ends :
    alive[e] /\ Readable(e) =>
      IF readOwner[e] # NoThread
        THEN pc[readOwner[e]] \in {"recv", "op", "flag", "args", "rend"}
      ELSE IF read_id[e] = 0
        THEN pc[Reader(e)] = "rlock" \/ pc[Dispatcher(e)] = "spawn"
      ELSE IF Head(wire[e]).op # Reply THEN pc[Dispatcher(e)] # "wait"
      ELSE LET c == Head(wire[e]).body
           IN  \/ c.op \in Async /\ Callbacks # {}
               \/ \E t \in Callers :
                    /\ call[t] = c /\ pc[t] \in {"wret", "rlock", "wait"}
                    /\ IF Ticket(t) = read_id[e] THEN pc[t] # "wait"
                       ELSE Apps # {t} \/ Callbacks # {}

\* The call whose response a caller waits for, in a process that runs, is not
\* lost: its request is on the stream, or a dispatcher has it, or its response
\* is on the stream; unless its handler kept silent, or it was a host function's
\* request that was taken for a suppressed response (rpc.cpp:159-176,
\* server.cpp:278-289, manual_server.cpp:261-263).
UnderWay(c, e) ==
  \/ \E i \in 1 .. Len(wire[e]) : wire[e][i].op # Reply /\ wire[e][i].body = c
  \/ /\ pc[Dispatcher(e)] \in {"rend", "exec", "wlock", "wbuild"}
     /\ arg[Dispatcher(e)] = c
  \/ \E i \in 1 .. Len(wire[Peer(e)]) :
       wire[Peer(e)][i].op = Reply /\ wire[Peer(e)][i].body = c
NoCallLost ==
  \A t \in Callers :
    alive[End(t)] /\ pc[t] \in Waiting =>
      \/ UnderWay(call[t], Peer(End(t)))
      \/ call[t].op = "cudaGraphAddKernelNode"
      \/ t \in Callbacks /\ \A k \in DOMAIN sent["client"] : sent["client"][k] # call[t]

\* The connection implements the service: every call is executed at most once,
\* in the order of the writev's that sent it, and returns after its execution
\* with its own result (rpc.cpp and the loops server.cpp:257-289,
\* client.cpp:174-241).
Service ==
  INSTANCE RpcService
    WITH sent <- sent, executed <- executed, results <- results,
         Apps <- Apps, Callbacks <- Callbacks, Async <- Async
ImplementsService == Service!Spec

\* A thread that makes a call returns from it, unless a process ends
\* (rpc.cpp:99-104 and 156-157).
CallsReturn ==
  \A t \in Callers :
    pc[t] = "wbuild" ~> \/ pc[t] \in {"ready", "idle"}
                        \/ \E e \in Ends : ~alive[e]

\* A process whose peer is gone stops reading, however often its dispatcher
\* creates the reader thread anew (rpc.cpp:15-28, 38-42).
ReaderStops ==
  \A e \in Ends :
    ~alive[Peer(e)] ~> (~alive[e] \/ pc[Reader(e)] = "off")

\* A call sent with RPC_ASYNC_BIT has no response (rpc.h:7-8).
NoResponseToAsync ==
  \A i \in 1 .. Len(wire["client"]) :
    LET f == wire["client"][i] IN f.op = Reply => f.body.op \notin Async

\* The server does not exit because a client disconnects (TODO.md:11).
ServerOutlivesClient == alive["server"]
=============================================================================
