---------------------------- MODULE Registration ----------------------------
(***************************************************************************)
(* How the kernels and variables of a program reach the server before the  *)
(* program uses them.  nvcc makes every program and library register its   *)
(* fat binaries from constructors: __cudaRegisterFatBinary, then one call  *)
(* for each kernel and variable, then __cudaRegisterFatBinaryEnd.  SCUDA   *)
(*                                                                         *)
(*   - collects all but the first of these calls in a buffer and sends it  *)
(*     as one RPC when another call needs the server (cuda_batch.cpp);     *)
(*   - asks the server whether it knows a fat binary by its hash before it *)
(*     sends the data (manual_client.cpp, manual_server.cpp);              *)
(*   - then takes the kernels' signatures, otherwise parsed from the PTX,  *)
(*     from a file it wrote the first time (fatbin_cache.cpp).             *)
(*                                                                         *)
(* Clients share the server, whose cache lives as long as its process, and *)
(* a directory of cache files, which outlives every process.  An RPC is    *)
(* one step here: RpcConn says what it takes.                              *)
(***************************************************************************)
EXTENDS Integers, Sequences, SequencesExt

CONSTANTS
  Clients,     \* client processes, one at a time for each of these
  Threads,     \* the threads of a process
  FatBins,
  Kernels,     \* [FatBins -> Seq of kernels], in the order of the PTX
  Variables,   \* [FatBins -> Seq of device variables]
  Loads,       \* [Clients -> SUBSET FatBins], those each program has
  NameOf,      \* the device name of each kernel
  BatchCap,    \* the commands that fit into the batch buffer
  MaxRestarts, \* bound: processes that end, the server's or a client's
  MaxLaunches  \* bound: launches of one process

ASSUME BatchCapAssumption == BatchCap \in Nat
ASSUME BoundsAssumption == MaxRestarts \in Nat /\ MaxLaunches \in Nat
AllKernels == UNION {ToSet(Kernels[b]) : b \in FatBins}
AllVariables == UNION {ToSet(Variables[b]) : b \in FatBins}
ASSUME BinariesAssumption ==
  /\ Kernels \in [FatBins -> Seq(AllKernels)]
  /\ Loads \in [Clients -> SUBSET FatBins]
  /\ Variables \in [FatBins -> Seq(AllVariables)]

None == "none"

CallOf(o, x, b) == [op |-> o, of |-> x, bin |-> b]

\* The constructor nvcc generates calls __cudaRegisterFatBinary, then these.
Symbols(b) ==
  [i \in DOMAIN Kernels[b] |-> CallOf("function", Kernels[b][i], b)]
  \o [i \in DOMAIN Variables[b] |-> CallOf("var", Variables[b][i], b)]
Constructor(b) == Symbols(b) \o <<CallOf("end", b, b)>>

Call == [op : {"fatbin", "function", "var", "end", "launch"},
         of : FatBins \union AllKernels \union AllVariables, bin : FatBins]

Users == Clients \X Threads
Connecting == {"conn", "flushSend", "flushed", "deactivate"}
Conts == {"query", "full", "send", "launch", "idle"}
PCs == Connecting \union Conts \union {"load", "parse", "open", "write"}

VARIABLES
  batch,              \* the commands in the batch buffer, with their handles
  batch_active,       \* as cuda_batch_is_active() returns it
  inside_fat_binary,
  functions,          \* the kernels known by name, and their host functions
  recording,          \* s_recording_for_cache
  before,             \* s_functions_before_fatbin
  handle,             \* what __cudaRegisterFatBinary returned; 0: nothing yet
  missed,             \* kernels launched in vain: write_mutex is still locked
  todo,               \* the rest of the constructor a thread runs
  stub,               \* the call a thread is in
  pc,                 \* where it is
  back,               \* where a flush returns to
  cont,               \* what the connection or the file is for
  handles,            \* the fat binaries CUDA registered in this server
  serverCache,        \* server_fatbin_cache: the handle of a hash; 0: none
  file,               \* the cache file of each fat binary
  written,            \* how far a process has written its file
  restarts,           \* history: processes that ended
  called, executed,   \* history: calls of a process, those the server executed
  failed              \* history: fat binaries whose PTX was not decompressed

batching == <<batch, batch_active, inside_fat_binary>>
parsed == <<functions, recording, before>>
server == <<handles, serverCache>>
disk == <<file, written>>
thread == <<todo, stub, pc, back, cont>>
history == <<restarts, called, executed, failed>>
vars == <<batching, parsed, handle, missed, thread, server, disk, history>>

NoCall == CallOf(None, None, None)
NoFile == [head |-> -1, recs |-> <<>>]

\* The state of the processes in C is new; that of the others stays.
Started(C) ==
  /\ batch' = [c \in Clients |-> IF c \in C THEN <<>> ELSE batch[c]]
  /\ batch_active' = [c \in Clients |-> c \in C \/ batch_active[c]]
  /\ inside_fat_binary' = [c \in Clients |-> c \notin C /\ inside_fat_binary[c]]
  /\ functions' = [c \in Clients |-> IF c \in C THEN <<>> ELSE functions[c]]
  /\ recording' = [c \in Clients |-> c \notin C /\ recording[c]]
  /\ before' = [c \in Clients |-> IF c \in C THEN 0 ELSE before[c]]
  /\ handle' = [c \in Clients |-> IF c \in C THEN [b \in FatBins |-> 0] ELSE handle[c]]
  /\ missed' = [c \in Clients |-> IF c \in C THEN {} ELSE missed[c]]
  /\ todo' = [u \in Users |-> IF u[1] \in C THEN <<>> ELSE todo[u]]
  /\ stub' = [u \in Users |-> IF u[1] \in C THEN NoCall ELSE stub[u]]
  /\ pc' = [u \in Users |-> IF u[1] \in C THEN "idle" ELSE pc[u]]
  /\ back' = [u \in Users |-> IF u[1] \in C THEN "conn" ELSE back[u]]
  /\ cont' = [u \in Users |-> IF u[1] \in C THEN "idle" ELSE cont[u]]
  /\ written' = [c \in Clients |-> IF c \in C THEN 0 ELSE written[c]]
  /\ called' = [c \in Clients |-> IF c \in C THEN <<>> ELSE called[c]]
  /\ executed' = [c \in Clients |-> IF c \in C THEN <<>> ELSE executed[c]]

Init ==
  /\ batch = [c \in Clients |-> <<>>]
  /\ batch_active = [c \in Clients |-> TRUE]
  /\ inside_fat_binary = [c \in Clients |-> FALSE]
  /\ functions = [c \in Clients |-> <<>>]
  /\ recording = [c \in Clients |-> FALSE]
  /\ before = [c \in Clients |-> 0]
  /\ handle = [c \in Clients |-> [b \in FatBins |-> 0]]
  /\ missed = [c \in Clients |-> {}]
  /\ todo = [u \in Users |-> <<>>]
  /\ stub = [u \in Users |-> NoCall]
  /\ pc = [u \in Users |-> "idle"]
  /\ back = [u \in Users |-> "conn"]
  /\ cont = [u \in Users |-> "idle"]
  /\ handles = <<>>
  /\ serverCache = [b \in FatBins |-> 0]
  /\ file = [b \in FatBins |-> NoFile]
  /\ written = [c \in Clients |-> 0]
  /\ restarts = 0
  /\ called = [c \in Clients |-> <<>>]
  /\ executed = [c \in Clients |-> <<>>]
  /\ failed = {}

-----------------------------------------------------------------------------
(* Steps of a thread.                                                      *)

Goto(u, l) == pc' = [pc EXCEPT ![u] = l]

\* A stub gets a connection and goes on at k.
Connect(u, k) == Goto(u, "conn") /\ cont' = [cont EXCEPT ![u] = k]

Enter(u, call) ==
  /\ stub' = [stub EXCEPT ![u] = call]
  /\ called' = [called EXCEPT ![u[1]] = Append(@, call)]

\* A launch that finds no kernel returns with write_mutex locked, and the next
\* call that needs the server never returns.
Connected(c) == missed[c] = {}

\* The dynamic loader runs one constructor at a time.
Constructing(c) ==
  \E t \in Threads : LET u == <<c, t>>
                     IN todo[u] # <<>> \/ (pc[u] # "idle" /\ stub[u].op = "end")
Loaded(c, b) ==
  /\ CallOf("end", b, b) \in ToSet(called[c])
  /\ \A t \in Threads : pc[<<c, t>>] # "idle" => stub[<<c, t>>].bin # b
                                                \/ stub[<<c, t>>].op = "launch"

-----------------------------------------------------------------------------
(* The batch buffer: cuda_batch.cpp.                                       *)

\* cuda_batch_flush turns batching off before it sends the batch.
Flush(u, l) ==
  /\ batch_active' = [batch_active EXCEPT ![u[1]] = FALSE]
  /\ back' = [back EXCEPT ![u] = l]
  /\ Goto(u, "flushSend")

\* cuda_batch_flush_and_continue; then the connection, for k.
FlushAndContinue(u, k) ==
  /\ cont' = [cont EXCEPT ![u] = k]
  /\ IF batch[u[1]] # <<>> THEN Flush(u, "conn")
     ELSE Goto(u, "conn") /\ UNCHANGED <<batch_active, back>>

\* rpc_client_get_connection, which begins with cuda_batch_flush_if_pending.
\* In __cudaRegisterFatBinary cuda_batch_set_inside_fat_binary comes before.
GetConnection(u) ==
  LET c == u[1]
  IN  /\ pc[u] = "conn"
      /\ inside_fat_binary' =
           [inside_fat_binary EXCEPT ![c] = @ \/ stub[u].op = "fatbin"]
      /\ IF batch_active[c] /\ batch[c] # <<>>
         THEN Flush(u, "deactivate")
         ELSE /\ batch_active' = [batch_active EXCEPT ![c] = @ /\ inside_fat_binary'[c]]
              /\ Goto(u, cont[u])
              /\ UNCHANGED back
      /\ UNCHANGED <<batch, parsed, handle, missed, todo, stub, cont, server,
                     disk, history>>

\* The response has come: the buffer is emptied and batching is on again.  The
\* flush's error returns (cuda_batch.cpp:121-161) are those of a connection that
\* is gone, and rpc_open never opens another one: then nothing more is executed.
\* Mutant of FlushEnd: the commands stay in the buffer.
FlushEndNoReset(u) ==
  /\ pc[u] = "flushed"
  /\ batch_active' = [batch_active EXCEPT ![u[1]] = TRUE]
  /\ Goto(u, back[u])
  /\ UNCHANGED <<batch, inside_fat_binary, parsed, handle, missed, todo,
                 stub, back, cont, server, disk, history>>
FlushEnd(u) ==
  /\ pc[u] = "flushed"
  /\ batch' = [batch EXCEPT ![u[1]] = <<>>]
  /\ batch_active' = [batch_active EXCEPT ![u[1]] = TRUE]
  /\ Goto(u, back[u])
  /\ UNCHANGED <<inside_fat_binary, parsed, handle, missed, todo, stub, back,
                 cont, server,
                 disk, history>>

\* The rest of cuda_batch_flush_if_pending: no more batching after the first
\* call that is not __cudaRegisterFatBinary.
\* Mutant of Deactivate: batching stays on after a flush.
DeactivateNever(u) ==
  /\ pc[u] = "deactivate"
  /\ Goto(u, cont[u])
  /\ UNCHANGED <<batching, parsed, handle, missed, todo, stub, back, cont, server,
                 disk, history>>
Deactivate(u) ==
  /\ pc[u] = "deactivate"
  /\ batch_active' = [batch_active EXCEPT ![u[1]] = @ /\ inside_fat_binary[u[1]]]
  /\ Goto(u, cont[u])
  /\ UNCHANGED <<batch, inside_fat_binary, parsed, handle, missed, todo,
                 stub, back, cont, server, disk, history>>

\* cuda_batch_append; a command that does not fit is dropped.
AppendToBatch(c, call) ==
  batch' = [batch EXCEPT ![c] =
              IF Len(@) < BatchCap
              THEN Append(@, [call |-> call, handle |-> handle[c][call.bin]])
              ELSE @]

-----------------------------------------------------------------------------
(* The server executes what a client sends; handles are not translated,    *)
(* because no client uses the placeholders the server would replace.       *)

Denoted(h) == IF h \in DOMAIN handles THEN handles[h] ELSE None
Executed(call, h) == [call |-> call, with |-> Denoted(h)]

\* Mutant of ExecutedBatch: the loop over the commands ends one early.
ExecutedBatchButLast(c) ==
  [i \in 1 .. Len(batch[c]) - 1 |-> Executed(batch[c][i].call, batch[c][i].handle)]
ExecutedBatch(c) ==
  [i \in DOMAIN batch[c] |-> Executed(batch[c][i].call, batch[c][i].handle)]

\* handle_batch_cuda_register.
ExecuteBatch(u) ==
  /\ pc[u] = "flushSend"
  /\ Connected(u[1])
  /\ executed' = [executed EXCEPT ![u[1]] = @ \o ExecutedBatch(u[1])]
  /\ Goto(u, "flushed")
  /\ UNCHANGED <<batching, parsed, handle, missed, todo, stub, back, cont, server, disk,
                 restarts, called, failed>>

\* handle___cudaRegisterFunction and its like, for a call sent by itself.
ExecuteOne(u) ==
  /\ pc[u] = "send"
  /\ Connected(u[1])
  /\ executed' = [executed EXCEPT ![u[1]] =
       Append(@, Executed(stub[u], handle[u[1]][stub[u].bin]))]
  /\ Goto(u, "idle")
  /\ UNCHANGED <<batching, parsed, handle, missed, todo, stub, back, cont, server, disk,
                 restarts, called, failed>>

\* handle_cache_fatbinary_hit.
QueryServer(u) ==
  LET c == u[1]  b == stub[u].bin
  IN  /\ pc[u] = "query"
      /\ Connected(c)
      /\ IF serverCache[b] # 0
         THEN /\ handle' = [handle EXCEPT ![c][b] = serverCache[b]]
              /\ Goto(u, "load")
              /\ UNCHANGED inside_fat_binary
         ELSE /\ inside_fat_binary' = [inside_fat_binary EXCEPT ![c] = FALSE]
              /\ Goto(u, "parse")
              /\ UNCHANGED handle
      /\ UNCHANGED <<batch, batch_active, parsed, missed, todo, stub, back, cont, server,
                     disk, history>>

\* server_fatbin_cache[hash] = p.
\* Mutant of WithHandle: the hash is not part of the key.
WithHandleForAll(b, h) == [x \in FatBins |-> h]
WithHandle(b, h) == [serverCache EXCEPT ![b] = h]

\* handle___cudaRegisterFatBinary, and the end of __cudaRegisterFatBinary.
RegisterFull(u) ==
  LET c == u[1]  b == stub[u].bin  h == Len(handles) + 1
  IN  /\ pc[u] = "full"
      /\ Connected(c)
      /\ handles' = Append(handles, b)
      /\ serverCache' = WithHandle(b, h)
      /\ handle' = [handle EXCEPT ![c][b] = h]
      /\ executed' = [executed EXCEPT ![c] =
                        Append(@, [call |-> stub[u], with |-> b])]
      /\ inside_fat_binary' = [inside_fat_binary EXCEPT ![c] = FALSE]
      /\ recording' = [recording EXCEPT ![c] = TRUE]
      /\ Goto(u, "idle")
      /\ UNCHANGED <<batch, batch_active, functions, before, missed, todo, stub, back, cont,
                     disk, restarts, called, failed>>

-----------------------------------------------------------------------------
(* The calls of the program.                                               *)

\* __cudaRegisterFatBinary is called: the constructor of b starts.
Construct(u, b) ==
  /\ pc[u] = "idle"
  /\ b \in Loads[u[1]]
  /\ ~Constructing(u[1])
  /\ Connected(u[1])
  /\ handle[u[1]][b] = 0
  /\ Enter(u, CallOf("fatbin", b, b))
  /\ todo' = [todo EXCEPT ![u] = Constructor(b)]
  /\ recording' = [recording EXCEPT ![u[1]] = FALSE]
  /\ FlushAndContinue(u, "query")
  /\ UNCHANGED <<batch, inside_fat_binary, functions, before, handle, missed,
                 server, disk, restarts, executed, failed>>

\* cudaLaunchKernel is called for a kernel of a library that is loaded.
StartLaunch(u, b, k) ==
  /\ pc[u] = "idle"
  /\ todo[u] = <<>>
  /\ Loaded(u[1], b)
  /\ Connected(u[1])
  /\ Len(SelectSeq(called[u[1]], LAMBDA x : x.op = "launch")) < MaxLaunches
  /\ Enter(u, CallOf("launch", k, b))
  /\ Connect(u, "launch")
  /\ UNCHANGED <<batching, parsed, handle, missed, todo, back, server, disk,
                 restarts, executed, failed>>

-----------------------------------------------------------------------------
(* The kernels a client knows: manual_client.cpp and fatbin_cache.cpp.     *)

Function(name, b) == [name |-> name, bin |-> b, host |-> None]

\* fatbin_cache_load: the file has its header and every entry it counts.
Complete(f) == f.head >= 0 /\ 1 .. f.head \subseteq DOMAIN f.recs

\* A hit at the server and on disk: the stub returns the server's handle.
LoadHit(u) ==
  LET c == u[1]  b == stub[u].bin
  IN  /\ pc[u] = "load"
      /\ Complete(file[b])
      /\ functions' = [functions EXCEPT ![c] =
                         @ \o [i \in 1 .. file[b].head |-> Function(file[b].recs[i], b)]]
      /\ executed' = [executed EXCEPT ![c] =
                        Append(@, Executed(stub[u], handle[c][b]))]
      /\ inside_fat_binary' = [inside_fat_binary EXCEPT ![c] = FALSE]
      /\ Goto(u, "idle")
      /\ UNCHANGED <<batch, batch_active, recording, before, handle, missed,
                     todo, stub, back, cont, server, disk, restarts, called, failed>>

\* A hit at the server only: the fat binary is sent like an unknown one.
LoadMiss(u) ==
  /\ pc[u] = "load"
  /\ ~Complete(file[stub[u].bin])
  /\ inside_fat_binary' = [inside_fat_binary EXCEPT ![u[1]] = FALSE]
  /\ Goto(u, "parse")
  /\ UNCHANGED <<batch, batch_active, parsed, handle, missed, todo, stub, back, cont, server,
                 disk, history>>

\* Where the kernels of the fat binary being registered start.
\* Mutant of Mark: at the first kernel of all.
MarkFirst(c) == 0
Mark(c) == Len(functions[c])

\* The PTX is parsed, unless it cannot be decompressed.
Parse(u) ==
  LET c == u[1]  b == stub[u].bin
  IN  /\ pc[u] = "parse"
      /\ before' = [before EXCEPT ![c] = Mark(c)]
      /\ \/ /\ functions' = [functions EXCEPT ![c] =
                 @ \o [i \in DOMAIN Kernels[b] |-> Function(NameOf[Kernels[b][i]], b)]]
            /\ UNCHANGED failed
         \/ /\ failed' = failed \union {b}
            /\ UNCHANGED functions
      /\ FlushAndContinue(u, "full")
      /\ UNCHANGED <<batch, inside_fat_binary, recording, handle, missed, todo, stub, server,
                     disk, restarts, called, executed>>

\* __cudaRegisterFunction sets the host function of every kernel of the name.
\* Mutant of WithHost: the loop ends one kernel early.
WithHostButLast(fs, k) ==
  [i \in DOMAIN fs |-> IF i < Len(fs) /\ fs[i].name = NameOf[k]
                       THEN [fs[i] EXCEPT !.host = k] ELSE fs[i]]
WithHost(fs, k) ==
  [i \in DOMAIN fs |-> IF fs[i].name = NameOf[k] THEN [fs[i] EXCEPT !.host = k]
                       ELSE fs[i]]

\* __cudaRegisterFunction and __cudaRegisterVar.
RegisterSymbol(u) ==
  LET c == u[1]  call == Head(todo[u])
  IN  /\ pc[u] = "idle"
      /\ todo[u] # <<>> /\ call.op # "end"
      /\ Enter(u, call)
      /\ todo' = [todo EXCEPT ![u] = Tail(@)]
      /\ functions' = IF call.op = "function"
                      THEN [functions EXCEPT ![c] = WithHost(@, call.of)]
                      ELSE functions
      /\ IF batch_active[c]
         THEN AppendToBatch(c, call) /\ UNCHANGED <<pc, cont>>
         ELSE Connect(u, "send") /\ UNCHANGED batch
      /\ UNCHANGED <<back, batch_active, inside_fat_binary, recording, before, handle,
                     missed, server, disk, restarts, executed, failed>>

\* __cudaRegisterFatBinaryEnd: a batched call saves the kernels last, a call
\* sent by itself first.
RegisterEnd(u) ==
  LET c == u[1]  call == Head(todo[u])
  IN  /\ pc[u] = "idle"
      /\ todo[u] # <<>> /\ call.op = "end"
      /\ Enter(u, call)
      /\ todo' = [todo EXCEPT ![u] = Tail(@)]
      /\ IF batch_active[c] THEN AppendToBatch(c, call) ELSE UNCHANGED batch
      /\ cont' = [cont EXCEPT ![u] = IF batch_active[c] THEN "idle" ELSE "send"]
      /\ Goto(u, IF recording[c] THEN "open"
                 ELSE IF batch_active[c] THEN "idle" ELSE "conn")
      /\ UNCHANGED <<back, batch_active, inside_fat_binary, parsed, handle, missed,
                     server, disk, restarts, executed, failed>>

\* fatbin_cache_save: the file is emptied,
OpenFile(u) ==
  /\ pc[u] = "open"
  /\ file' = [file EXCEPT ![stub[u].bin] = NoFile]
  /\ written' = [written EXCEPT ![u[1]] = 0]
  /\ Goto(u, "write")
  /\ UNCHANGED <<batching, parsed, handle, missed, todo, stub, back, cont, server,
                 history>>

\* How many kernels are saved.
\* Mutant of Count: the last one is forgotten.
CountButLast(c) == IF Len(functions[c]) = before[c] THEN 0
                   ELSE Len(functions[c]) - before[c] - 1
Count(c) == Len(functions[c]) - before[c]

\* A kernel's entry goes where the writer is, beyond the end if need be.
WithRecord(f, i, name) ==
  [f EXCEPT !.recs =
     [j \in DOMAIN f.recs \union {i} |-> IF j = i THEN name ELSE f.recs[j]]]

\* then the number of kernels is written and the kernels one by one,
WriteFile(u) ==
  LET c == u[1]  b == stub[u].bin
  IN  /\ pc[u] = "write"
      /\ written[c] <= Count(c)
      /\ file' = [file EXCEPT ![b] =
           IF written[c] = 0 THEN [@ EXCEPT !.head = Count(c)]
           ELSE WithRecord(@, written[c], functions[c][before[c] + written[c]].name)]
      /\ written' = [written EXCEPT ![c] = @ + 1]
      /\ UNCHANGED <<batching, parsed, handle, missed, thread, server, history>>

\* and the file is closed; it is left as it is when a write fails.
CloseFile(u) ==
  /\ pc[u] \in {"open", "write"}
  /\ recording' = [recording EXCEPT ![u[1]] = FALSE]
  /\ Goto(u, IF cont[u] = "send" THEN "conn" ELSE "idle")
  /\ UNCHANGED <<batching, functions, before, handle, missed, todo, stub, back,
                 cont, server, disk, history>>

\* cudaLaunchKernel looks the kernel up by its host function.
Launch(u) ==
  LET c == u[1]
      known == \E i \in DOMAIN functions[c] : functions[c][i].host = stub[u].of
  IN  /\ pc[u] = "launch"
      /\ Connected(c)
      /\ IF known
         THEN executed' = [executed EXCEPT ![c] =
                             Append(@, [call |-> stub[u], with |-> stub[u].bin])]
              /\ UNCHANGED missed
         ELSE missed' = [missed EXCEPT ![c] = @ \union {stub[u].of}]
              /\ UNCHANGED executed
      /\ Goto(u, "idle")
      /\ UNCHANGED <<batching, parsed, handle, todo, stub, back, cont, server, disk, restarts,
                     called, failed>>

-----------------------------------------------------------------------------

\* A client process ends, at any point, and another is started.
ClientRestart(c) ==
  /\ restarts < MaxRestarts
  /\ restarts' = restarts + 1
  /\ Started({c})
  /\ UNCHANGED <<server, file, failed>>

\* The server ends; no client survives that, and all are started again.
ServerRestart ==
  /\ restarts < MaxRestarts
  /\ restarts' = restarts + 1
  /\ Started(Clients)
  /\ handles' = <<>>
  /\ serverCache' = [b \in FatBins |-> 0]
  /\ UNCHANGED <<file, failed>>

Progress(u) ==
  \/ GetConnection(u) \/ ExecuteBatch(u) \/ FlushEnd(u) \/ Deactivate(u)
  \/ QueryServer(u) \/ LoadHit(u) \/ LoadMiss(u) \/ Parse(u) \/ RegisterFull(u)
  \/ RegisterSymbol(u) \/ RegisterEnd(u) \/ ExecuteOne(u)
  \/ OpenFile(u) \/ WriteFile(u) \/ CloseFile(u) \/ Launch(u)

Next ==
  \/ \E u \in Users :
       \/ Progress(u)
       \/ \E b \in FatBins : Construct(u, b)
                             \/ \E k \in ToSet(Kernels[b]) : StartLaunch(u, b, k)
  \/ \E c \in Clients : ClientRestart(c)
  \/ ServerRestart

Spec == Init /\ [][Next]_vars

-----------------------------------------------------------------------------
(* Properties.                                                             *)

Names == {NameOf[k] : k \in AllKernels}

TypeOK ==
  /\ batch \in [Clients -> Seq([call : Call, handle : Nat])]
  /\ batch_active \in [Clients -> BOOLEAN]
  /\ inside_fat_binary \in [Clients -> BOOLEAN]
  /\ functions \in [Clients -> Seq([name : Names, bin : FatBins,
                                    host : AllKernels \union {None}])]
  /\ recording \in [Clients -> BOOLEAN]
  /\ before \in [Clients -> Nat]
  /\ handle \in [Clients -> [FatBins -> Nat]]
  /\ missed \in [Clients -> SUBSET AllKernels]
  /\ todo \in [Users -> Seq(Call)]
  /\ stub \in [Users -> Call \union {NoCall}]
  /\ pc \in [Users -> PCs]
  /\ back \in [Users -> {"conn", "deactivate"}]
  /\ cont \in [Users -> Conts]
  /\ handles \in Seq(FatBins)
  /\ serverCache \in [FatBins -> Nat]
  /\ DOMAIN file = FatBins
  /\ \A b \in FatBins : /\ DOMAIN file[b] = {"head", "recs"}
                        /\ file[b].head \in Int
                        /\ \A i \in DOMAIN file[b].recs : file[b].recs[i] \in Names
  /\ written \in [Clients -> Nat]
  /\ restarts \in 0 .. MaxRestarts
  /\ called \in [Clients -> Seq(Call)]
  /\ executed \in [Clients -> Seq([call : Call, with : FatBins \union {None}])]
  /\ failed \subseteq FatBins

\* A registration is executed with the handle of its own fat binary, also when
\* the handle came from a cache that other processes filled, in a server that
\* was started anew (manual_client.cpp:681-716, manual_server.cpp:621-685).
OwnHandle ==
  \A c \in Clients : \A i \in DOMAIN executed[c] :
    executed[c][i].with = executed[c][i].call.bin

\* The positions of the kernels of b in a client's list, and that they are there
\* together and in the order of the PTX.
Known(c, b) == {i \in DOMAIN functions[c] : functions[c][i].bin = b}
AsInPTX(c, b) ==
  \E n \in 0 .. Len(functions[c]) :
    /\ Known(c, b) = n + 1 .. n + Len(Kernels[b])
    /\ \A i \in DOMAIN Kernels[b] : functions[c][n + i].name = NameOf[Kernels[b][i]]

\* The kernels a client knows of a fat binary are those of its PTX, whether
\* parsed or read from a file that processes wrote at the same time or left
\* half written; or there are none, after a PTX that was not decompressed
\* (fatbin_cache.cpp:87-177, manual_client.cpp:697-778, 831-842).
KernelsOfPTX ==
  \A c \in Clients, b \in FatBins :
    Loaded(c, b) => AsInPTX(c, b) \/ (Known(c, b) = {} /\ b \in failed)

\* A kernel of a library that is loaded is found when it is launched, unless
\* its PTX was not decompressed (manual_client.cpp:161, 944-946, 513-519).
LaunchFindsKernel ==
  \A c \in Clients : \A k \in missed[c] :
    \E b \in failed : k \in ToSet(Kernels[b])

\* Batching ends with the first call after the registrations that is not one
\* (cuda_batch.cpp:33-34, cuda_batch.h:31-32): after a launch nothing is batched
\* nor left in the buffer.  A call that comes before any registration does not
\* end it, since cuda_batch_is_active turns it on with the buffer's allocation
\* (cuda_batch.cpp:53-60).
BatchingEnds ==
  \A c \in Clients :
    (\E i \in DOMAIN executed[c] : executed[c][i].call.op = "launch")
      => ~batch_active[c] /\ batch[c] = <<>>

\* The server executes the calls of a process in program order, each once,
\* and those before a launch before it.
Service == INSTANCE RegistrationService WITH
  Clients <- Clients,
  Sync <- {"fatbin", "launch"},
  called <- called,
  executed <- [c \in Clients |-> [i \in DOMAIN executed[c] |->
                 IF executed[c][i].with = executed[c][i].call.bin
                 THEN executed[c][i].call ELSE NoCall]],
  busy <- [c \in Clients |-> ~Connected(c) \/ \E t \in Threads : pc[<<c, t>>] # "idle"]
ImplementsService == Service!Spec
=============================================================================
