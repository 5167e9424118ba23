------------------------ MODULE Registration_proofs ------------------------
(***************************************************************************)
(* Proofs about registration: for any clients, threads, fat binaries and   *)
(* restarts, whatever the caches hold and however the buffer overflows,    *)
(* the server executes a registration with the handle of the fat binary it *)
(* is for.  This needs that every handle kept anywhere is one of the       *)
(* running server: in its cache by hash, in the variables of a program, in *)
(* the batch buffer and in the calls that a constructor has yet to make.   *)
(***************************************************************************)
EXTENDS Registration, SequenceTheorems, TLAPS

\* CUDA registered fat binary b under handle h in the running server.
Denotes(h, b) == h \in DOMAIN handles /\ handles[h] = b

\* The server's cache and the programs hold handles of the running server.
HandleInv ==
  /\ \A b \in FatBins : serverCache[b] # 0 => Denotes(serverCache[b], b)
  /\ \A c \in Clients, b \in FatBins :
       handle[c][b] # 0 => Denotes(handle[c][b], b)

\* A command in the buffer has the handle of its own fat binary.
BatchInv ==
  \A c \in Clients : \A i \in 1 .. Len(batch[c]) :
    Denotes(batch[c][i].handle, batch[c][i].call.bin)

Registrations == {"function", "var", "end"}

\* Where a thread goes on once it has its connection.
PlaceOf(u) == IF pc[u] \in Connecting THEN cont[u] ELSE pc[u]

\* A thread is at a place of the stub it is in, and the handle of a symbol it
\* registers is known.
StubOf(u) ==
  pc[u] # "idle" =>
    /\ stub[u] \in Call
    /\ PlaceOf(u) # "idle"
    /\ (PlaceOf(u) \in {"query", "load", "parse", "full"}) <=> stub[u].op = "fatbin"
    /\ (PlaceOf(u) = "launch") <=> stub[u].op = "launch"
    /\ PlaceOf(u) \in {"open", "write"} => stub[u].op = "end"
    /\ pc[u] \in {"open", "write"} => cont[u] \in {"send", "idle"}
    /\ stub[u].op = "launch" => stub[u].of \in AllKernels
    /\ stub[u].op \in Registrations \/ pc[u] = "load" =>
         Denotes(handle[u[1]][stub[u].bin], stub[u].bin)
StubInv == \A u \in Users : StubOf(u)

\* What is left of a constructor are registrations, whose fat binary has its
\* handle once __cudaRegisterFatBinary has returned.
InFatBinary(u) == pc[u] # "idle" /\ stub[u].op = "fatbin"
RestOf(u) ==
  \A i \in 1 .. Len(todo[u]) :
    /\ todo[u][i].op \in Registrations
    /\ todo[u][i].op = "function" => todo[u][i].of \in AllKernels
    /\ IF InFatBinary(u) THEN stub[u].bin = todo[u][i].bin
       ELSE Denotes(handle[u[1]][todo[u][i].bin], todo[u][i].bin)
TodoInv == \A u \in Users : RestOf(u)

\* The inductive invariant.
IInv == TypeOK /\ HandleInv /\ BatchInv /\ StubInv /\ TodoInv /\ OwnHandle

-----------------------------------------------------------------------------
\* A step of thread u leaves the other threads where they are.
Others(u) ==
  \A v \in Users \ {u} : /\ pc'[v] = pc[v]
                         /\ cont'[v] = cont[v]
                         /\ stub'[v] = stub[v]
                         /\ todo'[v] = todo[v]

\* No handle is given to another fat binary, and no known handle is lost.
Kept ==
  /\ \A h \in Nat, b \in FatBins : Denotes(h, b) => Denotes(h, b)'
  /\ \A c \in Clients, b \in FatBins :
       Denotes(handle[c][b], b) => Denotes(handle[c][b], b)'

LEMMA UserClient == \A u \in Users : u[1] \in Clients
  BY DEF Users

LEMMA SameHandles ==
  ASSUME IInv, UNCHANGED <<handle, handles, serverCache>>
  PROVE  Kept /\ HandleInv'
  BY DEF IInv, Kept, HandleInv, Denotes

LEMMA SameBatch ==
  ASSUME IInv, Kept, batch' = batch
  PROVE  BatchInv'
  <1> SUFFICES ASSUME NEW c \in Clients, NEW i \in 1 .. Len(batch[c])
               PROVE  Denotes(batch[c][i].handle, batch[c][i].call.bin)'
    BY DEF BatchInv
  <1>1. batch[c][i] \in [call : Call, handle : Nat]
    BY ElementOfSeq DEF IInv, TypeOK
  <1>2. batch[c][i].handle \in Nat /\ batch[c][i].call.bin \in FatBins
    BY <1>1 DEF Call
  <1>3. Denotes(batch[c][i].handle, batch[c][i].call.bin)
    BY DEF IInv, BatchInv
  <1>4. QED
    BY <1>2, <1>3 DEF Kept, Denotes

\* The invariant after a step of thread u, from what the step does itself.
LEMMA StepOf ==
  ASSUME IInv, NEW u \in Users, Others(u), Kept,
         TypeOK', HandleInv', BatchInv', OwnHandle', StubOf(u)', RestOf(u)'
  PROVE  IInv'
  <1>1. ASSUME NEW v \in Users \ {u} PROVE StubOf(v)' /\ RestOf(v)'
    <2>1. StubOf(v) /\ RestOf(v)
      BY DEF IInv, StubInv, TodoInv
    <2>2. PlaceOf(v)' = PlaceOf(v)
      BY DEF PlaceOf, Others
    <2>3. v[1] \in Clients
      BY UserClient
    <2>4. stub[v] \in Call => stub[v].bin \in FatBins
      BY DEF Call
    <2>5. StubOf(v)'
      BY <2>1, <2>2, <2>3, <2>4 DEF StubOf, Others, Kept
    <2>6. todo[v] \in Seq(Call)
      BY DEF IInv, TypeOK
    <2>7. ASSUME NEW i \in 1 .. Len(todo[v]) PROVE todo[v][i].bin \in FatBins
      <3>1. todo[v][i] \in Call
        BY <2>6, ElementOfSeq
      <3>2. QED
        BY <3>1 DEF Call
    <2>8. RestOf(v)'
      BY <2>1, <2>3, <2>7 DEF RestOf, Others, Kept, InFatBinary
    <2>9. QED
      BY <2>5, <2>8
  <1>2. QED
    BY <1>1 DEF IInv, StubInv, TodoInv

\* A step of thread u within a client.
LEMMA LocalStep ==
  ASSUME IInv, NEW u \in Users, Others(u), TypeOK', StubOf(u)', RestOf(u)',
         UNCHANGED <<batch, handle, handles, serverCache, executed>>
  PROVE  IInv'
  <1>1. OwnHandle'
    BY DEF IInv, OwnHandle
  <1>2. QED
    BY <1>1, SameHandles, SameBatch, StepOf

\* A thread that waits for its connection stays in its stub.
LEMMA Onward ==
  ASSUME IInv, NEW u \in Users, UNCHANGED <<stub, todo, handle>>, Kept,
         pc[u] # "idle", pc'[u] \notin {"idle", "load", "open", "write"},
         PlaceOf(u)' = PlaceOf(u)
  PROVE  StubOf(u)' /\ RestOf(u)'
  <1>1. StubOf(u) /\ RestOf(u) /\ u[1] \in Clients
    BY UserClient DEF IInv, StubInv, TodoInv
  <1>2. stub[u] \in Call /\ stub[u].bin \in FatBins
    BY <1>1 DEF StubOf, Call
  <1>3. StubOf(u)'
    BY <1>1, <1>2 DEF StubOf, Kept
  <1>4. todo[u] \in Seq(Call)
    BY DEF IInv, TypeOK
  <1>5. ASSUME NEW i \in 1 .. Len(todo[u]) PROVE todo[u][i].bin \in FatBins
    <2>1. todo[u][i] \in Call
      BY <1>4, ElementOfSeq
    <2>2. QED
      BY <2>1 DEF Call
  <1>6. RestOf(u)'
    BY <1>1, <1>5 DEF RestOf, InFatBinary, Kept
  <1>7. QED
    BY <1>3, <1>6

LEMMA GetConnectionInv ==
  ASSUME IInv, NEW u \in Users, GetConnection(u)
  PROVE  IInv'
  <1>1. /\ pc[u] = "conn" /\ cont' = cont /\ stub' = stub /\ todo' = todo
        /\ UNCHANGED <<batch, handle, handles, serverCache, executed>>
    BY DEF GetConnection, server, history
  <1>2. \E l \in {"flushSend", cont[u]} : pc' = [pc EXCEPT ![u] = l]
    BY DEF GetConnection, Flush, Goto
  <1>3. TypeOK'
    BY DEF GetConnection, Flush, Goto, IInv, TypeOK, server, history, parsed,
       disk, PCs, Connecting, Conts
  <1>4. pc'[u] \in {"flushSend", cont[u]} /\ Others(u) /\ cont[u] # "idle"
    BY <1>1, <1>2 DEF IInv, TypeOK, Others, StubInv, StubOf, PlaceOf, Connecting
  <1>5. PlaceOf(u)' = PlaceOf(u) /\ pc'[u] \notin {"idle", "load", "open", "write"}
    BY <1>1, <1>4 DEF PlaceOf, Connecting, Conts, IInv, TypeOK
  <1>6. QED
    BY <1>1, <1>3, <1>4, <1>5, Onward, SameHandles, LocalStep

LEMMA DeactivateInv ==
  ASSUME IInv, NEW u \in Users, Deactivate(u)
  PROVE  IInv'
  <1>1. /\ pc[u] = "deactivate" /\ cont' = cont /\ stub' = stub /\ todo' = todo
        /\ pc' = [pc EXCEPT ![u] = cont[u]]
        /\ UNCHANGED <<batch, handle, handles, serverCache, executed>>
    BY DEF Deactivate, Goto, server, history
  <1>2. TypeOK'
    BY DEF Deactivate, Goto, IInv, TypeOK, server, history, parsed, disk, PCs
  <1>3. pc'[u] = cont[u] /\ Others(u) /\ cont[u] # "idle"
    BY <1>1 DEF IInv, TypeOK, Others, StubInv, StubOf, PlaceOf, Connecting
  <1>4. PlaceOf(u)' = PlaceOf(u) /\ pc'[u] \notin {"idle", "load", "open", "write"}
    BY <1>1, <1>3 DEF PlaceOf, Connecting, Conts, IInv, TypeOK
  <1>5. QED
    BY <1>1, <1>2, <1>3, <1>4, Onward, SameHandles, LocalStep

LEMMA FlushEndInv ==
  ASSUME IInv, NEW u \in Users, FlushEnd(u)
  PROVE  IInv'
  <1>1. /\ pc[u] = "flushed" /\ cont' = cont /\ stub' = stub /\ todo' = todo
        /\ pc' = [pc EXCEPT ![u] = back[u]]
        /\ batch' = [batch EXCEPT ![u[1]] = <<>>]
        /\ UNCHANGED <<handle, handles, serverCache, executed>>
    BY DEF FlushEnd, Goto, server, history
  <1>2. batch' \in [Clients -> Seq([call : Call, handle : Nat])]
    <2>1. <<>> \in Seq([call : Call, handle : Nat])
      BY EmptySeq
    <2>2. QED
      BY <1>1, <2>1 DEF IInv, TypeOK
  <1>3. TypeOK'
    BY <1>2 DEF FlushEnd, Goto, IInv, TypeOK, server, history, parsed, disk,
       PCs, Connecting
  <1>4. pc'[u] \in {"conn", "deactivate"} /\ Others(u)
    BY <1>1 DEF IInv, TypeOK, Others
  <1>5. PlaceOf(u)' = PlaceOf(u)
    BY <1>1, <1>4 DEF PlaceOf, Connecting
  <1>6. Kept /\ HandleInv'
    BY <1>1, SameHandles
  <1>7. BatchInv'
    <2>1. \A c \in Clients : batch'[c] = IF c = u[1] THEN <<>> ELSE batch[c]
      BY <1>1 DEF IInv, TypeOK
    <2>2. SUFFICES ASSUME NEW c \in Clients, NEW i \in 1 .. Len(batch'[c])
                   PROVE  Denotes(batch[c][i].handle, batch[c][i].call.bin)'
      BY DEF BatchInv
    <2>3. c # u[1] /\ batch'[c] = batch[c]
      BY <2>1
    <2>4. QED
      BY <1>1, <2>3 DEF IInv, BatchInv, Denotes
  <1>8. OwnHandle'
    BY <1>1 DEF IInv, OwnHandle
  <1>9. QED
    BY <1>1, <1>3, <1>4, <1>5, <1>6, <1>7, <1>8, Onward, StepOf

LEMMA LoadMissInv ==
  ASSUME IInv, NEW u \in Users, LoadMiss(u)
  PROVE  IInv'
  <1>1. /\ pc[u] = "load" /\ cont' = cont /\ stub' = stub /\ todo' = todo
        /\ pc' = [pc EXCEPT ![u] = "parse"]
        /\ UNCHANGED <<batch, handle, handles, serverCache, executed>>
    BY DEF LoadMiss, Goto, server, history
  <1>2. TypeOK'
    BY DEF LoadMiss, Goto, IInv, TypeOK, server, history, parsed, disk, PCs
  <1>3. pc'[u] = "parse" /\ Others(u)
    BY <1>1 DEF IInv, TypeOK, Others
  <1>4. StubOf(u) /\ RestOf(u)
    BY DEF IInv, StubInv, TodoInv
  <1>5. StubOf(u)'
    BY <1>1, <1>3, <1>4 DEF StubOf, PlaceOf, Connecting, Registrations
  <1>6. RestOf(u)'
    BY <1>1, <1>3, <1>4 DEF RestOf, InFatBinary, Denotes
  <1>7. QED
    BY <1>1, <1>2, <1>3, <1>5, <1>6, LocalStep

\* A sequence of kernels stays one when more are appended.
LEMMA FunctionsAppended ==
  ASSUME TypeOK, NEW c \in Clients, NEW n \in Nat, NEW fs,
         DOMAIN fs = 1 .. n, fs = [i \in 1 .. n |-> fs[i]],
         \A i \in 1 .. n : fs[i] \in [name : Names, bin : FatBins,
                                     host : AllKernels \union {None}],
         functions' = [functions EXCEPT ![c] = @ \o fs]
  PROVE  functions' \in [Clients -> Seq([name : Names, bin : FatBins,
                                          host : AllKernels \union {None}])]
  <1> DEFINE F == [name : Names, bin : FatBins, host : AllKernels \union {None}]
  <1>1. fs \in Seq(F)
    <2> HIDE DEF F
    <2>1. \A i \in 1 .. n : fs[i] \in F
      BY DEF F
    <2>2. fs \in [1 .. n -> F]
      BY <2>1
    <2>3. QED
      BY <2>2, SeqDef
  <1>2. functions[c] \in Seq(F)
    BY DEF TypeOK
  <1>3. functions[c] \o fs \in Seq(F)
    BY <1>1, <1>2, ConcatProperties
  <1>4. QED
    BY <1>3 DEF TypeOK

LEMMA ParseInv ==
  ASSUME IInv, NEW u \in Users, Parse(u)
  PROVE  IInv'
  <1> DEFINE c == u[1]
             b == stub[u].bin
             fs == [i \in DOMAIN Kernels[b] |-> Function(NameOf[Kernels[b][i]], b)]
             F == [name : Names, bin : FatBins, host : AllKernels \union {None}]
  <1>1. /\ pc[u] = "parse" /\ cont' = [cont EXCEPT ![u] = "full"]
        /\ stub' = stub /\ todo' = todo
        /\ UNCHANGED <<batch, handle, handles, serverCache, executed>>
    BY DEF Parse, FlushAndContinue, server
  <1>2. \E l \in {"flushSend", "conn"} : pc' = [pc EXCEPT ![u] = l]
    BY DEF Parse, FlushAndContinue, Flush, Goto
  <1>3. /\ StubOf(u) /\ RestOf(u) /\ stub[u] \in Call /\ stub[u].bin \in FatBins
        /\ u[1] \in Clients /\ stub[u].op = "fatbin"
    BY <1>1, UserClient DEF IInv, StubInv, TodoInv, StubOf, PlaceOf, Connecting, Call
  <1>4. functions' \in [Clients -> Seq(F)]
    <2>1. CASE UNCHANGED functions
      BY <2>1 DEF IInv, TypeOK
    <2>2. CASE functions' = [functions EXCEPT ![c] = @ \o fs]
      <3>1. Kernels[b] \in Seq(AllKernels)
        BY <1>3, BinariesAssumption
      <3>2. \A i \in 1 .. Len(Kernels[b]) : fs[i] \in F
        BY <1>3, <3>1, ElementOfSeq DEF Function, Names
      <3>3. fs = [i \in 1 .. Len(Kernels[b]) |-> fs[i]] /\ Len(Kernels[b]) \in Nat
        BY <3>1, LenProperties
      <3>4. QED
        BY <1>3, <2>2, <3>2, <3>3, FunctionsAppended DEF IInv
    <2>3. QED
      BY <2>1, <2>2 DEF Parse
  <1>5. before' \in [Clients -> Nat]
    <2>1. Len(functions[c]) \in Nat
      BY <1>3, LenProperties DEF IInv, TypeOK
    <2>2. QED
      BY <2>1 DEF Parse, Mark, IInv, TypeOK
  <1>6. failed' \subseteq FatBins
    BY <1>3 DEF Parse, IInv, TypeOK
  <1>7. /\ pc' \in [Users -> PCs] /\ cont' \in [Users -> Conts]
        /\ back' \in [Users -> {"conn", "deactivate"}]
        /\ batch_active' \in [Clients -> BOOLEAN]
    <2>1. FlushAndContinue(u, "full")
      BY DEF Parse
    <2>2. pc' \in [Users -> PCs] /\ cont' \in [Users -> Conts]
      BY <1>1, <1>2 DEF IInv, TypeOK, PCs, Connecting, Conts
    <2>3. /\ back' \in [Users -> {"conn", "deactivate"}]
          /\ batch_active' \in [Clients -> BOOLEAN]
      BY <2>1 DEF FlushAndContinue, Flush, IInv, TypeOK
    <2>4. QED
      BY <2>2, <2>3
  <1>8. TypeOK'
    BY <1>1, <1>4, <1>5, <1>6, <1>7 DEF Parse, IInv, TypeOK, server, disk
  <1>9. pc'[u] \in {"flushSend", "conn"} /\ cont'[u] = "full" /\ Others(u)
    BY <1>1, <1>2 DEF IInv, TypeOK, Others
  <1>10. StubOf(u)'
    BY <1>1, <1>3, <1>9 DEF StubOf, PlaceOf, Connecting, Registrations
  <1>11. RestOf(u)'
    BY <1>1, <1>3, <1>9 DEF RestOf, InFatBinary, Denotes
  <1>12. QED
    BY <1>1, <1>8, <1>9, <1>10, <1>11, LocalStep

\* A call appended to those a client's process had executed.
LEMMA OneExecuted ==
  ASSUME IInv, NEW c \in Clients, NEW x \in Call,
         executed' = [executed EXCEPT ![c] = Append(@, [call |-> x, with |-> x.bin])]
  PROVE  /\ executed' \in [Clients -> Seq([call : Call, with : FatBins \union {None}])]
         /\ OwnHandle'
  <1> DEFINE E == [call : Call, with : FatBins \union {None}]
             e == [call |-> x, with |-> x.bin]
  <1>1. e \in E /\ e.with = e.call.bin
    BY DEF Call
  <1> HIDE DEF e
  <1>2. executed' = [executed EXCEPT ![c] = Append(@, e)]
    BY DEF e
  <1>3. executed \in [Clients -> Seq(E)]
    BY DEF IInv, TypeOK
  <1> HIDE DEF E
  <1>4. executed' \in [Clients -> Seq(E)]
    BY <1>1, <1>2, <1>3
  <1>5. ASSUME NEW d \in Clients, NEW i \in DOMAIN executed'[d]
        PROVE  executed'[d][i].with = executed'[d][i].call.bin
    <2>1. CASE d # c
      BY <1>2, <1>3, <2>1 DEF IInv, OwnHandle
    <2>2. CASE d = c
      <3>1. executed'[c] = Append(executed[c], e) /\ executed[c] \in Seq(E)
        BY <1>2, <1>3
      <3>2. i \in 1 .. Len(executed[c]) + 1
        BY <1>1, <2>2, <3>1, AppendProperties, LenProperties
      <3>3. CASE i = Len(executed[c]) + 1
        BY <1>1, <2>2, <3>1, <3>3, AppendProperties
      <3>4. CASE i \in 1 .. Len(executed[c])
        <4>1. executed'[c][i] = executed[c][i] /\ i \in DOMAIN executed[c]
          BY <1>1, <3>1, <3>4, AppendProperties, LenProperties
        <4>2. QED
          BY <2>2, <4>1 DEF IInv, OwnHandle
      <3>5. QED
        BY <3>1, <3>2, <3>3, <3>4, LenProperties
    <2>3. QED
      BY <2>1, <2>2
  <1>6. QED
    BY <1>4, <1>5 DEF OwnHandle, E

LEMMA ExecuteOneInv ==
  ASSUME IInv, NEW u \in Users, ExecuteOne(u)
  PROVE  IInv'
  <1>1. /\ pc[u] = "send" /\ cont' = cont /\ stub' = stub /\ todo' = todo
        /\ pc' = [pc EXCEPT ![u] = "idle"]
        /\ UNCHANGED <<batch, handle, handles, serverCache>>
    BY DEF ExecuteOne, Goto, server, batching
  <1>2. StubOf(u) /\ RestOf(u) /\ u[1] \in Clients
    BY UserClient DEF IInv, StubInv, TodoInv
  <1>3. /\ stub[u] \in Call /\ stub[u].op \in Registrations
        /\ Denotes(handle[u[1]][stub[u].bin], stub[u].bin)
    BY <1>1, <1>2 DEF StubOf, PlaceOf, Connecting, Call, Registrations
  <1>4. executed' = [executed EXCEPT ![u[1]] =
                       Append(@, [call |-> stub[u], with |-> stub[u].bin])]
    BY <1>3 DEF ExecuteOne, Executed, Denoted, Denotes
  <1>5. /\ executed' \in [Clients -> Seq([call : Call, with : FatBins \union {None}])]
        /\ OwnHandle'
    BY <1>2, <1>3, <1>4, OneExecuted
  <1>6. TypeOK'
    BY <1>1, <1>5 DEF ExecuteOne, IInv, TypeOK, batching, parsed, server, disk,
       PCs, Conts
  <1>7. pc'[u] = "idle" /\ Others(u)
    BY <1>1 DEF IInv, TypeOK, Others
  <1>8. StubOf(u)' /\ RestOf(u)'
    BY <1>1, <1>2, <1>3, <1>7 DEF StubOf, RestOf, InFatBinary, Denotes, Registrations
  <1>9. QED
    BY <1>1, <1>5, <1>6, <1>7, <1>8, SameHandles, SameBatch, StepOf

LEMMA LaunchInv ==
  ASSUME IInv, NEW u \in Users, Launch(u)
  PROVE  IInv'
  <1>1. /\ pc[u] = "launch" /\ cont' = cont /\ stub' = stub /\ todo' = todo
        /\ pc' = [pc EXCEPT ![u] = "idle"]
        /\ UNCHANGED <<batch, handle, handles, serverCache>>
    BY DEF Launch, Goto, server, batching
  <1>2. StubOf(u) /\ RestOf(u) /\ u[1] \in Clients
    BY UserClient DEF IInv, StubInv, TodoInv
  <1>3. stub[u] \in Call /\ stub[u].op = "launch" /\ stub[u].of \in AllKernels
    BY <1>1, <1>2 DEF StubOf, PlaceOf, Connecting
  <1>4. /\ executed' \in [Clients -> Seq([call : Call, with : FatBins \union {None}])]
        /\ OwnHandle'
    <2>1. CASE executed' = executed
      BY <2>1 DEF IInv, TypeOK, OwnHandle
    <2>2. CASE executed' = [executed EXCEPT ![u[1]] =
                              Append(@, [call |-> stub[u], with |-> stub[u].bin])]
      BY <1>2, <1>3, <2>2, OneExecuted
    <2>3. QED
      BY <2>1, <2>2 DEF Launch
  <1>5. missed' \in [Clients -> SUBSET AllKernels]
    <2>1. missed \in [Clients -> SUBSET AllKernels]
      BY DEF IInv, TypeOK
    <2>2. missed[u[1]] \union {stub[u].of} \in SUBSET AllKernels
      BY <1>2, <1>3, <2>1
    <2>3. missed' \in {missed, [missed EXCEPT ![u[1]] = @ \union {stub[u].of}]}
      BY DEF Launch
    <2>4. QED
      BY <2>1, <2>2, <2>3
  <1>6. TypeOK'
    BY <1>1, <1>4, <1>5 DEF Launch, IInv, TypeOK, batching, parsed, server, disk,
       PCs, Conts
  <1>7. pc'[u] = "idle" /\ Others(u)
    BY <1>1 DEF IInv, TypeOK, Others
  <1>8. StubOf(u)' /\ RestOf(u)'
    BY <1>1, <1>2, <1>3, <1>7 DEF StubOf, RestOf, InFatBinary, Denotes
  <1>9. QED
    BY <1>1, <1>4, <1>6, <1>7, <1>8, SameHandles, SameBatch, StepOf

LEMMA LoadHitInv ==
  ASSUME IInv, NEW u \in Users, LoadHit(u)
  PROVE  IInv'
  <1> DEFINE c == u[1]
             b == stub[u].bin
             fs == [i \in 1 .. file[b].head |-> Function(file[b].recs[i], b)]
             F == [name : Names, bin : FatBins, host : AllKernels \union {None}]
  <1>1. /\ pc[u] = "load" /\ cont' = cont /\ stub' = stub /\ todo' = todo
        /\ pc' = [pc EXCEPT ![u] = "idle"]
        /\ UNCHANGED <<batch, handle, handles, serverCache>>
    BY DEF LoadHit, Goto, server
  <1>2. StubOf(u) /\ RestOf(u) /\ u[1] \in Clients
    BY UserClient DEF IInv, StubInv, TodoInv
  <1>3. /\ stub[u] \in Call /\ stub[u].bin \in FatBins /\ stub[u].op = "fatbin"
        /\ Denotes(handle[u[1]][stub[u].bin], stub[u].bin)
    BY <1>1, <1>2 DEF StubOf, PlaceOf, Connecting, Call
  <1>4. executed' = [executed EXCEPT ![u[1]] =
                       Append(@, [call |-> stub[u], with |-> stub[u].bin])]
    BY <1>3 DEF LoadHit, Executed, Denoted, Denotes
  <1>5. /\ executed' \in [Clients -> Seq([call : Call, with : FatBins \union {None}])]
        /\ OwnHandle'
    BY <1>2, <1>3, <1>4, OneExecuted
  <1>6. functions' \in [Clients -> Seq(F)]
    <2>1. /\ file[b].head \in Nat /\ 1 .. file[b].head \subseteq DOMAIN file[b].recs
          /\ \A i \in DOMAIN file[b].recs : file[b].recs[i] \in Names
      BY <1>3 DEF LoadHit, Complete, IInv, TypeOK
    <2>2. \A i \in 1 .. file[b].head : fs[i] \in F
      BY <1>3, <2>1 DEF Function
    <2>3. functions' = [functions EXCEPT ![c] = @ \o fs]
      BY DEF LoadHit
    <2>4. QED
      BY <1>2, <2>1, <2>2, <2>3, FunctionsAppended DEF IInv
  <1>7. TypeOK'
    <2>1. /\ inside_fat_binary' \in [Clients -> BOOLEAN]
          /\ UNCHANGED <<batch, batch_active, recording, before, handle, missed, todo,
                         stub, back, cont, server, disk, restarts, called, failed>>
      BY DEF LoadHit, IInv, TypeOK
    <2>2. pc' \in [Users -> PCs]
      BY <1>1 DEF IInv, TypeOK, PCs, Conts
    <2>3. QED
      BY <1>5, <1>6, <2>1, <2>2 DEF IInv, TypeOK, server, disk
  <1>8. pc'[u] = "idle" /\ Others(u)
    BY <1>1 DEF IInv, TypeOK, Others
  <1>9. StubOf(u)'
    BY <1>8 DEF StubOf
  <1>10. RestOf(u)'
    BY <1>1, <1>2, <1>3, <1>8 DEF RestOf, InFatBinary, Denotes
  <1>11. QED
    BY <1>1, <1>5, <1>7, <1>8, <1>9, <1>10, SameHandles, SameBatch, StepOf

LEMMA ExecuteBatchInv ==
  ASSUME IInv, NEW u \in Users, ExecuteBatch(u)
  PROVE  IInv'
  <1> DEFINE c == u[1]
             B == [call : Call, handle : Nat]
             E == [call : Call, with : FatBins \union {None}]
             es == ExecutedBatch(c)
  <1>1. /\ pc[u] = "flushSend" /\ cont' = cont /\ stub' = stub /\ todo' = todo
        /\ pc' = [pc EXCEPT ![u] = "flushed"]
        /\ UNCHANGED <<batch, handle, handles, serverCache>>
    BY DEF ExecuteBatch, Goto, batching, server
  <1>2. u[1] \in Clients
    BY UserClient
  <1>3. batch[c] \in Seq(B) /\ executed[c] \in Seq(E)
    BY <1>2 DEF IInv, TypeOK
  <1>4. ASSUME NEW i \in 1 .. Len(batch[c])
        PROVE  es[i] \in E /\ es[i].with = es[i].call.bin
    <2>1. batch[c][i] \in B
      BY <1>3, ElementOfSeq
    <2>2. Denotes(batch[c][i].handle, batch[c][i].call.bin)
      BY <1>2 DEF IInv, BatchInv
    <2>3. es[i] = [call |-> batch[c][i].call, with |-> batch[c][i].call.bin]
      BY <1>3, <2>2 DEF ExecutedBatch, Executed, Denoted, Denotes
    <2>4. batch[c][i].call \in Call /\ batch[c][i].call.bin \in FatBins
      BY <2>1 DEF Call
    <2>5. QED
      BY <2>3, <2>4
  <1>5. executed' = [executed EXCEPT ![c] = @ \o es]
    BY DEF ExecuteBatch
  <1>6. es \in Seq(E) /\ Len(es) = Len(batch[c])
    <2>1. DOMAIN batch[c] = 1 .. Len(batch[c]) /\ Len(batch[c]) \in Nat
      BY <1>3, LenProperties
    <2>2. es = [i \in 1 .. Len(batch[c]) |-> es[i]]
      BY <2>1 DEF ExecutedBatch
    <2> HIDE DEF es, E
    <2>3. es \in [1 .. Len(batch[c]) -> E]
      BY <1>4, <2>2
    <2>4. QED
      BY <2>1, <2>3, SeqDef
  <1> HIDE DEF es, E, B
  <1>7. /\ executed[c] \o es \in Seq(E)
        /\ Len(executed[c] \o es) = Len(executed[c]) + Len(es)
        /\ \A i \in 1 .. Len(executed[c]) + Len(es) :
             (executed[c] \o es)[i] = IF i <= Len(executed[c]) THEN executed[c][i]
                                      ELSE es[i - Len(executed[c])]
    BY <1>3, <1>6, ConcatProperties
  <1>8. executed \in [Clients -> Seq(E)]
    BY DEF IInv, TypeOK, E
  <1>9. executed' \in [Clients -> Seq(E)]
    BY <1>5, <1>7, <1>8
  <1>10. OwnHandle'
    <2>1. SUFFICES ASSUME NEW d \in Clients, NEW i \in DOMAIN executed'[d]
                   PROVE  executed'[d][i].with = executed'[d][i].call.bin
      BY DEF OwnHandle
    <2>2. CASE d # c
      BY <1>5, <1>8, <2>2 DEF IInv, OwnHandle
    <2>3. CASE d = c
      <3>1. executed'[d] = executed[c] \o es
        BY <1>5, <1>8, <2>3
      <3>2. /\ Len(executed[c]) \in Nat /\ DOMAIN executed[c] = 1 .. Len(executed[c])
            /\ i \in 1 .. Len(executed[c]) + Len(es) /\ Len(es) \in Nat
        BY <1>3, <1>6, <1>7, <3>1, LenProperties
      <3>3. CASE i <= Len(executed[c])
        <4>1. executed'[d][i] = executed[c][i] /\ i \in DOMAIN executed[c]
          BY <1>7, <3>1, <3>2, <3>3
        <4>2. QED
          BY <1>2, <4>1 DEF IInv, OwnHandle
      <3>4. CASE i > Len(executed[c])
        <4>1. i - Len(executed[c]) \in 1 .. Len(batch[c])
          <5>1. Len(batch[c]) = Len(es)
            BY <1>6
          <5>2. QED
            BY <3>2, <3>4, <5>1
        <4>2. executed'[d][i] = es[i - Len(executed[c])]
          BY <1>7, <3>1, <3>2, <3>4
        <4>3. QED
          BY <1>4, <4>1, <4>2
      <3>5. QED
        BY <3>2, <3>3, <3>4
    <2>4. QED
      BY <2>2, <2>3
  <1>11. TypeOK'
    BY <1>1, <1>9 DEF ExecuteBatch, IInv, TypeOK, E, batching, parsed, server,
       disk, PCs, Connecting
  <1>12. pc'[u] = "flushed" /\ Others(u)
    BY <1>1 DEF IInv, TypeOK, Others
  <1>13. PlaceOf(u)' = PlaceOf(u)
    BY <1>1, <1>12 DEF PlaceOf, Connecting
  <1>14. QED
    BY <1>1, <1>10, <1>11, <1>12, <1>13, Onward, SameHandles, SameBatch, StepOf

LEMMA QueryServerInv ==
  ASSUME IInv, NEW u \in Users, QueryServer(u)
  PROVE  IInv'
  <1> DEFINE c == u[1]
             b == stub[u].bin
  <1>1. /\ pc[u] = "query" /\ cont' = cont /\ stub' = stub /\ todo' = todo
        /\ UNCHANGED <<batch, handles, serverCache, executed>>
    BY DEF QueryServer, Goto, server, history
  <1>2. StubOf(u) /\ RestOf(u) /\ u[1] \in Clients
    BY UserClient DEF IInv, StubInv, TodoInv
  <1>3. stub[u] \in Call /\ stub[u].bin \in FatBins /\ stub[u].op = "fatbin"
    BY <1>1, <1>2 DEF StubOf, PlaceOf, Connecting, Call
  <1>4. \/ /\ serverCache[b] # 0
           /\ handle' = [handle EXCEPT ![c][b] = serverCache[b]]
           /\ pc' = [pc EXCEPT ![u] = "load"]
        \/ /\ handle' = handle
           /\ pc' = [pc EXCEPT ![u] = "parse"]
    BY DEF QueryServer, Goto
  <1>5. handle \in [Clients -> [FatBins -> Nat]] /\ serverCache \in [FatBins -> Nat]
    BY DEF IInv, TypeOK
  <1>6. /\ handle' \in [Clients -> [FatBins -> Nat]]
        /\ \A d \in Clients, x \in FatBins :
             \/ handle'[d][x] = handle[d][x]
             \/ handle'[d][x] = serverCache[x] /\ serverCache[x] # 0
    <2>1. CASE handle' = handle
      BY <1>5, <2>1
    <2>2. CASE /\ handle' = [handle EXCEPT ![c][b] = serverCache[b]]
               /\ serverCache[b] # 0
      <3> DEFINE g == serverCache[b]
      <3>1. g \in Nat /\ handle' = [handle EXCEPT ![c][b] = g]
        BY <1>3, <1>5, <2>2
      <3> HIDE DEF g
      <3>2. /\ handle' \in [Clients -> [FatBins -> Nat]]
            /\ \A d \in Clients, x \in FatBins :
                 handle'[d][x] = handle[d][x] \/ (x = b /\ handle'[d][x] = g)
        BY <1>2, <1>3, <1>5, <3>1
      <3>3. QED
        BY <2>2, <3>2 DEF g
    <2>3. QED
      BY <1>4, <2>1, <2>2
  <1>7. Kept /\ HandleInv'
    BY <1>1, <1>6 DEF Kept, Denotes, HandleInv, IInv
  <1>8. pc' \in [Users -> PCs] /\ Others(u) /\ pc'[u] \in {"load", "parse"}
    BY <1>1, <1>4 DEF IInv, TypeOK, Others, PCs
  <1>9. TypeOK'
    BY <1>1, <1>6, <1>8 DEF QueryServer, IInv, TypeOK, parsed, server, disk, history
  <1>10. pc'[u] = "load" => Denotes(handle[c][b], b)'
    <2>1. pc'[u] = "load" => handle'[c][b] = serverCache[b] /\ serverCache[b] # 0
      BY <1>2, <1>3, <1>4, <1>5 DEF IInv, TypeOK
    <2>2. QED
      BY <1>1, <1>3, <2>1 DEF IInv, HandleInv, Denotes
  <1>11. StubOf(u)'
    BY <1>1, <1>3, <1>8, <1>10 DEF StubOf, PlaceOf, Connecting, Registrations
  <1>12. RestOf(u)'
    BY <1>1, <1>2, <1>3, <1>8 DEF RestOf, InFatBinary
  <1>13. OwnHandle'
    BY <1>1 DEF IInv, OwnHandle
  <1>14. QED
    BY <1>1, <1>7, <1>8, <1>9, <1>11, <1>12, <1>13, SameBatch, StepOf

LEMMA RegisterFullInv ==
  ASSUME IInv, NEW u \in Users, RegisterFull(u)
  PROVE  IInv'
  <1> DEFINE c == u[1]
             b == stub[u].bin
             h == Len(handles) + 1
  <1>1. /\ pc[u] = "full" /\ cont' = cont /\ stub' = stub /\ todo' = todo
        /\ pc' = [pc EXCEPT ![u] = "idle"] /\ batch' = batch
        /\ handles' = Append(handles, b)
        /\ serverCache' = [serverCache EXCEPT ![b] = h]
        /\ handle' = [handle EXCEPT ![c][b] = h]
        /\ executed' = [executed EXCEPT ![c] =
                          Append(@, [call |-> stub[u], with |-> b])]
    BY DEF RegisterFull, Goto, WithHandle
  <1>2. StubOf(u) /\ RestOf(u) /\ u[1] \in Clients
    BY UserClient DEF IInv, StubInv, TodoInv
  <1>3. stub[u] \in Call /\ stub[u].bin \in FatBins /\ stub[u].op = "fatbin"
    BY <1>1, <1>2 DEF StubOf, PlaceOf, Connecting, Call
  <1>4. /\ handle \in [Clients -> [FatBins -> Nat]] /\ serverCache \in [FatBins -> Nat]
        /\ handles \in Seq(FatBins)
    BY DEF IInv, TypeOK
  <1>5. /\ handles' \in Seq(FatBins) /\ h \in Nat \ {0}
        /\ DOMAIN handles = 1 .. Len(handles)
        /\ DOMAIN handles' = 1 .. h
        /\ handles'[h] = b
        /\ \A i \in 1 .. Len(handles) : handles'[i] = handles[i]
    BY <1>1, <1>3, <1>4, AppendProperties, LenProperties
  <1>6. h \in DOMAIN handles' /\ handles'[h] = b
    BY <1>5
  <1>7. \A g \in Nat, x \in FatBins : Denotes(g, x) => Denotes(g, x)'
    BY <1>5 DEF Denotes
  <1> HIDE DEF h
  <1>8. /\ handle' \in [Clients -> [FatBins -> Nat]]
        /\ serverCache' \in [FatBins -> Nat]
        /\ \A x \in FatBins : serverCache'[x] = IF x = b THEN h ELSE serverCache[x]
        /\ \A d \in Clients, x \in FatBins :
             handle'[d][x] = handle[d][x] \/ (x = b /\ handle'[d][x] = h)
        /\ handle'[c][b] = h
    BY <1>1, <1>2, <1>3, <1>4, <1>5
  <1>9. HandleInv'
    <2>1. ASSUME NEW x \in FatBins, serverCache'[x] # 0
          PROVE  Denotes(serverCache[x], x)'
      <3>1. CASE x = b
        BY <1>6, <1>8, <3>1 DEF Denotes
      <3>2. CASE x # b
        <4>1. serverCache'[x] = serverCache[x] /\ serverCache[x] \in Nat
          BY <1>4, <1>8, <3>2
        <4>2. Denotes(serverCache[x], x)
          BY <2>1, <4>1 DEF IInv, HandleInv
        <4>3. QED
          BY <1>7, <4>1, <4>2 DEF Denotes
      <3>3. QED
        BY <3>1, <3>2
    <2>2. ASSUME NEW d \in Clients, NEW x \in FatBins, handle'[d][x] # 0
          PROVE  Denotes(handle[d][x], x)'
      <3>1. CASE x = b /\ handle'[d][x] = h
        BY <1>6, <3>1 DEF Denotes
      <3>2. CASE handle'[d][x] = handle[d][x]
        <4>1. Denotes(handle[d][x], x) /\ handle[d][x] \in Nat
          BY <1>4, <2>2, <3>2 DEF IInv, HandleInv
        <4>2. QED
          BY <1>7, <3>2, <4>1 DEF Denotes
      <3>3. QED
        BY <1>8, <3>1, <3>2
    <2>3. QED
      BY <2>1, <2>2 DEF HandleInv
  <1>10. Kept
    <2>1. ASSUME NEW d \in Clients, NEW x \in FatBins, Denotes(handle[d][x], x)
          PROVE  Denotes(handle[d][x], x)'
      <3>1. CASE x = b /\ handle'[d][x] = h
        BY <1>6, <3>1 DEF Denotes
      <3>2. CASE handle'[d][x] = handle[d][x]
        <4>1. handle[d][x] \in Nat
          BY <1>4
        <4>2. QED
          BY <1>7, <2>1, <3>2, <4>1 DEF Denotes
      <3>3. QED
        BY <1>8, <3>1, <3>2
    <2>2. QED
      BY <1>7, <2>1 DEF Kept
  <1>11. /\ executed' \in [Clients -> Seq([call : Call, with : FatBins \union {None}])]
         /\ OwnHandle'
    BY <1>1, <1>2, <1>3, OneExecuted
  <1>12. pc' \in [Users -> PCs] /\ Others(u) /\ pc'[u] = "idle"
    BY <1>1 DEF IInv, TypeOK, Others, PCs, Conts
  <1>13. TypeOK'
    <2>1. /\ inside_fat_binary' \in [Clients -> BOOLEAN]
          /\ recording' \in [Clients -> BOOLEAN]
          /\ UNCHANGED <<batch, batch_active, functions, before, missed, todo, stub,
                         back, cont, disk, restarts, called, failed>>
      BY DEF RegisterFull, IInv, TypeOK
    <2>2. QED
      BY <1>5, <1>8, <1>11, <1>12, <2>1 DEF IInv, TypeOK, disk
  <1>14. StubOf(u)'
    BY <1>12 DEF StubOf
  <1>15. RestOf(u)'
    <2>1. InFatBinary(u) /\ ~InFatBinary(u)'
      BY <1>1, <1>3, <1>12 DEF InFatBinary
    <2>2. ASSUME NEW i \in 1 .. Len(todo[u])
          PROVE  /\ todo[u][i].op \in Registrations
                 /\ todo[u][i].op = "function" => todo[u][i].of \in AllKernels
                 /\ todo[u][i].bin = b
      BY <1>2, <2>1 DEF RestOf
    <2>3. Denotes(handle[c][b], b)'
      BY <1>1, <1>6, <1>8 DEF Denotes
    <2>4. QED
      BY <1>1, <2>1, <2>2, <2>3 DEF RestOf
  <1>16. QED
    BY <1>1, <1>9, <1>10, <1>11, <1>12, <1>13, <1>14, <1>15, SameBatch, StepOf

\* The constructor of b makes registrations for b.
LEMMA ConstructorFacts ==
  ASSUME NEW b \in FatBins
  PROVE  /\ Constructor(b) \in Seq(Call)
         /\ \A i \in 1 .. Len(Constructor(b)) :
              /\ Constructor(b)[i].op \in Registrations
              /\ Constructor(b)[i].bin = b
              /\ Constructor(b)[i].op = "function" => Constructor(b)[i].of \in AllKernels
  <1> DEFINE R == {x \in Call : /\ x.op \in Registrations /\ x.bin = b
                                /\ x.op = "function" => x.of \in AllKernels}
             ks == [i \in DOMAIN Kernels[b] |-> CallOf("function", Kernels[b][i], b)]
             vs == [i \in DOMAIN Variables[b] |-> CallOf("var", Variables[b][i], b)]
  <1>1. Kernels[b] \in Seq(AllKernels) /\ Variables[b] \in Seq(AllVariables)
    BY BinariesAssumption
  <1>2. /\ Len(Kernels[b]) \in Nat /\ DOMAIN Kernels[b] = 1 .. Len(Kernels[b])
        /\ Len(Variables[b]) \in Nat /\ DOMAIN Variables[b] = 1 .. Len(Variables[b])
    BY <1>1, LenProperties
  <1>3. ASSUME NEW i \in 1 .. Len(Kernels[b]) PROVE ks[i] \in R
    <2>1. Kernels[b][i] \in AllKernels
      BY <1>1, ElementOfSeq
    <2>2. QED
      BY <1>2, <2>1 DEF CallOf, Call, Registrations
  <1>4. ASSUME NEW i \in 1 .. Len(Variables[b]) PROVE vs[i] \in R
    <2>1. Variables[b][i] \in AllVariables
      BY <1>1, ElementOfSeq
    <2>2. QED
      BY <1>2, <2>1 DEF CallOf, Call, Registrations
  <1>5. CallOf("end", b, b) \in R
    BY DEF CallOf, Call, Registrations
  <1>6. ks = [i \in 1 .. Len(Kernels[b]) |-> ks[i]]
    BY <1>2
  <1>7. vs = [i \in 1 .. Len(Variables[b]) |-> vs[i]]
    BY <1>2
  <1>8. Constructor(b) = (ks \o vs) \o <<CallOf("end", b, b)>>
    BY DEF Constructor, Symbols
  <1> HIDE DEF R, ks, vs
  <1>9. ks \in Seq(R)
    <2>1. ks \in [1 .. Len(Kernels[b]) -> R]
      BY <1>3, <1>6
    <2>2. QED
      BY <1>2, <2>1, SeqDef
  <1>10. vs \in Seq(R)
    <2>1. vs \in [1 .. Len(Variables[b]) -> R]
      BY <1>4, <1>7
    <2>2. QED
      BY <1>2, <2>1, SeqDef
  <1>11. Constructor(b) \in Seq(R)
    <2>1. ks \o vs \in Seq(R)
      BY <1>9, <1>10, ConcatProperties
    <2>2. <<CallOf("end", b, b)>> \in Seq(R)
      BY <1>5
    <2>3. QED
      BY <1>8, <2>1, <2>2, ConcatProperties
  <1>12. \A i \in 1 .. Len(Constructor(b)) : Constructor(b)[i] \in R
    BY <1>11, ElementOfSeq
  <1>13. R \subseteq Call
    BY DEF R
  <1>14. Constructor(b) \in Seq(Call)
    BY <1>11, <1>13, SeqMonotonic
  <1>15. QED
    BY <1>12, <1>14 DEF R

\* A call appended to those a client's process made.
LEMMA OneCalled ==
  ASSUME TypeOK, NEW u \in Users, NEW x \in Call, Enter(u, x)
  PROVE  /\ stub' \in [Users -> Call \union {NoCall}]
         /\ stub'[u] = x
         /\ \A v \in Users \ {u} : stub'[v] = stub[v]
         /\ called' \in [Clients -> Seq(Call)]
  BY UserClient DEF Enter, TypeOK

LEMMA ConstructInv ==
  ASSUME IInv, NEW u \in Users, NEW b \in FatBins, Construct(u, b)
  PROVE  IInv'
  <1> DEFINE x == CallOf("fatbin", b, b)
  <1>1. /\ pc[u] = "idle" /\ cont' = [cont EXCEPT ![u] = "query"]
        /\ todo' = [todo EXCEPT ![u] = Constructor(b)]
        /\ Enter(u, x)
        /\ UNCHANGED <<batch, handle, handles, serverCache, executed>>
    BY DEF Construct, FlushAndContinue, server
  <1>2. x \in Call /\ x.op = "fatbin" /\ x.bin = b
    BY DEF CallOf, Call
  <1> HIDE DEF x
  <1>3. \E l \in {"flushSend", "conn"} : pc' = [pc EXCEPT ![u] = l]
    BY DEF Construct, FlushAndContinue, Flush, Goto
  <1>4. /\ stub' \in [Users -> Call \union {NoCall}] /\ stub'[u] = x
        /\ \A v \in Users \ {u} : stub'[v] = stub[v]
        /\ called' \in [Clients -> Seq(Call)]
    BY <1>1, <1>2, OneCalled DEF IInv
  <1>5. todo' \in [Users -> Seq(Call)] /\ todo'[u] = Constructor(b)
    BY <1>1, ConstructorFacts DEF IInv, TypeOK
  <1>6. /\ pc' \in [Users -> PCs] /\ cont' \in [Users -> Conts]
        /\ pc'[u] \in {"flushSend", "conn"} /\ cont'[u] = "query"
    BY <1>1, <1>3 DEF IInv, TypeOK, PCs, Connecting, Conts
  <1>7. TypeOK'
    <2>1. FlushAndContinue(u, "query")
      BY DEF Construct
    <2>2. /\ back' \in [Users -> {"conn", "deactivate"}]
          /\ batch_active' \in [Clients -> BOOLEAN]
      BY <2>1 DEF FlushAndContinue, Flush, IInv, TypeOK
    <2>3. recording' \in [Clients -> BOOLEAN]
      BY DEF Construct, IInv, TypeOK
    <2>4. QED
      BY <1>4, <1>5, <1>6, <2>2, <2>3 DEF Construct, IInv, TypeOK, server, disk
  <1>8. Others(u)
    BY <1>1, <1>3, <1>4 DEF Others, IInv, TypeOK
  <1>9. StubOf(u)'
    BY <1>2, <1>4, <1>6 DEF StubOf, PlaceOf, Connecting, Registrations
  <1>10. RestOf(u)'
    BY <1>2, <1>4, <1>5, <1>6, ConstructorFacts DEF RestOf, InFatBinary
  <1>11. QED
    BY <1>1, <1>7, <1>8, <1>9, <1>10, LocalStep

LEMMA StartLaunchInv ==
  ASSUME IInv, NEW u \in Users, NEW b \in FatBins, NEW k \in ToSet(Kernels[b]),
         StartLaunch(u, b, k)
  PROVE  IInv'
  <1> DEFINE x == CallOf("launch", k, b)
  <1>1. /\ pc[u] = "idle" /\ cont' = [cont EXCEPT ![u] = "launch"]
        /\ pc' = [pc EXCEPT ![u] = "conn"]
        /\ todo' = todo /\ todo[u] = <<>>
        /\ Enter(u, x)
        /\ UNCHANGED <<batch, handle, handles, serverCache, executed>>
    BY DEF StartLaunch, Connect, Goto, server, batching
  <1>2. x \in Call /\ x.op = "launch" /\ x.of \in AllKernels
    BY DEF CallOf, Call, AllKernels
  <1> HIDE DEF x
  <1>3. /\ stub' \in [Users -> Call \union {NoCall}] /\ stub'[u] = x
        /\ \A v \in Users \ {u} : stub'[v] = stub[v]
        /\ called' \in [Clients -> Seq(Call)]
    BY <1>1, <1>2, OneCalled DEF IInv
  <1>4. /\ pc' \in [Users -> PCs] /\ cont' \in [Users -> Conts]
        /\ pc'[u] = "conn" /\ cont'[u] = "launch"
    BY <1>1 DEF IInv, TypeOK, PCs, Connecting, Conts
  <1>5. TypeOK'
    BY <1>3, <1>4 DEF StartLaunch, IInv, TypeOK, batching, parsed, server, disk
  <1>6. Others(u)
    BY <1>1, <1>3 DEF Others, IInv, TypeOK
  <1>7. StubOf(u)'
    BY <1>2, <1>3, <1>4 DEF StubOf, PlaceOf, Connecting, Registrations
  <1>8. RestOf(u)'
    BY <1>1 DEF RestOf
  <1>9. QED
    BY <1>1, <1>5, <1>6, <1>7, <1>8, LocalStep

\* What a constructor calls next has its handle.
LEMMA NextOfConstructor ==
  ASSUME IInv, NEW u \in Users, pc[u] = "idle", todo[u] # <<>>
  PROVE  /\ todo[u] \in Seq(Call) /\ Head(todo[u]) \in Call
         /\ Head(todo[u]).op \in Registrations /\ Head(todo[u]).bin \in FatBins
         /\ Head(todo[u]).op = "function" => Head(todo[u]).of \in AllKernels
         /\ Denotes(handle[u[1]][Head(todo[u]).bin], Head(todo[u]).bin)
         /\ Tail(todo[u]) \in Seq(Call)
         /\ Len(Tail(todo[u])) = Len(todo[u]) - 1 /\ Len(todo[u]) \in Nat
         /\ \A i \in 1 .. Len(Tail(todo[u])) : Tail(todo[u])[i] = todo[u][i + 1]
  <1>1. todo[u] \in Seq(Call) /\ Head(todo[u]) \in Call
    BY HeadTailProperties DEF IInv, TypeOK
  <1>2. Head(todo[u]) = todo[u][1] /\ 1 \in 1 .. Len(todo[u]) /\ Len(todo[u]) \in Nat
    BY <1>1, EmptySeq, LenProperties
  <1>3. RestOf(u) /\ ~InFatBinary(u)
    BY DEF IInv, TodoInv, InFatBinary
  <1>4. Head(todo[u]).bin \in FatBins
    BY <1>1 DEF Call
  <1>5. QED
    BY <1>1, <1>2, <1>3, <1>4, HeadTailProperties DEF RestOf

\* A command appended to the buffer, or dropped, with the handle of its binary.
LEMMA OneBatched ==
  ASSUME IInv, NEW c \in Clients, NEW x \in Call, AppendToBatch(c, x), Kept,
         UNCHANGED handles, Denotes(handle[c][x.bin], x.bin)
  PROVE  batch' \in [Clients -> Seq([call : Call, handle : Nat])] /\ BatchInv'
  <1> DEFINE B == [call : Call, handle : Nat]
             e == [call |-> x, handle |-> handle[c][x.bin]]
  <1>1. e \in B /\ Denotes(e.handle, e.call.bin)
    BY DEF IInv, TypeOK, Call
  <1>2. batch \in [Clients -> Seq(B)]
    BY DEF IInv, TypeOK
  <1>3. batch' = batch \/ batch' = [batch EXCEPT ![c] = Append(@, e)]
    <2>1. CASE Len(batch[c]) < BatchCap
      BY <2>1 DEF AppendToBatch
    <2>2. CASE ~(Len(batch[c]) < BatchCap)
      BY <1>2, <2>2 DEF AppendToBatch
    <2>3. QED
      BY <2>1, <2>2
  <1>4. CASE batch' = batch
    BY <1>2, <1>4, SameBatch
  <1>5. CASE batch' = [batch EXCEPT ![c] = Append(@, e)]
    <2> HIDE DEF B, e
    <2>1. batch' \in [Clients -> Seq(B)]
      BY <1>1, <1>2, <1>5
    <2>2. ASSUME NEW d \in Clients, NEW i \in 1 .. Len(batch'[d])
          PROVE  Denotes(batch[d][i].handle, batch[d][i].call.bin)'
      <3>1. CASE d # c
        <4>1. batch'[d] = batch[d]
          BY <1>2, <1>5, <3>1
        <4>2. QED
          BY <4>1 DEF IInv, BatchInv, Denotes
      <3>2. CASE d = c
        <4>1. batch'[c] = Append(batch[c], e) /\ batch[c] \in Seq(B)
          BY <1>2, <1>5
        <4>2. i \in 1 .. Len(batch[c]) + 1 /\ Len(batch[c]) \in Nat
          BY <1>1, <3>2, <4>1, AppendProperties, LenProperties
        <4>3. CASE i = Len(batch[c]) + 1
          BY <1>1, <3>2, <4>1, <4>3, AppendProperties DEF Denotes
        <4>4. CASE i \in 1 .. Len(batch[c])
          <5>1. batch'[c][i] = batch[c][i]
            BY <1>1, <4>1, <4>4, AppendProperties
          <5>2. QED
            BY <3>2, <4>4, <5>1 DEF IInv, BatchInv, Denotes
        <4>5. QED
          BY <4>2, <4>3, <4>4
      <3>3. QED
        BY <3>1, <3>2
    <2>3. QED
      BY <2>1, <2>2 DEF BatchInv, B
  <1>6. QED
    BY <1>3, <1>4, <1>5

\* A registration enters its stub: it is batched or waits for a connection.
LEMMA RegistrationEntered ==
  ASSUME IInv, NEW u \in Users, pc[u] = "idle", todo[u] # <<>>,
         Enter(u, Head(todo[u])), todo' = [todo EXCEPT ![u] = Tail(@)],
         pc'[u] \in {"idle", "conn", "open"},
         pc'[u] = "conn" => cont'[u] = "send",
         pc'[u] = "open" => Head(todo[u]).op = "end" /\ cont'[u] \in {"send", "idle"},
         UNCHANGED <<handle, handles>>
  PROVE  StubOf(u)' /\ RestOf(u)'
  <1> DEFINE x == Head(todo[u])
  <1>1. todo'[u] = Tail(todo[u]) /\ stub'[u] = x
    BY DEF Enter, IInv, TypeOK
  <1>2. /\ x \in Call /\ x.op \in Registrations
        /\ Denotes(handle[u[1]][x.bin], x.bin)
    BY NextOfConstructor
  <1>3. RestOf(u) /\ ~InFatBinary(u)
    BY DEF IInv, TodoInv, InFatBinary
  <1>4. ~InFatBinary(u)'
    BY <1>1, <1>2 DEF InFatBinary, Registrations
  <1>5. StubOf(u)'
    <2> HIDE DEF x
    <2>1. Denotes(handle[u[1]][stub[u].bin], stub[u].bin)'
      BY <1>1, <1>2 DEF Denotes
    <2>2. PlaceOf(u)' = IF pc'[u] = "conn" THEN "send" ELSE pc'[u]
      BY DEF PlaceOf, Connecting
    <2>3. x.op = "end" \/ pc'[u] # "open"
      BY DEF x
    <2>4. QED
      BY <1>1, <1>2, <2>1, <2>2, <2>3 DEF StubOf, Registrations
  <1>6. RestOf(u)'
    <2>1. ASSUME NEW i \in 1 .. Len(Tail(todo[u]))
          PROVE  i + 1 \in 1 .. Len(todo[u]) /\ Tail(todo[u])[i] = todo[u][i + 1]
      BY NextOfConstructor
    <2>2. ASSUME NEW i \in 1 .. Len(Tail(todo[u]))
          PROVE  LET y == Tail(todo[u])[i]
                 IN  /\ y.op \in Registrations
                     /\ y.op = "function" => y.of \in AllKernels
                     /\ Denotes(handle[u[1]][y.bin], y.bin)
      BY <1>3, <2>1 DEF RestOf
    <2>3. QED
      BY <1>1, <1>4, <2>2 DEF RestOf, Denotes
  <1>7. QED
    BY <1>5, <1>6

LEMMA RegisterSymbolInv ==
  ASSUME IInv, NEW u \in Users, RegisterSymbol(u)
  PROVE  IInv'
  <1> DEFINE c == u[1]
             x == Head(todo[u])
             F == [name : Names, bin : FatBins, host : AllKernels \union {None}]
  <1>1. /\ pc[u] = "idle" /\ todo[u] # <<>> /\ x.op # "end"
        /\ Enter(u, x) /\ todo' = [todo EXCEPT ![u] = Tail(@)]
        /\ UNCHANGED <<handle, handles, serverCache, executed>>
        /\ u[1] \in Clients
    BY UserClient DEF RegisterSymbol, server
  <1>2. /\ x \in Call /\ x.op \in Registrations /\ x.bin \in FatBins
        /\ x.op = "function" => x.of \in AllKernels
        /\ Denotes(handle[c][x.bin], x.bin)
        /\ Tail(todo[u]) \in Seq(Call)
    BY <1>1, NextOfConstructor
  <1>3. \/ AppendToBatch(c, x) /\ pc' = pc /\ cont' = cont
        \/ /\ batch' = batch /\ pc' = [pc EXCEPT ![u] = "conn"]
           /\ cont' = [cont EXCEPT ![u] = "send"]
    BY DEF RegisterSymbol, Connect, Goto
  <1>4. Kept /\ HandleInv'
    BY <1>1, SameHandles
  <1>5. /\ batch' \in [Clients -> Seq([call : Call, handle : Nat])]
        /\ BatchInv'
    <2>1. CASE AppendToBatch(c, x)
      BY <1>1, <1>2, <1>4, <2>1, OneBatched
    <2>2. CASE batch' = batch
      BY <1>4, <2>2, SameBatch DEF IInv, TypeOK
    <2>3. QED
      BY <1>3, <2>1, <2>2
  <1>6. /\ stub' \in [Users -> Call \union {NoCall}] /\ stub'[u] = x
        /\ \A v \in Users \ {u} : stub'[v] = stub[v]
        /\ called' \in [Clients -> Seq(Call)]
    BY <1>1, <1>2, OneCalled DEF IInv
  <1>7. functions' \in [Clients -> Seq(F)]
    <2>1. functions \in [Clients -> Seq(F)]
      BY DEF IInv, TypeOK
    <2>2. CASE functions' = functions
      BY <2>1, <2>2
    <2>3. CASE /\ x.op = "function"
               /\ functions' = [functions EXCEPT ![c] = WithHost(@, x.of)]
      <3> DEFINE fs == functions[c]
                 gs == WithHost(fs, x.of)
      <3>1. fs \in Seq(F) /\ Len(fs) \in Nat /\ DOMAIN fs = 1 .. Len(fs)
        BY <1>1, <2>1, LenProperties
      <3>2. \A i \in 1 .. Len(fs) : fs[i] \in F
        BY <3>1, ElementOfSeq
      <3>3. \A i \in 1 .. Len(fs) : gs[i] \in F
        BY <1>2, <2>3, <3>1, <3>2 DEF WithHost
      <3>4. gs = [i \in 1 .. Len(fs) |-> gs[i]]
        BY <3>1 DEF WithHost
      <3>5. gs \in Seq(F)
        <4> HIDE DEF fs, gs, F
        <4>1. gs \in [1 .. Len(fs) -> F]
          BY <3>3, <3>4
        <4>2. QED
          BY <3>1, <4>1, SeqDef
      <3> HIDE DEF F, gs
      <3>6. functions' = [functions EXCEPT ![c] = gs]
        BY <2>3 DEF gs
      <3>7. QED
        BY <2>1, <3>5, <3>6
    <2>4. QED
      BY <2>2, <2>3 DEF RegisterSymbol
  <1>8. /\ pc' \in [Users -> PCs] /\ cont' \in [Users -> Conts] /\ Others(u)
        /\ pc'[u] \in {"idle", "conn"} /\ (pc'[u] = "conn" => cont'[u] = "send")
    BY <1>1, <1>3, <1>6 DEF IInv, TypeOK, PCs, Connecting, Conts, Others
  <1>9. todo' \in [Users -> Seq(Call)]
    BY <1>1, <1>2 DEF IInv, TypeOK
  <1>10. TypeOK'
    BY <1>1, <1>5, <1>6, <1>7, <1>8, <1>9 DEF RegisterSymbol, IInv, TypeOK, server, disk
  <1>11. OwnHandle'
    BY <1>1 DEF IInv, OwnHandle
  <1>12. StubOf(u)' /\ RestOf(u)'
    BY <1>1, <1>8, RegistrationEntered
  <1>13. QED
    BY <1>4, <1>5, <1>8, <1>10, <1>11, <1>12, StepOf

LEMMA RegisterEndInv ==
  ASSUME IInv, NEW u \in Users, RegisterEnd(u)
  PROVE  IInv'
  <1> DEFINE c == u[1]
             x == Head(todo[u])
  <1>1. /\ pc[u] = "idle" /\ todo[u] # <<>> /\ x.op = "end"
        /\ Enter(u, x) /\ todo' = [todo EXCEPT ![u] = Tail(@)]
        /\ UNCHANGED <<handle, handles, serverCache, executed>>
        /\ u[1] \in Clients
    BY UserClient DEF RegisterEnd, server
  <1>2. /\ x \in Call /\ x.bin \in FatBins
        /\ Denotes(handle[c][x.bin], x.bin)
        /\ Tail(todo[u]) \in Seq(Call)
    BY <1>1, NextOfConstructor
  <1>3. Kept /\ HandleInv'
    BY <1>1, SameHandles
  <1>4. /\ batch' \in [Clients -> Seq([call : Call, handle : Nat])]
        /\ BatchInv'
    <2>1. CASE AppendToBatch(c, x)
      BY <1>1, <1>2, <1>3, <2>1, OneBatched
    <2>2. CASE batch' = batch
      BY <1>3, <2>2, SameBatch DEF IInv, TypeOK
    <2>3. QED
      BY <2>1, <2>2 DEF RegisterEnd
  <1>5. /\ stub' \in [Users -> Call \union {NoCall}] /\ stub'[u] = x
        /\ \A v \in Users \ {u} : stub'[v] = stub[v]
        /\ called' \in [Clients -> Seq(Call)]
    BY <1>1, <1>2, OneCalled DEF IInv
  <1>6. /\ cont' = [cont EXCEPT ![u] = IF batch_active[c] THEN "idle" ELSE "send"]
        /\ pc' = [pc EXCEPT ![u] =
                    IF recording[c] THEN "open"
                    ELSE IF batch_active[c] THEN "idle" ELSE "conn"]
    BY DEF RegisterEnd, Goto
  <1>7. /\ pc' \in [Users -> PCs] /\ cont' \in [Users -> Conts] /\ Others(u)
        /\ pc'[u] \in {"idle", "conn", "open"}
        /\ pc'[u] = "conn" => cont'[u] = "send"
        /\ pc'[u] = "open" => cont'[u] \in {"send", "idle"}
    BY <1>1, <1>5, <1>6 DEF IInv, TypeOK, PCs, Connecting, Conts, Others
  <1>8. todo' \in [Users -> Seq(Call)]
    BY <1>1, <1>2 DEF IInv, TypeOK
  <1>9. TypeOK'
    BY <1>1, <1>4, <1>5, <1>7, <1>8
       DEF RegisterEnd, IInv, TypeOK, parsed, server, disk
  <1>10. OwnHandle'
    BY <1>1 DEF IInv, OwnHandle
  <1>11. StubOf(u)' /\ RestOf(u)'
    BY <1>1, <1>7, RegistrationEntered
  <1>12. QED
    BY <1>3, <1>4, <1>7, <1>9, <1>10, <1>11, StepOf

\* A thread that writes a cache file is in __cudaRegisterFatBinaryEnd.
LEMMA FileStep ==
  ASSUME IInv, NEW u \in Users, pc[u] \in {"open", "write"}, Others(u), TypeOK',
         UNCHANGED <<stub, todo, cont>>,
         \/ pc'[u] = "write" \/ pc'[u] = IF cont[u] = "send" THEN "conn" ELSE "idle",
         UNCHANGED <<batch, handle, handles, serverCache, executed>>
  PROVE  IInv'
  <1>1. StubOf(u) /\ RestOf(u)
    BY DEF IInv, StubInv, TodoInv
  <1>2. stub[u] \in Call /\ stub[u].op = "end" /\ cont[u] \in {"send", "idle"}
    BY <1>1 DEF StubOf, PlaceOf, Connecting
  <1>3. pc'[u] # "idle" => PlaceOf(u)' \in {"write", "send"}
    BY <1>2 DEF PlaceOf, Connecting
  <1>4. StubOf(u)'
    BY <1>1, <1>2, <1>3 DEF StubOf, Registrations, Denotes
  <1>5. RestOf(u)'
    BY <1>1, <1>2 DEF RestOf, InFatBinary, Denotes
  <1>6. QED
    BY <1>4, <1>5, LocalStep

LEMMA OpenFileInv ==
  ASSUME IInv, NEW u \in Users, OpenFile(u)
  PROVE  IInv'
  <1>1. /\ pc[u] = "open" /\ pc' = [pc EXCEPT ![u] = "write"]
        /\ file' = [file EXCEPT ![stub[u].bin] = NoFile]
        /\ UNCHANGED <<stub, todo, cont, batch, handle, handles, serverCache, executed>>
    BY DEF OpenFile, Goto, batching, server, history
  <1>2. pc'[u] = "write" /\ Others(u) /\ pc' \in [Users -> PCs]
    BY <1>1 DEF Others, IInv, TypeOK, PCs
  <1>3. /\ DOMAIN file' = FatBins
        /\ \A b \in FatBins : /\ DOMAIN file'[b] = {"head", "recs"}
                              /\ file'[b].head \in Int
                              /\ \A i \in DOMAIN file'[b].recs : file'[b].recs[i] \in Names
    BY <1>1 DEF NoFile, IInv, TypeOK
  <1>4. TypeOK'
    BY <1>1, <1>2, <1>3 DEF OpenFile, IInv, TypeOK, batching, parsed, server, history
  <1>5. QED
    BY <1>1, <1>2, <1>4, FileStep

LEMMA WriteFileInv ==
  ASSUME IInv, NEW u \in Users, WriteFile(u)
  PROVE  IInv'
  <1>1. /\ pc[u] = "write" /\ pc' = pc
        /\ UNCHANGED <<stub, todo, cont, batch, handle, handles, serverCache, executed>>
    BY DEF WriteFile, batching, server, history, thread
  <1>2. Others(u)
    BY <1>1 DEF Others
  <1> DEFINE c == u[1]
             b == stub[u].bin
             F == [name : Names, bin : FatBins, host : AllKernels \union {None}]
  <1>3. /\ c \in Clients /\ written[c] \in Nat /\ before[c] \in Nat
        /\ functions[c] \in Seq(F) /\ Len(functions[c]) \in Nat
    BY UserClient, LenProperties DEF IInv, TypeOK
  <1>4. /\ written[c] <= Count(c) /\ Count(c) \in Int
        /\ written[c] # 0 => functions[c][before[c] + written[c]].name \in Names
    <2>1. written[c] <= Count(c) /\ Count(c) = Len(functions[c]) - before[c]
      BY DEF WriteFile, Count
    <2>2. written[c] # 0 => before[c] + written[c] \in 1 .. Len(functions[c])
      BY <1>3, <2>1
    <2>3. written[c] # 0 => functions[c][before[c] + written[c]] \in F
      BY <1>3, <2>2, ElementOfSeq
    <2>4. QED
      BY <1>3, <2>1, <2>3
  <1>5. ASSUME NEW x \in FatBins
        PROVE  /\ DOMAIN file'[x] = {"head", "recs"}
               /\ file'[x].head \in Int
               /\ \A i \in DOMAIN file'[x].recs : file'[x].recs[i] \in Names
    <2>1. /\ DOMAIN file[x] = {"head", "recs"}
          /\ file[x].head \in Int
          /\ \A i \in DOMAIN file[x].recs : file[x].recs[i] \in Names
      BY DEF IInv, TypeOK
    <2>2. CASE file'[x] = file[x]
      BY <2>1, <2>2
    <2>3. CASE file'[x] = [file[x] EXCEPT !.head = Count(c)]
      BY <1>4, <2>1, <2>3
    <2>4. CASE /\ written[c] # 0
               /\ file'[x] = WithRecord(file[x], written[c],
                                functions[c][before[c] + written[c]].name)
      BY <1>4, <2>1, <2>4 DEF WithRecord
    <2>5. CASE written[c] = 0
      <3>1. file' = [file EXCEPT ![b] = [@ EXCEPT !.head = Count(c)]]
        BY <2>5 DEF WriteFile
      <3>2. QED
        BY <2>2, <2>3, <3>1 DEF IInv, TypeOK
    <2>6. CASE written[c] # 0
      <3>1. file' = [file EXCEPT ![b] = WithRecord(@, written[c],
                       functions[c][before[c] + written[c]].name)]
        BY <2>6 DEF WriteFile
      <3>2. QED
        BY <2>2, <2>4, <2>6, <3>1 DEF IInv, TypeOK
    <2>7. QED
      BY <2>5, <2>6
  <1>6. written' \in [Clients -> Nat]
    BY <1>3 DEF WriteFile, IInv, TypeOK
  <1>7. TypeOK'
    <2>1. DOMAIN file' = FatBins
      BY DEF WriteFile, IInv, TypeOK
    <2>2. QED
      BY <1>1, <1>5, <1>6, <2>1 DEF WriteFile, IInv, TypeOK, batching,
         parsed, server, history, thread
  <1>8. pc'[u] = "write"
    BY <1>1
  <1>9. QED
    BY <1>1, <1>2, <1>7, <1>8, FileStep

LEMMA CloseFileInv ==
  ASSUME IInv, NEW u \in Users, CloseFile(u)
  PROVE  IInv'
  <1>1. /\ pc[u] \in {"open", "write"}
        /\ pc' = [pc EXCEPT ![u] = IF cont[u] = "send" THEN "conn" ELSE "idle"]
        /\ UNCHANGED <<stub, todo, cont, batch, handle, handles, serverCache, executed>>
    BY DEF CloseFile, Goto, batching, server, history
  <1>2. /\ pc'[u] = IF cont[u] = "send" THEN "conn" ELSE "idle"
        /\ Others(u) /\ pc' \in [Users -> PCs]
    BY <1>1 DEF Others, IInv, TypeOK, PCs, Connecting, Conts
  <1>3. TypeOK'
    BY <1>1, <1>2 DEF CloseFile, IInv, TypeOK, batching, parsed, server, disk, history
  <1>4. QED
    BY <1>1, <1>2, <1>3, FileStep

LEMMA InitIInv == Init => IInv
  <1> SUFFICES ASSUME Init PROVE IInv
    OBVIOUS
  <1>1. TypeOK
    BY BoundsAssumption DEF Init, TypeOK, NoCall, CallOf, NoFile, PCs, Connecting, Conts
  <1>2. HandleInv
    BY DEF Init, HandleInv
  <1>3. BatchInv
    BY DEF Init, BatchInv
  <1>4. StubInv
    BY DEF Init, StubInv, StubOf
  <1>5. TodoInv
    BY DEF Init, TodoInv, RestOf
  <1>6. OwnHandle
    BY DEF Init, OwnHandle
  <1>7. QED
    BY <1>1, <1>2, <1>3, <1>4, <1>5, <1>6 DEF IInv

\* Processes of C start anew, alone or with the server, whose handles are gone.
LEMMA RestartInv ==
  ASSUME IInv, NEW C \in SUBSET Clients, Started(C), restarts < MaxRestarts,
         restarts' = restarts + 1, UNCHANGED <<file, failed>>,
         \/ UNCHANGED server
         \/ C = Clients /\ handles' = <<>> /\ serverCache' = [b \in FatBins |-> 0]
  PROVE  IInv'
  <1>1. \A u \in Users : u[1] \in C => /\ pc'[u] = "idle"
                                       /\ todo'[u] = <<>>
    BY DEF Started
  <1>2. \A u \in Users : u[1] \notin C => /\ pc'[u] = pc[u] /\ todo'[u] = todo[u]
                                          /\ cont'[u] = cont[u] /\ stub'[u] = stub[u]
    BY DEF Started
  <1>3. \A c \in C : /\ batch'[c] = <<>> /\ executed'[c] = <<>>
                     /\ \A b \in FatBins : handle'[c][b] = 0
    BY DEF Started
  <1>4. \A c \in Clients \ C : /\ batch'[c] = batch[c] /\ executed'[c] = executed[c]
                               /\ handle'[c] = handle[c]
    BY DEF Started
  <1>5. Clients \ C # {} => UNCHANGED <<handles, serverCache>>
    BY DEF server
  <1>6. TypeOK'
    <2>1. /\ handles' \in Seq(FatBins) /\ serverCache' \in [FatBins -> Nat]
      <3>1. CASE UNCHANGED server
        BY <3>1 DEF IInv, TypeOK, server
      <3>2. CASE handles' = <<>> /\ serverCache' = [b \in FatBins |-> 0]
        BY <3>2, EmptySeq
      <3>3. QED
        BY <3>1, <3>2
    <2>2. restarts' \in 0 .. MaxRestarts
      BY BoundsAssumption DEF IInv, TypeOK
    <2>3. /\ batch' \in [Clients -> Seq([call : Call, handle : Nat])]
          /\ functions' \in [Clients -> Seq([name : Names, bin : FatBins,
                                             host : AllKernels \union {None}])]
          /\ executed' \in [Clients -> Seq([call : Call, with : FatBins \union {None}])]
          /\ called' \in [Clients -> Seq(Call)]
      <3>1. \A S : <<>> \in Seq(S)
        BY EmptySeq
      <3> DEFINE B == [call : Call, handle : Nat]
                 F == [name : Names, bin : FatBins, host : AllKernels \union {None}]
                 E == [call : Call, with : FatBins \union {None}]
      <3>2. /\ batch \in [Clients -> Seq(B)] /\ functions \in [Clients -> Seq(F)]
            /\ executed \in [Clients -> Seq(E)] /\ called \in [Clients -> Seq(Call)]
        BY DEF IInv, TypeOK
      <3> HIDE DEF B, E, F
      <3>3. /\ batch' \in [Clients -> Seq(B)] /\ functions' \in [Clients -> Seq(F)]
            /\ executed' \in [Clients -> Seq(E)] /\ called' \in [Clients -> Seq(Call)]
        BY <3>1, <3>2 DEF Started
      <3>4. QED
        BY <3>3 DEF B, E, F
    <2>4. /\ batch_active' \in [Clients -> BOOLEAN]
          /\ inside_fat_binary' \in [Clients -> BOOLEAN]
          /\ recording' \in [Clients -> BOOLEAN]
          /\ before' \in [Clients -> Nat]
          /\ missed' \in [Clients -> SUBSET AllKernels]
          /\ written' \in [Clients -> Nat]
          /\ handle' \in [Clients -> [FatBins -> Nat]]
      BY DEF Started, IInv, TypeOK
    <2>5. /\ todo' \in [Users -> Seq(Call)]
          /\ stub' \in [Users -> Call \union {NoCall}]
          /\ pc' \in [Users -> PCs]
          /\ back' \in [Users -> {"conn", "deactivate"}]
          /\ cont' \in [Users -> Conts]
      BY DEF Started, IInv, TypeOK, PCs, Conts
    <2>6. QED
      BY <2>1, <2>2, <2>3, <2>4, <2>5 DEF IInv, TypeOK
  <1>7. HandleInv'
    <2>1. CASE UNCHANGED server
      BY <1>3, <1>4, <2>1 DEF server, IInv, HandleInv, Denotes
    <2>2. CASE C = Clients /\ serverCache' = [b \in FatBins |-> 0]
      BY <1>3, <2>2 DEF HandleInv
    <2>3. QED
      BY <2>1, <2>2
  <1>8. BatchInv'
    <2>1. SUFFICES ASSUME NEW c \in Clients, NEW i \in 1 .. Len(batch'[c])
                   PROVE  Denotes(batch[c][i].handle, batch[c][i].call.bin)'
      BY DEF BatchInv
    <2>2. c \notin C
      BY <1>3
    <2>3. QED
      BY <1>4, <1>5, <2>2 DEF IInv, BatchInv, Denotes
  <1>9. ASSUME NEW u \in Users PROVE StubOf(u)' /\ RestOf(u)'
    <2>1. CASE u[1] \in C
      BY <1>1, <2>1 DEF StubOf, RestOf
    <2>2. CASE u[1] \notin C
      <3>1. u[1] \in Clients \ C
        BY <2>2, UserClient
      <3>2. StubOf(u) /\ RestOf(u)
        BY DEF IInv, StubInv, TodoInv
      <3>3. PlaceOf(u)' = PlaceOf(u) /\ InFatBinary(u)' = InFatBinary(u)
        BY <1>2, <2>2 DEF PlaceOf, InFatBinary
      <3>4. \A h, b : Denotes(h, b)' = Denotes(h, b)
        BY <1>5, <3>1 DEF Denotes
      <3>5. StubOf(u)'
        BY <1>2, <1>4, <2>2, <3>1, <3>2, <3>3, <3>4 DEF StubOf
      <3>6. RestOf(u)'
        BY <1>2, <1>4, <2>2, <3>1, <3>2, <3>3, <3>4 DEF RestOf
      <3>7. QED
        BY <3>5, <3>6
    <2>3. QED
      BY <2>1, <2>2
  <1>10. OwnHandle'
    BY <1>3, <1>4 DEF IInv, OwnHandle
  <1>11. QED
    BY <1>6, <1>7, <1>8, <1>9, <1>10 DEF IInv, StubInv, TodoInv

\* Every step keeps the inductive invariant.
LEMMA NextIInv == IInv /\ [Next]_vars => IInv'
  <1> SUFFICES ASSUME IInv, [Next]_vars PROVE IInv'
    OBVIOUS
  <1>1. ASSUME NEW u \in Users, Progress(u) PROVE IInv'
    BY <1>1, GetConnectionInv, ExecuteBatchInv, FlushEndInv, DeactivateInv,
       QueryServerInv, LoadHitInv, LoadMissInv, ParseInv, RegisterFullInv,
       RegisterSymbolInv, RegisterEndInv, ExecuteOneInv, OpenFileInv,
       WriteFileInv, CloseFileInv, LaunchInv DEF Progress
  <1>2. ASSUME NEW u \in Users, NEW b \in FatBins, Construct(u, b) PROVE IInv'
    BY <1>2, ConstructInv
  <1>3. ASSUME NEW u \in Users, NEW b \in FatBins, NEW k \in ToSet(Kernels[b]),
               StartLaunch(u, b, k)
        PROVE  IInv'
    BY <1>3, StartLaunchInv
  <1>4. ASSUME NEW c \in Clients, ClientRestart(c) PROVE IInv'
    BY <1>4, RestartInv DEF ClientRestart
  <1>5. CASE ServerRestart
    BY <1>5, RestartInv DEF ServerRestart
  <1>6. CASE UNCHANGED vars
    <2>1. /\ UNCHANGED <<batching, parsed, handle, missed, thread, disk, history>>
          /\ UNCHANGED <<handles, serverCache>>
      BY <1>6 DEF vars, server
    <2>2. TypeOK'
      BY <2>1 DEF IInv, TypeOK, batching, parsed, thread, disk, history
    <2>3. HandleInv' /\ BatchInv'
      BY <2>1, SameHandles, SameBatch DEF batching
    <2>4. StubInv'
      BY <2>1 DEF IInv, StubInv, StubOf, PlaceOf, Denotes, thread
    <2>5. TodoInv'
      BY <2>1 DEF IInv, TodoInv, RestOf, InFatBinary, Denotes, thread
    <2>6. OwnHandle'
      BY <2>1 DEF IInv, OwnHandle, history
    <2>7. QED
      BY <2>2, <2>3, <2>4, <2>5, <2>6 DEF IInv
  <1>7. QED
    BY <1>1, <1>2, <1>3, <1>4, <1>5, <1>6 DEF Next

\* The inductive invariant holds of every state, for any clients, threads and
\* binaries, and any number of processes that end.
THEOREM Invariance == Spec => []IInv
  BY InitIInv, NextIInv, PTL DEF Spec

\* The state of the registration code stays in its types; a handle that is
\* looked up is always there (cuda_batch.cpp:29-38, manual_client.cpp:158-176).
THEOREM TypeCorrect == Spec => []TypeOK
  <1>1. IInv => TypeOK
    BY DEF IInv
  <1>2. QED
    BY <1>1, Invariance, PTL

\* Every registration is executed with the handle of its own fat binary, however
\* many threads and clients share the caches, and whenever processes and the
\* server end (manual_client.cpp:681-716, manual_server.cpp:621-685).
THEOREM RegisteredUnderOwnHandle == Spec => []OwnHandle
  <1>1. IInv => OwnHandle
    BY DEF IInv
  <1>2. QED
    BY <1>1, Invariance, PTL
=============================================================================
