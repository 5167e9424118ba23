--------------------- MODULE RegistrationService_proofs ---------------------
(***************************************************************************)
(* Proofs about a program with one thread, for any number of programs that *)
(* share the server and the cache files, and any processes that end:       *)
(* batching stops for good with the first launch; and, if the buffer is    *)
(* large enough for one constructor, the calls are executed in program     *)
(* order, each once, whether they were batched, sent at once or answered   *)
(* from the caches (RegistrationService).  The argument: a call is in one  *)
(* of three places, executed, in the buffer or in its stub, and they are   *)
(* emptied in that order before a call goes to the server.                 *)
(***************************************************************************)
EXTENDS RegistrationKernels_proofs

\* A program has one thread; the buffer has room for a constructor's calls.
OneThread == \A t, v \in Threads : t = v
BatchFits == \A b \in FatBins : Len(Constructor(b)) <= BatchCap

\* A thread sends the batch, or has sent it and the buffer is still to be emptied.
Flushing(u) == pc[u] \in {"flushSend", "flushed"}

\* A thread is in a call that is in the buffer already and saves the kernels.
Saving(u) == pc[u] \in {"open", "write"} /\ cont[u] = "idle"

\* While batching is off the buffer is empty, and a thread that has its
\* connection finds it empty.  A registration that is sent by itself is one that
\* found batching off, as does a launch.
BufferOf(u) ==
  LET c == u[1]
  IN  /\ ~batch_active[c] /\ ~Flushing(u) => batch[c] = <<>>
      /\ pc[u] \in {"query", "load", "parse", "full", "send", "launch", "deactivate"}
           => batch[c] = <<>>
      /\ pc[u] # "idle" /\ stub[u].op \in Registrations /\ ~Saving(u)
           => ~batch_active[c] /\ ~Flushing(u) /\ pc[u] # "deactivate"
      /\ pc[u] = "launch" => ~batch_active[c]
      /\ inside_fat_binary[c] => pc[u] # "idle" /\ stub[u].op = "fatbin"

\* A launch is never batched, and after one batching stays off.
EndOfBatching(c) ==
  /\ \A i \in 1 .. Len(batch[c]) : batch[c][i].call.op # "launch"
  /\ (\E i \in DOMAIN executed[c] : executed[c][i].call.op = "launch")
       => /\ ~batch_active[c] /\ batch[c] = <<>>
          /\ \A u \in Users : u[1] = c => ~Flushing(u)

BufferInv == /\ \A u \in Users : BufferOf(u)
             /\ \A c \in Clients : EndOfBatching(c)

\* The buffer has room for what is left of the constructor.
RoomOf(u) ==
  /\ Len(todo[u]) <= BatchCap
  /\ ~Flushing(u) => Len(batch[u[1]]) + Len(todo[u]) <= BatchCap

\* A launch is made between constructors; one that found no kernel is the last.
MissOf(u) ==
  /\ missed[u[1]] # {} => pc[u] = "idle" /\ todo[u] = <<>>
  /\ pc[u] # "idle" /\ stub[u].op = "launch" => todo[u] = <<>>

\* The latest call is still in its stub, neither executed nor in the buffer.
Pending(u) == missed[u[1]] # {} \/ (pc[u] # "idle" /\ ~Saving(u))

\* The calls of a program are those executed, then those in the buffer, unless
\* they have just been executed, then the one in its stub.
Buffered(u) == IF pc[u] = "flushed" THEN 0 ELSE Len(batch[u[1]])
OrderOf(u) ==
  LET c == u[1]
  IN  /\ Len(called[c]) = Len(executed[c]) + Buffered(u) + (IF Pending(u) THEN 1 ELSE 0)
      /\ \A i \in 1 .. Buffered(u) : batch[c][i].call = called[c][Len(executed[c]) + i]
      /\ pc[u] # "idle" => called[c] # <<>> /\ called[c][Len(called[c])] = stub[u]

\* The calls that were executed are the first ones of the program.
PrefixOf(c) ==
  /\ Len(executed[c]) <= Len(called[c])
  /\ \A i \in 1 .. Len(executed[c]) : executed[c][i].call = called[c][i]

OrderInv == /\ \A u \in Users : RoomOf(u) /\ MissOf(u) /\ OrderOf(u)
            /\ \A c \in Clients : PrefixOf(c)

-----------------------------------------------------------------------------
(* A step of a thread is a step of its client.                             *)

LEMMA OneUser ==
  ASSUME OneThread, NEW u \in Users, NEW v \in Users, u[1] = v[1]
  PROVE  u = v
  BY DEF OneThread, Users

\* A step of thread u leaves the other clients as they are.
Elsewhere(u) ==
  /\ Others(u)
  /\ \A d \in Clients \ {u[1]} :
       /\ batch'[d] = batch[d] /\ batch_active'[d] = batch_active[d]
       /\ inside_fat_binary'[d] = inside_fat_binary[d] /\ missed'[d] = missed[d]
       /\ called'[d] = called[d] /\ executed'[d] = executed[d]

Calls(u) ==
  \E b \in FatBins : Construct(u, b) \/ \E k \in ToSet(Kernels[b]) : StartLaunch(u, b, k)

LEMMA StepElsewhere ==
  ASSUME IInv, NEW u \in Users, Progress(u) \/ Calls(u)
  PROVE  Elsewhere(u)
  <1>1. /\ pc' = pc \/ \E x : pc' = [pc EXCEPT ![u] = x]
        /\ cont' = cont \/ \E x : cont' = [cont EXCEPT ![u] = x]
        /\ stub' = stub \/ \E x : stub' = [stub EXCEPT ![u] = x]
        /\ todo' = todo \/ \E x : todo' = [todo EXCEPT ![u] = x]
        /\ batch' = batch \/ \E x : batch' = [batch EXCEPT ![u[1]] = x]
        /\ \/ batch_active' = batch_active
           \/ \E x : batch_active' = [batch_active EXCEPT ![u[1]] = x]
        /\ \/ inside_fat_binary' = inside_fat_binary
           \/ \E x : inside_fat_binary' = [inside_fat_binary EXCEPT ![u[1]] = x]
        /\ missed' = missed \/ \E x : missed' = [missed EXCEPT ![u[1]] = x]
        /\ called' = called \/ \E x : called' = [called EXCEPT ![u[1]] = x]
        /\ executed' = executed \/ \E x : executed' = [executed EXCEPT ![u[1]] = x]
    <2> USE DEF Progress, Calls, GetConnection, ExecuteBatch, FlushEnd, Deactivate,
            QueryServer, LoadHit, LoadMiss, Parse, RegisterFull, RegisterSymbol,
            RegisterEnd, ExecuteOne, OpenFile, WriteFile, CloseFile, Launch, Construct,
            StartLaunch, FlushAndContinue, Flush, Connect, Goto, Enter
    <2>1. pc' = pc \/ \E x : pc' = [pc EXCEPT ![u] = x]
      BY DEF thread
    <2>2. cont' = cont \/ \E x : cont' = [cont EXCEPT ![u] = x]
      BY DEF thread
    <2>3. stub' = stub \/ \E x : stub' = [stub EXCEPT ![u] = x]
      BY DEF thread
    <2>4. todo' = todo \/ \E x : todo' = [todo EXCEPT ![u] = x]
      BY DEF thread
    <2>5. batch' = batch \/ \E x : batch' = [batch EXCEPT ![u[1]] = x]
      BY DEF AppendToBatch, batching
    <2>6. \/ batch_active' = batch_active
          \/ \E x : batch_active' = [batch_active EXCEPT ![u[1]] = x]
      BY DEF batching
    <2>7. \/ inside_fat_binary' = inside_fat_binary
          \/ \E x : inside_fat_binary' = [inside_fat_binary EXCEPT ![u[1]] = x]
      BY DEF batching
    <2>8. missed' = missed \/ \E x : missed' = [missed EXCEPT ![u[1]] = x]
      OBVIOUS
    <2>9. called' = called \/ \E x : called' = [called EXCEPT ![u[1]] = x]
      BY DEF history
    <2>10. executed' = executed \/ \E x : executed' = [executed EXCEPT ![u[1]] = x]
      BY DEF history
    <2>11. QED
      BY <2>1, <2>2, <2>3, <2>4, <2>5, <2>6, <2>7, <2>8, <2>9, <2>10
  <1>2. Others(u)
    BY <1>1 DEF Others, IInv, TypeOK
  <1>3. ASSUME NEW d \in Clients \ {u[1]}
        PROVE  /\ batch'[d] = batch[d] /\ batch_active'[d] = batch_active[d]
               /\ inside_fat_binary'[d] = inside_fat_binary[d] /\ missed'[d] = missed[d]
               /\ called'[d] = called[d] /\ executed'[d] = executed[d]
    BY <1>1 DEF IInv, TypeOK
  <1>4. QED
    BY <1>2, <1>3 DEF Elsewhere

-----------------------------------------------------------------------------
(* Batching stops with the first launch.                                   *)

\* The invariant after a step of thread u, from what the step does itself.
LEMMA BufferStep ==
  ASSUME OneThread, BufferInv, NEW u \in Users, NEW c \in Clients, c = u[1],
         Elsewhere(u), BufferOf(u)',
         \A i \in 1 .. Len(batch'[c]) : batch'[c][i].call.op # "launch",
         (\E i \in DOMAIN executed'[c] : executed'[c][i].call.op = "launch")
           => ~batch_active'[c] /\ batch'[c] = <<>> /\ ~Flushing(u)'
  PROVE  BufferInv'
  <1>1. ASSUME NEW v \in Users \ {u} PROVE BufferOf(v)'
    <2>1. v[1] \in Clients \ {u[1]}
      BY OneUser, UserClient
    <2>2. BufferOf(v)
      BY DEF BufferInv
    <2>3. QED
      BY <2>1, <2>2 DEF BufferOf, Elsewhere, Others, Flushing, Saving
  <1>2. ASSUME NEW d \in Clients \ {c} PROVE EndOfBatching(d)'
    <2>1. EndOfBatching(d)
      BY DEF BufferInv
    <2>2. \A v \in Users : v[1] = d => Flushing(v)' = Flushing(v)
      BY DEF Elsewhere, Others, Flushing
    <2>3. QED
      BY <2>1, <2>2 DEF EndOfBatching, Elsewhere
  <1>3. EndOfBatching(c)'
    BY OneUser DEF EndOfBatching
  <1>4. QED
    BY <1>1, <1>2, <1>3 DEF BufferInv

\* What the batch says of a thread's call.
LEMMA StubFacts ==
  ASSUME IInv, NEW u \in Users
  PROVE  /\ pc[u] # "idle" => StubOf(u) /\ stub[u] \in Call /\ stub[u].bin \in FatBins
         /\ pc[u] \in PCs /\ cont[u] \in Conts /\ back[u] \in {"conn", "deactivate"}
         /\ u[1] \in Clients /\ batch_active[u[1]] \in BOOLEAN
         /\ inside_fat_binary[u[1]] \in BOOLEAN
  BY UserClient DEF IInv, StubInv, StubOf, Call, TypeOK

LEMMA GetConnectionBuffer ==
  ASSUME OneThread, IInv, BufferInv, NEW u \in Users, GetConnection(u)
  PROVE  BufferInv'
  <1>0. PICK c \in Clients : c = u[1]
    BY UserClient
  <1>1. /\ pc[u] = "conn" /\ UNCHANGED <<batch, executed, stub, cont>> /\ Elsewhere(u)
        /\ inside_fat_binary' = [inside_fat_binary EXCEPT ![c] = @ \/ stub[u].op = "fatbin"]
    BY <1>0, StepElsewhere DEF GetConnection, history, Progress
  <1>2. BufferOf(u) /\ EndOfBatching(c) /\ StubOf(u)
    BY <1>1, StubFacts DEF BufferInv
  <1>3. /\ cont[u] \in Conts /\ PlaceOf(u) = cont[u] /\ cont[u] # "idle"
        /\ cont[u] = "launch" => stub[u].op = "launch"
    BY <1>1, <1>2, StubFacts DEF PlaceOf, Connecting, StubOf
  <1>4. inside_fat_binary'[c] => stub[u].op = "fatbin"
    BY <1>0, <1>1, <1>2 DEF BufferOf, IInv, TypeOK
  <1>5. CASE batch_active[c] /\ batch[c] # <<>>
    <2>1. pc' = [pc EXCEPT ![u] = "flushSend"]
      BY <1>0, <1>5 DEF GetConnection, Flush, Goto
    <2>2. pc'[u] = "flushSend"
      BY <2>1 DEF IInv, TypeOK
    <2>3. stub[u].op \notin Registrations
      BY <1>0, <1>1, <1>2, <1>5 DEF BufferOf, Saving
    <2>4. BufferOf(u)'
      BY <1>0, <1>1, <1>4, <2>2, <2>3 DEF BufferOf, Flushing
    <2>5. QED
      BY <1>0, <1>1, <1>2, <1>5, <2>4, BufferStep DEF EndOfBatching
  <1>6. CASE ~(batch_active[c] /\ batch[c] # <<>>)
    <2>1. /\ pc' = [pc EXCEPT ![u] = cont[u]]
          /\ batch_active' = [batch_active EXCEPT ![c] = @ /\ inside_fat_binary'[c]]
      BY <1>0, <1>6 DEF GetConnection, Goto
    <2>2. pc'[u] = cont[u] /\ (batch_active'[c] => batch_active[c] /\ inside_fat_binary'[c])
      BY <2>1 DEF IInv, TypeOK
    <2>3. batch[c] = <<>>
      BY <1>0, <1>1, <1>2, <1>6 DEF BufferOf, Flushing
    <2>4. stub[u].op \in Registrations => ~batch_active[c]
      BY <1>0, <1>1, <1>2 DEF BufferOf, Saving
    <2>5. BufferOf(u)' /\ ~Flushing(u)'
      <3>1. ~Flushing(u)' /\ pc'[u] # "deactivate" /\ pc'[u] # "idle"
        BY <1>3, <2>2 DEF Flushing, Conts
      <3>2. pc'[u] = "launch" => ~batch_active'[c]
        BY <1>3, <1>4, <2>2
      <3>3. QED
        BY <1>0, <1>1, <1>4, <2>2, <2>3, <2>4, <3>1, <3>2 DEF BufferOf
    <2>6. QED
      BY <1>0, <1>1, <1>2, <2>2, <2>3, <2>5, BufferStep DEF EndOfBatching
  <1>7. QED
    BY <1>5, <1>6

\* A batch executed: the calls of its commands follow those executed before.
LEMMA BatchExecuted ==
  ASSUME IInv, NEW u \in Users, ExecuteBatch(u), NEW c \in Clients, c = u[1]
  PROVE  /\ Len(executed[c]) \in Nat /\ Len(batch[c]) \in Nat
         /\ DOMAIN executed'[c] = 1 .. Len(executed[c]) + Len(batch[c])
         /\ Len(executed'[c]) = Len(executed[c]) + Len(batch[c])
         /\ \A i \in 1 .. Len(executed[c]) : executed'[c][i] = executed[c][i]
         /\ \A i \in 1 .. Len(batch[c]) :
              executed'[c][Len(executed[c]) + i].call = batch[c][i].call
  <1> DEFINE E == [call : Call, with : FatBins \union {None}]
             B == [call : Call, handle : Nat]
  <1>1. executed[c] \in Seq(E) /\ batch[c] \in Seq(B)
    BY DEF IInv, TypeOK
  <1>2. PICK n \in Nat, m \in Nat : n = Len(executed[c]) /\ m = Len(batch[c])
    BY <1>1, LenProperties
  <1>3. PICK g : g = ExecutedBatch(c)
    OBVIOUS
  <1>4. /\ DOMAIN g = 1 .. m /\ \A i \in 1 .. m : g[i].call = batch[c][i].call
        /\ g = [i \in 1 .. m |-> g[i]]
    BY <1>1, <1>2, <1>3, LenProperties DEF ExecutedBatch, Executed
  <1>5. executed'[c] = executed[c] \o g
    BY <1>3 DEF ExecuteBatch, IInv, TypeOK
  <1>6. g \in Seq(Range(g)) /\ Len(g) = m
    <2>1. g \in [1 .. m -> Range(g)]
      BY <1>4 DEF Range
    <2>2. g \in Seq(Range(g))
      BY <2>1, SeqDef
    <2>3. QED
      BY <1>4, <2>2, LenProperties
  <1> HIDE DEF E
  <1>7. PICK W : executed[c] \in Seq(W) /\ g \in Seq(W)
    <2>1. executed[c] \in Seq(E \union Range(g)) /\ g \in Seq(E \union Range(g))
      BY <1>1, <1>6, SeqMonotonic
    <2>2. QED
      BY <2>1
  <1>8. PICK f, h : f = executed[c] /\ h = executed'[c]
    OBVIOUS
  <1>9. Extended(n, m, f, g, h)
    BY <1>2, <1>5, <1>6, <1>7, <1>8, Extension
  <1>10. /\ DOMAIN h = 1 .. n + m /\ Len(h) = n + m
         /\ \A i \in 1 .. n : h[i] = f[i]
         /\ \A i \in 1 .. m : h[n + i] = g[i]
    BY <1>9 DEF Extended
  <1>11. \A i \in 1 .. m : h[n + i].call = batch[c][i].call
    BY <1>4, <1>10
  <1>12. QED
    BY <1>2, <1>8, <1>10, <1>11

LEMMA ExecuteBatchBuffer ==
  ASSUME OneThread, IInv, BufferInv, NEW u \in Users, ExecuteBatch(u)
  PROVE  BufferInv'
  <1>0. PICK c \in Clients : c = u[1]
    BY UserClient
  <1>1. /\ pc[u] = "flushSend" /\ Elsewhere(u)
        /\ pc' = [pc EXCEPT ![u] = "flushed"]
        /\ UNCHANGED <<batch, batch_active, inside_fat_binary, stub, cont>>
    BY StepElsewhere DEF ExecuteBatch, batching, Goto, Progress
  <1>2. BufferOf(u) /\ EndOfBatching(c)
    BY DEF BufferInv
  <1>3. pc'[u] = "flushed"
    BY <1>1 DEF IInv, TypeOK
  <1>4. BufferOf(u)'
    BY <1>0, <1>1, <1>2, <1>3 DEF BufferOf, Flushing, Saving
  <1>5. ASSUME NEW i \in DOMAIN executed'[c], executed'[c][i].call.op = "launch" PROVE FALSE
    <2>1. PICK n \in Nat, m \in Nat : n = Len(executed[c]) /\ m = Len(batch[c])
      BY <1>0, BatchExecuted
    <2>2. /\ DOMAIN executed'[c] = 1 .. n + m
          /\ \A j \in 1 .. n : executed'[c][j] = executed[c][j]
          /\ \A j \in 1 .. m : executed'[c][n + j].call = batch[c][j].call
      BY <1>0, <2>1, BatchExecuted
    <2>3. CASE i \in 1 .. n
      <3>1. i \in DOMAIN executed[c]
        BY <2>1, <2>3, LenProperties DEF IInv, TypeOK
      <3>2. Flushing(u)
        BY <1>1 DEF Flushing
      <3>3. QED
        BY <1>0, <1>2, <1>5, <2>2, <2>3, <3>1, <3>2 DEF EndOfBatching
    <2>4. CASE i \notin 1 .. n
      <3>1. i \in 1 .. n + m
        BY <1>5, <2>2
      <3>2. PICK j \in 1 .. m : i = n + j
        <4>1. i - n \in 1 .. m /\ i = n + (i - n)
          BY <2>4, <3>1
        <4>2. QED
          BY <4>1
      <3>3. QED
        BY <1>2, <1>5, <2>1, <2>2, <3>2 DEF EndOfBatching
    <2>5. QED
      BY <2>3, <2>4
  <1>6. QED
    BY <1>0, <1>1, <1>2, <1>4, <1>5, BufferStep DEF EndOfBatching

LEMMA FlushEndBuffer ==
  ASSUME OneThread, IInv, BufferInv, NEW u \in Users, FlushEnd(u)
  PROVE  BufferInv'
  <1>0. PICK c \in Clients : c = u[1]
    BY UserClient
  <1>1. /\ pc[u] = "flushed" /\ Elsewhere(u)
        /\ pc' = [pc EXCEPT ![u] = back[u]]
        /\ batch' = [batch EXCEPT ![c] = <<>>]
        /\ UNCHANGED <<inside_fat_binary, stub, cont, executed>>
    BY <1>0, StepElsewhere DEF FlushEnd, Goto, Progress, history
  <1>2. BufferOf(u) /\ EndOfBatching(c) /\ Flushing(u)
    BY <1>1 DEF BufferInv, Flushing
  <1>3. pc'[u] \in {"conn", "deactivate"} /\ batch'[c] = <<>>
    BY <1>1 DEF IInv, TypeOK
  <1>4. stub[u].op \notin Registrations
    BY <1>1, <1>2 DEF BufferOf, Saving
  <1>5. BufferOf(u)'
    BY <1>0, <1>1, <1>2, <1>3, <1>4 DEF BufferOf
  <1>6. ~\E i \in DOMAIN executed[c] : executed[c][i].call.op = "launch"
    BY <1>0, <1>2 DEF EndOfBatching
  <1>7. QED
    BY <1>0, <1>1, <1>3, <1>5, <1>6, BufferStep

LEMMA DeactivateBuffer ==
  ASSUME OneThread, IInv, BufferInv, NEW u \in Users, Deactivate(u)
  PROVE  BufferInv'
  <1>0. PICK c \in Clients : c = u[1]
    BY UserClient
  <1>1. /\ pc[u] = "deactivate" /\ Elsewhere(u)
        /\ pc' = [pc EXCEPT ![u] = cont[u]]
        /\ batch_active' = [batch_active EXCEPT ![c] = @ /\ inside_fat_binary[c]]
        /\ UNCHANGED <<batch, inside_fat_binary, stub, cont, executed>>
    BY <1>0, StepElsewhere DEF Deactivate, Goto, Progress, history
  <1>2. BufferOf(u) /\ EndOfBatching(c) /\ StubOf(u)
    BY <1>1, StubFacts DEF BufferInv
  <1>3. /\ cont[u] \in Conts /\ PlaceOf(u) = cont[u] /\ cont[u] # "idle"
        /\ cont[u] = "launch" => stub[u].op = "launch"
    BY <1>1, <1>2, StubFacts DEF PlaceOf, Connecting, StubOf
  <1>4. pc'[u] = cont[u] /\ (batch_active'[c] => batch_active[c] /\ inside_fat_binary[c])
    BY <1>1 DEF IInv, TypeOK
  <1>5. stub[u].op \notin Registrations /\ batch[c] = <<>>
    BY <1>0, <1>1, <1>2 DEF BufferOf, Saving
  <1>6. pc'[u] = "launch" => ~batch_active'[c]
    BY <1>0, <1>2, <1>3, <1>4 DEF BufferOf
  <1>7. ~Flushing(u)' /\ pc'[u] # "idle"
    BY <1>3, <1>4 DEF Flushing, Conts
  <1>8. BufferOf(u)'
    BY <1>0, <1>1, <1>2, <1>5, <1>6, <1>7 DEF BufferOf
  <1>9. QED
    BY <1>0, <1>1, <1>2, <1>4, <1>5, <1>7, <1>8, BufferStep DEF EndOfBatching

\* A step in a stub that neither touches the buffer nor executes anything.
LEMMA QuietBuffer ==
  ASSUME OneThread, IInv, BufferInv, NEW u \in Users,
         QueryServer(u) \/ LoadMiss(u) \/ OpenFile(u) \/ WriteFile(u) \/ CloseFile(u)
           \/ Parse(u)
  PROVE  BufferInv'
  <1>0. PICK c \in Clients : c = u[1]
    BY UserClient
  <1>1. /\ pc[u] \in {"query", "load", "parse", "open", "write"} /\ Elsewhere(u)
        /\ UNCHANGED <<batch, stub, executed>>
    BY StepElsewhere DEF QueryServer, LoadMiss, OpenFile, WriteFile, CloseFile, Parse,
       Progress, batching, thread, history
  <1>2. BufferOf(u) /\ EndOfBatching(c) /\ StubOf(u)
    BY <1>1, StubFacts DEF BufferInv
  <1>3. /\ pc[u] \in {"query", "load", "parse"} => stub[u].op = "fatbin" /\ batch[c] = <<>>
        /\ pc[u] \in {"open", "write"} => stub[u].op = "end"
    BY <1>0, <1>1, <1>2 DEF StubOf, PlaceOf, Connecting, BufferOf
  <1>4. /\ batch_active' = batch_active
        /\ inside_fat_binary'[c] => inside_fat_binary[c]
    <2>1. CASE Parse(u)
      BY <1>0, <1>3, <2>1 DEF Parse, FlushAndContinue
    <2>2. CASE QueryServer(u) \/ LoadMiss(u)
      <3>1. \/ inside_fat_binary' = inside_fat_binary
            \/ inside_fat_binary' = [inside_fat_binary EXCEPT ![c] = FALSE]
        BY <1>0, <2>2 DEF QueryServer, LoadMiss
      <3>2. batch_active' = batch_active
        BY <2>2 DEF QueryServer, LoadMiss
      <3>3. QED
        BY <3>1, <3>2 DEF IInv, TypeOK
    <2>3. CASE OpenFile(u) \/ WriteFile(u) \/ CloseFile(u)
      BY <2>3 DEF OpenFile, WriteFile, CloseFile, batching
    <2>4. QED
      BY <2>1, <2>2, <2>3
  <1>5. /\ pc[u] \in {"query", "load", "parse"} => pc'[u] \in {"load", "parse", "conn"}
        /\ pc[u] \in {"open", "write"} =>
             \/ pc'[u] = "write" /\ cont'[u] = cont[u]
             \/ pc'[u] = "conn" /\ cont[u] = "send"
             \/ pc'[u] = "idle"
    <2>1. CASE Parse(u)
      <3>1. pc[u] = "parse" /\ pc' = [pc EXCEPT ![u] = "conn"]
        BY <1>0, <1>3, <2>1 DEF Parse, FlushAndContinue, Goto
      <3>2. QED
        BY <3>1 DEF IInv, TypeOK
    <2>2. CASE QueryServer(u) \/ LoadMiss(u)
      <3>1. /\ pc[u] \in {"query", "load"}
            /\ \E l \in {"load", "parse"} : pc' = [pc EXCEPT ![u] = l]
        BY <2>2 DEF QueryServer, LoadMiss, Goto
      <3>2. QED
        BY <3>1 DEF IInv, TypeOK
    <2>3. CASE OpenFile(u) \/ WriteFile(u)
      <3>1. /\ pc[u] \in {"open", "write"} /\ cont' = cont
            /\ pc' = [pc EXCEPT ![u] = "write"] \/ (pc[u] = "write" /\ pc' = pc)
        BY <2>3 DEF OpenFile, WriteFile, Goto, thread
      <3>2. QED
        BY <3>1 DEF IInv, TypeOK
    <2>4. CASE CloseFile(u)
      <3>1. /\ pc[u] \in {"open", "write"}
            /\ pc' = [pc EXCEPT ![u] = IF cont[u] = "send" THEN "conn" ELSE "idle"]
        BY <2>4 DEF CloseFile, Goto
      <3>2. QED
        BY <3>1 DEF IInv, TypeOK
    <2>5. QED
      BY <2>1, <2>2, <2>3, <2>4
  <1>6. BufferOf(u)' /\ ~Flushing(u) /\ ~Flushing(u)'
    <2>1. CASE pc[u] \in {"query", "load", "parse"}
      BY <1>0, <1>1, <1>2, <1>3, <1>4, <1>5, <2>1 DEF BufferOf, Flushing, Registrations
    <2>2. CASE pc[u] \in {"open", "write"}
      <3>1. ~inside_fat_binary'[c] /\ (~batch_active[c] => batch[c] = <<>>)
        BY <1>0, <1>2, <1>3, <1>4, <2>2 DEF BufferOf, Flushing
      <3>2. Saving(u)' \/ pc'[u] = "idle" \/ ~batch_active[c]
        BY <1>0, <1>2, <1>3, <1>5, <2>2 DEF BufferOf, Saving, Registrations
      <3>3. QED
        BY <1>0, <1>1, <1>4, <1>5, <2>2, <3>1, <3>2 DEF BufferOf, Flushing
    <2>3. QED
      BY <1>1, <2>1, <2>2
  <1>7. QED
    BY <1>0, <1>1, <1>2, <1>4, <1>6, BufferStep DEF EndOfBatching

\* The sequence g is f and one more element.
OneLonger(f, g, x) ==
  /\ Len(f) \in Nat /\ Len(g) = Len(f) + 1
  /\ DOMAIN f = 1 .. Len(f) /\ DOMAIN g = 1 .. Len(f) + 1
  /\ \A i \in 1 .. Len(f) : g[i] = f[i]
  /\ g[Len(f) + 1] = x

\* One more call is executed.
LEMMA OneMoreExecuted ==
  ASSUME IInv, NEW c \in Clients, NEW x,
         executed' = [executed EXCEPT ![c] = Append(@, x)]
  PROVE  OneLonger(executed[c], executed'[c], x)
  <1> DEFINE E == [call : Call, with : FatBins \union {None}]
  <1>1. executed[c] \in Seq(E)
    BY DEF IInv, TypeOK
  <1>2. executed'[c] = Append(executed[c], x)
    BY DEF IInv, TypeOK
  <1> HIDE DEF E
  <1>3. executed[c] \in Seq(E \union {x}) /\ x \in E \union {x}
    BY <1>1, SeqMonotonic
  <1>4. QED
    BY <1>2, <1>3, AppendProperties, LenProperties DEF OneLonger

\* A stub returns after the server executed its call, or has found no kernel.
Returned(u, c) ==
  /\ pc[u] \in {"load", "full", "send", "launch"} /\ Elsewhere(u)
  /\ pc' = [pc EXCEPT ![u] = "idle"]
  /\ UNCHANGED <<batch, batch_active, stub, cont, todo, called>>
  /\ \/ executed' = executed /\ Launch(u) /\ missed'[c] # {}
     \/ /\ missed' = missed
        /\ \E x : x.call = stub[u] /\ executed' = [executed EXCEPT ![c] = Append(@, x)]

LEMMA ReturnsFromCall ==
  ASSUME IInv, NEW u \in Users, NEW c \in Clients, c = u[1],
         LoadHit(u) \/ RegisterFull(u) \/ ExecuteOne(u) \/ Launch(u)
  PROVE  Returned(u, c)
  <1>1. /\ pc[u] \in {"load", "full", "send", "launch"} /\ Elsewhere(u)
        /\ pc' = [pc EXCEPT ![u] = "idle"]
        /\ UNCHANGED <<batch, batch_active, stub, cont, todo, called>>
    BY StepElsewhere DEF LoadHit, RegisterFull, ExecuteOne, Launch, Progress, batching, Goto
  <1>2. CASE LoadHit(u)
    <2>1. PICK x : x = Executed(stub[u], handle[c][stub[u].bin])
      OBVIOUS
    <2>2. x.call = stub[u]
      BY <2>1 DEF Executed
    <2>3. missed' = missed /\ executed' = [executed EXCEPT ![c] = Append(@, x)]
      BY <1>2, <2>1 DEF LoadHit
    <2>4. QED
      BY <1>1, <2>2, <2>3 DEF Returned
  <1>3. CASE ExecuteOne(u)
    <2>1. PICK x : x = Executed(stub[u], handle[c][stub[u].bin])
      OBVIOUS
    <2>2. x.call = stub[u]
      BY <2>1 DEF Executed
    <2>3. missed' = missed /\ executed' = [executed EXCEPT ![c] = Append(@, x)]
      BY <1>3, <2>1 DEF ExecuteOne
    <2>4. QED
      BY <1>1, <2>2, <2>3 DEF Returned
  <1>4. CASE RegisterFull(u) \/ Launch(u)
    <2>1. PICK x : x = [call |-> stub[u], with |-> stub[u].bin]
      OBVIOUS
    <2>2. x.call = stub[u]
      BY <2>1
    <2>3. \/ /\ executed' = executed /\ Launch(u)
             /\ missed' = [missed EXCEPT ![c] = @ \union {stub[u].of}]
          \/ missed' = missed /\ executed' = [executed EXCEPT ![c] = Append(@, x)]
      BY <1>4, <2>1 DEF RegisterFull, Launch
    <2>4. missed' = [missed EXCEPT ![c] = @ \union {stub[u].of}] => missed'[c] # {}
      BY DEF IInv, TypeOK
    <2>5. QED
      BY <1>1, <2>2, <2>3, <2>4 DEF Returned
  <1>5. QED
    BY <1>2, <1>3, <1>4

LEMMA ReturningBuffer ==
  ASSUME OneThread, IInv, BufferInv, NEW u \in Users,
         LoadHit(u) \/ RegisterFull(u) \/ ExecuteOne(u) \/ Launch(u)
  PROVE  BufferInv'
  <1>0. PICK c \in Clients : c = u[1]
    BY UserClient
  <1>1. /\ pc[u] \in {"load", "full", "send", "launch"} /\ Elsewhere(u)
        /\ pc' = [pc EXCEPT ![u] = "idle"]
        /\ UNCHANGED <<batch, batch_active, stub>>
    BY StepElsewhere DEF LoadHit, RegisterFull, ExecuteOne, Launch, Progress, batching, Goto
  <1>2. BufferOf(u) /\ EndOfBatching(c) /\ StubOf(u) /\ stub[u] \in Call
    BY <1>1, StubFacts DEF BufferInv
  <1>3. /\ pc[u] \in {"load", "full"} <=> stub[u].op = "fatbin"
        /\ pc[u] = "launch" <=> stub[u].op = "launch"
        /\ pc'[u] = "idle" /\ batch[c] = <<>>
    BY <1>0, <1>1, <1>2 DEF StubOf, PlaceOf, Connecting, BufferOf, IInv, TypeOK
  <1>4. ~inside_fat_binary'[c]
    <2>1. CASE LoadHit(u) \/ RegisterFull(u)
      <3>1. inside_fat_binary' = [inside_fat_binary EXCEPT ![c] = FALSE]
        BY <1>0, <2>1 DEF LoadHit, RegisterFull
      <3>2. QED
        BY <3>1 DEF IInv, TypeOK
    <2>2. CASE ExecuteOne(u) \/ Launch(u)
      <3>1. inside_fat_binary' = inside_fat_binary /\ pc[u] \in {"send", "launch"}
        BY <2>2 DEF ExecuteOne, Launch, batching
      <3>2. stub[u].op # "fatbin"
        BY <1>3, <3>1
      <3>3. QED
        BY <1>0, <1>2, <3>1, <3>2 DEF BufferOf
    <2>3. QED
      BY <2>1, <2>2
  <1>5. BufferOf(u)' /\ ~Flushing(u)'
    BY <1>0, <1>1, <1>3, <1>4 DEF BufferOf, Flushing
  <1>6. \/ executed' = executed
        \/ \E x : x.call = stub[u] /\ executed' = [executed EXCEPT ![c] = Append(@, x)]
    BY <1>0, ReturnsFromCall DEF Returned
  <1>7. ASSUME NEW i \in DOMAIN executed'[c], executed'[c][i].call.op = "launch"
        PROVE  ~batch_active[c]
    <2>1. CASE executed' = executed
      BY <1>2, <1>7, <2>1 DEF EndOfBatching
    <2>2. CASE \E x : x.call = stub[u] /\ executed' = [executed EXCEPT ![c] = Append(@, x)]
      <3>1. PICK x : x.call = stub[u] /\ executed' = [executed EXCEPT ![c] = Append(@, x)]
        BY <2>2
      <3>2. PICK f, g : f = executed[c] /\ g = executed'[c]
        OBVIOUS
      <3>3. OneLonger(f, g, x)
        BY <3>1, <3>2, OneMoreExecuted
      <3>4. PICK n \in Nat : n = Len(f)
        BY <3>3 DEF OneLonger
      <3>5. /\ DOMAIN executed[c] = 1 .. n /\ DOMAIN executed'[c] = 1 .. n + 1
            /\ \A j \in 1 .. n : executed'[c][j] = executed[c][j]
            /\ executed'[c][n + 1] = x
        BY <3>2, <3>3, <3>4 DEF OneLonger
      <3>6. CASE i = n + 1
        <4>1. stub[u].op = "launch"
          BY <1>7, <3>1, <3>5, <3>6
        <4>2. QED
          BY <1>0, <1>2, <1>3, <4>1 DEF BufferOf
      <3>7. CASE i \in 1 .. n
        BY <1>2, <1>7, <3>5, <3>7 DEF EndOfBatching
      <3>8. QED
        BY <1>7, <3>5, <3>6, <3>7
    <2>3. QED
      BY <1>6, <2>1, <2>2
  <1>8. QED
    BY <1>0, <1>1, <1>2, <1>3, <1>5, <1>7, BufferStep DEF EndOfBatching

LEMMA ConstructBuffer ==
  ASSUME OneThread, IInv, BufferInv, NEW u \in Users, NEW b \in FatBins, Construct(u, b)
  PROVE  BufferInv'
  <1>0. PICK c \in Clients : c = u[1]
    BY UserClient
  <1> DEFINE x == CallOf("fatbin", b, b)
  <1>1. /\ pc[u] = "idle" /\ Elsewhere(u) /\ Enter(u, x) /\ FlushAndContinue(u, "query")
        /\ UNCHANGED <<batch, inside_fat_binary, executed>>
    BY StepElsewhere DEF Construct, Calls
  <1>2. x \in Call /\ x.op = "fatbin"
    BY DEF CallOf, Call
  <1> HIDE DEF x
  <1>3. BufferOf(u) /\ EndOfBatching(c) /\ ~inside_fat_binary[c]
    BY <1>0, <1>1 DEF BufferInv, BufferOf
  <1>4. stub'[u].op = "fatbin"
    BY <1>1, <1>2, OneCalled DEF IInv
  <1>5. CASE batch[c] # <<>>
    <2>1. pc' = [pc EXCEPT ![u] = "flushSend"]
      BY <1>0, <1>1, <1>5 DEF FlushAndContinue, Flush, Goto
    <2>2. pc'[u] = "flushSend"
      BY <2>1 DEF IInv, TypeOK
    <2>3. BufferOf(u)'
      BY <1>0, <1>1, <1>3, <1>4, <2>2 DEF BufferOf, Flushing, Registrations
    <2>4. QED
      BY <1>0, <1>1, <1>3, <1>5, <2>3, BufferStep DEF EndOfBatching
  <1>6. CASE batch[c] = <<>>
    <2>1. pc' = [pc EXCEPT ![u] = "conn"] /\ batch_active' = batch_active
      BY <1>0, <1>1, <1>6 DEF FlushAndContinue, Goto
    <2>2. pc'[u] = "conn"
      BY <2>1 DEF IInv, TypeOK
    <2>3. BufferOf(u)' /\ ~Flushing(u)'
      BY <1>0, <1>1, <1>3, <1>4, <1>6, <2>2 DEF BufferOf, Flushing, Registrations
    <2>4. QED
      BY <1>0, <1>1, <1>3, <1>6, <2>1, <2>3, BufferStep DEF EndOfBatching
  <1>7. QED
    BY <1>5, <1>6

LEMMA StartLaunchBuffer ==
  ASSUME OneThread, IInv, BufferInv, NEW u \in Users, NEW b \in FatBins,
         NEW k \in ToSet(Kernels[b]), StartLaunch(u, b, k)
  PROVE  BufferInv'
  <1>0. PICK c \in Clients : c = u[1]
    BY UserClient
  <1> DEFINE x == CallOf("launch", k, b)
  <1>1. /\ pc[u] = "idle" /\ Elsewhere(u) /\ Enter(u, x)
        /\ pc' = [pc EXCEPT ![u] = "conn"]
        /\ UNCHANGED <<batch, batch_active, inside_fat_binary, executed>>
    BY StepElsewhere DEF StartLaunch, Calls, Connect, Goto, batching
  <1>2. x \in Call /\ x.op = "launch"
    BY DEF CallOf, Call, AllKernels
  <1> HIDE DEF x
  <1>3. BufferOf(u) /\ EndOfBatching(c) /\ ~inside_fat_binary[c]
    BY <1>0, <1>1 DEF BufferInv, BufferOf
  <1>4. stub'[u].op = "launch" /\ pc'[u] = "conn"
    BY <1>1, <1>2, OneCalled DEF IInv, TypeOK
  <1>5. BufferOf(u)' /\ ~Flushing(u)'
    BY <1>0, <1>1, <1>3, <1>4 DEF BufferOf, Flushing, Registrations
  <1>6. QED
    BY <1>0, <1>1, <1>3, <1>5, BufferStep DEF EndOfBatching

\* A command is added to the buffer when there is room for it.
LEMMA OneMoreBatched ==
  ASSUME IInv, NEW c \in Clients, NEW x, AppendToBatch(c, x)
  PROVE  /\ Len(batch[c]) \in Nat
         /\ \/ Len(batch[c]) >= BatchCap /\ batch'[c] = batch[c]
            \/ /\ Len(batch[c]) < BatchCap
               /\ \E e : e.call = x /\ OneLonger(batch[c], batch'[c], e)
  <1> DEFINE B == [call : Call, handle : Nat]
  <1>1. batch[c] \in Seq(B) /\ Len(batch[c]) \in Nat /\ DOMAIN batch[c] = 1 .. Len(batch[c])
    BY LenProperties DEF IInv, TypeOK
  <1>2. CASE ~(Len(batch[c]) < BatchCap)
    <2>1. batch'[c] = batch[c]
      BY <1>2 DEF AppendToBatch, IInv, TypeOK
    <2>2. QED
      BY <1>1, <1>2, <2>1, BatchCapAssumption
  <1>3. CASE Len(batch[c]) < BatchCap
    <2>1. PICK e : e = [call |-> x, handle |-> handle[c][x.bin]]
      OBVIOUS
    <2>2. batch'[c] = Append(batch[c], e) /\ e.call = x
      BY <1>3, <2>1 DEF AppendToBatch, IInv, TypeOK
    <2> HIDE DEF B
    <2>3. batch[c] \in Seq(B \union {e}) /\ e \in B \union {e}
      BY <1>1, SeqMonotonic
    <2>4. PICK f, g : f = batch[c] /\ g = batch'[c]
      OBVIOUS
    <2>5. OneLonger(f, g, e)
      BY <1>1, <2>2, <2>3, <2>4, AppendProperties, LenProperties DEF OneLonger
    <2>6. QED
      BY <1>1, <1>3, <2>2, <2>4, <2>5
  <1>4. QED
    BY <1>2, <1>3

\* What a registration does with its call, whether it is the last one or not.
Entered(u, x) ==
  /\ x = Head(todo[u]) /\ x \in Call /\ x.op \in Registrations
  /\ pc[u] = "idle" /\ stub'[u] = x /\ Elsewhere(u) /\ Enter(u, x)
  /\ todo[u] # <<>> /\ todo' = [todo EXCEPT ![u] = Tail(@)]
  /\ UNCHANGED <<batch_active, inside_fat_binary, missed, executed>>
  /\ \/ /\ batch_active[u[1]] /\ AppendToBatch(u[1], x)
        /\ pc'[u] = "idle" \/ (pc'[u] = "open" /\ cont'[u] = "idle")
     \/ /\ ~batch_active[u[1]] /\ batch' = batch
        /\ pc'[u] \in {"conn", "open"} /\ cont'[u] = "send"

LEMMA RegistersCall ==
  ASSUME IInv, NEW u \in Users, RegisterSymbol(u) \/ RegisterEnd(u)
  PROVE  \E x : Entered(u, x)
  <1>1. PICK x : x = Head(todo[u])
    OBVIOUS
  <1>2. /\ pc[u] = "idle" /\ todo[u] # <<>> /\ Enter(u, x) /\ Elsewhere(u)
        /\ todo' = [todo EXCEPT ![u] = Tail(@)]
        /\ UNCHANGED <<batch_active, inside_fat_binary, missed, executed>>
    BY <1>1, StepElsewhere DEF RegisterSymbol, RegisterEnd, Progress
  <1>3. x \in Call /\ x.op \in Registrations
    BY <1>1, <1>2, NextOfConstructor
  <1>4. stub'[u] = x
    BY <1>2, <1>3, OneCalled DEF IInv
  <1>5. CASE RegisterSymbol(u)
    <2>1. CASE batch_active[u[1]]
      <3>1. AppendToBatch(u[1], x) /\ pc' = pc
        BY <1>1, <1>5, <2>1 DEF RegisterSymbol
      <3>2. QED
        BY <1>1, <1>2, <1>3, <1>4, <2>1, <3>1 DEF Entered
    <2>2. CASE ~batch_active[u[1]]
      <3>1. /\ batch' = batch /\ pc' = [pc EXCEPT ![u] = "conn"]
            /\ cont' = [cont EXCEPT ![u] = "send"]
        BY <1>5, <2>2 DEF RegisterSymbol, Connect, Goto
      <3>2. pc'[u] = "conn" /\ cont'[u] = "send"
        BY <3>1 DEF IInv, TypeOK
      <3>3. QED
        BY <1>1, <1>2, <1>3, <1>4, <2>2, <3>1, <3>2 DEF Entered
    <2>3. QED
      BY <2>1, <2>2
  <1>6. CASE RegisterEnd(u)
    <2>1. /\ cont' = [cont EXCEPT ![u] = IF batch_active[u[1]] THEN "idle" ELSE "send"]
          /\ pc' = [pc EXCEPT ![u] = IF recording[u[1]] THEN "open"
                                     ELSE IF batch_active[u[1]] THEN "idle" ELSE "conn"]
      BY <1>6 DEF RegisterEnd, Goto
    <2>2. /\ cont'[u] = IF batch_active[u[1]] THEN "idle" ELSE "send"
          /\ pc'[u] = IF recording[u[1]] THEN "open"
                      ELSE IF batch_active[u[1]] THEN "idle" ELSE "conn"
      BY <2>1 DEF IInv, TypeOK
    <2>3. IF batch_active[u[1]] THEN AppendToBatch(u[1], x) ELSE batch' = batch
      BY <1>1, <1>6 DEF RegisterEnd
    <2>4. QED
      BY <1>1, <1>2, <1>3, <1>4, <2>2, <2>3 DEF Entered
  <1>7. QED
    BY <1>5, <1>6

LEMMA RegisterBuffer ==
  ASSUME OneThread, IInv, BufferInv, NEW u \in Users, RegisterSymbol(u) \/ RegisterEnd(u)
  PROVE  BufferInv'
  <1>0. PICK c \in Clients : c = u[1]
    BY UserClient
  <1>1. PICK x : Entered(u, x)
    BY RegistersCall
  <1>2. BufferOf(u) /\ EndOfBatching(c) /\ ~inside_fat_binary'[c]
    BY <1>0, <1>1 DEF BufferInv, BufferOf, Entered
  <1>3. CASE batch_active[c]
    <2>1. /\ AppendToBatch(c, x)
          /\ pc'[u] = "idle" \/ Saving(u)'
          /\ pc'[u] \in {"idle", "open"} /\ batch_active'[c] /\ x.op # "launch"
      BY <1>0, <1>1, <1>3 DEF Entered, Saving, Registrations
    <2>2. BufferOf(u)'
      BY <1>0, <1>2, <2>1 DEF BufferOf
    <2>3. ASSUME NEW i \in 1 .. Len(batch'[c]) PROVE batch'[c][i].call.op # "launch"
      <3>1. CASE batch'[c] = batch[c]
        BY <1>2, <2>3, <3>1 DEF EndOfBatching
      <3>2. CASE \E e : e.call = x /\ OneLonger(batch[c], batch'[c], e)
        <4>1. PICK e, f, g : /\ e.call = x /\ f = batch[c] /\ g = batch'[c]
                             /\ OneLonger(f, g, e)
          BY <3>2
        <4>2. PICK n \in Nat : n = Len(f)
          BY <4>1 DEF OneLonger
        <4>3. /\ i \in 1 .. n + 1 /\ \A j \in 1 .. n : g[j] = f[j]
              /\ g[n + 1] = e
          BY <2>3, <4>1, <4>2 DEF OneLonger
        <4>4. CASE i = n + 1
          BY <2>1, <4>1, <4>3, <4>4
        <4>5. CASE i \in 1 .. n
          BY <1>2, <4>1, <4>2, <4>3, <4>5 DEF EndOfBatching
        <4>6. QED
          BY <4>3, <4>4, <4>5
      <3>3. batch'[c] = batch[c] \/ \E e : e.call = x /\ OneLonger(batch[c], batch'[c], e)
        BY <2>1, OneMoreBatched
      <3>4. QED
        BY <3>1, <3>2, <3>3
    <2>4. ~\E i \in DOMAIN executed'[c] : executed'[c][i].call.op = "launch"
      BY <1>1, <1>2, <1>3 DEF EndOfBatching, Entered
    <2>5. QED
      BY <1>0, <1>1, <2>2, <2>3, <2>4, BufferStep DEF Entered
  <1>4. CASE ~batch_active[c]
    <2>1. /\ batch' = batch /\ ~batch_active'[c] /\ executed' = executed
          /\ pc'[u] \in {"conn", "open"} /\ cont'[u] = "send"
      BY <1>0, <1>1, <1>4 DEF Entered
    <2>2. batch[c] = <<>>
      BY <1>0, <1>1, <1>2, <1>4 DEF BufferOf, Flushing, Entered
    <2>3. BufferOf(u)' /\ ~Flushing(u)'
      BY <1>0, <1>2, <2>1, <2>2 DEF BufferOf, Flushing
    <2>4. QED
      BY <1>0, <1>1, <1>2, <2>1, <2>2, <2>3, BufferStep DEF Entered, EndOfBatching
  <1>5. QED
    BY <1>3, <1>4

LEMMA RestartBuffer ==
  ASSUME BufferInv, NEW C \in SUBSET Clients, Started(C)
  PROVE  BufferInv'
  <1>1. \A u \in Users : u[1] \in C => pc'[u] = "idle"
    BY DEF Started
  <1>2. \A u \in Users : u[1] \notin C => /\ pc'[u] = pc[u] /\ cont'[u] = cont[u]
                                          /\ stub'[u] = stub[u]
    BY DEF Started
  <1>3. \A c \in C : /\ batch'[c] = <<>> /\ batch_active'[c] /\ ~inside_fat_binary'[c]
                     /\ executed'[c] = <<>>
    BY DEF Started
  <1>4. \A c \in Clients \ C : /\ batch'[c] = batch[c] /\ executed'[c] = executed[c]
                               /\ batch_active'[c] <=> batch_active[c]
                               /\ inside_fat_binary'[c] <=> inside_fat_binary[c]
    <2>1. ASSUME NEW c \in Clients \ C
          PROVE  /\ batch'[c] = batch[c] /\ executed'[c] = executed[c]
                 /\ batch_active'[c] <=> (c \in C \/ batch_active[c])
                 /\ inside_fat_binary'[c] <=> (c \notin C /\ inside_fat_binary[c])
      BY DEF Started
    <2>2. QED
      BY <2>1
  <1>5. ASSUME NEW u \in Users PROVE BufferOf(u)'
    <2>1. CASE u[1] \in C
      BY <1>1, <1>3, <2>1 DEF BufferOf
    <2>2. CASE u[1] \notin C
      <3>1. u[1] \in Clients \ C /\ BufferOf(u)
        BY <2>2, UserClient DEF BufferInv
      <3>2. QED
        BY <1>2, <1>4, <3>1 DEF BufferOf, Flushing, Saving
    <2>3. QED
      BY <2>1, <2>2
  <1>6. ASSUME NEW c \in Clients PROVE EndOfBatching(c)'
    <2>1. CASE c \in C
      BY <1>3, <2>1 DEF EndOfBatching
    <2>2. CASE c \notin C
      <3>1. EndOfBatching(c) /\ \A u \in Users : u[1] = c => Flushing(u)' = Flushing(u)
        BY <1>2, <2>2 DEF BufferInv, Flushing
      <3>2. QED
        BY <1>4, <2>2, <3>1 DEF EndOfBatching
    <2>3. QED
      BY <2>1, <2>2
  <1>7. QED
    BY <1>5, <1>6 DEF BufferInv

LEMMA InitBuffer == Init => BufferInv
  BY UserClient DEF Init, BufferInv, BufferOf, EndOfBatching

LEMMA NextBuffer ==
  ASSUME OneThread
  PROVE  IInv /\ BufferInv /\ [Next]_vars => BufferInv'
  <1> SUFFICES ASSUME IInv, BufferInv, [Next]_vars PROVE BufferInv'
    OBVIOUS
  <1>1. ASSUME NEW u \in Users, Progress(u) PROVE BufferInv'
    BY <1>1, GetConnectionBuffer, ExecuteBatchBuffer, FlushEndBuffer, DeactivateBuffer,
       QuietBuffer, ReturningBuffer, RegisterBuffer DEF Progress
  <1>2. ASSUME NEW u \in Users, NEW b \in FatBins, Construct(u, b) PROVE BufferInv'
    BY <1>2, ConstructBuffer
  <1>3. ASSUME NEW u \in Users, NEW b \in FatBins, NEW k \in ToSet(Kernels[b]),
               StartLaunch(u, b, k)
        PROVE  BufferInv'
    BY <1>3, StartLaunchBuffer
  <1>4. ASSUME NEW c \in Clients, ClientRestart(c) PROVE BufferInv'
    BY <1>4, RestartBuffer DEF ClientRestart
  <1>5. CASE ServerRestart
    BY <1>5, RestartBuffer DEF ServerRestart
  <1>6. CASE UNCHANGED vars
    BY <1>6 DEF vars, thread, batching, history, BufferInv, BufferOf, EndOfBatching,
       Flushing, Saving
  <1>7. QED
    BY <1>1, <1>2, <1>3, <1>4, <1>5, <1>6 DEF Next

\* In a program with one thread the buffer is empty while batching is off, and
\* whenever a call goes to the server (cuda_batch.cpp:110-196).
THEOREM BufferInvariance ==
  ASSUME OneThread
  PROVE  Spec => []BufferInv
  <1>1. IInv /\ BufferInv /\ [Next]_vars => BufferInv'
    BY NextBuffer
  <1>2. QED
    BY <1>1, InitBuffer, Invariance, PTL DEF Spec

\* Of a program with one thread: after its first launch batching is off for good,
\* and no registration is left in the buffer (cuda_batch.cpp:33-34,
\* cuda_batch.h:31-32).
THEOREM BatchingStops ==
  ASSUME OneThread
  PROVE  Spec => []BatchingEnds
  <1>1. BufferInv => BatchingEnds
    BY DEF BufferInv, EndOfBatching, BatchingEnds
  <1>2. QED
    BY <1>1, BufferInvariance, PTL

-----------------------------------------------------------------------------
(* The calls of a program are executed in the order they were made.        *)

LEMMA CallsTyped ==
  ASSUME IInv, NEW c \in Clients
  PROVE  /\ Len(called[c]) \in Nat /\ Len(executed[c]) \in Nat /\ Len(batch[c]) \in Nat
         /\ called[c] \in Seq(Call)
  BY LenProperties DEF IInv, TypeOK

\* The invariant after a step of thread u, from what the step does itself.
LEMMA OrderStep ==
  ASSUME OneThread, OrderInv, NEW u \in Users, NEW c \in Clients, c = u[1],
         Elsewhere(u), RoomOf(u)', MissOf(u)', OrderOf(u)', PrefixOf(c)'
  PROVE  OrderInv'
  <1>1. ASSUME NEW v \in Users \ {u} PROVE RoomOf(v)' /\ MissOf(v)' /\ OrderOf(v)'
    <2>1. v[1] \in Clients \ {u[1]}
      BY OneUser, UserClient
    <2>2. RoomOf(v) /\ MissOf(v) /\ OrderOf(v)
      BY DEF OrderInv
    <2>3. Flushing(v)' = Flushing(v) /\ Pending(v)' = Pending(v) /\ Buffered(v)' = Buffered(v)
      BY <2>1 DEF Flushing, Pending, Saving, Buffered, Elsewhere, Others
    <2>4. RoomOf(v)' /\ MissOf(v)'
      BY <2>1, <2>2, <2>3 DEF RoomOf, MissOf, Elsewhere, Others
    <2>5. OrderOf(v)'
      BY <2>1, <2>2, <2>3 DEF OrderOf, Elsewhere, Others
    <2>6. QED
      BY <2>4, <2>5
  <1>2. ASSUME NEW d \in Clients \ {c} PROVE PrefixOf(d)'
    BY DEF OrderInv, PrefixOf, Elsewhere
  <1>3. QED
    BY <1>1, <1>2 DEF OrderInv

\* No call is made or executed.
LEMMA SameCalls ==
  ASSUME OrderInv, NEW u \in Users, NEW c \in Clients, c = u[1],
         UNCHANGED <<called, executed>>, stub'[u] = stub[u],
         Buffered(u)' = Buffered(u),
         \A i \in 1 .. Buffered(u) : batch'[c][i] = batch[c][i],
         Pending(u)' <=> Pending(u), pc'[u] # "idle" => pc[u] # "idle"
  PROVE  OrderOf(u)' /\ PrefixOf(c)'
  <1>1. OrderOf(u) /\ PrefixOf(c)
    BY DEF OrderInv
  <1>2. PrefixOf(c)'
    BY <1>1 DEF PrefixOf
  <1>3. OrderOf(u)'
    BY <1>1 DEF OrderOf
  <1>4. QED
    BY <1>2, <1>3

\* A thread in a stub goes on within it, or saved the kernels and returns.
WithinStub(u) ==
  /\ pc[u] \in {"conn", "deactivate", "query", "load", "parse", "open", "write"}
  /\ Elsewhere(u) /\ UNCHANGED <<batch, stub, called, executed, missed, todo>>
  /\ pc'[u] # "flushed"
  /\ \/ pc'[u] \notin {"idle", "open", "write"} /\ ~Saving(u)
     \/ /\ pc[u] \in {"open", "write"} /\ stub[u].op = "end"
        /\ \/ pc'[u] \in {"open", "write"} /\ cont'[u] = cont[u]
           \/ pc'[u] = "idle" /\ cont[u] = "idle"

LEMMA StaysWithinStub ==
  ASSUME IInv, NEW u \in Users,
         GetConnection(u) \/ Deactivate(u) \/ QueryServer(u) \/ LoadMiss(u) \/ Parse(u)
           \/ OpenFile(u) \/ WriteFile(u) \/ CloseFile(u)
  PROVE  WithinStub(u)
  <1>1. /\ pc[u] \in {"conn", "deactivate", "query", "load", "parse", "open", "write"}
        /\ Elsewhere(u) /\ UNCHANGED <<batch, stub, called, executed, missed, todo>>
    BY StepElsewhere DEF GetConnection, Deactivate, QueryServer, LoadMiss, OpenFile,
       WriteFile, CloseFile, Parse, Progress, batching, thread, history
  <1>2. StubOf(u)
    BY <1>1, StubFacts
  <1>3. pc[u] \in {"open", "write"} => stub[u].op = "end"
    BY <1>2 DEF StubOf, PlaceOf, Connecting
  <1>4. /\ pc'[u] # "flushed"
        /\ \/ pc'[u] \notin {"idle", "open", "write"} /\ ~Saving(u)
           \/ /\ pc[u] \in {"open", "write"}
              /\ \/ pc'[u] \in {"open", "write"} /\ cont'[u] = cont[u]
                 \/ pc'[u] = "idle" /\ cont[u] = "idle"
    <2>1. CASE GetConnection(u) \/ Deactivate(u)
      <3>1. /\ pc[u] \in {"conn", "deactivate"}
            /\ \E l \in {"flushSend", cont[u]} : pc' = [pc EXCEPT ![u] = l]
        BY <2>1 DEF GetConnection, Deactivate, Flush, Goto
      <3>2. cont[u] \in Conts /\ cont[u] # "idle"
        BY <1>2, <3>1, StubFacts DEF StubOf, PlaceOf, Connecting
      <3>3. pc'[u] \in {"flushSend", cont[u]}
        BY <3>1 DEF IInv, TypeOK
      <3>4. QED
        BY <3>1, <3>2, <3>3 DEF Conts, Saving
    <2>2. CASE QueryServer(u) \/ LoadMiss(u)
      <3>1. /\ pc[u] \in {"query", "load"}
            /\ \E l \in {"load", "parse"} : pc' = [pc EXCEPT ![u] = l]
        BY <2>2 DEF QueryServer, LoadMiss, Goto
      <3>2. pc'[u] \in {"load", "parse"}
        BY <3>1 DEF IInv, TypeOK
      <3>3. QED
        BY <3>1, <3>2 DEF Saving
    <2>3. CASE Parse(u)
      <3>1. /\ pc[u] = "parse"
            /\ \E l \in {"flushSend", "conn"} : pc' = [pc EXCEPT ![u] = l]
        BY <2>3 DEF Parse, FlushAndContinue, Flush, Goto
      <3>2. pc'[u] \in {"flushSend", "conn"}
        BY <3>1 DEF IInv, TypeOK
      <3>3. QED
        BY <3>1, <3>2 DEF Saving
    <2>4. CASE OpenFile(u) \/ WriteFile(u)
      <3>1. /\ pc[u] \in {"open", "write"} /\ cont' = cont
            /\ pc' = [pc EXCEPT ![u] = "write"] \/ (pc[u] = "write" /\ pc' = pc)
        BY <2>4 DEF OpenFile, WriteFile, Goto, thread
      <3>2. QED
        BY <3>1 DEF IInv, TypeOK
    <2>5. CASE CloseFile(u)
      <3>1. /\ pc[u] \in {"open", "write"} /\ cont[u] \in {"send", "idle"}
            /\ pc' = [pc EXCEPT ![u] = IF cont[u] = "send" THEN "conn" ELSE "idle"]
        BY <1>2, <2>5 DEF CloseFile, Goto, StubOf
      <3>2. pc'[u] = IF cont[u] = "send" THEN "conn" ELSE "idle"
        BY <3>1 DEF IInv, TypeOK
      <3>3. QED
        BY <3>1, <3>2 DEF Saving
    <2>6. QED
      BY <2>1, <2>2, <2>3, <2>4, <2>5
  <1>5. QED
    BY <1>1, <1>3, <1>4 DEF WithinStub

LEMMA QuietOrder ==
  ASSUME OneThread, IInv, BufferInv, OrderInv, NEW u \in Users,
         GetConnection(u) \/ Deactivate(u) \/ QueryServer(u) \/ LoadMiss(u) \/ Parse(u)
           \/ OpenFile(u) \/ WriteFile(u) \/ CloseFile(u)
  PROVE  OrderInv'
  <1>0. PICK c \in Clients : c = u[1]
    BY UserClient
  <1>1. /\ pc[u] \in {"conn", "deactivate", "query", "load", "parse", "open", "write"}
        /\ Elsewhere(u) /\ UNCHANGED <<batch, stub, called, executed, missed, todo>>
    BY StaysWithinStub DEF WithinStub
  <1>2. RoomOf(u) /\ MissOf(u) /\ OrderOf(u) /\ StubOf(u) /\ BufferOf(u)
    BY <1>1, StubFacts DEF OrderInv, BufferInv
  <1>3. missed[c] = {}
    BY <1>0, <1>1, <1>2 DEF MissOf
  <1>4. /\ pc'[u] # "flushed"
        /\ \/ pc'[u] \notin {"idle", "open", "write"} /\ ~Saving(u)
           \/ /\ pc[u] \in {"open", "write"}
              /\ \/ pc'[u] \in {"open", "write"} /\ cont'[u] = cont[u]
                 \/ pc'[u] = "idle" /\ cont[u] = "idle"
    BY StaysWithinStub DEF WithinStub
  <1>5. Buffered(u)' = Buffered(u)
    BY <1>0, <1>1, <1>4 DEF Buffered
  <1>6. Pending(u)' <=> Pending(u)
    BY <1>0, <1>1, <1>3, <1>4 DEF Pending, Saving
  <1>7. OrderOf(u)' /\ PrefixOf(c)'
    BY <1>0, <1>1, <1>5, <1>6, SameCalls
  <1>8. RoomOf(u)'
    BY <1>0, <1>1, <1>2 DEF RoomOf, Flushing
  <1>9. MissOf(u)'
    BY <1>0, <1>1, <1>2, <1>3 DEF MissOf
  <1>10. QED
    BY <1>0, <1>1, <1>7, <1>8, <1>9, OrderStep

LEMMA FlushEndOrder ==
  ASSUME OneThread, IInv, OrderInv, NEW u \in Users, FlushEnd(u)
  PROVE  OrderInv'
  <1>0. PICK c \in Clients : c = u[1]
    BY UserClient
  <1>1. /\ pc[u] = "flushed" /\ Elsewhere(u)
        /\ pc' = [pc EXCEPT ![u] = back[u]]
        /\ batch' = [batch EXCEPT ![c] = <<>>]
        /\ UNCHANGED <<stub, called, executed, missed, todo>>
    BY <1>0, StepElsewhere DEF FlushEnd, Goto, Progress, history
  <1>2. RoomOf(u) /\ MissOf(u)
    BY DEF OrderInv
  <1>3. pc'[u] \in {"conn", "deactivate"} /\ batch'[c] = <<>> /\ Len(batch'[c]) = 0
    BY <1>1 DEF IInv, TypeOK
  <1>4. Buffered(u) = 0 /\ Buffered(u)' = 0
    BY <1>0, <1>1, <1>3 DEF Buffered
  <1>5. Pending(u) /\ Pending(u)'
    BY <1>1, <1>3 DEF Pending, Saving
  <1>6. OrderOf(u)' /\ PrefixOf(c)'
    <2>1. \A i \in 1 .. Buffered(u) : batch'[c][i] = batch[c][i]
      BY <1>4
    <2>2. QED
      BY <1>0, <1>1, <1>4, <1>5, <2>1, SameCalls
  <1>7. RoomOf(u)'
    <2>1. PICK n \in Nat : n = Len(todo[u])
      BY LenProperties DEF IInv, TypeOK
    <2>2. n <= BatchCap /\ 0 + n <= BatchCap /\ Len(todo'[u]) = n
      BY <1>1, <1>2, <2>1 DEF RoomOf
    <2>3. Len(batch'[u[1]]) = 0
      BY <1>0, <1>3
    <2>4. QED
      BY <2>2, <2>3 DEF RoomOf
  <1>8. MissOf(u)'
    BY <1>1, <1>2 DEF MissOf
  <1>9. QED
    BY <1>0, <1>1, <1>6, <1>7, <1>8, OrderStep

\* The batch is executed: what was in the buffer is among the calls executed.
LEMMA ExecuteBatchOrder ==
  ASSUME OneThread, IInv, OrderInv, NEW u \in Users, ExecuteBatch(u)
  PROVE  OrderInv'
  <1>0. PICK c \in Clients : c = u[1]
    BY UserClient
  <1>1. /\ pc[u] = "flushSend" /\ Elsewhere(u)
        /\ pc' = [pc EXCEPT ![u] = "flushed"]
        /\ UNCHANGED <<batch, stub, called, missed, todo>>
    BY StepElsewhere DEF ExecuteBatch, batching, Goto, Progress
  <1>2. RoomOf(u) /\ MissOf(u) /\ OrderOf(u) /\ PrefixOf(c)
    BY DEF OrderInv
  <1>3. pc'[u] = "flushed"
    BY <1>1 DEF IInv, TypeOK
  <1>4. PICK n \in Nat, m \in Nat, k \in Nat :
          n = Len(executed[c]) /\ m = Len(batch[c]) /\ k = Len(called[c])
    BY CallsTyped
  <1>5. /\ Len(executed'[c]) = n + m
        /\ \A i \in 1 .. n : executed'[c][i] = executed[c][i]
        /\ \A i \in 1 .. m : executed'[c][n + i].call = batch[c][i].call
    BY <1>0, <1>4, BatchExecuted
  <1>6. Buffered(u) = m /\ Pending(u) /\ Buffered(u)' = 0 /\ Pending(u)'
    BY <1>0, <1>1, <1>3, <1>4 DEF Buffered, Pending, Saving
  <1>7. k = n + m + 1 /\ \A i \in 1 .. m : batch[c][i].call = called[c][n + i]
    BY <1>0, <1>2, <1>4, <1>6 DEF OrderOf
  <1>8. OrderOf(u)'
    <2>1. Len(called'[c]) = Len(executed'[c]) + Buffered(u)' + 1
      <3>1. k = n + m + 0 + 1
        BY <1>7
      <3>2. QED
        BY <1>1, <1>4, <1>5, <1>6, <3>1
    <2>2. \A i \in 1 .. Buffered(u)' : FALSE
      BY <1>6
    <2>3. pc[u] # "idle" => called[c] # <<>> /\ called[c][Len(called[c])] = stub[u]
      BY <1>0, <1>2 DEF OrderOf
    <2>4. QED
      BY <1>0, <1>1, <1>6, <2>1, <2>2, <2>3 DEF OrderOf
  <1>9. PrefixOf(c)'
    <2>1. n + m <= k
      BY <1>7
    <2>2. ASSUME NEW i \in 1 .. n + m PROVE executed'[c][i].call = called[c][i]
      <3>1. CASE i \in 1 .. n
        BY <1>2, <1>4, <1>5, <3>1 DEF PrefixOf
      <3>2. CASE i \notin 1 .. n
        <4>1. i - n \in 1 .. m /\ i = n + (i - n)
          BY <3>2
        <4>2. PICK j \in 1 .. m : i = n + j
          BY <4>1
        <4>3. QED
          BY <1>5, <1>7, <4>2
      <3>3. QED
        BY <3>1, <3>2
    <2>3. QED
      BY <1>1, <1>4, <1>5, <2>1, <2>2 DEF PrefixOf
  <1>10. RoomOf(u)'
    BY <1>1, <1>2, <1>3 DEF RoomOf, Flushing
  <1>11. MissOf(u)'
    BY <1>1, <1>2, <1>3 DEF MissOf
  <1>12. QED
    BY <1>0, <1>1, <1>8, <1>9, <1>10, <1>11, OrderStep

LEMMA ReturningOrder ==
  ASSUME OneThread, IInv, BufferInv, OrderInv, NEW u \in Users,
         LoadHit(u) \/ RegisterFull(u) \/ ExecuteOne(u) \/ Launch(u)
  PROVE  OrderInv'
  <1>0. PICK c \in Clients : c = u[1]
    BY UserClient
  <1>1. Returned(u, c)
    BY <1>0, ReturnsFromCall
  <1>2. /\ pc[u] \in {"load", "full", "send", "launch"} /\ Elsewhere(u)
        /\ pc' = [pc EXCEPT ![u] = "idle"]
        /\ UNCHANGED <<batch, stub, todo, called>>
    BY <1>1 DEF Returned
  <1>3. pc'[u] = "idle"
    BY <1>2 DEF IInv, TypeOK
  <1>4. RoomOf(u) /\ MissOf(u) /\ OrderOf(u) /\ PrefixOf(c) /\ BufferOf(u) /\ StubOf(u)
    BY <1>2, StubFacts DEF OrderInv, BufferInv
  <1>5. batch[c] = <<>> /\ Len(batch[c]) = 0 /\ missed[c] = {}
    BY <1>0, <1>2, <1>4 DEF BufferOf, MissOf
  <1>6. Buffered(u) = 0 /\ Buffered(u)' = 0 /\ Pending(u)
    BY <1>0, <1>2, <1>3, <1>5 DEF Buffered, Pending, Saving
  <1>7. RoomOf(u)'
    BY <1>2, <1>4 DEF RoomOf, Flushing
  <1>8. MissOf(u)'
    <2>1. missed'[c] # {} => todo[u] = <<>>
      <3>1. CASE missed' = missed
        BY <1>5, <3>1
      <3>2. CASE Launch(u)
        <4>1. pc[u] = "launch"
          BY <3>2 DEF Launch
        <4>2. QED
          BY <1>4, <4>1 DEF MissOf, StubOf, PlaceOf, Connecting
      <3>3. QED
        BY <1>1, <3>1, <3>2 DEF Returned
    <2>2. QED
      BY <1>0, <1>2, <1>3, <2>1 DEF MissOf
  <1>9. CASE executed' = executed /\ missed'[c] # {}
    <2>1. Pending(u)'
      BY <1>0, <1>9 DEF Pending
    <2>2. OrderOf(u)' /\ PrefixOf(c)'
      BY <1>0, <1>2, <1>3, <1>6, <1>9, <2>1, SameCalls
    <2>3. QED
      BY <1>0, <1>2, <1>7, <1>8, <2>2, OrderStep
  <1>10. CASE /\ missed' = missed
              /\ \E x : x.call = stub[u] /\ executed' = [executed EXCEPT ![c] = Append(@, x)]
    <2>1. PICK x, f, g : /\ x.call = stub[u] /\ f = executed[c] /\ g = executed'[c]
                         /\ executed' = [executed EXCEPT ![c] = Append(@, x)]
      BY <1>10
    <2>2. OneLonger(f, g, x)
      BY <2>1, OneMoreExecuted
    <2>3. PICK n \in Nat, k \in Nat : n = Len(f) /\ k = Len(called[c])
      BY <2>1, CallsTyped
    <2>4. /\ Len(g) = n + 1 /\ \A i \in 1 .. n : g[i] = f[i]
          /\ g[n + 1] = x
      BY <2>2, <2>3 DEF OneLonger
    <2>5. k = n + 0 + 1 /\ called[c][k] = stub[u]
      BY <1>0, <1>2, <1>4, <1>6, <2>1, <2>3 DEF OrderOf
    <2>6. ~Pending(u)'
      BY <1>0, <1>3, <1>5, <1>10 DEF Pending
    <2>7. OrderOf(u)'
      <3>1. Len(called'[c]) = Len(executed'[c]) + Buffered(u)' + 0
        <4>1. k = (n + 1) + 0 + 0
          BY <2>5
        <4>2. QED
          BY <1>2, <1>6, <2>1, <2>3, <2>4, <4>1
      <3>2. \A i \in 1 .. Buffered(u)' : FALSE
        BY <1>6
      <3>3. QED
        BY <1>0, <1>3, <1>6, <2>6, <3>1, <3>2 DEF OrderOf
    <2>8. PrefixOf(c)'
      <3>1. n + 1 <= k /\ k = n + 1
        BY <2>5
      <3>2. ASSUME NEW i \in 1 .. n + 1 PROVE g[i].call = called[c][i]
        <4>1. CASE i = n + 1
          BY <2>1, <2>4, <2>5, <3>1, <4>1
        <4>2. CASE i \in 1 .. n
          BY <1>4, <2>1, <2>3, <2>4, <4>2 DEF PrefixOf
        <4>3. QED
          BY <4>1, <4>2
      <3>3. QED
        BY <1>2, <2>1, <2>3, <2>4, <3>1, <3>2 DEF PrefixOf
    <2>9. QED
      BY <1>0, <1>2, <1>7, <1>8, <2>7, <2>8, OrderStep
  <1>11. QED
    BY <1>1, <1>9, <1>10 DEF Returned

\* One more call is made.
LEMMA OneMoreCalled ==
  ASSUME IInv, NEW u \in Users, NEW c \in Clients, c = u[1], NEW x \in Call, Enter(u, x)
  PROVE  OneLonger(called[c], called'[c], x) /\ stub'[u] = x
  <1>1. called[c] \in Seq(Call) /\ called'[c] = Append(called[c], x)
    BY DEF Enter, IInv, TypeOK
  <1>2. stub'[u] = x
    BY DEF Enter, IInv, TypeOK
  <1>3. QED
    BY <1>1, <1>2, AppendProperties, LenProperties DEF OneLonger

\* A call that is made is pending, or a command of it is added to the buffer.
LEMMA EnteredOrder ==
  ASSUME IInv, OrderInv, NEW u \in Users, NEW c \in Clients, c = u[1], NEW x \in Call,
         Enter(u, x), executed' = executed, pc[u] = "idle", missed[c] = {},
         pc'[u] # "flushed",
         \/ batch'[c] = batch[c] /\ Pending(u)'
         \/ ~Pending(u)' /\ \E e : e.call = x /\ OneLonger(batch[c], batch'[c], e)
  PROVE  OrderOf(u)' /\ PrefixOf(c)'
  <1>1. PICK f, g : f = called[c] /\ g = called'[c]
    OBVIOUS
  <1>2. OneLonger(f, g, x) /\ stub'[u] = x
    BY <1>1, OneMoreCalled
  <1>3. PICK n \in Nat, m \in Nat, k \in Nat :
          n = Len(executed[c]) /\ m = Len(batch[c]) /\ k = Len(f)
    BY <1>1, CallsTyped
  <1>4. /\ Len(g) = k + 1 /\ DOMAIN g = 1 .. k + 1
        /\ \A i \in 1 .. k : g[i] = f[i]
        /\ g[k + 1] = x
    BY <1>2, <1>3 DEF OneLonger
  <1>5. OrderOf(u) /\ PrefixOf(c) /\ ~Pending(u) /\ Buffered(u) = m
    BY <1>3 DEF OrderInv, Pending, Buffered
  <1>6. k = n + m + 0 /\ \A i \in 1 .. m : batch[c][i].call = f[n + i]
    BY <1>1, <1>3, <1>5 DEF OrderOf
  <1>7. k = n + m /\ n <= k + 1 /\ \A i \in 1 .. m : n + i \in 1 .. k
    BY <1>6
  <1>8. \A i \in 1 .. m : batch[c][i].call = g[n + i]
    BY <1>4, <1>6, <1>7
  <1>9. PrefixOf(c)'
    <2>1. ASSUME NEW i \in 1 .. n PROVE executed'[c][i].call = g[i]
      <3>1. i \in 1 .. k
        BY <1>7
      <3>2. QED
        BY <1>1, <1>3, <1>4, <1>5, <3>1 DEF PrefixOf
    <2>2. QED
      BY <1>1, <1>3, <1>4, <1>7, <2>1 DEF PrefixOf
  <1>10. called'[c] # <<>> /\ called'[c][Len(called'[c])] = stub'[u]
    <2>1. 1 \in DOMAIN g
      BY <1>4
    <2>2. g # <<>>
      BY <2>1
    <2>3. QED
      BY <1>1, <1>2, <1>4, <2>2
  <1>11. CASE batch'[c] = batch[c] /\ Pending(u)'
    <2>1. Buffered(u)' = m
      BY <1>3, <1>11 DEF Buffered
    <2>2. Len(called'[c]) = Len(executed'[c]) + Buffered(u)' + 1
      BY <1>1, <1>3, <1>4, <1>7, <2>1
    <2>3. \A i \in 1 .. Buffered(u)' : batch'[c][i].call = called'[c][Len(executed'[c]) + i]
      BY <1>1, <1>3, <1>8, <1>11, <2>1
    <2>4. QED
      BY <1>9, <1>10, <1>11, <2>2, <2>3 DEF OrderOf
  <1>12. CASE ~Pending(u)' /\ \E e : e.call = x /\ OneLonger(batch[c], batch'[c], e)
    <2>1. PICK e, p, q : e.call = x /\ p = batch[c] /\ q = batch'[c] /\ OneLonger(p, q, e)
      BY <1>12
    <2>2. /\ Len(q) = m + 1 /\ \A i \in 1 .. m : q[i] = p[i]
          /\ q[m + 1] = e
      BY <1>3, <2>1 DEF OneLonger
    <2>3. Buffered(u)' = m + 1
      BY <2>1, <2>2 DEF Buffered
    <2>4. Len(called'[c]) = Len(executed'[c]) + Buffered(u)' + 0
      <3>1. k + 1 = n + (m + 1) + 0
        BY <1>7
      <3>2. QED
        BY <1>1, <1>3, <1>4, <2>3, <3>1
    <2>5. ASSUME NEW i \in 1 .. m + 1 PROVE q[i].call = g[n + i]
      <3>1. CASE i \in 1 .. m
        BY <1>8, <2>1, <2>2, <3>1
      <3>2. CASE i = m + 1
        <4>1. n + i = k + 1
          BY <1>7, <3>2
        <4>2. QED
          BY <1>4, <2>1, <2>2, <3>2, <4>1
      <3>3. QED
        BY <3>1, <3>2
    <2>6. \A i \in 1 .. Buffered(u)' : batch'[c][i].call = called'[c][Len(executed'[c]) + i]
      BY <1>1, <1>3, <2>1, <2>3, <2>5
    <2>7. QED
      BY <1>9, <1>10, <1>12, <2>4, <2>6 DEF OrderOf
  <1>13. QED
    BY <1>11, <1>12

LEMMA ConstructOrder ==
  ASSUME OneThread, BatchFits, IInv, OrderInv, NEW u \in Users, NEW b \in FatBins,
         Construct(u, b)
  PROVE  OrderInv'
  <1>0. PICK c \in Clients : c = u[1]
    BY UserClient
  <1> DEFINE x == CallOf("fatbin", b, b)
  <1>1. /\ pc[u] = "idle" /\ Elsewhere(u) /\ Enter(u, x) /\ FlushAndContinue(u, "query")
        /\ todo' = [todo EXCEPT ![u] = Constructor(b)] /\ missed[c] = {}
        /\ UNCHANGED <<batch, executed, missed>>
    BY <1>0, StepElsewhere DEF Construct, Calls, Connected
  <1>2. x \in Call /\ x.op = "fatbin"
    BY DEF CallOf, Call
  <1> HIDE DEF x
  <1>3. stub'[u] = x
    BY <1>0, <1>1, <1>2, OneMoreCalled
  <1>4. /\ pc'[u] \in {"flushSend", "conn"} /\ todo'[u] = Constructor(b)
        /\ batch[c] # <<>> => pc'[u] = "flushSend"
    <2>1. /\ pc' = [pc EXCEPT ![u] = IF batch[c] # <<>> THEN "flushSend" ELSE "conn"]
      BY <1>0, <1>1 DEF FlushAndContinue, Flush, Goto
    <2>2. QED
      BY <1>1, <2>1 DEF IInv, TypeOK
  <1>5. OrderOf(u)' /\ PrefixOf(c)'
    <2>1. Pending(u)' /\ batch'[c] = batch[c]
      BY <1>1, <1>4 DEF Pending, Saving
    <2>2. QED
      BY <1>0, <1>1, <1>2, <1>4, <2>1, EnteredOrder
  <1>6. RoomOf(u)'
    <2>1. PICK n \in Nat : n = Len(todo'[u]) /\ n <= BatchCap
      BY <1>4, ConstructorCalls DEF BatchFits
    <2>2. batch[c] = <<>> => Len(batch'[u[1]]) = 0
      BY <1>0, <1>1
    <2>3. 0 + n <= BatchCap
      BY <2>1
    <2>4. QED
      BY <1>0, <1>4, <2>1, <2>2, <2>3 DEF RoomOf, Flushing
  <1>7. MissOf(u)'
    BY <1>0, <1>1, <1>2, <1>3 DEF MissOf
  <1>8. QED
    BY <1>0, <1>1, <1>5, <1>6, <1>7, OrderStep

LEMMA StartLaunchOrder ==
  ASSUME OneThread, IInv, OrderInv, NEW u \in Users, NEW b \in FatBins,
         NEW k \in ToSet(Kernels[b]), StartLaunch(u, b, k)
  PROVE  OrderInv'
  <1>0. PICK c \in Clients : c = u[1]
    BY UserClient
  <1> DEFINE x == CallOf("launch", k, b)
  <1>1. /\ pc[u] = "idle" /\ Elsewhere(u) /\ Enter(u, x)
        /\ pc' = [pc EXCEPT ![u] = "conn"] /\ todo[u] = <<>> /\ missed[c] = {}
        /\ UNCHANGED <<batch, executed, missed, todo>>
    BY <1>0, StepElsewhere DEF StartLaunch, Calls, Connect, Goto, batching, Connected
  <1>2. x \in Call
    BY DEF CallOf, Call, AllKernels
  <1> HIDE DEF x
  <1>3. pc'[u] = "conn"
    BY <1>1 DEF IInv, TypeOK
  <1>4. OrderOf(u)' /\ PrefixOf(c)'
    <2>1. Pending(u)' /\ batch'[c] = batch[c]
      BY <1>1, <1>3 DEF Pending, Saving
    <2>2. QED
      BY <1>0, <1>1, <1>2, <1>3, <2>1, EnteredOrder
  <1>5. RoomOf(u)'
    BY <1>1 DEF OrderInv, RoomOf, Flushing
  <1>6. MissOf(u)'
    BY <1>0, <1>1 DEF MissOf
  <1>7. QED
    BY <1>0, <1>1, <1>4, <1>5, <1>6, OrderStep

LEMMA RegisterOrder ==
  ASSUME OneThread, IInv, OrderInv, NEW u \in Users, RegisterSymbol(u) \/ RegisterEnd(u)
  PROVE  OrderInv'
  <1>0. PICK c \in Clients : c = u[1]
    BY UserClient
  <1>1. PICK x : Entered(u, x)
    BY RegistersCall
  <1>2. /\ x \in Call /\ x.op \in Registrations /\ pc[u] = "idle" /\ stub'[u] = x
        /\ Elsewhere(u) /\ Enter(u, x) /\ todo[u] # <<>>
        /\ UNCHANGED <<missed, executed>> /\ pc'[u] \in {"idle", "conn", "open"}
    BY <1>1 DEF Entered
  <1>3. RoomOf(u) /\ MissOf(u)
    BY DEF OrderInv
  <1>4. missed[c] = {}
    BY <1>0, <1>2, <1>3 DEF MissOf
  <1>5. PICK n \in Nat, m \in Nat : /\ n = Len(todo[u]) /\ m = Len(batch[c])
                                    /\ Len(todo'[u]) = n - 1
    <2>1. todo'[u] = Tail(todo[u])
      BY <1>1 DEF Entered, IInv, TypeOK
    <2>2. Len(todo[u]) \in Nat /\ Len(todo'[u]) = Len(todo[u]) - 1
      BY <1>2, <2>1, NextOfConstructor
    <2>3. QED
      BY <2>2, CallsTyped
  <1>6. n >= 1 /\ n <= BatchCap /\ m + n <= BatchCap
    <2>1. n # 0
      BY <1>2, <1>5, EmptySeq DEF IInv, TypeOK
    <2>2. n <= BatchCap /\ m + n <= BatchCap
      BY <1>0, <1>2, <1>3, <1>5 DEF RoomOf, Flushing
    <2>3. QED
      BY <2>1, <2>2
  <1>7. MissOf(u)'
    BY <1>0, <1>2, <1>4 DEF MissOf, Registrations
  <1>8. CASE batch_active[c]
    <2>1. /\ AppendToBatch(c, x)
          /\ pc'[u] = "idle" \/ (pc'[u] = "open" /\ cont'[u] = "idle")
      BY <1>0, <1>1, <1>8 DEF Entered
    <2>2. m < BatchCap
      BY <1>6, BatchCapAssumption
    <2>3. PICK e, p, q : /\ e.call = x /\ p = batch[c] /\ q = batch'[c]
                         /\ OneLonger(p, q, e)
      <3>1. ~(Len(batch[c]) >= BatchCap)
        BY <1>5, <2>2, BatchCapAssumption
      <3>2. \E e : e.call = x /\ OneLonger(batch[c], batch'[c], e)
        BY <2>1, <3>1, OneMoreBatched
      <3>3. QED
        BY <3>2
    <2>4. Len(batch'[c]) = m + 1
      BY <1>5, <2>3 DEF OneLonger
    <2>5. ~Pending(u)'
      BY <1>0, <1>2, <1>4, <2>1 DEF Pending, Saving
    <2>6. OrderOf(u)' /\ PrefixOf(c)'
      BY <1>0, <1>2, <1>4, <2>3, <2>5, EnteredOrder
    <2>7. RoomOf(u)'
      <3>1. n - 1 <= BatchCap /\ (m + 1) + (n - 1) <= BatchCap
        BY <1>6, BatchCapAssumption
      <3>2. QED
        BY <1>0, <1>5, <2>4, <3>1 DEF RoomOf
    <2>8. QED
      BY <1>0, <1>2, <1>7, <2>6, <2>7, OrderStep
  <1>9. CASE ~batch_active[c]
    <2>1. batch' = batch /\ pc'[u] \in {"conn", "open"} /\ cont'[u] = "send"
      BY <1>0, <1>1, <1>9 DEF Entered
    <2>2. Pending(u)'
      BY <2>1 DEF Pending, Saving
    <2>3. OrderOf(u)' /\ PrefixOf(c)'
      BY <1>0, <1>2, <1>4, <2>1, <2>2, EnteredOrder
    <2>4. RoomOf(u)'
      <3>1. n - 1 <= BatchCap /\ m + (n - 1) <= BatchCap
        BY <1>6, BatchCapAssumption
      <3>2. QED
        BY <1>0, <1>5, <2>1, <3>1 DEF RoomOf
    <2>5. QED
      BY <1>0, <1>2, <1>7, <2>3, <2>4, OrderStep
  <1>10. QED
    BY <1>8, <1>9

LEMMA RestartOrder ==
  ASSUME OrderInv, NEW C \in SUBSET Clients, Started(C)
  PROVE  OrderInv'
  <1>1. \A u \in Users : u[1] \in C => pc'[u] = "idle" /\ todo'[u] = <<>>
    BY DEF Started
  <1>2. \A u \in Users : u[1] \notin C => /\ pc'[u] = pc[u] /\ cont'[u] = cont[u]
                                          /\ stub'[u] = stub[u] /\ todo'[u] = todo[u]
    BY DEF Started
  <1>3. \A c \in C : /\ batch'[c] = <<>> /\ missed'[c] = {}
                     /\ called'[c] = <<>> /\ executed'[c] = <<>>
    BY DEF Started
  <1>4. \A c \in Clients \ C : /\ batch'[c] = batch[c] /\ missed'[c] = missed[c]
                               /\ called'[c] = called[c] /\ executed'[c] = executed[c]
    BY DEF Started
  <1>5. Len(<<>>) = 0
    OBVIOUS
  <1>6. ASSUME NEW u \in Users PROVE RoomOf(u)' /\ MissOf(u)' /\ OrderOf(u)'
    <2>1. CASE u[1] \in C
      <3>1. Buffered(u)' = 0 /\ ~Pending(u)'
        BY <1>1, <1>3, <1>5, <2>1 DEF Buffered, Pending
      <3>2. OrderOf(u)'
        BY <1>1, <1>3, <1>5, <2>1, <3>1 DEF OrderOf
      <3>3. Len(todo'[u]) = 0 /\ Len(batch'[u[1]]) = 0
        BY <1>1, <1>3, <1>5, <2>1
      <3>4. RoomOf(u)'
        BY <3>3, BatchCapAssumption DEF RoomOf
      <3>5. QED
        BY <1>1, <2>1, <3>2, <3>4 DEF MissOf
    <2>2. CASE u[1] \notin C
      <3>1. u[1] \in Clients \ C /\ RoomOf(u) /\ MissOf(u) /\ OrderOf(u)
        BY <2>2, UserClient DEF OrderInv
      <3>2. Flushing(u)' = Flushing(u) /\ Pending(u)' = Pending(u) /\ Buffered(u)' = Buffered(u)
        BY <1>2, <1>4, <3>1 DEF Flushing, Pending, Saving, Buffered
      <3>3. RoomOf(u)' /\ MissOf(u)'
        BY <1>2, <1>4, <3>1, <3>2 DEF RoomOf, MissOf
      <3>4. OrderOf(u)'
        BY <1>2, <1>4, <3>1, <3>2 DEF OrderOf
      <3>5. QED
        BY <3>3, <3>4
    <2>3. QED
      BY <2>1, <2>2
  <1>7. ASSUME NEW c \in Clients PROVE PrefixOf(c)'
    <2>1. CASE c \in C
      BY <1>3, <1>5, <2>1 DEF PrefixOf
    <2>2. CASE c \notin C
      BY <1>4, <2>2 DEF PrefixOf, OrderInv
    <2>3. QED
      BY <2>1, <2>2
  <1>8. QED
    BY <1>6, <1>7 DEF OrderInv

LEMMA InitOrder == Init => OrderInv
  <1> SUFFICES ASSUME Init PROVE OrderInv
    OBVIOUS
  <1>1. \A u \in Users : pc[u] = "idle" /\ todo[u] = <<>> /\ u[1] \in Clients
    BY UserClient DEF Init
  <1>2. \A c \in Clients : /\ batch[c] = <<>> /\ missed[c] = {}
                           /\ called[c] = <<>> /\ executed[c] = <<>>
    BY DEF Init
  <1>3. Len(<<>>) = 0
    OBVIOUS
  <1>4. ASSUME NEW u \in Users PROVE RoomOf(u) /\ MissOf(u) /\ OrderOf(u)
    <2>1. Buffered(u) = 0 /\ ~Pending(u)
      BY <1>1, <1>2, <1>3 DEF Buffered, Pending
    <2>2. OrderOf(u)
      BY <1>1, <1>2, <1>3, <2>1 DEF OrderOf
    <2>3. Len(todo[u]) = 0 /\ Len(batch[u[1]]) = 0
      BY <1>1, <1>2, <1>3
    <2>4. QED
      BY <1>1, <2>2, <2>3, <1>2, BatchCapAssumption DEF RoomOf, MissOf
  <1>5. \A c \in Clients : PrefixOf(c)
    BY <1>2, <1>3 DEF PrefixOf
  <1>6. QED
    BY <1>4, <1>5 DEF OrderInv

LEMMA NextOrder ==
  ASSUME OneThread, BatchFits
  PROVE  IInv /\ BufferInv /\ OrderInv /\ [Next]_vars => OrderInv'
  <1> SUFFICES ASSUME IInv, BufferInv, OrderInv, [Next]_vars PROVE OrderInv'
    OBVIOUS
  <1>1. ASSUME NEW u \in Users, Progress(u) PROVE OrderInv'
    BY <1>1, QuietOrder, FlushEndOrder, ExecuteBatchOrder, ReturningOrder, RegisterOrder
       DEF Progress
  <1>2. ASSUME NEW u \in Users, NEW b \in FatBins, Construct(u, b) PROVE OrderInv'
    BY <1>2, ConstructOrder
  <1>3. ASSUME NEW u \in Users, NEW b \in FatBins, NEW k \in ToSet(Kernels[b]),
               StartLaunch(u, b, k)
        PROVE  OrderInv'
    BY <1>3, StartLaunchOrder
  <1>4. ASSUME NEW c \in Clients, ClientRestart(c) PROVE OrderInv'
    BY <1>4, RestartOrder DEF ClientRestart
  <1>5. CASE ServerRestart
    BY <1>5, RestartOrder DEF ServerRestart
  <1>6. CASE UNCHANGED vars
    BY <1>6 DEF vars, thread, batching, history, OrderInv, RoomOf, MissOf, OrderOf,
       PrefixOf, Flushing, Saving, Pending, Buffered
  <1>7. QED
    BY <1>1, <1>2, <1>3, <1>4, <1>5, <1>6 DEF Next

\* Of a program with one thread and a buffer that holds the calls of a constructor:
\* its calls are those the server executed, those in the buffer and the one in its
\* stub, in this order, and none is lost or executed twice (cuda_batch.cpp:94-196).
THEOREM OrderInvariance ==
  ASSUME OneThread, BatchFits
  PROVE  Spec => []OrderInv
  <1>1. IInv /\ BufferInv /\ OrderInv /\ [Next]_vars => OrderInv'
    BY NextOrder
  <1>2. QED
    BY <1>1, InitOrder, Invariance, BufferInvariance, PTL DEF Spec

-----------------------------------------------------------------------------
(* The refinement of RegistrationService.                                  *)

\* What the service sees of the calls executed, and of a program.
DoneOf(e) == [i \in DOMAIN e |-> IF e[i].with = e[i].call.bin THEN e[i].call ELSE NoCall]
BusyOf(c) == ~Connected(c) \/ \E t \in Threads : pc[<<c, t>>] # "idle"

\* The calls executed are a prefix of the calls made.
LEMMA DoneIsPrefix ==
  ASSUME NEW s \in Seq(Call), NEW e, NEW n \in Nat, DOMAIN e = 1 .. n, n <= Len(s),
         \A i \in 1 .. n : e[i].with = e[i].call.bin /\ e[i].call = s[i]
  PROVE  /\ DoneOf(e) = SubSeq(s, 1, n) /\ Len(DoneOf(e)) = n
         /\ n = Len(s) => DoneOf(e) = s
  <1>1. PICK g : g = DoneOf(e)
    OBVIOUS
  <1>2. PICK k \in Nat : k = Len(s)
    BY LenProperties
  <1>3. \A i \in 1 .. n : i \in 1 .. k /\ s[i] \in Call
    <2>1. \A i \in 1 .. n : i \in 1 .. k
      BY <1>2
    <2>2. QED
      BY <1>2, <2>1, ElementOfSeq
  <1>4. g = [i \in 1 .. n |-> s[i]]
    BY <1>1 DEF DoneOf
  <1>5. g \in [1 .. n -> Call]
    BY <1>3, <1>4
  <1>6. g \in Seq(Call) /\ Len(g) = n
    <2>1. g \in Seq(Call)
      BY <1>5, SeqDef
    <2>2. QED
      BY <1>5, <2>1, LenProperties
  <1>7. PICK p : p = SubSeq(s, 1, n)
    OBVIOUS
  <1>8. p \in Seq(Call) /\ Len(p) = n /\ \A i \in 1 .. n : p[i] = s[i]
    <2>1. \A i \in 1 .. n : s[i] \in Call
      BY <1>3
    <2>2. /\ p \in Seq(Call)
          /\ Len(p) = IF 1 <= n THEN n - 1 + 1 ELSE 0
          /\ \A i \in 1 .. n - 1 + 1 : p[i] = s[1 + i - 1]
      BY <1>7, <2>1, SubSeqProperties
    <2>3. Len(p) = n
      BY <2>2
    <2>4. \A i \in 1 .. n : i \in 1 .. n - 1 + 1 /\ 1 + i - 1 = i
      OBVIOUS
    <2>5. QED
      BY <2>2, <2>3, <2>4
  <1>9. g = p
    BY <1>4, <1>6, <1>8, SeqEqual
  <1>10. n = Len(s) => g = s
    BY <1>4, <1>6, SeqEqual
  <1>11. QED
    BY <1>1, <1>6, <1>7, <1>9, <1>10

\* A program with one thread is busy while the thread is, or for good after a
\* launch in vain.
LEMMA BusyUser ==
  ASSUME OneThread, NEW u \in Users, NEW c \in Clients, c = u[1]
  PROVE  /\ BusyOf(c) <=> (missed[c] # {} \/ pc[u] # "idle")
         /\ BusyOf(c)' <=> (missed'[c] # {} \/ pc'[u] # "idle")
  <1>1. PICK t \in Threads : u = <<c, t>>
    BY DEF Users
  <1>2. \A v \in Threads : <<c, v>> = u
    BY <1>1 DEF OneThread
  <1>3. QED
    BY <1>1, <1>2 DEF BusyOf, Connected

\* What the other programs do stays.
LEMMA OthersBusy ==
  ASSUME NEW u \in Users, Elsewhere(u), NEW d \in Clients \ {u[1]}
  PROVE  BusyOf(d)' = BusyOf(d)
  <1>1. \A t \in Threads : <<d, t>> \in Users \ {u}
    BY DEF Users
  <1>2. \A t \in Threads : pc'[<<d, t>>] = pc[<<d, t>>]
    BY <1>1 DEF Elsewhere, Others
  <1>3. QED
    BY <1>2 DEF BusyOf, Connected, Elsewhere

\* How the variables of the service change when program c is busy or not.
LEMMA BusyChange ==
  ASSUME OneThread, NEW u \in Users, NEW c \in Clients, c = u[1], Elsewhere(u)
  PROVE  /\ (missed'[c] # {} \/ pc'[u] # "idle")
              => [d \in Clients |-> BusyOf(d)'] = [[d \in Clients |-> BusyOf(d)] EXCEPT ![c] = TRUE]
         /\ ~(missed'[c] # {} \/ pc'[u] # "idle")
              => [d \in Clients |-> BusyOf(d)'] = [[d \in Clients |-> BusyOf(d)] EXCEPT ![c] = FALSE]
         /\ (BusyOf(c)' <=> BusyOf(c))
              => [d \in Clients |-> BusyOf(d)'] = [d \in Clients |-> BusyOf(d)]
  <1>1. \A d \in Clients \ {c} : BusyOf(d)' = BusyOf(d)
    BY OthersBusy
  <1>2. BusyOf(c)' <=> (missed'[c] # {} \/ pc'[u] # "idle")
    BY BusyUser
  <1>3. BusyOf(c) \in BOOLEAN /\ BusyOf(c)' \in BOOLEAN
    BY DEF BusyOf
  <1>4. (missed'[c] # {} \/ pc'[u] # "idle") => BusyOf(c)' = TRUE
    BY <1>2, <1>3
  <1>5. ~(missed'[c] # {} \/ pc'[u] # "idle") => BusyOf(c)' = FALSE
    BY <1>2, <1>3
  <1>6. (BusyOf(c)' <=> BusyOf(c)) => BusyOf(c)' = BusyOf(c)
    BY <1>3
  <1>7. QED
    BY <1>1, <1>4, <1>5, <1>6

\* A call of the program is one of the service.
LEMMA CallsService ==
  ASSUME OneThread, IInv, NEW u \in Users, NEW c \in Clients, c = u[1], NEW x \in Call,
         Enter(u, x), Elsewhere(u), UNCHANGED <<executed, missed>>, missed[c] = {},
         pc[u] = "idle", pc'[u] # "idle" \/ x.op \notin {"fatbin", "launch"}
  PROVE  Service!Call(c)
  <1>1. ~BusyOf(c)
    BY BusyUser
  <1>2. PICK f, g : f = called[c] /\ g = called'[c]
    OBVIOUS
  <1>3. OneLonger(f, g, x)
    BY <1>2, OneMoreCalled
  <1>4. PICK k \in Nat : k = Len(f) /\ Len(g) = k + 1 /\ DOMAIN g = 1 .. k + 1 /\ g[k + 1] = x
    BY <1>3 DEF OneLonger
  <1>5. called'[c] # <<>> /\ Service!Last(called'[c]) = x
    <2>1. 1 \in DOMAIN g
      BY <1>4
    <2>2. g # <<>>
      BY <2>1
    <2>3. QED
      BY <1>2, <1>4, <2>2 DEF Service!Last
  <1>6. called' = [called EXCEPT ![c] = Append(@, Service!Last(called'[c]))]
    BY <1>5 DEF Enter
  <1>7. \/ [d \in Clients |-> BusyOf(d)'] = [[d \in Clients |-> BusyOf(d)] EXCEPT ![c] = TRUE]
        \/ /\ x.op \notin {"fatbin", "launch"}
           /\ [d \in Clients |-> BusyOf(d)'] = [d \in Clients |-> BusyOf(d)]
    <2>1. CASE pc'[u] # "idle"
      BY <2>1, BusyChange
    <2>2. CASE pc'[u] = "idle"
      <3>1. BusyOf(c)' <=> BusyOf(c)
        BY <2>2, BusyUser
      <3>2. QED
        BY <2>2, <3>1, BusyChange
    <2>3. QED
      BY <2>1, <2>2
  <1>8. [d \in Clients |-> DoneOf(executed'[d])] = [d \in Clients |-> DoneOf(executed[d])]
    OBVIOUS
  <1>9. QED
    BY <1>1, <1>5, <1>6, <1>7, <1>8 DEF Service!Call, BusyOf, DoneOf

\* A step of a thread in a stub executes calls, none if need be, and may return.
LEMMA ExecutesService ==
  ASSUME OneThread, IInv, OrderInv, IInv', OrderInv', NEW u \in Users,
         NEW c \in Clients, c = u[1], Elsewhere(u), called' = called,
         pc[u] # "idle", missed[c] = {}, Len(executed[c]) <= Len(executed'[c]),
         \/ pc'[u] # "idle" \/ missed'[c] # {}
         \/ stub[u].op \in {"fatbin", "launch"} => Len(executed'[c]) = Len(called[c])
  PROVE  Service!Execute(c)
  <1>1. PICK s, e, f : s = called[c] /\ e = executed[c] /\ f = executed'[c]
    OBVIOUS
  <1>2. PICK n \in Nat, m \in Nat : n = Len(e) /\ m = Len(f)
    BY <1>1, LenProperties DEF IInv, TypeOK
  <1>3. DOMAIN e = 1 .. n /\ DOMAIN f = 1 .. m /\ s \in Seq(Call)
    BY <1>1, <1>2, LenProperties DEF IInv, TypeOK
  <1>4. /\ n <= Len(s) /\ m <= Len(s)
        /\ \A i \in 1 .. n : e[i].with = e[i].call.bin /\ e[i].call = s[i]
        /\ \A i \in 1 .. m : f[i].with = f[i].call.bin /\ f[i].call = s[i]
    BY <1>1, <1>2, <1>3 DEF OrderInv, PrefixOf, IInv, OwnHandle
  <1>5. DoneOf(e) = SubSeq(s, 1, n) /\ Len(DoneOf(e)) = n
    BY <1>3, <1>4, DoneIsPrefix
  <1>6. DoneOf(f) = SubSeq(s, 1, m) /\ (m = Len(s) => DoneOf(f) = s)
    BY <1>3, <1>4, DoneIsPrefix
  <1>7. m \in Len(DoneOf(e)) .. Len(s)
    <2>1. PICK k \in Nat : k = Len(s)
      BY <1>3, LenProperties
    <2>2. m \in n .. k
      BY <1>1, <1>2, <1>4, <2>1
    <2>3. QED
      BY <1>5, <2>1, <2>2
  <1>8. [d \in Clients |-> DoneOf(executed'[d])] =
          [[d \in Clients |-> DoneOf(executed[d])] EXCEPT ![c] = SubSeq(s, 1, m)]
    <2>1. \A d \in Clients \ {c} : DoneOf(executed'[d]) = DoneOf(executed[d])
      BY DEF Elsewhere
    <2>2. DoneOf(executed'[c]) = SubSeq(s, 1, m)
      BY <1>1, <1>2, <1>6
    <2>3. QED
      BY <2>1, <2>2
  <1>9. BusyOf(c) /\ Service!Last(called[c]) = stub[u]
    <2>1. OrderOf(u)
      BY DEF OrderInv
    <2>2. QED
      BY <2>1, BusyUser DEF OrderOf, Service!Last
  <1>10. \/ [d \in Clients |-> BusyOf(d)'] = [d \in Clients |-> BusyOf(d)]
         \/ /\ BusyOf(c)
            /\ Service!Last(called[c]).op \in {"fatbin", "launch"} => DoneOf(executed'[c]) = called[c]
            /\ [d \in Clients |-> BusyOf(d)'] = [[d \in Clients |-> BusyOf(d)] EXCEPT ![c] = FALSE]
    <2>1. CASE pc'[u] # "idle" \/ missed'[c] # {}
      <3>1. BusyOf(c)' <=> BusyOf(c)
        BY <1>9, <2>1, BusyUser
      <3>2. QED
        BY <3>1, BusyChange
    <2>2. CASE ~(pc'[u] # "idle" \/ missed'[c] # {})
      <3>1. [d \in Clients |-> BusyOf(d)'] = [[d \in Clients |-> BusyOf(d)] EXCEPT ![c] = FALSE]
        BY <2>2, BusyChange
      <3>2. stub[u].op \in {"fatbin", "launch"} => m = Len(s)
        BY <1>1, <1>2, <2>2
      <3>3. QED
        BY <1>1, <1>2, <1>6, <1>9, <3>1, <3>2
    <2>3. QED
      BY <2>1, <2>2
  <1>11. \E k \in Len(DoneOf(executed[c])) .. Len(called[c]) :
           [d \in Clients |-> DoneOf(executed'[d])] =
             [[d \in Clients |-> DoneOf(executed[d])] EXCEPT ![c] = SubSeq(called[c], 1, k)]
    BY <1>1, <1>2, <1>7, <1>8
  <1>12. QED
    BY <1>10, <1>11 DEF Service!Execute, BusyOf, DoneOf

LEMMA CallImplements ==
  ASSUME OneThread, IInv, OrderInv, NEW u \in Users,
         Calls(u) \/ RegisterSymbol(u) \/ RegisterEnd(u)
  PROVE  \E c \in Clients : Service!Call(c)
  <1>0. PICK c \in Clients : c = u[1]
    BY UserClient
  <1>1. ASSUME NEW b \in FatBins, Construct(u, b) PROVE Service!Call(c)
    <2> DEFINE x == CallOf("fatbin", b, b)
    <2>1. x \in Call
      BY DEF CallOf, Call
    <2>2. /\ pc[u] = "idle" /\ Elsewhere(u) /\ Enter(u, x) /\ FlushAndContinue(u, "query")
          /\ missed[c] = {} /\ UNCHANGED <<executed, missed>>
      BY <1>0, <1>1, StepElsewhere DEF Construct, Calls, Connected
    <2>3. \E l \in {"flushSend", "conn"} : pc' = [pc EXCEPT ![u] = l]
      BY <2>2 DEF FlushAndContinue, Flush, Goto
    <2>4. pc'[u] # "idle"
      BY <2>3 DEF IInv, TypeOK
    <2> HIDE DEF x
    <2>5. QED
      BY <1>0, <2>1, <2>2, <2>4, CallsService
  <1>2. ASSUME NEW b \in FatBins, NEW k \in ToSet(Kernels[b]), StartLaunch(u, b, k)
        PROVE  Service!Call(c)
    <2> DEFINE x == CallOf("launch", k, b)
    <2>1. x \in Call
      BY DEF CallOf, Call, AllKernels
    <2>2. /\ pc[u] = "idle" /\ Elsewhere(u) /\ Enter(u, x)
          /\ pc' = [pc EXCEPT ![u] = "conn"]
          /\ missed[c] = {} /\ UNCHANGED <<executed, missed>>
      BY <1>0, <1>2, StepElsewhere DEF StartLaunch, Calls, Connected, Connect, Goto
    <2>3. pc'[u] # "idle"
      BY <2>2 DEF IInv, TypeOK
    <2> HIDE DEF x
    <2>4. QED
      BY <1>0, <2>1, <2>2, <2>3, CallsService
  <1>3. CASE RegisterSymbol(u) \/ RegisterEnd(u)
    <2>1. PICK x : Entered(u, x)
      BY <1>3, RegistersCall
    <2>2. /\ x \in Call /\ x.op \notin {"fatbin", "launch"} /\ pc[u] = "idle"
          /\ Elsewhere(u) /\ Enter(u, x) /\ todo[u] # <<>> /\ UNCHANGED <<executed, missed>>
      BY <2>1 DEF Entered, Registrations
    <2>3. missed[c] = {}
      BY <1>0, <2>2 DEF OrderInv, MissOf
    <2>4. QED
      BY <1>0, <2>2, <2>3, CallsService
  <1>4. QED
    BY <1>1, <1>2, <1>3 DEF Calls

LEMMA ProgressImplements ==
  ASSUME OneThread, IInv, BufferInv, OrderInv, IInv', OrderInv', NEW u \in Users,
         Progress(u), ~RegisterSymbol(u), ~RegisterEnd(u)
  PROVE  \E c \in Clients : Service!Execute(c)
  <1>0. PICK c \in Clients : c = u[1]
    BY UserClient
  <1>1. PICK n \in Nat, m \in Nat : n = Len(executed[c]) /\ m = Len(batch[c])
    BY CallsTyped
  <1>2. MissOf(u) /\ OrderOf(u)' /\ BufferOf(u)
    BY DEF OrderInv, BufferInv
  <1>3. CASE LoadHit(u) \/ RegisterFull(u) \/ ExecuteOne(u) \/ Launch(u)
    <2>1. /\ pc[u] \in {"load", "full", "send", "launch"} /\ Elsewhere(u)
          /\ pc' = [pc EXCEPT ![u] = "idle"]
          /\ UNCHANGED <<batch, called>>
          /\ \/ executed' = executed
             \/ \E x : executed' = [executed EXCEPT ![c] = Append(@, x)]
      <3>1. Returned(u, c)
        BY <1>0, <1>3, ReturnsFromCall
      <3>2. QED
        BY <3>1 DEF Returned
    <2>2. pc'[u] = "idle" /\ missed[c] = {} /\ batch[c] = <<>> /\ Len(batch[c]) = 0
      BY <1>0, <1>2, <2>1 DEF MissOf, BufferOf, IInv, TypeOK
    <2>3. Len(executed[c]) <= Len(executed'[c])
      <3>1. CASE executed' = executed
        BY <1>1, <3>1
      <3>2. CASE \E x : executed' = [executed EXCEPT ![c] = Append(@, x)]
        <4>1. PICK x, e, f : /\ e = executed[c] /\ f = executed'[c]
                             /\ executed' = [executed EXCEPT ![c] = Append(@, x)]
          BY <3>2
        <4>2. OneLonger(e, f, x)
          BY <4>1, OneMoreExecuted
        <4>3. Len(f) = n + 1
          BY <1>1, <4>1, <4>2 DEF OneLonger
        <4>4. QED
          BY <1>1, <4>1, <4>3
      <3>3. QED
        BY <2>1, <3>1, <3>2
    <2>4. missed'[c] # {} \/ Len(executed'[c]) = Len(called[c])
      <3>1. ASSUME missed'[c] = {} PROVE Len(executed'[c]) = Len(called[c])
        <4>1. ~Pending(u)' /\ Buffered(u)' = 0
          BY <1>0, <2>1, <2>2, <3>1 DEF Pending, Buffered
        <4>2. Len(called'[c]) = Len(executed'[c]) + 0 + 0
          BY <1>0, <1>2, <4>1 DEF OrderOf
        <4>3. Len(executed'[c]) \in Nat
          BY LenProperties DEF IInv, TypeOK
        <4>4. QED
          BY <2>1, <4>2, <4>3
      <3>2. QED
        BY <3>1
    <2>5. QED
      BY <1>0, <2>1, <2>2, <2>3, <2>4, ExecutesService
  <1>4. CASE ExecuteBatch(u)
    <2>1. /\ pc[u] = "flushSend" /\ Elsewhere(u) /\ called' = called
          /\ pc' = [pc EXCEPT ![u] = "flushed"]
      BY <1>4, StepElsewhere DEF ExecuteBatch, Goto, Progress
    <2>2. pc'[u] = "flushed" /\ missed[c] = {}
      BY <1>0, <1>2, <2>1 DEF MissOf, IInv, TypeOK
    <2>3. Len(executed'[c]) = n + m
      BY <1>0, <1>1, <1>4, BatchExecuted
    <2>4. n <= n + m
      OBVIOUS
    <2>5. Len(executed[c]) <= Len(executed'[c])
      BY <1>1, <2>3, <2>4
    <2>6. QED
      BY <1>0, <2>1, <2>2, <2>5, ExecutesService
  <1>5. CASE FlushEnd(u)
    <2>1. /\ pc[u] = "flushed" /\ Elsewhere(u) /\ UNCHANGED <<called, executed>>
          /\ pc' = [pc EXCEPT ![u] = back[u]]
      BY <1>5, StepElsewhere DEF FlushEnd, Goto, Progress, history
    <2>2. pc'[u] # "idle" /\ missed[c] = {}
      BY <1>0, <1>2, <2>1 DEF MissOf, IInv, TypeOK
    <2>3. Len(executed[c]) <= Len(executed'[c])
      BY <1>1, <2>1
    <2>4. QED
      BY <1>0, <2>1, <2>2, <2>3, ExecutesService
  <1>6. CASE WithinStub(u)
    <2>1. /\ pc[u] # "idle" /\ Elsewhere(u) /\ UNCHANGED <<called, executed>>
          /\ pc'[u] = "idle" => stub[u].op = "end"
      BY <1>6 DEF WithinStub
    <2>2. missed[c] = {} /\ Len(executed[c]) <= Len(executed'[c])
      BY <1>0, <1>1, <1>2, <2>1 DEF MissOf
    <2>3. QED
      BY <1>0, <2>1, <2>2, ExecutesService
  <1>7. QED
    BY <1>3, <1>4, <1>5, <1>6, StaysWithinStub DEF Progress

LEMMA RestartImplements ==
  ASSUME NEW C \in SUBSET Clients, Started(C)
  PROVE  Service!Restart(C)
  <1>1. called' = [c \in Clients |-> IF c \in C THEN <<>> ELSE called[c]]
    BY DEF Started
  <1>2. [c \in Clients |-> DoneOf(executed'[c])] =
          [c \in Clients |-> IF c \in C THEN <<>> ELSE [d \in Clients |-> DoneOf(executed[d])][c]]
    <2>1. \A c \in C : DoneOf(executed'[c]) = <<>>
      <3>1. DoneOf(<<>>) = <<>>
        BY DEF DoneOf
      <3>2. QED
        BY <3>1 DEF Started
    <2>2. \A c \in Clients \ C : executed'[c] = executed[c]
      BY DEF Started
    <2>3. QED
      BY <2>1, <2>2
  <1>3. [c \in Clients |-> BusyOf(c)'] =
          [c \in Clients |-> IF c \in C THEN FALSE ELSE [d \in Clients |-> BusyOf(d)][c]]
    <2>1. ASSUME NEW c \in C PROVE BusyOf(c)' = FALSE
      <3>1. \A t \in Threads : <<c, t>> \in Users /\ <<c, t>>[1] = c
        BY DEF Users
      <3>2. \A t \in Threads : pc'[<<c, t>>] = "idle"
        BY <3>1 DEF Started
      <3>3. missed'[c] = {}
        BY DEF Started
      <3>4. QED
        BY <3>2, <3>3 DEF BusyOf, Connected
    <2>2. ASSUME NEW c \in Clients \ C PROVE BusyOf(c)' = BusyOf(c)
      <3>1. \A t \in Threads : <<c, t>> \in Users /\ <<c, t>>[1] = c
        BY DEF Users
      <3>2. \A t \in Threads : pc'[<<c, t>>] = pc[<<c, t>>]
        BY <3>1 DEF Started
      <3>3. missed'[c] = missed[c]
        BY DEF Started
      <3>4. QED
        BY <3>2, <3>3 DEF BusyOf, Connected
    <2>3. QED
      BY <2>1, <2>2
  <1>4. QED
    BY <1>1, <1>2, <1>3 DEF Service!Restart, BusyOf, DoneOf

\* Every step of the program, and every restart, is a step of the service.
LEMMA StepImplements ==
  ASSUME OneThread, IInv, BufferInv, OrderInv, IInv', OrderInv', [Next]_vars
  PROVE  [Service!Next]_(Service!vars)
  <1>1. ASSUME NEW u \in Users, Calls(u) \/ RegisterSymbol(u) \/ RegisterEnd(u)
        PROVE  Service!Next
    BY <1>1, CallImplements DEF Service!Next
  <1>2. ASSUME NEW u \in Users, Progress(u), ~RegisterSymbol(u), ~RegisterEnd(u)
        PROVE  Service!Next
    BY <1>2, ProgressImplements DEF Service!Next
  <1>3. ASSUME NEW c \in Clients, ClientRestart(c) PROVE Service!Next
    BY <1>3, RestartImplements DEF ClientRestart, Service!Next
  <1>4. CASE ServerRestart
    BY <1>4, RestartImplements DEF ServerRestart, Service!Next
  <1>5. CASE UNCHANGED vars
    BY <1>5 DEF vars, thread, history, Service!vars, Connected
  <1>6. QED
    BY <1>1, <1>2, <1>3, <1>4, <1>5 DEF Next, Calls

\* Of a program with one thread and a buffer that holds the calls of a constructor:
\* the server executes its calls in program order, each once and for the fat binary
\* it names, and a launch, or a call that returns a handle, returns after all calls
\* up to it (cuda_batch.cpp:94-196, manual_client.cpp:657-875).
THEOREM ExecutedInOrder ==
  ASSUME OneThread, BatchFits
  PROVE  Spec => ImplementsService
  <1>1. Init => Service!Init
    <2> SUFFICES ASSUME Init PROVE Service!Init
      OBVIOUS
    <2>1. \A c \in Clients : missed[c] = {} /\ \A t \in Threads : pc[<<c, t>>] = "idle"
      BY DEF Init, Users
    <2>2. \A c \in Clients : DoneOf(executed[c]) = <<>>
      BY DEF Init, DoneOf
    <2>3. \A c \in Clients : BusyOf(c) = FALSE
      BY <2>1 DEF BusyOf, Connected
    <2>4. called = [c \in Clients |-> <<>>]
      BY DEF Init
    <2>5. QED
      BY <2>2, <2>3, <2>4 DEF Service!Init, DoneOf, BusyOf
  <1>2. IInv /\ BufferInv /\ OrderInv /\ IInv' /\ OrderInv' /\ [Next]_vars
          => [Service!Next]_(Service!vars)
    BY StepImplements
  <1>3. QED
    BY <1>1, <1>2, Invariance, BufferInvariance, OrderInvariance, PTL
       DEF Spec, ImplementsService, Service!Spec
=============================================================================
