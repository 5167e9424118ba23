--------------------- MODULE RegistrationKernels_proofs ---------------------
(***************************************************************************)
(* Proofs about the kernels that the clients know: for any clients, any    *)
(* threads and any processes that end, whoever else writes the cache files *)
(* meanwhile and however they are left, a client knows the kernels of a    *)
(* library that is loaded as they are in its PTX; and a launch finds its   *)
(* kernel if kernels have names of their own.  The argument: the dynamic   *)
(* loader runs one constructor at a time, so the kernels from `before` on  *)
(* are those of the fat binary being registered until its file is written, *)
(* and all who write a file write the same at the same place.              *)
(***************************************************************************)
EXTENDS Registration_proofs

\* A thread that runs a constructor; the dynamic loader runs one at a time.
Loading(u) == todo[u] # <<>> \/ (pc[u] # "idle" /\ stub[u].op = "end")
LoaderInv ==
  \A u, v \in Users : u[1] = v[1] /\ Loading(u) /\ Loading(v) => u = v

\* What is left of a constructor ends with its last call.
\* While the first call runs it is the whole constructor, and nothing is recorded.
CodeOf(u) ==
  /\ \A i \in 1 .. Len(todo[u]) : todo[u][i].op = "end" <=> i = Len(todo[u])
  /\ InFatBinary(u) => todo[u] = Constructor(stub[u].bin) /\ ~recording[u[1]]

\* The latest kernels that a client knows are those of b, or there are none of b.
Latest(c, b) ==
  \/ /\ Len(functions[c]) = before[c] + Len(Kernels[b])
     /\ \A i \in 1 .. Len(Kernels[b]) :
          functions[c][before[c] + i].name = NameOf[Kernels[b][i]]
  \/ Len(functions[c]) = before[c] /\ b \in failed

\* What a client knows of a fat binary once it was registered.
Has(c, b) == AsInPTX(c, b) \/ (Known(c, b) = {} /\ b \in failed)

\* What a client knows of the fat binary that a thread registers, parsed or not,
\* and of the one whose file it is going to write.
KernelsOf(u) ==
  LET c == u[1]  b == stub[u].bin
  IN  /\ InFatBinary(u) => IF PlaceOf(u) = "full" THEN Has(c, b) /\ Latest(c, b)
                           ELSE Known(c, b) = {}
      /\ recording[c] => \A i \in 1 .. Len(todo[u]) : Latest(c, todo[u][i].bin)
      /\ pc[u] \in {"open", "write"} => Latest(c, b)

\* A client knows the kernels of the fat binaries it has a handle of.
Registering(c, b) ==
  \E u \in Users : u[1] = c /\ InFatBinary(u) /\ stub[u].bin = b
ListOf(c, b) ==
  ~Registering(c, b) => IF handle[c][b] = 0 THEN Known(c, b) = {} ELSE Has(c, b)

\* After the last call of a constructor none of its calls is left.
Ended(c, b) == \E i \in DOMAIN called[c] : called[c][i] = CallOf("end", b, b)
EndOf(c, b) ==
  Ended(c, b) => /\ handle[c][b] # 0
                 /\ \A u \in Users : u[1] = c =>
                      \A i \in 1 .. Len(todo[u]) : todo[u][i].bin # b

\* Whatever a cache file holds is at its place.
FileOf(b) ==
  /\ \/ file[b].head \in {-1, Len(Kernels[b])}
     \/ file[b].head = 0 /\ b \in failed
  /\ \A i \in DOMAIN file[b].recs : /\ i \in 1 .. Len(Kernels[b])
                                    /\ file[b].recs[i] = NameOf[Kernels[b][i]]

KernelInv ==
  /\ LoaderInv
  /\ \A u \in Users : CodeOf(u) /\ KernelsOf(u)
  /\ \A c \in Clients, b \in FatBins : ListOf(c, b) /\ EndOf(c, b)
  /\ \A b \in FatBins : FileOf(b)

\* Kernels are told apart by their names.
DistinctNames == \A j, k \in AllKernels : NameOf[j] = NameOf[k] => j = k

\* A kernel has its host function, or the constructor has yet to register it.
HostOf(c) ==
  \A i \in DOMAIN functions[c] : \A k \in ToSet(Kernels[functions[c][i].bin]) :
    functions[c][i].name = NameOf[k] =>
      \/ functions[c][i].host = k
      \/ \E u \in Users : /\ u[1] = c
                          /\ \E j \in 1 .. Len(todo[u]) :
                               todo[u][j] = CallOf("function", k, functions[c][i].bin)

\* A kernel that is launched is one of a library that is loaded.
LaunchOf(u) ==
  pc[u] # "idle" /\ stub[u].op = "launch" =>
    Ended(u[1], stub[u].bin) /\ stub[u].of \in ToSet(Kernels[stub[u].bin])

LookupInv ==
  /\ \A c \in Clients : HostOf(c)
  /\ \A u \in Users : LaunchOf(u)
  /\ LaunchFindsKernel

-----------------------------------------------------------------------------
(* The model's sequences.                                                  *)

LEMMA KernelsTyped ==
  ASSUME NEW b \in FatBins
  PROVE  /\ Kernels[b] \in Seq(AllKernels) /\ Len(Kernels[b]) \in Nat
         /\ DOMAIN Kernels[b] = 1 .. Len(Kernels[b])
  BY BinariesAssumption, LenProperties

LEMMA FunctionsTyped ==
  ASSUME IInv, NEW c \in Clients
  PROVE  /\ Len(functions[c]) \in Nat /\ before[c] \in Nat
         /\ DOMAIN functions[c] = 1 .. Len(functions[c])
         /\ \A i \in DOMAIN functions[c] : functions[c][i].bin \in FatBins
  <1> DEFINE F == [name : Names, bin : FatBins, host : AllKernels \union {None}]
  <1>1. functions[c] \in Seq(F) /\ before[c] \in Nat
    BY DEF IInv, TypeOK
  <1>2. DOMAIN functions[c] = 1 .. Len(functions[c]) /\ Len(functions[c]) \in Nat
    BY <1>1, LenProperties
  <1>3. \A i \in 1 .. Len(functions[c]) : functions[c][i] \in F
    BY <1>1, ElementOfSeq
  <1>4. QED
    BY <1>1, <1>2, <1>3

LEMMA TodoTyped ==
  ASSUME IInv, NEW u \in Users
  PROVE  /\ u[1] \in Clients /\ todo[u] \in Seq(Call) /\ Len(todo[u]) \in Nat
         /\ \A i \in 1 .. Len(todo[u]) : todo[u][i] \in Call /\ todo[u][i].bin \in FatBins
  <1>1. u[1] \in Clients /\ todo[u] \in Seq(Call)
    BY UserClient DEF IInv, TypeOK
  <1>2. Len(todo[u]) \in Nat /\ \A i \in 1 .. Len(todo[u]) : todo[u][i] \in Call
    BY <1>1, LenProperties, ElementOfSeq
  <1>3. QED
    BY <1>1, <1>2 DEF Call

\* A constructor registers every kernel of its fat binary, and its end comes last.
LEMMA ConstructorCalls ==
  ASSUME NEW b \in FatBins
  PROVE  /\ Len(Constructor(b)) \in Nat /\ Len(Constructor(b)) > 0
         /\ \A i \in 1 .. Len(Constructor(b)) :
              Constructor(b)[i].op = "end" <=> i = Len(Constructor(b))
         /\ \A k \in ToSet(Kernels[b]) : \E i \in 1 .. Len(Constructor(b)) :
              Constructor(b)[i] = CallOf("function", k, b)
  <1> DEFINE ks == [i \in DOMAIN Kernels[b] |-> CallOf("function", Kernels[b][i], b)]
             vs == [i \in DOMAIN Variables[b] |-> CallOf("var", Variables[b][i], b)]
             e == CallOf("end", b, b)
             S == {x \in Call : x.op # "end"}
             m == Len(Kernels[b])
             n == Len(Variables[b])
  <1>1. Kernels[b] \in Seq(AllKernels) /\ Variables[b] \in Seq(AllVariables)
    BY BinariesAssumption
  <1>2. /\ m \in Nat /\ DOMAIN Kernels[b] = 1 .. m
        /\ n \in Nat /\ DOMAIN Variables[b] = 1 .. n
    BY <1>1, LenProperties
  <1>3. ASSUME NEW i \in 1 .. m
        PROVE  ks[i] \in S /\ ks[i] = CallOf("function", Kernels[b][i], b)
    <2>1. Kernels[b][i] \in AllKernels
      BY <1>1, ElementOfSeq
    <2>2. QED
      BY <1>2, <2>1 DEF CallOf, Call
  <1>4. ASSUME NEW i \in 1 .. n PROVE vs[i] \in S
    <2>1. Variables[b][i] \in AllVariables
      BY <1>1, ElementOfSeq
    <2>2. QED
      BY <1>2, <2>1 DEF CallOf, Call
  <1>5. e \in Call /\ e.op = "end"
    BY DEF CallOf, Call
  <1>6. ks = [i \in 1 .. m |-> ks[i]] /\ vs = [i \in 1 .. n |-> vs[i]]
    BY <1>2
  <1>7. Constructor(b) = (ks \o vs) \o <<e>>
    BY DEF Constructor, Symbols
  <1>8. ToSet(Kernels[b]) = {Kernels[b][i] : i \in 1 .. m}
    BY <1>2 DEF ToSet
  <1> HIDE DEF ks, vs, e, S, m, n
  <1>9. ks \in Seq(S) /\ Len(ks) = m
    <2>1. ks \in [1 .. m -> S]
      BY <1>3, <1>6
    <2>2. ks \in Seq(S)
      BY <1>2, <2>1, SeqDef
    <2>3. DOMAIN ks = 1 .. m
      BY <2>1
    <2>4. QED
      BY <1>2, <2>2, <2>3, LenProperties
  <1>10. vs \in Seq(S)
    <2>1. vs \in [1 .. n -> S]
      BY <1>4, <1>6
    <2>2. QED
      BY <1>2, <2>1, SeqDef
  <1> DEFINE s == ks \o vs
  <1>11. s \in Seq(S) /\ Len(s) \in Nat /\ Len(s) >= m /\ \A i \in 1 .. m : s[i] = ks[i]
    <2>1. s \in Seq(S) /\ Len(s) = Len(ks) + Len(vs)
      BY <1>9, <1>10, ConcatProperties
    <2>2. Len(vs) \in Nat
      BY <1>10, LenProperties
    <2>3. \A i \in 1 .. Len(ks) + Len(vs) : s[i] = IF i <= Len(ks) THEN ks[i] ELSE vs[i - Len(ks)]
      BY <1>9, <1>10, ConcatProperties
    <2>4. QED
      BY <1>2, <1>9, <2>1, <2>2, <2>3
  <1> HIDE DEF s
  <1>12. Constructor(b) = Append(s, e)
    BY <1>5, <1>7, <1>11, AppendIsConcat DEF s
  <1>13. /\ Len(Constructor(b)) = Len(s) + 1
         /\ Constructor(b)[Len(s) + 1] = e
         /\ \A i \in 1 .. Len(s) : Constructor(b)[i] = s[i]
    <2>1. s \in Seq(S \union {e}) /\ e \in S \union {e}
      BY <1>11, SeqMonotonic
    <2>2. QED
      BY <1>12, <2>1, AppendProperties
  <1>14. \A i \in 1 .. Len(s) : s[i].op # "end"
    BY <1>11, ElementOfSeq DEF S
  <1>15. \A i \in 1 .. Len(s) + 1 : Constructor(b)[i].op = "end" <=> i = Len(s) + 1
    BY <1>5, <1>11, <1>13, <1>14
  <1>16. ASSUME NEW k \in ToSet(Kernels[b])
         PROVE  \E i \in 1 .. Len(s) + 1 : Constructor(b)[i] = CallOf("function", k, b)
    <2>1. PICK i \in 1 .. m : k = Kernels[b][i]
      BY <1>8
    <2>2. i \in 1 .. Len(s) /\ i \in 1 .. Len(s) + 1
      BY <1>2, <1>11
    <2>3. Constructor(b)[i] = CallOf("function", k, b)
      BY <1>3, <1>11, <1>13, <2>1, <2>2
    <2>4. QED
      BY <2>2, <2>3
  <1>17. QED
    BY <1>11, <1>13, <1>15, <1>16

-----------------------------------------------------------------------------
(* Steps that leave the kernels as they are.                               *)

\* Nothing that a client knows changes.
LEMMA SameKernels ==
  ASSUME NEW c \in Clients, functions'[c] = functions[c], before'[c] = before[c],
         failed \subseteq failed', NEW b \in FatBins
  PROVE  /\ Known(c, b)' = Known(c, b)
         /\ Has(c, b) => Has(c, b)'
         /\ Latest(c, b) => Latest(c, b)'
  <1>1. Known(c, b)' = Known(c, b)
    BY DEF Known
  <1>2. AsInPTX(c, b) => AsInPTX(c, b)'
    BY <1>1 DEF AsInPTX
  <1>3. QED
    BY <1>1, <1>2 DEF Has, Latest

\* A thread that registers a fat binary or writes a file runs a constructor.
LEMMA LoadingWhile ==
  ASSUME IInv, KernelInv, NEW u \in Users
  PROVE  InFatBinary(u) \/ pc[u] \in {"open", "write"} => Loading(u)
  <1>1. CASE InFatBinary(u)
    <2>1. StubOf(u) /\ pc[u] # "idle" /\ todo[u] = Constructor(stub[u].bin)
      BY <1>1 DEF IInv, StubInv, InFatBinary, KernelInv, CodeOf
    <2>2. stub[u].bin \in FatBins
      BY <2>1 DEF StubOf, Call
    <2>3. Len(todo[u]) > 0
      BY <2>1, <2>2, ConstructorCalls
    <2>4. todo[u] # <<>>
      BY <2>3
    <2>5. QED
      BY <2>4 DEF Loading
  <1>2. CASE pc[u] \in {"open", "write"}
    <2>1. StubOf(u)
      BY DEF IInv, StubInv
    <2>2. QED
      BY <1>2, <2>1 DEF StubOf, PlaceOf, Connecting, Loading
  <1>3. QED
    BY <1>1, <1>2

\* A thread whose client's kernels stay keeps what is known of it.
LEMMA SameThread ==
  ASSUME IInv, KernelInv, NEW v \in Users,
         pc'[v] = pc[v], cont'[v] = cont[v], stub'[v] = stub[v], todo'[v] = todo[v],
         functions'[v[1]] = functions[v[1]], before'[v[1]] = before[v[1]],
         recording'[v[1]] => recording[v[1]], failed \subseteq failed'
  PROVE  CodeOf(v)' /\ KernelsOf(v)'
  <1>1. CodeOf(v) /\ KernelsOf(v) /\ StubOf(v) /\ v[1] \in Clients
    BY UserClient DEF KernelInv, IInv, StubInv
  <1>2. InFatBinary(v)' = InFatBinary(v) /\ PlaceOf(v)' = PlaceOf(v)
    BY DEF InFatBinary, PlaceOf
  <1>3. CodeOf(v)'
    BY <1>1, <1>2 DEF CodeOf
  <1>4. pc[v] # "idle" => stub[v].bin \in FatBins
    BY <1>1 DEF StubOf, Call
  <1>5. \A i \in 1 .. Len(todo[v]) : todo[v][i].bin \in FatBins
    BY TodoTyped
  <1>6. KernelsOf(v)'
    BY <1>1, <1>2, <1>4, <1>5, SameKernels DEF KernelsOf, InFatBinary
  <1>7. QED
    BY <1>3, <1>6

\* The invariant after a step of thread u, from what the step does itself.
LEMMA KernelStep ==
  ASSUME IInv, KernelInv, NEW u \in Users, Others(u),
         \A d \in Clients \ {u[1]} :
           /\ functions'[d] = functions[d] /\ before'[d] = before[d]
           /\ recording'[d] = recording[d] /\ handle'[d] = handle[d]
           /\ called'[d] = called[d],
         ~Loading(u) => /\ functions'[u[1]] = functions[u[1]]
                        /\ before'[u[1]] = before[u[1]]
                        /\ recording'[u[1]] => recording[u[1]],
         failed \subseteq failed',
         Loading(u)' => Loading(u) \/ ~Constructing(u[1]),
         CodeOf(u)', KernelsOf(u)',
         \A b \in FatBins : ListOf(u[1], b)' /\ EndOf(u[1], b)' /\ FileOf(b)'
  PROVE  KernelInv'
  <1>1. ASSUME NEW v \in Users \ {u} PROVE CodeOf(v)' /\ KernelsOf(v)'
    <2>1. /\ pc'[v] = pc[v] /\ cont'[v] = cont[v] /\ stub'[v] = stub[v]
          /\ todo'[v] = todo[v] /\ v[1] \in Clients
      BY UserClient DEF Others
    <2>2. CASE v[1] # u[1]
      BY <2>1, <2>2, SameThread
    <2>3. CASE v[1] = u[1] /\ Loading(v)
      <3>1. ~Loading(u)
        BY <2>3 DEF KernelInv, LoaderInv
      <3>2. QED
        BY <2>1, <2>3, <3>1, SameThread
    <2>4. CASE v[1] = u[1] /\ ~Loading(v)
      <3>1. ~InFatBinary(v) /\ pc[v] \notin {"open", "write"} /\ todo[v] = <<>>
        BY <2>4, LoadingWhile DEF Loading
      <3>2. QED
        BY <2>1, <3>1 DEF CodeOf, KernelsOf, InFatBinary
    <2>5. QED
      BY <2>2, <2>3, <2>4
  <1>2. LoaderInv'
    <2>1. \A v \in Users \ {u} : Loading(v)' = Loading(v)
      BY DEF Loading, Others
    <2>2. ASSUME NEW v \in Users, v[1] = u[1], Loading(v), ~Constructing(u[1])
          PROVE  FALSE
      <3>1. PICK c \in Clients, t \in Threads : v = <<c, t>>
        BY DEF Users
      <3>2. c = u[1]
        BY <2>2, <3>1
      <3>3. QED
        BY <2>2, <3>1, <3>2 DEF Constructing, Loading
    <2>3. QED
      BY <2>1, <2>2 DEF KernelInv, LoaderInv
  <1>3. ASSUME NEW d \in Clients \ {u[1]}, NEW b \in FatBins
        PROVE  ListOf(d, b)' /\ EndOf(d, b)'
    <2>1. \A v \in Users : v[1] = d => /\ pc'[v] = pc[v] /\ stub'[v] = stub[v]
                                       /\ todo'[v] = todo[v]
      BY DEF Others
    <2>2. Registering(d, b)' = Registering(d, b)
      BY <2>1 DEF Registering, InFatBinary
    <2>3. ListOf(d, b) /\ EndOf(d, b)
      BY DEF KernelInv
    <2>4. ListOf(d, b)'
      BY <2>2, <2>3, SameKernels DEF ListOf
    <2>5. EndOf(d, b)'
      BY <2>1, <2>3 DEF EndOf, Ended
    <2>6. QED
      BY <2>4, <2>5
  <1>4. QED
    BY <1>1, <1>2, <1>3, UserClient DEF KernelInv

\* A step of thread u that neither enters a call nor changes the kernels.
LEMMA QuietStep ==
  ASSUME IInv, KernelInv, NEW u \in Users, Others(u), pc[u] # "idle",
         UNCHANGED <<stub, todo, functions, before, handle, called, failed>>,
         recording'[u[1]] => recording[u[1]],
         \A d \in Clients \ {u[1]} : recording'[d] = recording[d],
         \A b \in FatBins : FileOf(b)',
         \/ pc'[u] = "idle" /\ ~InFatBinary(u)
         \/ /\ pc'[u] # "idle"
            /\ PlaceOf(u)' = "full" <=> PlaceOf(u) = "full"
            /\ pc'[u] \in {"open", "write"} => pc[u] \in {"open", "write"}
  PROVE  KernelInv'
  <1>1. CodeOf(u) /\ KernelsOf(u) /\ StubOf(u) /\ u[1] \in Clients
    BY UserClient DEF KernelInv, IInv, StubInv
  <1>2. InFatBinary(u)' = InFatBinary(u)
    BY DEF InFatBinary
  <1>3. stub[u].bin \in FatBins /\ \A i \in 1 .. Len(todo[u]) : todo[u][i].bin \in FatBins
    BY <1>1, TodoTyped DEF StubOf, Call
  <1>4. CodeOf(u)'
    BY <1>1, <1>2 DEF CodeOf
  <1>5. KernelsOf(u)'
    BY <1>1, <1>2, <1>3, SameKernels DEF KernelsOf, InFatBinary
  <1>6. Loading(u)' => Loading(u)
    BY DEF Loading
  <1>7. \A v \in Users : InFatBinary(v)' = InFatBinary(v)
    BY <1>2 DEF InFatBinary, Others
  <1>8. ASSUME NEW b \in FatBins PROVE ListOf(u[1], b)' /\ EndOf(u[1], b)'
    <2>1. ListOf(u[1], b) /\ EndOf(u[1], b)
      BY <1>1 DEF KernelInv
    <2>2. Registering(u[1], b)' = Registering(u[1], b)
      BY <1>7 DEF Registering
    <2>3. ListOf(u[1], b)'
      BY <1>1, <2>1, <2>2, SameKernels DEF ListOf
    <2>4. QED
      BY <2>1, <2>3 DEF EndOf, Ended
  <1>9. QED
    BY <1>4, <1>5, <1>6, <1>8, KernelStep

LEMMA SameFiles ==
  ASSUME KernelInv, UNCHANGED <<file, failed>>, NEW b \in FatBins
  PROVE  FileOf(b)'
  BY DEF KernelInv, FileOf

LEMMA Moved ==
  ASSUME IInv, NEW u \in Users, NEW l, pc' = [pc EXCEPT ![u] = l],
         UNCHANGED <<stub, todo, cont>>
  PROVE  pc'[u] = l /\ Others(u)
  BY DEF IInv, TypeOK, Others

\* A thread that waits for its connection or its flush, and then has it.
LEMMA WaitingKernels ==
  ASSUME IInv, KernelInv, NEW u \in Users,
         GetConnection(u) \/ ExecuteBatch(u) \/ FlushEnd(u) \/ Deactivate(u)
  PROVE  KernelInv'
  <1>1. /\ pc[u] \in Connecting
        /\ UNCHANGED <<stub, todo, cont, functions, before, handle, called, failed,
                       recording, file>>
    BY DEF GetConnection, ExecuteBatch, FlushEnd, Deactivate, Connecting, parsed,
       disk, history, batching
  <1>2. \E l \in Connecting \union {cont[u]} : pc' = [pc EXCEPT ![u] = l]
    <2>1. back[u] \in Connecting
      BY DEF IInv, TypeOK, Connecting
    <2>2. QED
      BY <2>1 DEF GetConnection, ExecuteBatch, FlushEnd, Deactivate, Flush, Goto, Connecting
  <1>3. pc'[u] \in Connecting \union {cont[u]} /\ Others(u)
    BY <1>1, <1>2, Moved
  <1>4. StubOf(u) /\ pc[u] # "idle" /\ PlaceOf(u) = cont[u] /\ cont[u] \in Conts
    BY <1>1 DEF IInv, StubInv, PlaceOf, Connecting, TypeOK
  <1>5. cont[u] # "idle"
    BY <1>4 DEF StubOf
  <1>6. /\ pc'[u] # "idle" /\ PlaceOf(u)' = PlaceOf(u)
        /\ pc'[u] \notin {"open", "write"}
    BY <1>1, <1>3, <1>4, <1>5 DEF PlaceOf, Connecting, Conts
  <1>7. QED
    BY <1>1, <1>3, <1>4, <1>6, SameFiles, QuietStep

\* A registration or a launch is executed, or the launch finds no kernel.
LEMMA ExecutedKernels ==
  ASSUME IInv, KernelInv, NEW u \in Users, ExecuteOne(u) \/ Launch(u)
  PROVE  KernelInv'
  <1>1. /\ pc[u] \in {"send", "launch"}
        /\ pc' = [pc EXCEPT ![u] = "idle"]
        /\ UNCHANGED <<stub, todo, cont, functions, before, handle, called, failed,
                       recording, file>>
    BY DEF ExecuteOne, Launch, Goto, parsed, disk
  <1>2. pc'[u] = "idle" /\ Others(u) /\ pc[u] # "idle"
    BY <1>1, Moved
  <1>3. ~InFatBinary(u)
    BY <1>1 DEF IInv, StubInv, StubOf, PlaceOf, Connecting, InFatBinary
  <1>4. QED
    BY <1>1, <1>2, <1>3, SameFiles, QuietStep

LEMMA LoadMissKernels ==
  ASSUME IInv, KernelInv, NEW u \in Users, LoadMiss(u)
  PROVE  KernelInv'
  <1>1. /\ pc[u] = "load" /\ pc' = [pc EXCEPT ![u] = "parse"]
        /\ UNCHANGED <<stub, todo, cont, functions, before, handle, called, failed,
                       recording, file>>
    BY DEF LoadMiss, Goto, parsed, disk, history
  <1>2. pc'[u] = "parse" /\ Others(u)
    BY <1>1, Moved
  <1>3. PlaceOf(u) # "full" /\ PlaceOf(u)' # "full"
    BY <1>1, <1>2 DEF PlaceOf, Connecting
  <1>4. QED
    BY <1>1, <1>2, <1>3, SameFiles, QuietStep

-----------------------------------------------------------------------------
(* The cache file.                                                         *)

\* A thread that writes a file is in the last call of a constructor.
LEMMA WritingThread ==
  ASSUME IInv, KernelInv, NEW u \in Users, pc[u] \in {"open", "write"}
  PROVE  /\ stub[u].op = "end" /\ stub[u].bin \in FatBins
         /\ PlaceOf(u) # "full" /\ ~InFatBinary(u)
         /\ Latest(u[1], stub[u].bin)
  <1>1. StubOf(u) /\ KernelsOf(u)
    BY DEF IInv, StubInv, KernelInv
  <1>2. QED
    BY <1>1 DEF StubOf, KernelsOf, PlaceOf, Connecting, InFatBinary, Call

LEMMA OpenFileKernels ==
  ASSUME IInv, KernelInv, NEW u \in Users, OpenFile(u)
  PROVE  KernelInv'
  <1>1. /\ pc[u] = "open" /\ pc' = [pc EXCEPT ![u] = "write"]
        /\ file' = [file EXCEPT ![stub[u].bin] = NoFile]
        /\ UNCHANGED <<stub, todo, cont, functions, before, handle, called, failed,
                       recording>>
    BY DEF OpenFile, Goto, parsed, history
  <1>2. pc'[u] = "write" /\ Others(u)
    BY <1>1, Moved
  <1>3. PlaceOf(u) # "full" /\ PlaceOf(u)' # "full"
    BY <1>1, <1>2 DEF PlaceOf, Connecting
  <1>4. ASSUME NEW b \in FatBins PROVE FileOf(b)'
    <2>1. FileOf(b) /\ (file'[b] = file[b] \/ file'[b] = NoFile)
      BY <1>1 DEF KernelInv, IInv, TypeOK
    <2>2. QED
      BY <1>1, <2>1 DEF FileOf, NoFile
  <1>5. QED
    BY <1>1, <1>2, <1>3, <1>4, QuietStep

\* Whoever writes a file writes the number and the names of the PTX.
LEMMA WriteFileKernels ==
  ASSUME IInv, KernelInv, NEW u \in Users, WriteFile(u)
  PROVE  KernelInv'
  <1> DEFINE c == u[1]
             b == stub[u].bin
  <1>1. /\ pc[u] = "write" /\ pc' = pc /\ written[c] <= Count(c)
        /\ UNCHANGED <<stub, todo, cont, functions, before, handle, called, failed,
                       recording>>
    BY DEF WriteFile, thread, parsed, history
  <1>2. /\ b \in FatBins /\ PlaceOf(u) # "full" /\ PlaceOf(u)' # "full"
        /\ Latest(c, b) /\ Others(u)
    BY <1>1, WritingThread DEF PlaceOf, Connecting, Others
  <1>3. /\ c \in Clients /\ written[c] \in Nat /\ before[c] \in Nat
        /\ Len(functions[c]) \in Nat /\ Len(Kernels[b]) \in Nat
    BY <1>2, UserClient, FunctionsTyped, KernelsTyped DEF IInv, TypeOK
  <1>4. /\ Count(c) = Len(Kernels[b]) \/ (Count(c) = 0 /\ b \in failed)
        /\ written[c] # 0 =>
             /\ written[c] \in 1 .. Len(Kernels[b])
             /\ functions[c][before[c] + written[c]].name = NameOf[Kernels[b][written[c]]]
    <2>1. CASE Len(functions[c]) = before[c]
      BY <1>1, <1>2, <1>3, <2>1 DEF Count, Latest
    <2>2. CASE /\ Len(functions[c]) = before[c] + Len(Kernels[b])
               /\ \A i \in 1 .. Len(Kernels[b]) :
                    functions[c][before[c] + i].name = NameOf[Kernels[b][i]]
      <3>1. Count(c) = Len(Kernels[b])
        BY <1>3, <2>2 DEF Count
      <3>2. written[c] # 0 => written[c] \in 1 .. Len(Kernels[b])
        BY <1>1, <1>3, <3>1
      <3>3. QED
        BY <2>2, <3>1, <3>2
    <2>3. QED
      BY <1>2, <2>1, <2>2 DEF Latest
  <1>5. ASSUME NEW x \in FatBins PROVE FileOf(x)'
    <2>1. FileOf(x) /\ DOMAIN file = FatBins /\ DOMAIN file[x] = {"head", "recs"}
      BY DEF KernelInv, IInv, TypeOK
    <2>2. CASE written[c] = 0
      <3>1. file' = [file EXCEPT ![b] = [@ EXCEPT !.head = Count(c)]]
        BY <2>2 DEF WriteFile
      <3>2. /\ x # b => file'[x] = file[x]
            /\ x = b => file'[x].head = Count(c) /\ file'[x].recs = file[x].recs
        BY <2>1, <3>1
      <3>3. QED
        BY <1>1, <1>4, <2>1, <3>2 DEF FileOf
    <2>3. CASE written[c] # 0
      <3> DEFINE g == functions[c][before[c] + written[c]].name
      <3>1. file' = [file EXCEPT ![b] = WithRecord(@, written[c], g)]
        BY <2>3 DEF WriteFile
      <3>2. g = NameOf[Kernels[b][written[c]]]
        BY <1>4, <2>3
      <3> HIDE DEF g
      <3>3. /\ x # b => file'[x] = file[x]
            /\ x = b => /\ file'[x].head = file[x].head
                        /\ file'[x].recs = [j \in DOMAIN file[x].recs \union {written[c]} |->
                              IF j = written[c] THEN g ELSE file[x].recs[j]]
        BY <2>1, <3>1 DEF WithRecord
      <3>4. QED
        BY <1>1, <1>4, <2>1, <2>3, <3>2, <3>3 DEF FileOf
    <2>4. QED
      BY <2>2, <2>3
  <1>6. QED
    BY <1>1, <1>2, <1>5, QuietStep

LEMMA CloseFileKernels ==
  ASSUME IInv, KernelInv, NEW u \in Users, CloseFile(u)
  PROVE  KernelInv'
  <1>1. /\ pc[u] \in {"open", "write"}
        /\ pc' = [pc EXCEPT ![u] = IF cont[u] = "send" THEN "conn" ELSE "idle"]
        /\ recording' = [recording EXCEPT ![u[1]] = FALSE]
        /\ UNCHANGED <<stub, todo, cont, functions, before, handle, called, failed, file>>
    BY DEF CloseFile, Goto, disk, history
  <1>2. pc'[u] = (IF cont[u] = "send" THEN "conn" ELSE "idle") /\ Others(u)
    BY <1>1, Moved
  <1>3. /\ ~recording'[u[1]]
        /\ \A d \in Clients \ {u[1]} : recording'[d] = recording[d]
    BY <1>1, UserClient DEF IInv, TypeOK
  <1>4. /\ PlaceOf(u) # "full" /\ ~InFatBinary(u)
        /\ pc'[u] = "conn" => PlaceOf(u)' = "send"
    BY <1>1, <1>2, WritingThread DEF PlaceOf, Connecting
  <1>5. QED
    BY <1>1, <1>2, <1>3, <1>4, SameFiles, QuietStep

-----------------------------------------------------------------------------
(* __cudaRegisterFatBinary.                                                *)

\* The thread that registers a fat binary, and what is known of that.
LEMMA RegisteringThread ==
  ASSUME IInv, KernelInv, NEW u \in Users, InFatBinary(u)
  PROVE  /\ u[1] \in Clients /\ stub[u].bin \in FatBins /\ ~recording[u[1]] /\ Loading(u)
         /\ \A i \in 1 .. Len(todo[u]) : todo[u][i].bin = stub[u].bin
         /\ \A x \in FatBins : x # stub[u].bin =>
              (Registering(u[1], x) <=>
                 \E v \in Users \ {u} : v[1] = u[1] /\ InFatBinary(v) /\ stub[v].bin = x)
  <1>1. StubOf(u) /\ RestOf(u) /\ CodeOf(u) /\ u[1] \in Clients
    BY UserClient DEF IInv, StubInv, TodoInv, KernelInv
  <1>2. stub[u].bin \in FatBins /\ ~recording[u[1]] /\ Loading(u)
    BY <1>1, LoadingWhile DEF StubOf, InFatBinary, Call, CodeOf
  <1>3. \A i \in 1 .. Len(todo[u]) : todo[u][i].bin = stub[u].bin
    BY <1>1 DEF RestOf
  <1>4. QED
    BY <1>1, <1>2, <1>3 DEF Registering

LEMMA QueryServerKernels ==
  ASSUME IInv, KernelInv, NEW u \in Users, QueryServer(u)
  PROVE  KernelInv'
  <1> DEFINE c == u[1]
             b == stub[u].bin
  <1>1. /\ pc[u] = "query"
        /\ UNCHANGED <<stub, todo, cont, functions, before, called, failed, recording, file>>
        /\ pc' = [pc EXCEPT ![u] = IF serverCache[b] # 0 THEN "load" ELSE "parse"]
        /\ \/ handle' = handle
           \/ serverCache[b] # 0 /\ handle' = [handle EXCEPT ![c][b] = serverCache[b]]
    BY DEF QueryServer, Goto, parsed, disk, history
  <1>2. pc'[u] \in {"load", "parse"} /\ Others(u)
    BY <1>1, Moved
  <1>3. InFatBinary(u) /\ InFatBinary(u)' /\ PlaceOf(u) # "full" /\ PlaceOf(u)' # "full"
    BY <1>1, <1>2 DEF IInv, StubInv, StubOf, PlaceOf, Connecting, InFatBinary
  <1>4. c \in Clients /\ b \in FatBins /\ ~recording[c] /\ Loading(u)
    BY <1>3, RegisteringThread
  <1>5. /\ \A d \in Clients \ {c} : handle'[d] = handle[d]
        /\ \A x \in FatBins : x # b => handle'[c][x] = handle[c][x]
        /\ handle'[c][b] = handle[c][b] \/ handle'[c][b] # 0
    <2>1. CASE handle' = handle
      BY <2>1
    <2>2. CASE serverCache[b] # 0 /\ handle' = [handle EXCEPT ![c][b] = serverCache[b]]
      <3> DEFINE g == serverCache[b]
      <3>1. g # 0 /\ handle' = [handle EXCEPT ![c][b] = g]
        BY <2>2
      <3> HIDE DEF g
      <3>2. QED
        BY <1>4, <3>1 DEF IInv, TypeOK
    <2>3. QED
      BY <1>1, <2>1, <2>2
  <1>6. CodeOf(u)'
    BY <1>1, <1>3, <1>4 DEF KernelInv, CodeOf
  <1>7. KernelsOf(u)'
    <2>1. Known(c, b) = {}
      BY <1>3 DEF KernelInv, KernelsOf
    <2>2. QED
      BY <1>1, <1>2, <1>3, <1>4, <2>1 DEF KernelsOf, Known
  <1>8. \A v \in Users : InFatBinary(v)' = InFatBinary(v)
    BY <1>1, <1>2, <1>3 DEF InFatBinary, Others
  <1>9. ASSUME NEW x \in FatBins PROVE ListOf(c, x)' /\ EndOf(c, x)'
    <2>1. ListOf(c, x) /\ EndOf(c, x)
      BY <1>4 DEF KernelInv
    <2>2. Registering(c, x)' = Registering(c, x)
      BY <1>1, <1>8 DEF Registering
    <2>3. x = b => Registering(c, x)
      BY <1>3 DEF Registering
    <2>4. ListOf(c, x)'
      BY <1>1, <1>4, <1>5, <2>1, <2>2, <2>3, SameKernels DEF ListOf
    <2>5. EndOf(c, x)'
      BY <1>1, <1>5, <2>1 DEF EndOf, Ended
    <2>6. QED
      BY <2>4, <2>5
  <1>10. Loading(u)' => Loading(u)
    BY <1>4
  <1>11. QED
    BY <1>1, <1>2, <1>4, <1>5, <1>6, <1>7, <1>9, <1>10, SameFiles, KernelStep

\* Sequence g is fs, of length m, after f, of length n.
Extended(n, m, f, fs, g) ==
  /\ Len(g) = n + m /\ DOMAIN g = 1 .. n + m
  /\ \A i \in 1 .. m : n + i \in 1 .. n + m /\ g[n + i] = fs[i]
  /\ \A i \in 1 .. n : i \in 1 .. n + m /\ g[i] = f[i]
  /\ \A i \in 1 .. n + m : i \in 1 .. n \/ (i - n \in 1 .. m /\ i = n + (i - n))

LEMMA Extension ==
  ASSUME NEW n \in Nat, NEW m \in Nat, NEW S, NEW f \in Seq(S), NEW fs \in Seq(S), NEW g,
         Len(f) = n, Len(fs) = m, g = f \o fs
  PROVE  Extended(n, m, f, fs, g)
  <1>1. /\ g \in Seq(S) /\ Len(g) = n + m
        /\ \A i \in 1 .. n + m : g[i] = IF i <= n THEN f[i] ELSE fs[i - n]
    BY ConcatProperties
  <1>2. DOMAIN g = 1 .. n + m
    BY <1>1, LenProperties
  <1>3. ASSUME NEW i \in 1 .. m PROVE n + i \in 1 .. n + m /\ g[n + i] = fs[i]
    <2>1. n + i \in 1 .. n + m /\ ~(n + i <= n) /\ (n + i) - n = i
      OBVIOUS
    <2>2. QED
      BY <1>1, <2>1
  <1>4. ASSUME NEW i \in 1 .. n PROVE i \in 1 .. n + m /\ g[i] = f[i]
    <2>1. i \in 1 .. n + m /\ i <= n
      OBVIOUS
    <2>2. QED
      BY <1>1, <2>1
  <1>5. \A i \in 1 .. n + m : i \in 1 .. n \/ (i - n \in 1 .. m /\ i = n + (i - n))
    OBVIOUS
  <1>6. QED
    BY <1>1, <1>2, <1>3, <1>4, <1>5 DEF Extended

\* The kernels of fat binary b, in fs, come after the n that a client knows.
Appended(c, b, n, m, fs) ==
  /\ Len(functions'[c]) = n + m
  /\ \A i \in 1 .. m : functions'[c][n + i] = fs[i]
  /\ Known(c, b)' = n + 1 .. n + m
  /\ \A x \in FatBins : x # b => /\ Known(c, x)' = Known(c, x)
                                 /\ Has(c, x) => Has(c, x)'

LEMMA KernelsAppended ==
  ASSUME IInv, NEW c \in Clients, NEW b \in FatBins, NEW m \in Nat, NEW n \in Nat,
         NEW S, NEW fs \in Seq(S), Len(fs) = m, \A i \in 1 .. m : fs[i].bin = b,
         n = Len(functions[c]), functions'[c] = functions[c] \o fs,
         failed \subseteq failed', Known(c, b) = {}
  PROVE  Appended(c, b, n, m, fs)
  <1>1. PICK f, g : f = functions[c] /\ g = functions'[c]
    OBVIOUS
  <1>2. g = f \o fs /\ Len(f) = n /\ DOMAIN f = 1 .. n
    <2> DEFINE F == [name : Names, bin : FatBins, host : AllKernels \union {None}]
    <2>1. f \in Seq(F)
      BY <1>1 DEF IInv, TypeOK
    <2>2. QED
      BY <1>1, <2>1, LenProperties
  <1>3. /\ Len(g) = n + m /\ DOMAIN g = 1 .. n + m
        /\ \A i \in 1 .. m : n + i \in 1 .. n + m /\ g[n + i] = fs[i]
        /\ \A i \in 1 .. n : i \in 1 .. n + m /\ g[i] = f[i]
        /\ \A i \in 1 .. n + m : i \in 1 .. n \/ (i - n \in 1 .. m /\ i = n + (i - n))
    <2>1. PICK T : f \in Seq(T) /\ fs \in Seq(T)
      <3> DEFINE F == [name : Names, bin : FatBins, host : AllKernels \union {None}]
      <3>1. f \in Seq(F)
        BY <1>1 DEF IInv, TypeOK
      <3> HIDE DEF F
      <3>2. f \in Seq(F \union S) /\ fs \in Seq(F \union S)
        BY <3>1, SeqMonotonic
      <3>3. QED
        BY <3>2
    <2>2. Extended(n, m, f, fs, g)
      BY <1>2, <2>1, Extension
    <2>3. QED
      BY <2>2 DEF Extended
  <1>4. DOMAIN f = 1 .. n
    BY <1>2
  <1>5. \A x : Known(c, x) = {i \in 1 .. n : f[i].bin = x}
    BY <1>1, <1>4 DEF Known
  <1>6. \A x : Known(c, x)' = {i \in 1 .. n + m : g[i].bin = x}
    BY <1>1, <1>3 DEF Known
  <1>7. ASSUME NEW i \in 1 .. n + m, i \notin 1 .. n PROVE g[i].bin = b
    <2>1. i - n \in 1 .. m /\ i = n + (i - n)
      BY <1>7
    <2>2. PICK j \in 1 .. m : i = n + j
      BY <2>1
    <2>3. QED
      BY <1>3, <2>2
  <1>8. Known(c, b)' = n + 1 .. n + m
    <2>1. \A i \in 1 .. n : g[i].bin # b
      <3>1. {i \in 1 .. n : f[i].bin = b} = {}
        BY <1>5
      <3>2. QED
        BY <1>3, <3>1
    <2>2. \A i \in 1 .. n + m : g[i].bin = b <=> i \notin 1 .. n
      BY <1>7, <2>1
    <2>3. {i \in 1 .. n + m : g[i].bin = b} = {i \in 1 .. n + m : i \notin 1 .. n}
      BY <2>2
    <2>4. {i \in 1 .. n + m : i \notin 1 .. n} = n + 1 .. n + m
      OBVIOUS
    <2>5. QED
      BY <1>6, <2>3, <2>4
  <1>9. ASSUME NEW x \in FatBins, x # b
        PROVE  Known(c, x)' = Known(c, x) /\ (Has(c, x) => Has(c, x)')
    <2>1. {i \in 1 .. n + m : g[i].bin = x} = {i \in 1 .. n : f[i].bin = x}
      <3>1. \A i \in 1 .. n + m : g[i].bin = x => i \in 1 .. n
        BY <1>7, <1>9
      <3>2. QED
        BY <1>3, <3>1
    <2>2. Known(c, x)' = Known(c, x)
      BY <1>5, <1>6, <2>1
    <2>3. ASSUME AsInPTX(c, x) PROVE AsInPTX(c, x)'
      <3>1. PICK k \in 0 .. n : /\ Known(c, x) = k + 1 .. k + Len(Kernels[x])
                                /\ \A i \in DOMAIN Kernels[x] :
                                     f[k + i].name = NameOf[Kernels[x][i]]
        BY <1>1, <2>3 DEF AsInPTX
      <3>2. k \in 0 .. Len(functions'[c])
        BY <1>1, <1>3
      <3>3. ASSUME NEW i \in DOMAIN Kernels[x] PROVE g[k + i] = f[k + i]
        <4>1. i \in 1 .. Len(Kernels[x]) /\ Len(Kernels[x]) \in Nat
          BY KernelsTyped
        <4>2. k + i \in Known(c, x)
          BY <3>1, <4>1
        <4>3. QED
          BY <1>3, <1>5, <4>2
      <3>4. QED
        BY <1>1, <2>2, <3>1, <3>2, <3>3 DEF AsInPTX
    <2>4. QED
      BY <2>2, <2>3 DEF Has
  <1>10. QED
    BY <1>1, <1>3, <1>8, <1>9 DEF Appended

\* The names of the kernels that were appended are those of the PTX.
LEMMA AppendedAsInPTX ==
  ASSUME NEW c \in Clients, NEW b \in FatBins, NEW n \in Nat, NEW m \in Nat, NEW fs,
         Appended(c, b, n, m, fs), m = Len(Kernels[b]),
         \A i \in 1 .. m : fs[i].name = NameOf[Kernels[b][i]]
  PROVE  /\ AsInPTX(c, b)'
         /\ before'[c] = n => Latest(c, b)'
  <1>1. DOMAIN Kernels[b] = 1 .. Len(Kernels[b])
    BY KernelsTyped
  <1>2. n \in 0 .. Len(functions'[c])
    BY DEF Appended
  <1>3. AsInPTX(c, b)'
    <2>1. /\ Known(c, b)' = n + 1 .. n + Len(Kernels[b])
          /\ \A i \in DOMAIN Kernels[b] : functions'[c][n + i].name = NameOf[Kernels[b][i]]
      BY <1>1 DEF Appended
    <2>2. QED
      BY <1>2, <2>1 DEF AsInPTX
  <1>4. before'[c] = n => Latest(c, b)'
    BY DEF Latest, Appended
  <1>5. QED
    BY <1>3, <1>4

\* A fat binary's kernels come from its file.
LEMMA LoadHitKernels ==
  ASSUME IInv, KernelInv, NEW u \in Users, LoadHit(u)
  PROVE  KernelInv'
  <1> DEFINE c == u[1]
  <1>0. pc[u] = "load" /\ InFatBinary(u) /\ PlaceOf(u) # "full"
    BY DEF LoadHit, IInv, StubInv, StubOf, PlaceOf, Connecting, InFatBinary
  <1>b. PICK b \in FatBins : b = stub[u].bin
    BY <1>0, RegisteringThread
  <1> DEFINE m == file[b].head
             fs == [i \in 1 .. m |-> Function(file[b].recs[i], b)]
  <1>1. /\ pc[u] = "load" /\ Complete(file[b])
        /\ UNCHANGED <<stub, todo, cont, handle, before, called, failed, recording, file>>
        /\ pc' = [pc EXCEPT ![u] = "idle"]
        /\ functions' = [functions EXCEPT ![c] = @ \o fs]
    BY <1>0, <1>b DEF LoadHit, Goto, disk
  <1>2. pc'[u] = "idle" /\ Others(u) /\ ~InFatBinary(u)'
    BY <1>1, Moved DEF InFatBinary
  <1>3. Denotes(handle[c][b], b)
    BY <1>0, <1>b DEF IInv, StubInv, StubOf
  <1>4. c \in Clients /\ b \in FatBins /\ ~recording[c] /\ Loading(u)
    BY <1>0, RegisteringThread
  <1>5. Known(c, b) = {}
    BY <1>0, <1>b DEF KernelInv, KernelsOf
  <1>6. handle[c][b] # 0
    <2>1. DOMAIN handles = 1 .. Len(handles)
      BY LenProperties DEF IInv, TypeOK
    <2>2. QED
      BY <1>3, <2>1 DEF Denotes
  <1>7. /\ m \in Nat /\ Len(Kernels[b]) \in Nat /\ Len(functions[c]) \in Nat
        /\ \/ m = Len(Kernels[b])
           \/ m = 0 /\ b \in failed
        /\ \A i \in 1 .. m : file[b].recs[i] = NameOf[Kernels[b][i]]
    <2>1. FileOf(b) /\ file[b].head \in Int
      BY <1>4 DEF KernelInv, IInv, TypeOK
    <2>2. QED
      BY <1>1, <1>4, <2>1, KernelsTyped, FunctionsTyped DEF FileOf, Complete
  <1>8. /\ fs \in Seq(Range(fs)) /\ Len(fs) = m
        /\ \A i \in 1 .. m : fs[i].bin = b /\ fs[i].name = NameOf[Kernels[b][i]]
    <2>1. fs \in [1 .. m -> Range(fs)] /\ DOMAIN fs = 1 .. m
      BY DEF Range
    <2>2. fs \in Seq(Range(fs))
      BY <1>7, <2>1, SeqDef
    <2>3. QED
      BY <1>7, <2>1, <2>2, LenProperties DEF Function
  <1> HIDE DEF fs, m
  <1>9. PICK n \in Nat, k \in Nat : n = Len(functions[c]) /\ k = m
    BY <1>7
  <1>10. PICK g : g = fs
    OBVIOUS
  <1>11. /\ g \in Seq(Range(fs)) /\ Len(g) = k /\ \A i \in 1 .. k : g[i].bin = b
         /\ functions'[c] = functions[c] \o g /\ failed \subseteq failed'
         /\ \A d \in Clients \ {c} : functions'[d] = functions[d]
    BY <1>1, <1>4, <1>8, <1>9, <1>10 DEF IInv, TypeOK
  <1>12. Appended(c, b, n, k, g)
    BY <1>4, <1>5, <1>9, <1>11, KernelsAppended
  <1>13. Has(c, b)'
    <2>1. CASE k = Len(Kernels[b])
      <3>1. \A i \in 1 .. k : g[i].name = NameOf[Kernels[b][i]]
        BY <1>8, <1>9, <1>10
      <3>2. QED
        BY <1>4, <1>12, <2>1, <3>1, AppendedAsInPTX DEF Has
    <2>2. CASE k = 0 /\ b \in failed
      BY <1>1, <1>12, <2>2 DEF Has, Appended
    <2>3. QED
      BY <1>7, <1>9, <2>1, <2>2
  <1>14. CodeOf(u)'
    BY <1>1, <1>2 DEF KernelInv, CodeOf
  <1>15. KernelsOf(u)'
    BY <1>1, <1>2, <1>4 DEF KernelsOf
  <1>16. ASSUME NEW x \in FatBins PROVE ListOf(c, x)' /\ EndOf(c, x)'
    <2>1. ListOf(c, x) /\ EndOf(c, x)
      BY <1>4 DEF KernelInv
    <2>2. x # b => Registering(c, x)' = Registering(c, x)
      BY <1>1, <1>2, <1>b DEF Registering, InFatBinary, Others
    <2>3. ListOf(c, x)'
      BY <1>1, <1>6, <1>12, <1>13, <2>1, <2>2 DEF ListOf, Appended
    <2>4. EndOf(c, x)'
      BY <1>1, <2>1 DEF EndOf, Ended
    <2>5. QED
      BY <2>3, <2>4
  <1>17. QED
    BY <1>1, <1>2, <1>4, <1>11, <1>14, <1>15, <1>16, SameFiles, KernelStep

\* A fat binary's kernels come from its PTX, or are not known.
LEMMA ParseKernels ==
  ASSUME IInv, KernelInv, NEW u \in Users, Parse(u)
  PROVE  KernelInv'
  <1> DEFINE c == u[1]
  <1>0. pc[u] = "parse" /\ InFatBinary(u) /\ PlaceOf(u) # "full"
    BY DEF Parse, IInv, StubInv, StubOf, PlaceOf, Connecting, InFatBinary
  <1>b. PICK b \in FatBins : b = stub[u].bin
    BY <1>0, RegisteringThread
  <1> DEFINE m == Len(Kernels[b])
             fs == [i \in DOMAIN Kernels[b] |-> Function(NameOf[Kernels[b][i]], b)]
  <1>1. /\ pc[u] = "parse"
        /\ UNCHANGED <<stub, todo, handle, called, recording, file>>
        /\ before' = [before EXCEPT ![c] = Len(functions[c])]
        /\ cont' = [cont EXCEPT ![u] = "full"]
        /\ \/ functions' = [functions EXCEPT ![c] = @ \o fs] /\ failed' = failed
           \/ failed' = failed \union {b} /\ functions' = functions
    BY <1>0, <1>b DEF Parse, FlushAndContinue, Mark, disk
  <1>2. \E l \in {"flushSend", "conn"} : pc' = [pc EXCEPT ![u] = l]
    BY DEF Parse, FlushAndContinue, Flush, Goto
  <1>3. /\ pc'[u] \in {"flushSend", "conn"} /\ cont'[u] = "full" /\ Others(u)
    BY <1>1, <1>2 DEF IInv, TypeOK, Others
  <1>4. InFatBinary(u)' /\ PlaceOf(u)' = "full"
    BY <1>0, <1>1, <1>3 DEF PlaceOf, Connecting, InFatBinary
  <1>5. c \in Clients /\ b \in FatBins /\ ~recording[c] /\ Loading(u)
    BY <1>0, RegisteringThread
  <1>6. Known(c, b) = {}
    BY <1>0, <1>b DEF KernelInv, KernelsOf
  <1>7. m \in Nat /\ DOMAIN Kernels[b] = 1 .. m /\ Len(functions[c]) \in Nat
    BY <1>5, KernelsTyped, FunctionsTyped
  <1>8. /\ fs \in Seq(Range(fs)) /\ Len(fs) = m
        /\ \A i \in 1 .. m : fs[i].bin = b /\ fs[i].name = NameOf[Kernels[b][i]]
    <2>1. fs \in [1 .. m -> Range(fs)] /\ DOMAIN fs = 1 .. m
      BY <1>7 DEF Range
    <2>2. fs \in Seq(Range(fs))
      BY <1>7, <2>1, SeqDef
    <2>3. QED
      BY <1>7, <2>1, <2>2, LenProperties DEF Function
  <1>9. /\ before'[c] = Len(functions[c])
        /\ \A d \in Clients \ {c} : before'[d] = before[d]
    BY <1>1, <1>5 DEF IInv, TypeOK
  <1> HIDE DEF fs
  <1>10. /\ Has(c, b)' /\ Latest(c, b)'
         /\ \A x \in FatBins : x # b => /\ Known(c, x)' = Known(c, x)
                                        /\ Has(c, x) => Has(c, x)'
         /\ \A d \in Clients \ {c} : functions'[d] = functions[d]
         /\ failed \subseteq failed'
    <2>1. CASE functions' = [functions EXCEPT ![c] = @ \o fs] /\ failed' = failed
      <3>1. PICK n \in Nat, k \in Nat : n = Len(functions[c]) /\ k = m
        BY <1>7
      <3>2. PICK g : g = fs
        OBVIOUS
      <3>3. /\ g \in Seq(Range(fs)) /\ Len(g) = k /\ \A i \in 1 .. k : g[i].bin = b
            /\ functions'[c] = functions[c] \o g /\ failed \subseteq failed'
            /\ \A d \in Clients \ {c} : functions'[d] = functions[d]
        BY <1>5, <1>8, <2>1, <3>1, <3>2 DEF IInv, TypeOK
      <3>4. Appended(c, b, n, k, g)
        BY <1>5, <1>6, <3>1, <3>3, KernelsAppended
      <3>5. \A i \in 1 .. k : g[i].name = NameOf[Kernels[b][i]]
        BY <1>8, <3>1, <3>2
      <3>6. AsInPTX(c, b)' /\ Latest(c, b)'
        BY <1>5, <1>9, <3>1, <3>4, <3>5, AppendedAsInPTX
      <3>7. QED
        BY <3>3, <3>4, <3>6 DEF Has, Appended
    <2>2. CASE failed' = failed \union {b} /\ functions' = functions
      <3>1. \A x \in FatBins : Known(c, x)' = Known(c, x)
        BY <2>2 DEF Known
      <3>2. \A x \in FatBins : Has(c, x) => Has(c, x)'
        BY <2>2, <3>1 DEF Has, AsInPTX
      <3>3. Has(c, b)' /\ Latest(c, b)'
        BY <1>5, <1>6, <1>9, <2>2, <3>1 DEF Has, Latest
      <3>4. QED
        BY <2>2, <3>1, <3>2, <3>3
    <2>3. QED
      BY <1>1, <2>1, <2>2
  <1>11. CodeOf(u)'
    BY <1>0, <1>1, <1>4, <1>5 DEF KernelInv, CodeOf
  <1>12. KernelsOf(u)'
    BY <1>1, <1>b, <1>3, <1>4, <1>5, <1>10 DEF KernelsOf
  <1>13. ASSUME NEW x \in FatBins PROVE ListOf(c, x)' /\ EndOf(c, x)'
    <2>1. ListOf(c, x) /\ EndOf(c, x)
      BY <1>5 DEF KernelInv
    <2>2. Registering(c, x)' = Registering(c, x) /\ (x = b => Registering(c, x))
      BY <1>0, <1>1, <1>b, <1>3, <1>4 DEF Registering, InFatBinary, Others
    <2>3. ListOf(c, x)'
      BY <1>1, <1>10, <2>1, <2>2 DEF ListOf
    <2>4. EndOf(c, x)'
      BY <1>1, <2>1 DEF EndOf, Ended
    <2>5. QED
      BY <2>3, <2>4
  <1>14. ASSUME NEW x \in FatBins PROVE FileOf(x)'
    BY <1>1, <1>10 DEF KernelInv, FileOf
  <1>15. QED
    BY <1>1, <1>3, <1>5, <1>9, <1>10, <1>11, <1>12, <1>13, <1>14, KernelStep

\* The server has taken the fat binary, and its kernels are to be saved.
LEMMA RegisterFullKernels ==
  ASSUME IInv, KernelInv, NEW u \in Users, RegisterFull(u)
  PROVE  KernelInv'
  <1> DEFINE c == u[1]
             b == stub[u].bin
             h == Len(handles) + 1
  <1>1. /\ pc[u] = "full"
        /\ UNCHANGED <<stub, todo, cont, functions, before, called, failed, file>>
        /\ pc' = [pc EXCEPT ![u] = "idle"]
        /\ handle' = [handle EXCEPT ![c][b] = h]
        /\ recording' = [recording EXCEPT ![c] = TRUE]
    BY DEF RegisterFull, Goto, disk
  <1>2. pc'[u] = "idle" /\ Others(u) /\ ~InFatBinary(u)'
    BY <1>1, Moved DEF InFatBinary
  <1>3. InFatBinary(u) /\ PlaceOf(u) = "full"
    BY <1>1 DEF IInv, StubInv, StubOf, PlaceOf, Connecting, InFatBinary
  <1>4. /\ c \in Clients /\ b \in FatBins /\ Loading(u)
        /\ \A i \in 1 .. Len(todo[u]) : todo[u][i].bin = b
    BY <1>3, RegisteringThread
  <1>5. Has(c, b) /\ Latest(c, b)
    BY <1>3 DEF KernelInv, KernelsOf
  <1>6. h # 0
    BY LenProperties DEF IInv, TypeOK
  <1> HIDE DEF h
  <1>7. /\ \A d \in Clients \ {c} : handle'[d] = handle[d] /\ recording'[d] = recording[d]
        /\ \A x \in FatBins : x # b => handle'[c][x] = handle[c][x]
        /\ handle'[c][b] = h
    BY <1>1, <1>4 DEF IInv, TypeOK
  <1>8. \A x \in FatBins : /\ Known(c, x)' = Known(c, x)
                           /\ Has(c, x) => Has(c, x)'
                           /\ Latest(c, x) => Latest(c, x)'
    BY <1>1, <1>4, SameKernels
  <1>9. CodeOf(u)'
    BY <1>1, <1>2 DEF KernelInv, CodeOf
  <1>10. KernelsOf(u)'
    BY <1>1, <1>2, <1>4, <1>5, <1>8 DEF KernelsOf
  <1>11. ASSUME NEW x \in FatBins PROVE ListOf(c, x)' /\ EndOf(c, x)'
    <2>1. ListOf(c, x) /\ EndOf(c, x)
      BY <1>4 DEF KernelInv
    <2>2. x # b => Registering(c, x)' = Registering(c, x)
      BY <1>1, <1>2 DEF Registering, InFatBinary, Others
    <2>3. ListOf(c, x)'
      BY <1>5, <1>6, <1>7, <1>8, <2>1, <2>2 DEF ListOf
    <2>4. EndOf(c, x)'
      BY <1>1, <1>6, <1>7, <2>1 DEF EndOf, Ended
    <2>5. QED
      BY <2>3, <2>4
  <1>12. QED
    BY <1>1, <1>2, <1>4, <1>7, <1>9, <1>10, <1>11, SameFiles, KernelStep

-----------------------------------------------------------------------------
(* The calls of the program.                                               *)

\* A call that is not the end of a constructor.
LEMMA NotEnded ==
  ASSUME IInv, NEW u \in Users, NEW x \in Call, x.op # "end", Enter(u, x)
  PROVE  /\ \A d \in Clients \ {u[1]} : called'[d] = called[d]
         /\ \A b : Ended(u[1], b)' <=> Ended(u[1], b)
  <1>1. u[1] \in Clients /\ called[u[1]] \in Seq(Call)
    BY UserClient DEF IInv, TypeOK
  <1>2. /\ \A d \in Clients \ {u[1]} : called'[d] = called[d]
        /\ called'[u[1]] = Append(called[u[1]], x)
    BY <1>1 DEF Enter, IInv, TypeOK
  <1>3. /\ Len(called[u[1]]) \in Nat /\ DOMAIN called[u[1]] = 1 .. Len(called[u[1]])
        /\ DOMAIN called'[u[1]] = 1 .. Len(called[u[1]]) + 1
        /\ called'[u[1]][Len(called[u[1]]) + 1] = x
        /\ \A i \in 1 .. Len(called[u[1]]) : called'[u[1]][i] = called[u[1]][i]
    BY <1>1, <1>2, AppendProperties, LenProperties
  <1>4. \A b : x # CallOf("end", b, b)
    BY DEF CallOf
  <1>5. QED
    BY <1>2, <1>3, <1>4 DEF Ended

LEMMA ConstructKernels ==
  ASSUME IInv, KernelInv, NEW u \in Users, NEW b \in FatBins, Construct(u, b)
  PROVE  KernelInv'
  <1> DEFINE c == u[1]
             x == CallOf("fatbin", b, b)
  <1>1. /\ pc[u] = "idle" /\ cont' = [cont EXCEPT ![u] = "query"]
        /\ todo' = [todo EXCEPT ![u] = Constructor(b)]
        /\ recording' = [recording EXCEPT ![c] = FALSE]
        /\ Enter(u, x) /\ ~Constructing(c) /\ handle[c][b] = 0
        /\ UNCHANGED <<functions, before, handle, failed, file>>
        /\ c \in Clients
    BY UserClient DEF Construct, FlushAndContinue, disk
  <1>2. x \in Call /\ x.op = "fatbin" /\ x.bin = b
    BY DEF CallOf, Call
  <1> HIDE DEF x
  <1>3. \E l \in {"flushSend", "conn"} : pc' = [pc EXCEPT ![u] = l]
    BY DEF Construct, FlushAndContinue, Flush, Goto
  <1>4. stub'[u] = x /\ \A v \in Users \ {u} : stub'[v] = stub[v]
    BY <1>1, <1>2, OneCalled DEF IInv
  <1>5. /\ pc'[u] \in {"flushSend", "conn"} /\ cont'[u] = "query"
        /\ todo'[u] = Constructor(b) /\ Others(u)
    BY <1>1, <1>3, <1>4 DEF IInv, TypeOK, Others
  <1>6. InFatBinary(u)' /\ PlaceOf(u)' = "query" /\ ~InFatBinary(u)
    BY <1>1, <1>2, <1>4, <1>5 DEF InFatBinary, PlaceOf, Connecting
  <1>7. /\ ~recording'[c]
        /\ \A d \in Clients \ {c} : recording'[d] = recording[d]
    BY <1>1 DEF IInv, TypeOK
  <1>8. \A v \in Users : v[1] = c => ~Loading(v) /\ ~InFatBinary(v) /\ todo[v] = <<>>
    <2>1. ASSUME NEW v \in Users, v[1] = c, Loading(v) PROVE FALSE
      <3>1. PICK t \in Threads : v = <<c, t>>
        BY <2>1 DEF Users
      <3>2. QED
        BY <1>1, <2>1, <3>1 DEF Constructing, Loading
    <2>2. QED
      BY <2>1, LoadingWhile DEF Loading
  <1>9. \A y \in FatBins : ~Registering(c, y) /\ (Registering(c, y)' => y = b)
    BY <1>2, <1>4, <1>5, <1>8 DEF Registering, InFatBinary, Others
  <1>10. Known(c, b)' = {}
    BY <1>1, <1>9 DEF KernelInv, ListOf, Known
  <1>11. CodeOf(u)'
    BY <1>2, <1>4, <1>5, <1>7, ConstructorCalls DEF CodeOf
  <1>12. KernelsOf(u)'
    BY <1>2, <1>4, <1>5, <1>6, <1>7, <1>10 DEF KernelsOf
  <1>13. Registering(c, b)'
    BY <1>2, <1>4, <1>6 DEF Registering
  <1>14. /\ \A d \in Clients \ {c} : called'[d] = called[d]
         /\ \A y : Ended(c, y)' <=> Ended(c, y)
    BY <1>1, <1>2, NotEnded
  <1>15. ASSUME NEW y \in FatBins PROVE ListOf(c, y)' /\ EndOf(c, y)'
    <2>1. ListOf(c, y) /\ EndOf(c, y)
      BY <1>1 DEF KernelInv
    <2>2. ListOf(c, y)'
      BY <1>1, <1>9, <1>13, <2>1, SameKernels DEF ListOf
    <2>3. EndOf(c, y)'
      <3>1. Ended(c, y) => y # b
        BY <1>1, <2>1 DEF EndOf
      <3>2. \A v \in Users \ {u} : todo'[v] = todo[v]
        BY <1>5 DEF Others
      <3>3. \A i \in 1 .. Len(todo'[u]) : todo'[u][i].bin = b
        BY <1>5, ConstructorFacts
      <3>4. QED
        BY <1>1, <1>14, <2>1, <3>1, <3>2, <3>3 DEF EndOf
    <2>4. QED
      BY <2>2, <2>3
  <1>16. QED
    BY <1>1, <1>5, <1>7, <1>11, <1>12, <1>14, <1>15, SameFiles, KernelStep

LEMMA StartLaunchKernels ==
  ASSUME IInv, KernelInv, NEW u \in Users, NEW b \in FatBins,
         NEW k \in ToSet(Kernels[b]), StartLaunch(u, b, k)
  PROVE  KernelInv'
  <1> DEFINE c == u[1]
             x == CallOf("launch", k, b)
  <1>1. /\ pc[u] = "idle" /\ cont' = [cont EXCEPT ![u] = "launch"]
        /\ pc' = [pc EXCEPT ![u] = "conn"]
        /\ todo' = todo /\ todo[u] = <<>> /\ Enter(u, x) /\ c \in Clients
        /\ UNCHANGED <<functions, before, recording, handle, failed, file>>
    BY UserClient DEF StartLaunch, Connect, Goto, parsed, disk
  <1>2. x \in Call /\ x.op = "launch"
    BY DEF CallOf, Call, AllKernels
  <1> HIDE DEF x
  <1>3. stub'[u] = x /\ \A v \in Users \ {u} : stub'[v] = stub[v]
    BY <1>1, <1>2, OneCalled DEF IInv
  <1>4. pc'[u] = "conn" /\ Others(u)
    BY <1>1, <1>3 DEF IInv, TypeOK, Others
  <1>5. ~InFatBinary(u)' /\ ~InFatBinary(u) /\ ~Loading(u)'
    BY <1>1, <1>2, <1>3 DEF InFatBinary, Loading
  <1>6. CodeOf(u)' /\ KernelsOf(u)'
    BY <1>1, <1>4, <1>5 DEF CodeOf, KernelsOf
  <1>7. /\ \A d \in Clients \ {c} : called'[d] = called[d]
        /\ \A y : Ended(c, y)' <=> Ended(c, y)
    BY <1>1, <1>2, NotEnded
  <1>8. ASSUME NEW y \in FatBins PROVE ListOf(c, y)' /\ EndOf(c, y)'
    <2>1. ListOf(c, y) /\ EndOf(c, y)
      BY <1>1 DEF KernelInv
    <2>2. Registering(c, y)' = Registering(c, y)
      BY <1>4, <1>5 DEF Registering, InFatBinary, Others
    <2>3. ListOf(c, y)'
      BY <1>1, <2>1, <2>2, SameKernels DEF ListOf
    <2>4. EndOf(c, y)'
      BY <1>1, <1>7, <2>1 DEF EndOf
    <2>5. QED
      BY <2>3, <2>4
  <1>9. QED
    BY <1>1, <1>4, <1>5, <1>6, <1>7, <1>8, SameFiles, KernelStep

\* What is left of a constructor after its next call.
LEMMA NextCall ==
  ASSUME IInv, KernelInv, NEW u \in Users, pc[u] = "idle", todo[u] # <<>>,
         Enter(u, Head(todo[u])), todo' = [todo EXCEPT ![u] = Tail(@)]
  PROVE  LET x == Head(todo[u])
         IN  /\ todo[u][1] = x /\ 1 \in 1 .. Len(todo[u]) /\ Len(todo[u]) \in Nat
             /\ x \in Call /\ x.op \in Registrations /\ x.bin \in FatBins
             /\ todo'[u] = Tail(todo[u]) /\ stub'[u] = x
             /\ \A v \in Users \ {u} : todo'[v] = todo[v] /\ stub'[v] = stub[v]
             /\ Len(todo'[u]) = Len(todo[u]) - 1
             /\ \A i \in 1 .. Len(todo'[u]) : /\ todo'[u][i] = todo[u][i + 1]
                                              /\ i + 1 \in 1 .. Len(todo[u])
             /\ \A i \in 1 .. Len(todo'[u]) : todo'[u][i].op = "end" <=> i = Len(todo'[u])
             /\ Loading(u) /\ ~InFatBinary(u)
  <1> DEFINE x == Head(todo[u])
  <1>1. /\ todo[u] \in Seq(Call) /\ x \in Call /\ x.op \in Registrations /\ x.bin \in FatBins
        /\ Len(Tail(todo[u])) = Len(todo[u]) - 1 /\ Len(todo[u]) \in Nat
        /\ \A i \in 1 .. Len(Tail(todo[u])) : Tail(todo[u])[i] = todo[u][i + 1]
    BY NextOfConstructor
  <1>2. todo[u][1] = x /\ 1 \in 1 .. Len(todo[u])
    BY <1>1, EmptySeq
  <1>3. /\ todo'[u] = Tail(todo[u])
        /\ \A v \in Users \ {u} : todo'[v] = todo[v]
    BY DEF IInv, TypeOK
  <1>4. stub'[u] = x /\ \A v \in Users \ {u} : stub'[v] = stub[v]
    BY DEF Enter, IInv, TypeOK
  <1>5. PICK n \in Nat : n = Len(todo[u])
    BY <1>1
  <1>6. PICK m \in Int : m = Len(todo'[u]) /\ m = n - 1
    <2>1. Len(todo'[u]) = Len(todo[u]) - 1
      BY <1>1, <1>3
    <2>2. n - 1 \in Int /\ Len(todo'[u]) = n - 1
      BY <1>5, <2>1
    <2>3. QED
      BY <2>2
  <1>7. \A i \in 1 .. m : i + 1 \in 1 .. n
    BY <1>6
  <1>8. ASSUME NEW i \in 1 .. m
        PROVE  todo'[u][i].op = "end" <=> i = m
    <2>1. todo'[u][i] = todo[u][i + 1]
      BY <1>1, <1>3, <1>6
    <2>2. todo[u][i + 1].op = "end" <=> i + 1 = n
      BY <1>5, <1>7 DEF KernelInv, CodeOf
    <2>3. i + 1 = n <=> i = m
      BY <1>6
    <2>4. QED
      BY <2>1, <2>2, <2>3
  <1>9. QED
    BY <1>1, <1>2, <1>3, <1>4, <1>5, <1>6, <1>7, <1>8 DEF Loading, InFatBinary

\* Setting host functions changes no name.
HostsOf(c, k) ==
  /\ \A d \in Clients \ {c} : functions'[d] = functions[d]
  /\ DOMAIN functions'[c] = DOMAIN functions[c]
  /\ Len(functions'[c]) = Len(functions[c])
  /\ \A i \in DOMAIN functions[c] :
       /\ functions'[c][i].name = functions[c][i].name
       /\ functions'[c][i].bin = functions[c][i].bin
       /\ functions'[c][i].host = IF functions[c][i].name = NameOf[k] THEN k
                                  ELSE functions[c][i].host

LEMMA HostsSet ==
  ASSUME IInv, NEW c \in Clients, NEW k,
         functions' = [functions EXCEPT ![c] = WithHost(@, k)]
  PROVE  HostsOf(c, k)
  <1> DEFINE F == [name : Names, bin : FatBins, host : AllKernels \union {None}]
  <1>1. functions[c] \in Seq(F)
    BY DEF IInv, TypeOK
  <1>2. /\ Len(functions[c]) \in Nat /\ DOMAIN functions[c] = 1 .. Len(functions[c])
        /\ \A i \in DOMAIN functions[c] : functions[c][i] \in F
    BY <1>1, LenProperties, ElementOfSeq
  <1>3. /\ functions'[c] = WithHost(functions[c], k)
        /\ \A d \in Clients \ {c} : functions'[d] = functions[d]
    BY DEF IInv, TypeOK
  <1>4. DOMAIN functions'[c] = DOMAIN functions[c]
    BY <1>3 DEF WithHost
  <1>5. ASSUME NEW i \in DOMAIN functions[c]
        PROVE  /\ functions'[c][i].name = functions[c][i].name
               /\ functions'[c][i].bin = functions[c][i].bin
               /\ functions'[c][i].host = IF functions[c][i].name = NameOf[k] THEN k
                                          ELSE functions[c][i].host
    <2>1. functions'[c][i] = IF functions[c][i].name = NameOf[k]
                             THEN [functions[c][i] EXCEPT !.host = k] ELSE functions[c][i]
      BY <1>3 DEF WithHost
    <2>2. functions[c][i] \in F
      BY <1>2
    <2>3. QED
      BY <2>1, <2>2
  <1>6. Len(functions'[c]) = Len(functions[c])
    <2>1. functions'[c] \in Seq(Range(functions'[c]))
      <3>1. functions'[c] = [i \in 1 .. Len(functions[c]) |-> functions'[c][i]]
        BY <1>2, <1>3 DEF WithHost
      <3>2. functions'[c] \in [1 .. Len(functions[c]) -> Range(functions'[c])]
        BY <1>2, <1>4, <3>1 DEF Range
      <3>3. QED
        BY <1>2, <3>2, SeqDef
    <2>2. QED
      BY <1>2, <1>4, <2>1, LenProperties
  <1>7. QED
    BY <1>3, <1>4, <1>5, <1>6 DEF HostsOf

LEMMA SameNames ==
  ASSUME IInv, NEW c \in Clients, NEW b \in FatBins, before'[c] = before[c], failed' = failed,
         DOMAIN functions'[c] = DOMAIN functions[c], Len(functions'[c]) = Len(functions[c]),
         \A i \in DOMAIN functions[c] : /\ functions'[c][i].name = functions[c][i].name
                                        /\ functions'[c][i].bin = functions[c][i].bin
  PROVE  /\ Known(c, b)' = Known(c, b)
         /\ Has(c, b) => Has(c, b)'
         /\ Latest(c, b) => Latest(c, b)'
  <1>1. Known(c, b)' = Known(c, b)
    BY DEF Known
  <1>2. Len(Kernels[b]) \in Nat /\ DOMAIN Kernels[b] = 1 .. Len(Kernels[b])
    BY KernelsTyped
  <1>3. ASSUME AsInPTX(c, b) PROVE AsInPTX(c, b)'
    <2>1. PICK n \in 0 .. Len(functions[c]) :
                /\ Known(c, b) = n + 1 .. n + Len(Kernels[b])
                /\ \A i \in DOMAIN Kernels[b] :
                     functions[c][n + i].name = NameOf[Kernels[b][i]]
      BY <1>3 DEF AsInPTX
    <2>2. \A i \in DOMAIN Kernels[b] : n + i \in Known(c, b)
      BY <1>2, <2>1
    <2>3. \A i \in DOMAIN Kernels[b] : n + i \in DOMAIN functions[c]
      BY <2>2 DEF Known
    <2>4. QED
      BY <1>1, <2>1, <2>3 DEF AsInPTX
  <1>4. ASSUME Latest(c, b) PROVE Latest(c, b)'
    <2>1. CASE Len(functions[c]) = before[c] /\ b \in failed
      BY <2>1 DEF Latest
    <2>2. CASE /\ Len(functions[c]) = before[c] + Len(Kernels[b])
               /\ \A i \in 1 .. Len(Kernels[b]) :
                    functions[c][before[c] + i].name = NameOf[Kernels[b][i]]
      <3>1. \A i \in 1 .. Len(Kernels[b]) : before[c] + i \in DOMAIN functions[c]
        BY <1>2, <2>2, FunctionsTyped
      <3>2. QED
        BY <2>2, <3>1 DEF Latest
    <2>3. QED
      BY <1>4, <2>1, <2>2 DEF Latest
  <1>5. QED
    BY <1>1, <1>3, <1>4 DEF Has

LEMMA RegisterSymbolKernels ==
  ASSUME IInv, KernelInv, NEW u \in Users, RegisterSymbol(u)
  PROVE  KernelInv'
  <1> DEFINE c == u[1]
             x == Head(todo[u])
  <1>1. /\ pc[u] = "idle" /\ todo[u] # <<>> /\ x.op # "end" /\ Enter(u, x)
        /\ todo' = [todo EXCEPT ![u] = Tail(@)]
        /\ UNCHANGED <<before, recording, handle, failed, file>>
        /\ c \in Clients
    BY UserClient DEF RegisterSymbol, disk
  <1>2. /\ \/ functions' = functions
           \/ functions' = [functions EXCEPT ![c] = WithHost(@, x.of)]
        /\ \/ pc' = pc /\ cont' = cont
           \/ pc' = [pc EXCEPT ![u] = "conn"] /\ cont' = [cont EXCEPT ![u] = "send"]
    BY DEF RegisterSymbol, Connect, Goto
  <1>3. /\ todo[u][1] = x /\ 1 \in 1 .. Len(todo[u])
        /\ x \in Call /\ x.op \in Registrations /\ x.bin \in FatBins
        /\ stub'[u] = x
        /\ \A v \in Users \ {u} : todo'[v] = todo[v] /\ stub'[v] = stub[v]
        /\ \A i \in 1 .. Len(todo'[u]) : /\ todo'[u][i] = todo[u][i + 1]
                                         /\ i + 1 \in 1 .. Len(todo[u])
        /\ \A i \in 1 .. Len(todo'[u]) : todo'[u][i].op = "end" <=> i = Len(todo'[u])
        /\ Loading(u) /\ ~InFatBinary(u)
    BY <1>1, NextCall
  <1>4. pc'[u] \in {"idle", "conn"} /\ Others(u)
    BY <1>1, <1>2, <1>3 DEF IInv, TypeOK, Others
  <1>5. /\ \A d \in Clients \ {c} : functions'[d] = functions[d]
        /\ \A b \in FatBins : /\ Known(c, b)' = Known(c, b)
                              /\ Has(c, b) => Has(c, b)'
                              /\ Latest(c, b) => Latest(c, b)'
    <2>1. CASE functions' = functions
      BY <1>1, <2>1, SameKernels
    <2>2. CASE functions' = [functions EXCEPT ![c] = WithHost(@, x.of)]
      <3>1. PICK k : k = x.of
        OBVIOUS
      <3>2. functions' = [functions EXCEPT ![c] = WithHost(@, k)]
        BY <2>2, <3>1
      <3>3. /\ \A d \in Clients \ {c} : functions'[d] = functions[d]
            /\ DOMAIN functions'[c] = DOMAIN functions[c]
            /\ Len(functions'[c]) = Len(functions[c])
            /\ \A i \in DOMAIN functions[c] :
                 /\ functions'[c][i].name = functions[c][i].name
                 /\ functions'[c][i].bin = functions[c][i].bin
        <4>1. HostsOf(c, k)
          BY <1>1, <3>2, HostsSet
        <4>2. QED
          BY <4>1 DEF HostsOf
      <3>4. QED
        BY <1>1, <3>3, SameNames
    <2>3. QED
      BY <1>2, <2>1, <2>2
  <1>6. ~InFatBinary(u)'
    BY <1>3 DEF InFatBinary, Registrations
  <1>7. CodeOf(u)'
    BY <1>3, <1>6 DEF CodeOf
  <1>8. KernelsOf(u)'
    <2>1. recording[c] => \A i \in 1 .. Len(todo[u]) : Latest(c, todo[u][i].bin)
      BY DEF KernelInv, KernelsOf
    <2>2. \A i \in 1 .. Len(todo[u]) : todo[u][i].bin \in FatBins
      BY TodoTyped
    <2>3. ASSUME recording'[c], NEW i \in 1 .. Len(todo'[u])
          PROVE  Latest(c, todo[u][i].bin)'
      <3>1. PICK b \in FatBins : b = todo[u][i + 1].bin
        BY <1>3, <2>2
      <3>2. Latest(c, b) /\ Latest(c, b)'
        BY <1>1, <1>3, <1>5, <2>1, <2>3, <3>1
      <3>3. todo'[u][i].bin = b
        BY <1>3, <3>1
      <3>4. QED
        BY <3>2, <3>3 DEF Latest
    <2>4. QED
      BY <1>4, <1>6, <2>3 DEF KernelsOf
  <1>9. /\ \A d \in Clients \ {c} : called'[d] = called[d]
        /\ \A b : Ended(c, b)' <=> Ended(c, b)
    BY <1>1, <1>3, NotEnded
  <1>10. ASSUME NEW b \in FatBins PROVE ListOf(c, b)' /\ EndOf(c, b)'
    <2>1. ListOf(c, b) /\ EndOf(c, b)
      BY <1>1 DEF KernelInv
    <2>2. Registering(c, b)' = Registering(c, b)
      BY <1>3, <1>4, <1>6 DEF Registering, InFatBinary, Others
    <2>3. ListOf(c, b)'
      BY <1>1, <1>5, <2>1, <2>2 DEF ListOf
    <2>4. EndOf(c, b)'
      BY <1>1, <1>3, <1>9, <2>1 DEF EndOf
    <2>5. QED
      BY <2>3, <2>4
  <1>11. QED
    BY <1>1, <1>3, <1>4, <1>5, <1>7, <1>8, <1>9, <1>10, SameFiles, KernelStep

LEMMA RegisterEndKernels ==
  ASSUME IInv, KernelInv, NEW u \in Users, RegisterEnd(u)
  PROVE  KernelInv'
  <1> DEFINE c == u[1]
             x == Head(todo[u])
  <1>1. /\ pc[u] = "idle" /\ todo[u] # <<>> /\ x.op = "end" /\ Enter(u, x)
        /\ todo' = [todo EXCEPT ![u] = Tail(@)]
        /\ UNCHANGED <<functions, before, recording, handle, failed, file>>
        /\ c \in Clients
    BY UserClient DEF RegisterEnd, parsed, disk
  <1>2. /\ cont' = [cont EXCEPT ![u] = IF batch_active[c] THEN "idle" ELSE "send"]
        /\ pc' = [pc EXCEPT ![u] =
                    IF recording[c] THEN "open"
                    ELSE IF batch_active[c] THEN "idle" ELSE "conn"]
    BY DEF RegisterEnd, Goto
  <1>3. /\ todo[u][1] = x /\ 1 \in 1 .. Len(todo[u]) /\ Len(todo[u]) \in Nat
        /\ x \in Call /\ x.bin \in FatBins /\ stub'[u] = x
        /\ \A v \in Users \ {u} : todo'[v] = todo[v] /\ stub'[v] = stub[v]
        /\ Len(todo'[u]) = Len(todo[u]) - 1
        /\ Loading(u) /\ ~InFatBinary(u)
    BY <1>1, NextCall
  <1>4. /\ pc'[u] \in {"idle", "conn", "open"} /\ Others(u)
        /\ pc'[u] = "open" => recording[c]
    BY <1>1, <1>2, <1>3 DEF IInv, TypeOK, Others
  <1>5. Len(todo'[u]) = 0
    <2>1. todo[u][1].op = "end" <=> 1 = Len(todo[u])
      BY <1>3 DEF KernelInv, CodeOf
    <2>2. QED
      BY <1>1, <1>3, <2>1
  <1>6. ~InFatBinary(u)' /\ CodeOf(u)'
    BY <1>1, <1>3, <1>5 DEF InFatBinary, CodeOf
  <1>7. KernelsOf(u)'
    <2>1. recording[c] => Latest(c, x.bin)
      BY <1>3 DEF KernelInv, KernelsOf
    <2>2. pc'[u] = "open" => Latest(c, stub[u].bin)'
      BY <1>1, <1>3, <1>4, <2>1 DEF Latest
    <2>3. QED
      BY <1>4, <1>5, <1>6, <2>2 DEF KernelsOf
  <1>8. handle[c][x.bin] # 0
    <2>1. Denotes(handle[c][x.bin], x.bin)
      BY <1>1, NextOfConstructor
    <2>2. DOMAIN handles = 1 .. Len(handles)
      BY LenProperties DEF IInv, TypeOK
    <2>3. QED
      BY <2>1, <2>2 DEF Denotes
  <1>9. /\ \A d \in Clients \ {c} : called'[d] = called[d]
        /\ \A b \in FatBins : Ended(c, b)' => Ended(c, b) \/ b = x.bin
    <2>1. called[c] \in Seq(Call) /\ called'[c] = Append(called[c], x)
      BY <1>1 DEF Enter, IInv, TypeOK
    <2>2. /\ Len(called[c]) \in Nat /\ DOMAIN called[c] = 1 .. Len(called[c])
          /\ DOMAIN called'[c] = 1 .. Len(called[c]) + 1
          /\ called'[c][Len(called[c]) + 1] = x
          /\ \A i \in 1 .. Len(called[c]) : called'[c][i] = called[c][i]
      BY <1>3, <2>1, AppendProperties, LenProperties
    <2>3. \A b \in FatBins : x = CallOf("end", b, b) => b = x.bin
      BY DEF CallOf
    <2>4. \A d \in Clients \ {c} : called'[d] = called[d]
      BY <1>1 DEF Enter, IInv, TypeOK
    <2>5. QED
      BY <2>2, <2>3, <2>4 DEF Ended
  <1>10. \A v \in Users : v[1] = c => Len(todo'[v]) = 0
    <2>1. ASSUME NEW v \in Users \ {u}, v[1] = c PROVE todo[v] = <<>>
      BY <1>3, <2>1 DEF KernelInv, LoaderInv, Loading
    <2>2. QED
      BY <1>3, <1>5, <2>1, EmptySeq
  <1>11. ASSUME NEW b \in FatBins PROVE ListOf(c, b)' /\ EndOf(c, b)'
    <2>1. ListOf(c, b) /\ EndOf(c, b)
      BY <1>1 DEF KernelInv
    <2>2. Registering(c, b)' = Registering(c, b)
      BY <1>3, <1>4, <1>6 DEF Registering, InFatBinary, Others
    <2>3. ListOf(c, b)'
      BY <1>1, <2>1, <2>2, SameKernels DEF ListOf
    <2>4. EndOf(c, b)'
      BY <1>1, <1>8, <1>9, <1>10, <2>1 DEF EndOf
    <2>5. QED
      BY <2>3, <2>4
  <1>12. QED
    BY <1>1, <1>3, <1>4, <1>6, <1>7, <1>9, <1>11, SameFiles, KernelStep

\* Processes end and others are started; the files stay as they are.
LEMMA RestartKernels ==
  ASSUME IInv, KernelInv, NEW C \in SUBSET Clients, Started(C),
         UNCHANGED <<file, failed>>
  PROVE  KernelInv'
  <1>1. \A u \in Users : u[1] \in C => pc'[u] = "idle" /\ todo'[u] = <<>>
    BY DEF Started
  <1>2. \A u \in Users : u[1] \notin C => /\ pc'[u] = pc[u] /\ todo'[u] = todo[u]
                                          /\ cont'[u] = cont[u] /\ stub'[u] = stub[u]
    BY DEF Started
  <1>3. \A c \in C : /\ functions'[c] = <<>> /\ called'[c] = <<>> /\ ~recording'[c]
                     /\ \A b \in FatBins : handle'[c][b] = 0
    BY DEF Started
  <1>4. \A c \in Clients \ C : /\ functions'[c] = functions[c] /\ called'[c] = called[c]
                               /\ handle'[c] = handle[c] /\ before'[c] = before[c]
                               /\ recording'[c] => recording[c]
    BY DEF Started
  <1>5. LoaderInv'
    BY <1>1, <1>2 DEF KernelInv, LoaderInv, Loading
  <1>6. ASSUME NEW u \in Users PROVE CodeOf(u)' /\ KernelsOf(u)'
    <2>1. CASE u[1] \in C
      BY <1>1, <1>3, <2>1 DEF CodeOf, KernelsOf, InFatBinary
    <2>2. CASE u[1] \notin C
      <3>1. u[1] \in Clients \ C
        BY <2>2, UserClient
      <3>2. QED
        BY <1>2, <1>4, <3>1, SameThread
    <2>3. QED
      BY <2>1, <2>2
  <1>7. ASSUME NEW c \in Clients, NEW b \in FatBins PROVE ListOf(c, b)' /\ EndOf(c, b)'
    <2>1. CASE c \in C
      <3>1. Known(c, b)' = {} /\ handle'[c][b] = 0
        BY <1>3, <2>1 DEF Known
      <3>2. ~Ended(c, b)'
        BY <1>3, <2>1 DEF Ended
      <3>3. QED
        BY <3>1, <3>2 DEF ListOf, EndOf
    <2>2. CASE c \notin C
      <3>1. \A u \in Users : u[1] = c => /\ pc'[u] = pc[u] /\ stub'[u] = stub[u]
                                         /\ todo'[u] = todo[u]
        BY <1>2, <2>2
      <3>2. Registering(c, b)' = Registering(c, b)
        BY <3>1 DEF Registering, InFatBinary
      <3>3. ListOf(c, b) /\ EndOf(c, b)
        BY DEF KernelInv
      <3>4. ListOf(c, b)'
        BY <1>4, <2>2, <3>2, <3>3, SameKernels DEF ListOf
      <3>5. EndOf(c, b)'
        BY <1>4, <2>2, <3>1, <3>3 DEF EndOf, Ended
      <3>6. QED
        BY <3>4, <3>5
    <2>3. QED
      BY <2>1, <2>2
  <1>8. QED
    BY <1>5, <1>6, <1>7, SameFiles DEF KernelInv

LEMMA InitKernels == Init => KernelInv
  <1> SUFFICES ASSUME Init PROVE KernelInv
    OBVIOUS
  <1>1. \A u \in Users : pc[u] = "idle" /\ todo[u] = <<>> /\ u[1] \in Clients
    BY UserClient DEF Init
  <1>2. \A c \in Clients : /\ functions[c] = <<>> /\ called[c] = <<>> /\ ~recording[c]
                           /\ \A b \in FatBins : handle[c][b] = 0
    BY DEF Init
  <1>3. \A b \in FatBins : file[b] = NoFile
    BY DEF Init
  <1>4. LoaderInv /\ \A u \in Users : CodeOf(u) /\ KernelsOf(u)
    BY <1>1, <1>2 DEF LoaderInv, Loading, CodeOf, KernelsOf, InFatBinary
  <1>5. \A c \in Clients, b \in FatBins : ListOf(c, b) /\ EndOf(c, b)
    BY <1>2 DEF ListOf, EndOf, Ended, Known
  <1>6. \A b \in FatBins : FileOf(b)
    BY <1>3 DEF FileOf, NoFile
  <1>7. QED
    BY <1>4, <1>5, <1>6 DEF KernelInv

LEMMA NextKernels == IInv /\ KernelInv /\ [Next]_vars => KernelInv'
  <1> SUFFICES ASSUME IInv, KernelInv, [Next]_vars PROVE KernelInv'
    OBVIOUS
  <1>1. ASSUME NEW u \in Users, Progress(u) PROVE KernelInv'
    BY <1>1, WaitingKernels, QueryServerKernels, LoadHitKernels, LoadMissKernels,
       ParseKernels, RegisterFullKernels, RegisterSymbolKernels, RegisterEndKernels,
       ExecutedKernels, OpenFileKernels, WriteFileKernels, CloseFileKernels DEF Progress
  <1>2. ASSUME NEW u \in Users, NEW b \in FatBins, Construct(u, b) PROVE KernelInv'
    BY <1>2, ConstructKernels
  <1>3. ASSUME NEW u \in Users, NEW b \in FatBins, NEW k \in ToSet(Kernels[b]),
               StartLaunch(u, b, k)
        PROVE  KernelInv'
    BY <1>3, StartLaunchKernels
  <1>4. ASSUME NEW c \in Clients, ClientRestart(c) PROVE KernelInv'
    BY <1>4, RestartKernels DEF ClientRestart
  <1>5. CASE ServerRestart
    BY <1>5, RestartKernels DEF ServerRestart
  <1>6. CASE UNCHANGED vars
    <2>1. UNCHANGED <<pc, cont, stub, todo, functions, before, recording, handle, called,
                      failed, file>>
      BY <1>6 DEF vars, thread, parsed, history, disk
    <2>2. \A u \in Users : CodeOf(u)' /\ KernelsOf(u)'
      BY <2>1, SameThread, UserClient
    <2>3. ASSUME NEW c \in Clients, NEW b \in FatBins PROVE ListOf(c, b)' /\ EndOf(c, b)'
      <3>1. ListOf(c, b) /\ EndOf(c, b)
        BY DEF KernelInv
      <3>2. Registering(c, b)' = Registering(c, b)
        BY <2>1 DEF Registering, InFatBinary
      <3>3. QED
        BY <2>1, <3>1, <3>2, SameKernels DEF ListOf, EndOf, Ended
    <2>4. LoaderInv' /\ \A b \in FatBins : FileOf(b)'
      BY <2>1, SameFiles DEF KernelInv, LoaderInv, Loading
    <2>5. QED
      BY <2>2, <2>3, <2>4 DEF KernelInv
  <1>7. QED
    BY <1>1, <1>2, <1>3, <1>4, <1>5, <1>6 DEF Next

\* A library that is loaded is registered, and its constructor has ended.
LEMMA LoadedKnown ==
  ASSUME IInv, KernelInv, NEW c \in Clients, NEW b \in FatBins, Ended(c, b)
  PROVE  Has(c, b)
  <1>1. ListOf(c, b) /\ EndOf(c, b)
    BY DEF KernelInv
  <1>2. ASSUME NEW u \in Users, u[1] = c, InFatBinary(u), stub[u].bin = b PROVE FALSE
    <2>1. todo[u] = Constructor(b)
      BY <1>2 DEF KernelInv, CodeOf
    <2>2. todo[u] # <<>>
      BY <2>1, ConstructorCalls
    <2>3. 1 \in 1 .. Len(todo[u])
      BY <2>1, ConstructorCalls
    <2>4. todo[u][1].bin = b
      BY <1>2, <2>3 DEF IInv, TodoInv, RestOf
    <2>5. QED
      BY <1>1, <1>2, <2>3, <2>4 DEF EndOf
  <1>3. QED
    BY <1>1, <1>2 DEF ListOf, EndOf, Registering

LEMMA LoadedEnded ==
  ASSUME IInv, NEW c \in Clients, NEW b \in FatBins
  PROVE  CallOf("end", b, b) \in ToSet(called[c]) <=> Ended(c, b)
  BY DEF Ended, ToSet

\* The invariant of the kernels holds of every state, for any clients, threads
\* and processes that end.
THEOREM KernelInvariance == Spec => []KernelInv
  BY Invariance, InitKernels, NextKernels, PTL DEF Spec

\* A client knows the kernels of a library that is loaded as its PTX has them,
\* whether it parsed them or read them from a file that others wrote at the same
\* time or left half written (fatbin_cache.cpp:87-177, manual_client.cpp:697-778).
THEOREM KnowsItsKernels == Spec => []KernelsOfPTX
  <1>1. IInv /\ KernelInv => KernelsOfPTX
    BY LoadedKnown, LoadedEnded DEF KernelsOfPTX, Loaded, Has
  <1>2. QED
    BY <1>1, Invariance, KernelInvariance, PTL

-----------------------------------------------------------------------------
(* A launch looks its kernel up by the host function.                      *)

\* The calls of a process are not forgotten before it ends.
StillEnded ==
  \A c \in Clients, b \in FatBins : Ended(c, b) => Ended(c, b)'

LEMMA OneMoreCall ==
  ASSUME IInv, NEW u \in Users, NEW x \in Call, Enter(u, x)
  PROVE  /\ StillEnded
         /\ stub'[u] = x /\ \A v \in Users \ {u} : stub'[v] = stub[v]
  <1>1. u[1] \in Clients /\ \A c \in Clients : called[c] \in Seq(Call)
    BY UserClient DEF IInv, TypeOK
  <1>2. called' = [called EXCEPT ![u[1]] = Append(called[u[1]], x)]
    BY DEF Enter
  <1>3. \A c \in Clients \ {u[1]} : called'[c] = called[c]
    BY <1>2 DEF IInv, TypeOK
  <1>4. called'[u[1]] = Append(called[u[1]], x)
    BY <1>1, <1>2 DEF IInv, TypeOK
  <1>5. /\ DOMAIN called[u[1]] = 1 .. Len(called[u[1]]) /\ Len(called[u[1]]) \in Nat
        /\ DOMAIN called'[u[1]] = 1 .. Len(called[u[1]]) + 1
        /\ \A i \in 1 .. Len(called[u[1]]) : called'[u[1]][i] = called[u[1]][i]
    BY <1>1, <1>4, AppendProperties, LenProperties
  <1>6. \A b \in FatBins : Ended(u[1], b) => Ended(u[1], b)'
    BY <1>5 DEF Ended
  <1>7. \A c \in Clients \ {u[1]}, b \in FatBins : Ended(c, b) => Ended(c, b)'
    BY <1>3 DEF Ended
  <1>8. stub'[u] = x /\ \A v \in Users \ {u} : stub'[v] = stub[v]
    BY DEF Enter, IInv, TypeOK
  <1>9. QED
    BY <1>6, <1>7, <1>8 DEF StillEnded

\* The host functions of a client whose kernels and constructors stay.
LEMMA SameHosts ==
  ASSUME NEW c \in Clients, HostOf(c), functions'[c] = functions[c],
         \A v \in Users : v[1] = c => todo'[v] = todo[v]
  PROVE  HostOf(c)'
  BY DEF HostOf

\* The invariant after a step of thread u, from what the step does itself.
LEMMA LookupStep ==
  ASSUME LookupInv, NEW u \in Users, StillEnded, HostOf(u[1])', LaunchOf(u)',
         \A v \in Users \ {u} : /\ pc'[v] = pc[v] /\ stub'[v] = stub[v]
                                /\ todo'[v] = todo[v]
                                /\ pc[v] # "idle" => stub[v].bin \in FatBins,
         \A d \in Clients \ {u[1]} : functions'[d] = functions[d],
         LaunchFindsKernel'
  PROVE  LookupInv'
  <1>1. \A d \in Clients \ {u[1]} : HostOf(d)'
    BY SameHosts DEF LookupInv
  <1>2. \A v \in Users \ {u} : LaunchOf(v)'
    BY UserClient DEF LookupInv, LaunchOf, StillEnded
  <1>3. QED
    BY <1>1, <1>2 DEF LookupInv

LEMMA StubsTyped ==
  ASSUME IInv, NEW v \in Users
  PROVE  pc[v] # "idle" => stub[v] \in Call /\ stub[v].bin \in FatBins
  BY DEF IInv, StubInv, StubOf, Call

LEMMA SameMissed ==
  ASSUME LaunchFindsKernel, missed' = missed, failed \subseteq failed'
  PROVE  LaunchFindsKernel'
  BY DEF LaunchFindsKernel

\* A step of a thread within its stub that changes neither kernels nor calls.
LEMMA QuietLookup ==
  ASSUME IInv, LookupInv, NEW u \in Users, pc[u] # "idle",
         UNCHANGED <<stub, todo, functions, called, failed>>,
         \A v \in Users \ {u} : pc'[v] = pc[v],
         LaunchFindsKernel'
  PROVE  LookupInv'
  <1>1. StillEnded
    BY DEF StillEnded, Ended
  <1>2. HostOf(u[1])'
    BY UserClient, SameHosts DEF LookupInv
  <1>3. LaunchOf(u)'
    BY <1>1, UserClient, StubsTyped DEF LookupInv, LaunchOf, StillEnded
  <1>4. QED
    BY <1>1, <1>2, <1>3, StubsTyped, LookupStep

LEMMA PassiveLookup ==
  ASSUME IInv, LookupInv, NEW u \in Users,
         \/ GetConnection(u) \/ ExecuteBatch(u) \/ FlushEnd(u) \/ Deactivate(u)
         \/ QueryServer(u) \/ LoadMiss(u) \/ RegisterFull(u) \/ ExecuteOne(u)
         \/ OpenFile(u) \/ WriteFile(u) \/ CloseFile(u)
  PROVE  LookupInv'
  <1>1. /\ pc[u] # "idle"
        /\ UNCHANGED <<stub, todo, functions, called, failed, missed>>
    BY DEF GetConnection, ExecuteBatch, FlushEnd, Deactivate, QueryServer, LoadMiss,
       RegisterFull, ExecuteOne, OpenFile, WriteFile, CloseFile, parsed, history, thread
  <1>2. pc' = pc \/ \E l : pc' = [pc EXCEPT ![u] = l]
    BY DEF GetConnection, ExecuteBatch, FlushEnd, Deactivate, QueryServer, LoadMiss,
       RegisterFull, ExecuteOne, OpenFile, WriteFile, CloseFile, Flush, Goto, thread
  <1>3. \A v \in Users \ {u} : pc'[v] = pc[v]
    BY <1>2 DEF IInv, TypeOK
  <1>4. LaunchFindsKernel'
    BY <1>1, SameMissed DEF LookupInv
  <1>5. QED
    BY <1>1, <1>3, <1>4, QuietLookup

\* A kernel of a library that is loaded has its host function.
LEMMA KnownHost ==
  ASSUME IInv, KernelInv, LookupInv, NEW c \in Clients, NEW b \in FatBins,
         NEW k \in ToSet(Kernels[b]), Ended(c, b), b \notin failed
  PROVE  \E i \in DOMAIN functions[c] : functions[c][i].host = k
  <1>1. AsInPTX(c, b)
    BY LoadedKnown DEF Has
  <1>2. PICK n \in 0 .. Len(functions[c]) :
          /\ Known(c, b) = n + 1 .. n + Len(Kernels[b])
          /\ \A i \in DOMAIN Kernels[b] : functions[c][n + i].name = NameOf[Kernels[b][i]]
    BY <1>1 DEF AsInPTX
  <1>3. PICK m \in Nat : m = Len(Kernels[b]) /\ DOMAIN Kernels[b] = 1 .. m
    BY KernelsTyped
  <1>4. PICK j \in 1 .. m : k = Kernels[b][j]
    BY <1>3 DEF ToSet
  <1>5. n \in Int /\ n + j \in n + 1 .. n + m
    BY FunctionsTyped
  <1>6. n + j \in DOMAIN functions[c] /\ functions[c][n + j].bin = b
    BY <1>2, <1>3, <1>5 DEF Known
  <1>7. functions[c][n + j].name = NameOf[k]
    BY <1>2, <1>3, <1>4
  <1>8. PICK i \in DOMAIN functions[c] :
          functions[c][i].bin = b /\ functions[c][i].name = NameOf[k]
    BY <1>6, <1>7
  <1>9. ASSUME NEW u \in Users, u[1] = c, NEW l \in 1 .. Len(todo[u]),
               todo[u][l] = CallOf("function", k, b)
        PROVE  FALSE
    BY <1>9 DEF KernelInv, EndOf, CallOf
  <1>10. functions[c][i].host = k
    BY <1>8, <1>9 DEF LookupInv, HostOf
  <1>11. QED
    BY <1>10

LEMMA LaunchLookup ==
  ASSUME IInv, KernelInv, LookupInv, NEW u \in Users, Launch(u)
  PROVE  LookupInv'
  <1>1. /\ pc[u] = "launch" /\ UNCHANGED <<stub, todo, functions, called, failed>>
        /\ pc' = [pc EXCEPT ![u] = "idle"] /\ u[1] \in Clients
    BY UserClient DEF Launch, Goto, parsed
  <1>2. \A v \in Users \ {u} : pc'[v] = pc[v]
    BY <1>1 DEF IInv, TypeOK
  <1>3. LaunchFindsKernel'
    <2>1. CASE missed' = missed
      BY <1>1, <2>1, SameMissed DEF LookupInv
    <2>2. CASE ~\E i \in DOMAIN functions[u[1]] : functions[u[1]][i].host = stub[u].of
      <3>1. missed' = [missed EXCEPT ![u[1]] = @ \union {stub[u].of}]
        BY <2>2 DEF Launch
      <3>2. PICK b \in FatBins : b = stub[u].bin
        BY <1>1, StubsTyped
      <3>3. stub[u].op = "launch"
        BY <1>1 DEF IInv, StubInv, StubOf, PlaceOf, Connecting
      <3>4. Ended(u[1], b) /\ stub[u].of \in ToSet(Kernels[b])
        BY <1>1, <3>2, <3>3 DEF LookupInv, LaunchOf
      <3>5. b \in failed
        BY <1>1, <2>2, <3>4, KnownHost
      <3>6. \A c \in Clients : \A k \in missed'[c] : k \in missed[c] \/ k = stub[u].of
        BY <3>1 DEF IInv, TypeOK
      <3>7. QED
        BY <1>1, <3>4, <3>5, <3>6 DEF LookupInv, LaunchFindsKernel
    <2>3. QED
      BY <2>1, <2>2 DEF Launch
  <1>4. QED
    BY <1>1, <1>2, <1>3, QuietLookup

\* The kernels of a fat binary that is being registered are still to get their
\* host functions.
LEMMA AppendedHosts ==
  ASSUME IInv, KernelInv, LookupInv, NEW u \in Users, InFatBinary(u),
         NEW c \in Clients, c = u[1], NEW b \in FatBins, b = stub[u].bin,
         NEW m \in Nat, NEW T, NEW fs \in Seq(T), Len(fs) = m,
         \A i \in 1 .. m : fs[i].bin = b,
         functions'[c] = functions[c] \o fs, todo' = todo
  PROVE  HostOf(c)'
  <1> DEFINE F == [name : Names, bin : FatBins, host : AllKernels \union {None}]
             S == F \union T
  <1>1. functions[c] \in Seq(F)
    BY DEF IInv, TypeOK
  <1> HIDE DEF F
  <1>2. functions[c] \in Seq(S) /\ fs \in Seq(S)
    BY <1>1, SeqMonotonic
  <1> HIDE DEF S
  <1>3. PICK n \in Nat : n = Len(functions[c])
    BY FunctionsTyped
  <1>4. PICK f, g, W : /\ f = functions[c] /\ g = functions'[c]
                       /\ f \in Seq(W) /\ fs \in Seq(W)
    BY <1>2
  <1>5. f \in Seq(W) /\ fs \in Seq(W) /\ Len(f) = n /\ Len(fs) = m /\ g = f \o fs
    BY <1>3, <1>4
  <1>6. /\ Len(g) = n + m /\ DOMAIN g = 1 .. n + m
        /\ \A i \in 1 .. m : n + i \in 1 .. n + m /\ g[n + i] = fs[i]
        /\ \A i \in 1 .. n : i \in 1 .. n + m /\ g[i] = f[i]
        /\ \A i \in 1 .. n + m : i \in 1 .. n \/ (i - n \in 1 .. m /\ i = n + (i - n))
    <2>1. Extended(n, m, f, fs, g)
      BY <1>5, Extension
    <2>2. QED
      BY <2>1 DEF Extended
  <1>7. todo[u] = Constructor(b)
    BY DEF KernelInv, CodeOf
  <1>8. ASSUME NEW i \in DOMAIN g, NEW k \in ToSet(Kernels[g[i].bin]), g[i].name = NameOf[k]
        PROVE  \/ g[i].host = k
               \/ \E v \in Users : /\ v[1] = c
                                   /\ \E j \in 1 .. Len(todo[v]) :
                                        todo[v][j] = CallOf("function", k, g[i].bin)
    <2>1. CASE i \in 1 .. n
      <3>1. g[i] = functions[c][i] /\ i \in DOMAIN functions[c]
        BY <1>3, <1>4, <1>6, <2>1, FunctionsTyped
      <3>2. HostOf(c)
        BY DEF LookupInv
      <3>3. k \in ToSet(Kernels[functions[c][i].bin]) /\ functions[c][i].name = NameOf[k]
        BY <1>8, <3>1
      <3>4. QED
        BY <3>1, <3>2, <3>3 DEF HostOf
    <2>2. CASE ~(i \in 1 .. n)
      <3>1. PICK j \in 1 .. m : i = n + j
        BY <1>6, <2>2
      <3>2. g[i].bin = b
        BY <1>6, <3>1
      <3>3. \E l \in 1 .. Len(todo[u]) : todo[u][l] = CallOf("function", k, b)
        BY <1>7, <1>8, <3>2, ConstructorCalls
      <3>4. QED
        BY <3>2, <3>3
    <2>3. QED
      BY <2>1, <2>2
  <1>9. QED
    BY <1>4, <1>8 DEF HostOf

\* A step in __cudaRegisterFatBinary that may add the kernels of the fat binary.
LEMMA AddingStep ==
  ASSUME IInv, LookupInv, NEW u \in Users, InFatBinary(u),
         UNCHANGED <<stub, todo, called, missed>>, failed \subseteq failed',
         NEW l, pc' = [pc EXCEPT ![u] = l],
         \A d \in Clients \ {u[1]} : functions'[d] = functions[d],
         HostOf(u[1])'
  PROVE  LookupInv'
  <1>1. StillEnded
    BY DEF StillEnded, Ended
  <1>2. LaunchOf(u)'
    BY DEF LaunchOf, InFatBinary
  <1>3. \A v \in Users \ {u} : pc'[v] = pc[v]
    BY DEF IInv, TypeOK
  <1>4. LaunchFindsKernel'
    BY SameMissed DEF LookupInv
  <1>5. QED
    BY <1>1, <1>2, <1>3, <1>4, StubsTyped, LookupStep

LEMMA LoadHitLookup ==
  ASSUME IInv, KernelInv, LookupInv, NEW u \in Users, LoadHit(u)
  PROVE  LookupInv'
  <1>0. pc[u] = "load" /\ InFatBinary(u)
    BY DEF LoadHit, IInv, StubInv, StubOf, PlaceOf, Connecting, InFatBinary
  <1>1. PICK b \in FatBins : b = stub[u].bin
    BY <1>0, RegisteringThread
  <1>2. PICK c \in Clients : c = u[1]
    BY UserClient
  <1> DEFINE m == file[b].head
             fs == [i \in 1 .. m |-> Function(file[b].recs[i], b)]
  <1>3. /\ UNCHANGED <<stub, todo, called, missed, failed>>
        /\ pc' = [pc EXCEPT ![u] = "idle"]
        /\ functions' = [functions EXCEPT ![c] = @ \o fs]
    BY <1>1, <1>2 DEF LoadHit, Goto
  <1>4. m \in Nat
    BY <1>0, <1>1 DEF LoadHit, Complete, IInv, TypeOK
  <1>5. fs \in Seq(Range(fs)) /\ Len(fs) = m /\ \A i \in 1 .. m : fs[i].bin = b
    <2>1. fs \in [1 .. m -> Range(fs)] /\ DOMAIN fs = 1 .. m
      BY DEF Range
    <2>2. \A i \in 1 .. m : fs[i].bin = b
      BY DEF Function
    <2> HIDE DEF fs, m
    <2>3. fs \in Seq(Range(fs))
      BY <1>4, <2>1, SeqDef
    <2>4. QED
      BY <1>4, <2>1, <2>2, <2>3, LenProperties
  <1> HIDE DEF fs, m
  <1>6. /\ functions'[c] = functions[c] \o fs
        /\ \A d \in Clients \ {c} : functions'[d] = functions[d]
    BY <1>3 DEF IInv, TypeOK
  <1>7. PICK k \in Nat : k = m
    BY <1>4
  <1>8. PICK g : g = fs
    OBVIOUS
  <1>9. /\ g \in Seq(Range(fs)) /\ Len(g) = k /\ \A i \in 1 .. k : g[i].bin = b
        /\ functions'[c] = functions[c] \o g
    BY <1>5, <1>6, <1>7, <1>8
  <1>10. HostOf(c)'
    BY <1>0, <1>1, <1>2, <1>3, <1>9, AppendedHosts
  <1>11. QED
    BY <1>0, <1>2, <1>3, <1>6, <1>10, AddingStep

LEMMA ParseLookup ==
  ASSUME IInv, KernelInv, LookupInv, NEW u \in Users, Parse(u)
  PROVE  LookupInv'
  <1>0. pc[u] = "parse" /\ InFatBinary(u)
    BY DEF Parse, IInv, StubInv, StubOf, PlaceOf, Connecting, InFatBinary
  <1>1. PICK b \in FatBins : b = stub[u].bin
    BY <1>0, RegisteringThread
  <1>2. PICK c \in Clients : c = u[1]
    BY UserClient
  <1> DEFINE fs == [i \in DOMAIN Kernels[b] |-> Function(NameOf[Kernels[b][i]], b)]
  <1>3. /\ UNCHANGED <<stub, todo, called, missed>> /\ failed \subseteq failed'
        /\ \/ functions' = [functions EXCEPT ![c] = @ \o fs]
           \/ functions' = functions
    BY <1>1, <1>2 DEF Parse
  <1>4. PICK l : pc' = [pc EXCEPT ![u] = l]
    BY DEF Parse, FlushAndContinue, Flush, Goto
  <1>5. PICK k \in Nat : k = Len(Kernels[b]) /\ DOMAIN Kernels[b] = 1 .. k
    BY KernelsTyped
  <1>6. fs \in Seq(Range(fs)) /\ Len(fs) = k /\ \A i \in 1 .. k : fs[i].bin = b
    <2>1. fs \in [1 .. k -> Range(fs)] /\ DOMAIN fs = 1 .. k
      BY <1>5 DEF Range
    <2>2. \A i \in 1 .. k : fs[i].bin = b
      BY <1>5 DEF Function
    <2> HIDE DEF fs
    <2>3. fs \in Seq(Range(fs))
      BY <2>1, SeqDef
    <2>4. QED
      BY <2>1, <2>2, <2>3, LenProperties
  <1> HIDE DEF fs
  <1>7. \A d \in Clients \ {c} : functions'[d] = functions[d]
    BY <1>3 DEF IInv, TypeOK
  <1>8. HostOf(c)'
    <2>1. CASE functions' = [functions EXCEPT ![c] = @ \o fs]
      <3>1. PICK g : g = fs
        OBVIOUS
      <3>2. /\ g \in Seq(Range(fs)) /\ Len(g) = k /\ \A i \in 1 .. k : g[i].bin = b
            /\ functions'[c] = functions[c] \o g
        BY <1>6, <2>1, <3>1 DEF IInv, TypeOK
      <3>3. QED
        BY <1>0, <1>1, <1>2, <1>3, <3>2, AppendedHosts
    <2>2. CASE functions' = functions
      BY <1>3, <2>2, SameHosts DEF LookupInv
    <2>3. QED
      BY <1>3, <2>1, <2>2
  <1>9. QED
    BY <1>0, <1>2, <1>3, <1>4, <1>7, <1>8, AddingStep

LEMMA ConstructLookup ==
  ASSUME IInv, KernelInv, LookupInv, NEW u \in Users, NEW b \in FatBins, Construct(u, b)
  PROVE  LookupInv'
  <1>1. /\ pc[u] = "idle" /\ ~Constructing(u[1]) /\ Enter(u, CallOf("fatbin", b, b))
        /\ todo' = [todo EXCEPT ![u] = Constructor(b)]
        /\ UNCHANGED <<functions, missed, failed>>
    BY DEF Construct
  <1>2. PICK l : pc' = [pc EXCEPT ![u] = l]
    BY DEF Construct, FlushAndContinue, Flush, Goto
  <1>3. PICK c \in Clients, t \in Threads : u = <<c, t>> /\ c = u[1]
    BY DEF Users
  <1>4. CallOf("fatbin", b, b) \in Call
    BY DEF CallOf, Call
  <1>5. /\ StillEnded /\ stub'[u] = CallOf("fatbin", b, b)
        /\ \A v \in Users \ {u} : stub'[v] = stub[v]
    BY <1>1, <1>4, OneMoreCall
  <1>6. todo[u] = <<>>
    BY <1>1, <1>3 DEF Constructing
  <1>7. \A v \in Users \ {u} : pc'[v] = pc[v] /\ todo'[v] = todo[v]
    BY <1>1, <1>2 DEF IInv, TypeOK
  <1>8. HostOf(c)'
    BY <1>1, <1>6, <1>7 DEF LookupInv, HostOf
  <1>9. LaunchOf(u)'
    BY <1>5 DEF LaunchOf, CallOf
  <1>10. LaunchFindsKernel'
    BY <1>1, SameMissed DEF LookupInv
  <1>11. QED
    BY <1>1, <1>3, <1>5, <1>7, <1>8, <1>9, <1>10, StubsTyped, LookupStep

LEMMA StartLaunchLookup ==
  ASSUME IInv, KernelInv, LookupInv, NEW u \in Users, NEW b \in FatBins,
         NEW k \in ToSet(Kernels[b]), StartLaunch(u, b, k)
  PROVE  LookupInv'
  <1> DEFINE x == CallOf("launch", k, b)
  <1>1. /\ Loaded(u[1], b) /\ Enter(u, x) /\ pc' = [pc EXCEPT ![u] = "conn"]
        /\ UNCHANGED <<functions, todo, missed, failed>> /\ u[1] \in Clients
    BY UserClient DEF StartLaunch, Connect, Goto, parsed
  <1>2. x \in Call /\ x.of = k /\ x.bin = b
    BY DEF CallOf, Call, AllKernels
  <1> HIDE DEF x
  <1>3. /\ StillEnded /\ stub'[u] = x
        /\ \A v \in Users \ {u} : stub'[v] = stub[v] /\ pc'[v] = pc[v]
    BY <1>1, <1>2, OneMoreCall DEF IInv, TypeOK
  <1>4. Ended(u[1], b)
    BY <1>1, LoadedEnded DEF Loaded
  <1>5. LaunchOf(u)'
    BY <1>1, <1>2, <1>3, <1>4 DEF LaunchOf, StillEnded
  <1>6. HostOf(u[1])'
    BY <1>1, SameHosts DEF LookupInv
  <1>7. LaunchFindsKernel'
    BY <1>1, SameMissed DEF LookupInv
  <1>8. QED
    BY <1>1, <1>3, <1>5, <1>6, <1>7, StubsTyped, LookupStep

\* The kernels of one name are one kernel: setting its host function for all of
\* that name loses no other's.
LEMMA RegisterSymbolLookup ==
  ASSUME DistinctNames, IInv, KernelInv, LookupInv, NEW u \in Users, RegisterSymbol(u)
  PROVE  LookupInv'
  <1>0. PICK c \in Clients : c = u[1]
    BY UserClient
  <1> DEFINE x == Head(todo[u])
  <1>1. /\ pc[u] = "idle" /\ todo[u] # <<>> /\ Enter(u, x)
        /\ todo' = [todo EXCEPT ![u] = Tail(@)]
        /\ functions' = IF x.op = "function" THEN [functions EXCEPT ![c] = WithHost(@, x.of)]
                        ELSE functions
        /\ UNCHANGED <<missed, failed>> /\ c \in Clients
    BY <1>0 DEF RegisterSymbol
  <1>2. pc' = pc \/ pc' = [pc EXCEPT ![u] = "conn"]
    BY DEF RegisterSymbol, Connect, Goto
  <1>3. /\ todo[u][1] = x /\ Len(todo[u]) \in Nat /\ x \in Call /\ x.op \in Registrations
        /\ stub'[u] = x
        /\ \A v \in Users \ {u} : todo'[v] = todo[v] /\ stub'[v] = stub[v]
        /\ Len(todo'[u]) = Len(todo[u]) - 1
        /\ \A i \in 1 .. Len(todo'[u]) : todo'[u][i] = todo[u][i + 1]
    BY <1>1, NextCall
  <1>4. \A v \in Users \ {u} : pc'[v] = pc[v]
    BY <1>2 DEF IInv, TypeOK
  <1>5. StillEnded
    BY <1>1, <1>3, OneMoreCall
  <1>6. \A d \in Clients \ {c} : functions'[d] = functions[d]
    BY <1>1 DEF IInv, TypeOK
  <1>7. x.op = "function" => x.of \in AllKernels
    BY <1>1, NextOfConstructor
  <1> HIDE DEF x
  <1>8. ASSUME NEW v \in Users, NEW i \in 1 .. Len(todo[v])
        PROVE  \/ \E j \in 1 .. Len(todo'[v]) : todo'[v][j] = todo[v][i]
               \/ v = u /\ todo[v][i] = x
    <2>1. CASE v # u
      BY <1>3, <2>1
    <2>2. CASE v = u /\ i = 1
      BY <1>3, <2>2
    <2>3. CASE v = u /\ i # 1
      <3>1. i - 1 \in 1 .. Len(todo'[u]) /\ (i - 1) + 1 = i
        BY <1>3, <2>3
      <3>2. QED
        BY <1>3, <2>3, <3>1
    <2>4. QED
      BY <2>1, <2>2, <2>3
  <1>9. ASSUME NEW i \in DOMAIN functions[c],
               NEW k \in ToSet(Kernels[functions[c][i].bin]),
               functions[c][i].name = NameOf[k]
        PROVE  \/ functions[c][i].host = k
               \/ x = CallOf("function", k, functions[c][i].bin)
               \/ \E v \in Users : /\ v[1] = c
                                   /\ \E j \in 1 .. Len(todo'[v]) :
                                        todo'[v][j] = CallOf("function", k, functions[c][i].bin)
    <2>1. CASE functions[c][i].host = k
      BY <2>1
    <2>2. CASE \E v \in Users : /\ v[1] = c
                                /\ \E j \in 1 .. Len(todo[v]) :
                                     todo[v][j] = CallOf("function", k, functions[c][i].bin)
      <3>1. PICK v \in Users : /\ v[1] = c
                               /\ \E j \in 1 .. Len(todo[v]) :
                                    todo[v][j] = CallOf("function", k, functions[c][i].bin)
        BY <2>2
      <3>2. PICK j \in 1 .. Len(todo[v]) :
                    todo[v][j] = CallOf("function", k, functions[c][i].bin)
        BY <3>1
      <3>3. QED
        BY <1>8, <3>1, <3>2
    <2>3. QED
      BY <1>1, <1>9, <2>1, <2>2 DEF LookupInv, HostOf
  <1>10. HostOf(c)'
    <2>1. CASE x.op # "function"
      <3>1. functions' = functions
        BY <1>1, <2>1
      <3>2. \A k, b : x # CallOf("function", k, b)
        BY <2>1 DEF CallOf
      <3>3. QED
        BY <1>9, <3>1, <3>2 DEF HostOf
    <2>2. CASE x.op = "function"
      <3>1. PICK h : h = x.of
        OBVIOUS
      <3>2. functions' = [functions EXCEPT ![c] = WithHost(@, h)]
        BY <1>1, <2>2, <3>1
      <3>3. /\ \A d \in Clients \ {c} : functions'[d] = functions[d]
            /\ DOMAIN functions'[c] = DOMAIN functions[c]
            /\ Len(functions'[c]) = Len(functions[c])
            /\ \A i \in DOMAIN functions[c] :
                 /\ functions'[c][i].name = functions[c][i].name
                 /\ functions'[c][i].bin = functions[c][i].bin
                 /\ functions'[c][i].host = IF functions[c][i].name = NameOf[h] THEN h
                                            ELSE functions[c][i].host
        <4>1. HostsOf(c, h)
          BY <1>1, <3>2, HostsSet
        <4>2. QED
          BY <4>1 DEF HostsOf
      <3>4. h \in AllKernels /\ \A k, b : x = CallOf("function", k, b) => k = h
        BY <1>7, <2>2, <3>1 DEF CallOf
      <3>5. ASSUME NEW i \in DOMAIN functions[c],
                   NEW k \in ToSet(Kernels[functions[c][i].bin]),
                   functions[c][i].name = NameOf[k]
            PROVE  \/ functions'[c][i].host = k
                   \/ \E v \in Users : /\ v[1] = c
                                       /\ \E j \in 1 .. Len(todo'[v]) :
                                            todo'[v][j]
                                              = CallOf("function", k, functions[c][i].bin)
        <4>1. k \in AllKernels
          BY <1>1, FunctionsTyped DEF AllKernels
        <4>2. NameOf[k] = NameOf[h] => k = h
          BY <3>4, <4>1 DEF DistinctNames
        <4>3. CASE functions[c][i].name = NameOf[h]
          BY <3>3, <3>5, <4>2, <4>3
        <4>4. CASE functions[c][i].name # NameOf[h]
          BY <1>9, <3>3, <3>4, <3>5, <4>4
        <4>5. QED
          BY <4>3, <4>4
      <3>6. QED
        BY <3>3, <3>5 DEF HostOf
    <2>3. QED
      BY <2>1, <2>2
  <1>11. LaunchOf(u)'
    BY <1>3 DEF LaunchOf, Registrations
  <1>12. LaunchFindsKernel'
    BY <1>1, SameMissed DEF LookupInv
  <1>13. QED
    BY <1>0, <1>3, <1>4, <1>5, <1>6, <1>10, <1>11, <1>12, StubsTyped, LookupStep

LEMMA RegisterEndLookup ==
  ASSUME IInv, KernelInv, LookupInv, NEW u \in Users, RegisterEnd(u)
  PROVE  LookupInv'
  <1>0. PICK c \in Clients : c = u[1]
    BY UserClient
  <1> DEFINE x == Head(todo[u])
  <1>1. /\ pc[u] = "idle" /\ todo[u] # <<>> /\ x.op = "end" /\ Enter(u, x)
        /\ todo' = [todo EXCEPT ![u] = Tail(@)]
        /\ UNCHANGED <<functions, missed, failed>>
    BY DEF RegisterEnd, parsed
  <1>2. PICK l : pc' = [pc EXCEPT ![u] = l]
    BY DEF RegisterEnd, Goto
  <1>3. /\ todo[u][1] = x /\ 1 \in 1 .. Len(todo[u]) /\ Len(todo[u]) \in Nat /\ x \in Call
        /\ stub'[u] = x
        /\ \A v \in Users \ {u} : todo'[v] = todo[v] /\ stub'[v] = stub[v]
    BY <1>1, NextCall
  <1>4. \A v \in Users \ {u} : pc'[v] = pc[v]
    BY <1>2 DEF IInv, TypeOK
  <1>5. StillEnded
    BY <1>1, <1>3, OneMoreCall
  <1>6. \A j \in 1 .. Len(todo[u]) : todo[u][j].op = "end"
    <2>1. \A j \in 1 .. Len(todo[u]) : todo[u][j].op = "end" <=> j = Len(todo[u])
      BY DEF KernelInv, CodeOf
    <2>2. Len(todo[u]) = 1
      BY <1>1, <1>3, <2>1
    <2>3. QED
      BY <2>1, <2>2
  <1>7. \A j \in 1 .. Len(todo[u]) : \A k, b : todo[u][j] # CallOf("function", k, b)
    BY <1>6 DEF CallOf
  <1>8. HostOf(c)'
    BY <1>1, <1>3, <1>7 DEF LookupInv, HostOf
  <1>9. LaunchOf(u)'
    BY <1>1, <1>3 DEF LaunchOf
  <1>10. LaunchFindsKernel'
    BY <1>1, SameMissed DEF LookupInv
  <1>11. QED
    BY <1>0, <1>1, <1>3, <1>4, <1>5, <1>8, <1>9, <1>10, StubsTyped, LookupStep

LEMMA RestartLookup ==
  ASSUME IInv, LookupInv, NEW C \in SUBSET Clients, Started(C), UNCHANGED failed
  PROVE  LookupInv'
  <1>1. \A u \in Users : IF u[1] \in C THEN pc'[u] = "idle" /\ todo'[u] = <<>>
                         ELSE /\ pc'[u] = pc[u] /\ todo'[u] = todo[u]
                              /\ stub'[u] = stub[u]
    BY DEF Started
  <1>2. \A c \in Clients : IF c \in C THEN functions'[c] = <<>> /\ missed'[c] = {}
                           ELSE /\ functions'[c] = functions[c] /\ missed'[c] = missed[c]
                                /\ called'[c] = called[c]
    BY DEF Started
  <1>3. ASSUME NEW c \in Clients PROVE HostOf(c)'
    <2>1. CASE c \in C
      BY <1>2, <2>1 DEF HostOf
    <2>2. CASE c \notin C
      BY <1>1, <1>2, <2>2, SameHosts DEF LookupInv
    <2>3. QED
      BY <2>1, <2>2
  <1>4. ASSUME NEW u \in Users PROVE LaunchOf(u)'
    <2>1. LaunchOf(u) /\ u[1] \in Clients
      BY UserClient DEF LookupInv
    <2>2. CASE u[1] \in C
      BY <1>1, <2>2 DEF LaunchOf
    <2>3. CASE u[1] \notin C
      BY <1>1, <1>2, <2>1, <2>3 DEF LaunchOf, Ended
    <2>4. QED
      BY <2>2, <2>3
  <1>5. LaunchFindsKernel'
    BY <1>2 DEF LookupInv, LaunchFindsKernel
  <1>6. QED
    BY <1>3, <1>4, <1>5 DEF LookupInv

LEMMA InitLookup == Init => LookupInv
  BY DEF Init, LookupInv, HostOf, LaunchOf, LaunchFindsKernel

LEMMA NextLookup ==
  ASSUME DistinctNames
  PROVE  IInv /\ KernelInv /\ LookupInv /\ [Next]_vars => LookupInv'
  <1> SUFFICES ASSUME IInv, KernelInv, LookupInv, [Next]_vars PROVE LookupInv'
    OBVIOUS
  <1>1. ASSUME NEW u \in Users, Progress(u) PROVE LookupInv'
    BY <1>1, PassiveLookup, LoadHitLookup, ParseLookup, RegisterSymbolLookup,
       RegisterEndLookup, LaunchLookup DEF Progress
  <1>2. ASSUME NEW u \in Users, NEW b \in FatBins, Construct(u, b) PROVE LookupInv'
    BY <1>2, ConstructLookup
  <1>3. ASSUME NEW u \in Users, NEW b \in FatBins, NEW k \in ToSet(Kernels[b]),
               StartLaunch(u, b, k)
        PROVE  LookupInv'
    BY <1>3, StartLaunchLookup
  <1>4. ASSUME NEW c \in Clients, ClientRestart(c) PROVE LookupInv'
    BY <1>4, RestartLookup DEF ClientRestart
  <1>5. CASE ServerRestart
    BY <1>5, RestartLookup DEF ServerRestart
  <1>6. CASE UNCHANGED vars
    <2>1. UNCHANGED <<pc, stub, todo, functions, called, missed, failed>>
      BY <1>6 DEF vars, thread, parsed, history
    <2>2. QED
      BY <2>1 DEF LookupInv, HostOf, LaunchOf, Ended, LaunchFindsKernel
  <1>7. QED
    BY <1>1, <1>2, <1>3, <1>4, <1>5, <1>6 DEF Next

\* An entry of the client's table has the host function of the kernel it names, or
\* the constructor that made it is about to enter it; and a kernel is launched only
\* by a client that has loaded its library (manual_client.cpp:513-519, 944-946).
THEOREM LookupInvariance ==
  ASSUME DistinctNames
  PROVE  Spec => []LookupInv
  <1>1. IInv /\ KernelInv /\ LookupInv /\ [Next]_vars => LookupInv'
    BY NextLookup
  <1>2. QED
    BY <1>1, InitLookup, Invariance, KernelInvariance, PTL DEF Spec

\* A launch of a kernel of a library that is loaded finds it, if kernels have
\* names of their own and unless its PTX was not decompressed: no launch returns
\* with the connection still locked (manual_client.cpp:161, 513-519, 944-946).
THEOREM LaunchesFindKernels ==
  ASSUME DistinctNames
  PROVE  Spec => []LaunchFindsKernel
  <1>1. LookupInv => LaunchFindsKernel
    BY DEF LookupInv
  <1>2. QED
    BY <1>1, LookupInvariance, PTL
=============================================================================
