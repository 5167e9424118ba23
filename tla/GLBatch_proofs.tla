--------------------------- MODULE GLBatch_proofs ---------------------------
(***************************************************************************)
(* What the server executes of the commands of GLBatch, for any number of  *)
(* threads, calls and commands, and any capacity.                          *)
(*                                                                         *)
(* A command is a frame of the buffer: it starts with its id, and what     *)
(* follows its arguments is the next frame, until one does not fit.        *)
(***************************************************************************)
EXTENDS GLBatch, FiniteSetTheorems, TLAPS

-----------------------------------------------------------------------------
(* Types.                                                                  *)

Labels == {"idle", "append", "init", "first", "write", "flush", "send",
           "request", "wait"}
Byte == [of : Nat, part : {FuncID, ArgSize, ArgData}, k : Nat]
Batch == [type : {"batch"}, count : 0 .. MaxCalls, body : Seq(Byte),
          calls : SUBSET (1 .. Len(calls))]
Request == [type : {"sync"}, call : 1 .. Len(calls)]

TypeInv ==
  /\ allocated \in BOOLEAN /\ up \in BOOLEAN
  /\ full \in BOOLEAN /\ raced \in BOOLEAN
  /\ buffer \in Seq(Byte) /\ Size(buffer) <= MaxCapacity
  /\ cmd_count \in Nat
  /\ arg_size_offset = 0 \/ arg_size_offset \in CountSize .. MaxCapacity
  /\ connection \in {"unopened", "valid", "none"}
  /\ pc \in [Threads -> Labels]
  /\ call \in [Threads -> 0 .. Len(calls)]
  /\ args \in [Threads -> Nat]
  /\ calls \in Seq([by : Threads, func : Commands \cup {Sync}])
  /\ Len(calls) <= MaxCalls
  /\ copy \in [Threads -> Batch \cup {<<>>}]
  /\ wire \in Seq(Batch \cup Request)
  /\ payload \in Seq(Byte) /\ at \in 0 .. Len(payload) /\ left \in 0 .. MaxCalls
  /\ batched \in SUBSET (1 .. Len(calls)) /\ lost \in SUBSET (1 .. Len(calls))
  /\ harmed \in SUBSET (1 .. Len(calls)) /\ overtaken \in SUBSET (1 .. Len(calls))

\* A call of a command that is not in the buffer yet.
Unwritten(t) == pc[t] \in {"append", "init", "first"}

\* A thread is in the last call it made, and writes the arguments of a command.
CallInv ==
  /\ \A i \in DOMAIN calls : i <= call[calls[i].by]
  /\ \A t \in Threads :
       /\ call[t] # 0 => calls[call[t]].by = t
       /\ pc[t] # "idle" => call[t] # 0
       /\ pc[t] = "send" => copy[t] # <<>>
       /\ Unwritten(t) \/ pc[t] = "write" => calls[call[t]].func \in Commands
       /\ pc[t] \in {"flush", "send", "request"} => calls[call[t]].func = Sync
       /\ Unwritten(t) => args[t] = 0
       /\ pc[t] = "write" => args[t] < NumArgs(call[t])
  /\ \A k \in DOMAIN wire :
       wire[k].type = "sync" => calls[wire[k].call].func = Sync

\* As many commands are counted as were begun.
CountInv ==
  /\ FinalizedCount <= Cardinality(batched)
  /\ \A t \in Threads : Unwritten(t) => call[t] \notin batched

-----------------------------------------------------------------------------
(* Frames.                                                                 *)

IsId(x) == x.part = FuncID /\ x.k = 1
Frames(b) == {s \in 0 .. Len(b) - 2 * FieldSize : IsId(b[s + 1])}
CallAt(b, s) == b[s + 1].of
SizeAt(b, s) == b[s + FieldSize + 1].of
After(b, s) == s + 2 * FieldSize + SizeAt(b, s)
Rest(b, from) == {s \in Frames(b) : s >= from}
Ids(b, from) == {CallAt(b, s) : s \in Rest(b, from)}

\* How much of a call's arguments has been written.
Total(i) == ArgEnd(i, NumArgs(i))
Writing(i) == pc[calls[i].by] = "write" /\ call[calls[i].by] = i
Written(i) == IF Writing(i) THEN ArgEnd(i, args[calls[i].by]) ELSE Total(i)

Header(b, s) ==
  /\ CallAt(b, s) \in DOMAIN calls
  /\ calls[CallAt(b, s)].func \in Commands
  /\ SizeAt(b, s) \in 0 .. MaxArgSize
  /\ \A k \in 1 .. FieldSize :
       /\ b[s + k] = [of |-> CallAt(b, s), part |-> FuncID, k |-> k]
       /\ b[s + FieldSize + k] = [of |-> SizeAt(b, s), part |-> ArgSize, k |-> k]
  /\ After(b, s) <= Len(b)

\* A command has its own arguments, or some of them did not fit, unless another
\* thread came in between.
Content(b, s) ==
  LET c == CallAt(b, s)
      n == SizeAt(b, s)
  IN  \/ c \in harmed
      \/ c \in lost /\ n < Written(c)
      \/ /\ n = Written(c)
         /\ \A k \in 1 .. n :
              b[s + 2 * FieldSize + k] = [of |-> c, part |-> ArgData, k |-> k]
Settled(b, s) == CallAt(b, s) \in harmed \/ ~Writing(CallAt(b, s))

\* Calls of one thread are in order.
InOrder(i, j) == calls[i].by = calls[j].by => i < j
Follows(b, s) ==
  \A r \in Frames(b) :
    r > s => r >= After(b, s) /\ InOrder(CallAt(b, s), CallAt(b, r))

\* A frame begins here, or there is no room for one.
FrameOrEnd(b, from) == from \in Frames(b) \/ from > Len(b) - 2 * FieldSize
Framed(b, from) ==
  /\ FrameOrEnd(b, from)
  /\ \A s \in Rest(b, from) :
       /\ Header(b, s) /\ Content(b, s) /\ Follows(b, s)
       /\ FrameOrEnd(b, After(b, s))

\* A batch on its way.
BatchInv(m) ==
  /\ Framed(m.body, 0)
  /\ \A s \in Frames(m.body) : Settled(m.body, s)
  /\ Cardinality(Frames(m.body)) <= m.count
  /\ Ids(m.body, 0) \subseteq m.calls
PayloadInv ==
  /\ Framed(payload, at)
  /\ \A s \in Rest(payload, at) : Settled(payload, s)
  /\ Cardinality(Rest(payload, at)) <= left
MessageInv ==
  /\ \A k \in DOMAIN wire : wire[k].type = "batch" => BatchInv(wire[k])
  /\ \A t \in Threads : pc[t] = "send" => BatchInv(copy[t])

-----------------------------------------------------------------------------
(* The buffer, as it would be sent.                                        *)

OpenAt == arg_size_offset - CountSize - FieldSize

\* Nothing of a command fits there any more.
NoRoom(p) == CountSize + p + 2 * FieldSize > MaxCapacity

\* The bytes that were written into the open command are different ones: of each
\* thread, the arguments of one call.
OpenBytes(b) ==
  /\ \A p \in OpenAt + 2 * FieldSize + 1 .. Len(b) :
       LET i == b[p].of
           t == calls[i].by
       IN  /\ i \in DOMAIN calls /\ calls[i].func \in Commands
           /\ b[p].part = ArgData /\ b[p].k \in 1 .. Total(i)
           /\ pc[t] = "write" => i = call[t] /\ b[p].k <= ArgEnd(i, args[t])
  /\ \A p, q \in OpenAt + 2 * FieldSize + 1 .. Len(b) :
       p # q /\ calls[b[p].of].by = calls[b[q].of].by =>
         b[p].of = b[q].of /\ b[p].k # b[q].k

OpenFrame(b) ==
  /\ OpenAt \in Frames(b)
  /\ After(b, OpenAt) = Len(b)
  /\ OpenBytes(b)
  /\ \A t \in Threads :
       pc[t] = "write" => call[t] = CallAt(b, OpenAt) \/ CallAt(b, OpenAt) \in harmed

\* The open command did not fit: its size is written past the last frame.
Overflow(b) ==
  /\ full
  /\ NoRoom(OpenAt)
  /\ arg_size_offset <= Size(b)
  /\ \A s \in Frames(b) : After(b, s) <= OpenAt + FieldSize

\* Every id in the buffer begins a frame, but for one at the end.
OpenInv(b) ==
  /\ Framed(b, 0)
  /\ 0 \in Frames(b) \/ NoRoom(0)
  /\ \A s \in Frames(b) \ {OpenAt} :
       /\ Settled(b, s)
       /\ After(b, s) \in Frames(b) \/ NoRoom(After(b, s))
       /\ s < OpenAt
  /\ \A p \in DOMAIN b : IsId(b[p]) => p - 1 \in Frames(b) \/ NoRoom(p - 1)
  /\ Cardinality(Frames(b)) <= FinalizedCount
  /\ Ids(b, 0) \subseteq batched
  /\ OpenFrame(b) \/ Overflow(b)
BufferInv ==
  IF arg_size_offset = 0
    THEN buffer = <<>> /\ cmd_count = 0 /\ batched = {} /\ ~full
    ELSE OpenInv(Finalized)

-----------------------------------------------------------------------------
(* Where the calls are.                                                    *)

Executed == {executed[k].call : k \in DOMAIN executed}
Carried(m) == IF m.type = "batch" THEN Ids(m.body, 0) ELSE {m.call}
Stages == 0 .. Len(wire) + 1
Stage(n) == IF n = 0 THEN Executed
            ELSE IF n = 1 THEN Ids(payload, at)
            ELSE Carried(wire[n - 1])
Copied(t) == IF pc[t] = "send" THEN Ids(copy[t].body, 0) ELSE {}
InBuffer == Ids(Finalized, 0)
Located(i) == \/ \E n \in Stages : i \in Stage(n)
              \/ \E t \in Threads : i \in Copied(t)
              \/ i \in InBuffer
Exempt == lost \cup harmed \cup overtaken

\* Calls whose places are one after the other, and how calls are ordered.
Earlier(i, j) ==
  \/ \E m, n \in Stages : m < n /\ i \in Stage(m) /\ j \in Stage(n)
  \/ \E n \in Stages, t \in Threads : i \in Stage(n) /\ j \in Copied(t)
  \/ \E n \in Stages : i \in Stage(n) /\ j \in InBuffer
  \/ \E t \in Threads : i \in Copied(t) /\ j \in InBuffer
Ordered(i, j) == i # j /\ (j \in Exempt \/ InOrder(i, j))

\* A call that is in none of these places.
Pending(t) == Unwritten(t) \/ pc[t] \in {"flush", "send", "request"}

PlaceInv ==
  /\ \A i, j \in DOMAIN calls : Earlier(i, j) => Ordered(i, j)
  /\ \A t, u \in Threads : t # u => Copied(t) \cap Copied(u) = {}
  /\ \A n \in Stages : Stage(n) \subseteq DOMAIN calls
  /\ \A t \in Threads : Copied(t) \subseteq DOMAIN calls
  /\ InBuffer \subseteq DOMAIN calls
  /\ \A t \in Threads : Pending(t) => ~Located(call[t])
  /\ \A t \in Threads, i \in InBuffer :
       pc[t] \in {"send", "request", "wait"} => calls[i].by # t
CoverInv ==
  \A i \in DOMAIN calls :
    \/ i \in Exempt \/ Located(i)
    \/ i = call[calls[i].by] /\ pc[calls[i].by] \notin {"idle", "write"}

FramingInv == ~raced => /\ executed \in Seq([call : 1 .. Len(calls), args : Seq(Byte)])
                        /\ BufferInv /\ PayloadInv /\ MessageInv
                        /\ PlaceInv /\ CoverInv
                        /\ OwnArguments /\ ProgramOrder

IInv == TypeInv /\ CallInv /\ CountInv /\ FramingInv

\* All that the threads can write into one command has a size: the stubs of
\* gen_gl_client.cpp that append a command write numbers, and few.
ThreadsWrite(m) == Cardinality(Threads) * m
ArgumentsFit ==
  /\ IsFiniteSet(Threads)
  /\ \E m \in 0 .. MaxArgSize :
       /\ \A f \in Commands : \A j \in DOMAIN ArgEnds[f] : ArgEnds[f][j] <= m
       /\ ThreadsWrite(m) <= MaxArgSize

-----------------------------------------------------------------------------
(* Sequences of bytes.                                                     *)

\* Bytes(of, part, n) has n bytes.
LEMMA BytesType ==
  ASSUME NEW of \in Nat, NEW part \in {FuncID, ArgSize, ArgData}, NEW n \in Nat
  PROVE  /\ Bytes(of, part, n) \in Seq(Byte)
         /\ Len(Bytes(of, part, n)) = n
         /\ \A k \in 1 .. n : Bytes(of, part, n)[k] = [of |-> of, part |-> part, k |-> k]
<1>1. \A k \in 1 .. n : [of |-> of, part |-> part, k |-> k] \in Byte
  BY DEF Byte
<1>. QED  BY <1>1 DEF Bytes

\* A part of a sequence.
LEMMA SubSeqFacts ==
  ASSUME NEW S, NEW b \in Seq(S), NEW m \in Nat, NEW n \in Nat,
         m <= n, n <= Len(b)
  PROVE  /\ SubSeq(b, m + 1, n) \in Seq(S)
         /\ Len(SubSeq(b, m + 1, n)) = n - m
         /\ \A k \in 1 .. n - m : SubSeq(b, m + 1, n)[k] = b[m + k]
<1>1. \A k \in 1 .. n - m : SubSeq(b, m + 1, n)[k] = b[m + k]
  <2>. TAKE k \in 1 .. n - m
  <2>1. SubSeq(b, m + 1, n) = [i \in 1 .. (n - (m + 1)) + 1 |-> b[(i + (m + 1)) - 1]]
    OBVIOUS
  <2>2. k \in 1 .. (n - (m + 1)) + 1 /\ (k + (m + 1)) - 1 = m + k
    OBVIOUS
  <2>. QED  BY <2>1, <2>2
<1>. QED  BY <1>1

\* The arguments of a command end one after the other.
LEMMA EndFacts ==
  ASSUME calls \in Seq([by : Threads, func : Commands \cup {Sync}]),
         NEW i \in DOMAIN calls, calls[i].func \in Commands
  PROVE  /\ NumArgs(i) \in Nat
         /\ \A j \in 0 .. NumArgs(i) : ArgEnd(i, j) \in Nat
         /\ \A j, k \in 0 .. NumArgs(i) : j < k => ArgEnd(i, j) < ArgEnd(i, k)
         /\ Total(i) \in Nat
         /\ \A j \in 0 .. NumArgs(i) : ArgEnd(i, j) <= Total(i)
<1> DEFINE ends == ArgEnds[calls[i].func]
<1>1. ends \in Seq(Nat \ {0})
  BY ConstantsAssumption
<1>2. /\ NumArgs(i) = Len(ends) /\ NumArgs(i) \in Nat
      /\ \A j : ArgEnd(i, j) = IF j = 0 THEN 0 ELSE ends[j]
  BY <1>1 DEF NumArgs, ArgEnd
<1>3. \A j, k \in 1 .. Len(ends) : j < k => ends[j] < ends[k]
  BY <1>1, ConstantsAssumption
<1>4. \A j \in 1 .. Len(ends) : ends[j] \in Nat /\ ends[j] > 0
  BY <1>1
<1>. HIDE DEF ends
<1>5. \A j \in 0 .. NumArgs(i) : ArgEnd(i, j) \in Nat
  BY <1>2, <1>4
<1>6. \A j, k \in 0 .. NumArgs(i) : j < k => ArgEnd(i, j) < ArgEnd(i, k)
  BY <1>2, <1>3, <1>4
<1>. QED  BY <1>2, <1>5, <1>6 DEF Total

\* The arguments of a call, and one of them.
LEMMA ArgumentFacts ==
  ASSUME calls \in Seq([by : Threads, func : Commands \cup {Sync}]),
         NEW i \in DOMAIN calls, calls[i].func \in Commands,
         NEW j \in 1 .. NumArgs(i)
  PROVE  /\ Argument(i, j) \in Seq(Byte)
         /\ Len(Argument(i, j)) = ArgEnd(i, j) - ArgEnd(i, j - 1)
         /\ Len(Argument(i, j)) \in Nat \ {0}
         /\ \A k \in 1 .. Len(Argument(i, j)) :
              Argument(i, j)[k] = [of |-> i, part |-> ArgData, k |-> ArgEnd(i, j - 1) + k]
<1>1. NumArgs(i) \in Nat /\ j - 1 \in 0 .. NumArgs(i) /\ j \in 0 .. NumArgs(i)
  BY EndFacts
<1>. PICK e \in Nat : e = ArgEnd(i, j - 1)
  BY <1>1, EndFacts
<1>. PICK g \in Nat : g = ArgEnd(i, j)
  BY <1>1, EndFacts
<1>. PICK n \in Nat : n = Total(i)
  BY EndFacts
<1>2. e < g /\ g <= n
  BY <1>1, EndFacts
<1>3. PICK b \in Seq(Byte) :
        /\ b = Arguments(i) /\ Len(b) = n
        /\ \A k \in 1 .. n : b[k] = [of |-> i, part |-> ArgData, k |-> k]
  <2>1. i \in Nat
    OBVIOUS
  <2>. QED  BY <2>1, BytesType DEF Arguments, Total
<1>4. Argument(i, j) = SubSeq(b, e + 1, g)
  BY <1>3 DEF Argument
<1>5. /\ SubSeq(b, e + 1, g) \in Seq(Byte) /\ Len(SubSeq(b, e + 1, g)) = g - e
      /\ \A k \in 1 .. g - e : SubSeq(b, e + 1, g)[k] = b[e + k]
  <2>1. e <= g /\ g <= Len(b)
    BY <1>2, <1>3
  <2>. QED  BY <2>1, SubSeqFacts, SMTT(20)
<1>6. \A k \in 1 .. g - e :
        SubSeq(b, e + 1, g)[k] = [of |-> i, part |-> ArgData, k |-> e + k]
  <2>1. \A k \in 1 .. g - e : e + k \in 1 .. n
    BY <1>2, SMTT(20)
  <2>. QED  BY <2>1, <1>3, <1>5
<1>7. g - e \in Nat \ {0}
  BY <1>2
<1>. QED  BY <1>4, <1>5, <1>6, <1>7

\* A write is made as a whole or not at all.
LEMMA RawWriteFacts ==
  ASSUME NEW b \in Seq(Byte), Size(b) <= MaxCapacity, NEW x \in Seq(Byte)
  PROVE  /\ RawWrite(b, x) \in Seq(Byte)
         /\ Size(RawWrite(b, x)) <= MaxCapacity
         /\ Fits(b, Len(x)) => /\ Len(RawWrite(b, x)) = Len(b) + Len(x)
                               /\ \A p \in 1 .. Len(b) : RawWrite(b, x)[p] = b[p]
                               /\ \A p \in 1 .. Len(x) : RawWrite(b, x)[Len(b) + p] = x[p]
         /\ ~Fits(b, Len(x)) => RawWrite(b, x) = b
BY ConstantsAssumption DEF RawWrite, Fits, Size, CountSize

\* A patch changes no length.
LEMMA PatchedFacts ==
  ASSUME NEW b \in Seq(Byte), NEW x \in Seq(Byte), NEW off \in Int
  PROVE  /\ Patched(b, off, x) \in Seq(Byte)
         /\ Len(Patched(b, off, x)) = Len(b)
         /\ \A p \in 1 .. Len(b) :
              Patched(b, off, x)[p] = IF CountSize + p - off \in 1 .. Len(x)
                                      THEN x[CountSize + p - off] ELSE b[p]
<1>1. Len(b) \in Nat /\ DOMAIN b = 1 .. Len(b) /\ DOMAIN x = 1 .. Len(x)
  OBVIOUS
<1>2. \A p \in 1 .. Len(b) : Patched(b, off, x)[p] \in Byte
  BY <1>1 DEF Patched, CountSize
<1>. QED  BY <1>1, <1>2 DEF Patched

\* What is sent is as long as what was written.
LEMMA FinalizedFacts ==
  ASSUME TypeInv
  PROVE  /\ Finalized \in Seq(Byte) /\ Len(Finalized) = Len(buffer)
         /\ ArgDataSize \in 0 .. MaxArgSize
         /\ arg_size_offset = 0 => Finalized = buffer
         /\ arg_size_offset # 0 =>
              \A p \in 1 .. Len(buffer) :
                Finalized[p] = IF p - OpenAt - FieldSize \in 1 .. FieldSize
                               THEN [of |-> ArgDataSize, part |-> ArgSize,
                                     k |-> p - OpenAt - FieldSize]
                               ELSE buffer[p]
<1>1. /\ buffer \in Seq(Byte) /\ Len(buffer) \in Nat /\ arg_size_offset \in Int
      /\ MaxArgSize \in Nat
  BY ConstantsAssumption DEF TypeInv, CountSize
<1>2. ArgDataSize \in 0 .. MaxArgSize
  BY <1>1 DEF ArgDataSize, Size, CountSize, FieldSize
<1>. DEFINE x == Bytes(ArgDataSize, ArgSize, FieldSize)
<1>3. /\ x \in Seq(Byte) /\ Len(x) = FieldSize
      /\ \A k \in 1 .. FieldSize : x[k] = [of |-> ArgDataSize, part |-> ArgSize, k |-> k]
  <2>1. ArgDataSize \in Nat /\ FieldSize \in Nat
    BY <1>1, <1>2 DEF FieldSize
  <2>. QED  BY <2>1, BytesType
<1>. HIDE DEF x
<1>4. CASE arg_size_offset = 0
  BY <1>1, <1>2, <1>4 DEF Finalized
<1>5. CASE arg_size_offset # 0
  <2>1. Finalized = Patched(buffer, arg_size_offset, x)
    BY <1>5 DEF Finalized, x
  <2>2. \A p \in 1 .. Len(buffer) : CountSize + p - arg_size_offset = p - OpenAt - FieldSize
    BY <1>1 DEF OpenAt, CountSize, FieldSize
  <2>3. /\ Finalized \in Seq(Byte) /\ Len(Finalized) = Len(buffer)
        /\ \A p \in 1 .. Len(buffer) :
             Finalized[p] = IF CountSize + p - arg_size_offset \in 1 .. Len(x)
                            THEN x[CountSize + p - arg_size_offset] ELSE buffer[p]
    BY <1>1, <1>3, <2>1, PatchedFacts
  <2>. QED  BY <1>2, <1>3, <1>5, <2>2, <2>3
<1>. QED  BY <1>4, <1>5

-----------------------------------------------------------------------------
(* Types.                                                                  *)

\* TypeInv has the type that the runs check, with CountInv.
LEMMA CountBound ==
  ASSUME TypeInv, CountInv
  PROVE  /\ FinalizedCount \in 0 .. MaxCalls
         /\ cmd_count \in 0 .. MaxCalls
         /\ IsFiniteSet(batched)
<1>1. Len(calls) \in Nat /\ Len(calls) <= MaxCalls /\ MaxCalls \in Nat
  BY ConstantsAssumption DEF TypeInv
<1>2. IsFiniteSet(1 .. Len(calls)) /\ Cardinality(1 .. Len(calls)) = Len(calls)
  <2>1. PICK n \in Nat : n = Len(calls)
    BY <1>1
  <2>2. IsFiniteSet(1 .. n) /\ Cardinality(1 .. n) = IF 1 > n THEN 0 ELSE n - 1 + 1
    BY FS_Interval
  <2>. QED  BY <2>1, <2>2
<1>3. IsFiniteSet(batched) /\ Cardinality(batched) <= Len(calls)
  BY <1>2, FS_Subset DEF TypeInv
<1>4. Cardinality(batched) \in Nat
  BY <1>3, FS_CardinalityType
<1>5. FinalizedCount \in Nat /\ cmd_count \in Nat /\ cmd_count <= FinalizedCount
  BY DEF FinalizedCount, TypeInv
<1>. QED  BY <1>1, <1>3, <1>4, <1>5 DEF CountInv

\* The inductive invariant gives the types.
LEMMA TypesSuffice ==
  ASSUME TypeInv, CountInv
  PROVE  TypeOK
<1>1. Len(calls) \in Nat /\ Len(calls) <= MaxCalls /\ MaxCalls \in Nat
  BY ConstantsAssumption DEF TypeInv
<1>2. call \in [Threads -> 0 .. MaxCalls]
  BY <1>1 DEF TypeInv
<1>. QED  BY <1>2, CountBound DEF TypeOK, TypeInv, Labels

\* What the first steps of a command do to the buffer.
LEMMA HeaderFacts ==
  ASSUME TypeInv, NEW t \in Threads, NEW b \in Seq(Byte), Size(b) <= MaxCapacity,
         WriteHeader(t, b)
  PROVE  /\ buffer' \in Seq(Byte) /\ Size(buffer') <= MaxCapacity
         /\ arg_size_offset' \in CountSize .. MaxCapacity /\ arg_size_offset' # 0
         /\ arg_size_offset' <= Size(buffer')
         /\ Fits(b, 2 * FieldSize) =>
              /\ Len(buffer') = Len(b) + 2 * FieldSize
              /\ arg_size_offset' = CountSize + Len(b) + FieldSize
              /\ \A p \in 1 .. Len(b) : buffer'[p] = b[p]
              /\ \A k \in 1 .. FieldSize :
                   buffer'[Len(b) + k] = [of |-> call[t], part |-> FuncID, k |-> k]
         /\ ~Fits(b, 2 * FieldSize) =>
              /\ arg_size_offset' = Size(buffer')
              /\ \/ buffer' = b /\ ~Fits(b, FieldSize)
                 \/ /\ Len(buffer') = Len(b) + FieldSize
                    /\ \A p \in 1 .. Len(b) : buffer'[p] = b[p]
                    /\ \A k \in 1 .. FieldSize :
                         buffer'[Len(b) + k] = [of |-> call[t], part |-> FuncID, k |-> k]
<1>1. PICK i \in Nat : i = call[t]
  BY DEF TypeInv
<1>2. PICK x \in Seq(Byte) :
        /\ x = Bytes(i, FuncID, FieldSize) /\ Len(x) = FieldSize
        /\ \A k \in 1 .. FieldSize : x[k] = [of |-> i, part |-> FuncID, k |-> k]
  <2>1. FieldSize \in Nat
    BY DEF FieldSize
  <2>. QED  BY <2>1, BytesType
<1>3. PICK y \in Seq(Byte) : y = Bytes(0, ArgSize, FieldSize) /\ Len(y) = FieldSize
  <2>1. FieldSize \in Nat /\ 0 \in Nat
    BY DEF FieldSize
  <2>. QED  BY <2>1, BytesType
<1>4. PICK id \in Seq(Byte) :
        /\ id = RawWrite(b, x) /\ Size(id) <= MaxCapacity
        /\ Fits(b, FieldSize) => /\ Len(id) = Len(b) + FieldSize
                                 /\ \A p \in 1 .. Len(b) : id[p] = b[p]
                                 /\ \A p \in 1 .. FieldSize : id[Len(b) + p] = x[p]
        /\ ~Fits(b, FieldSize) => id = b
  BY <1>2, RawWriteFacts
<1>5. /\ RawWrite(id, y) \in Seq(Byte) /\ Size(RawWrite(id, y)) <= MaxCapacity
      /\ Fits(id, FieldSize) => /\ Len(RawWrite(id, y)) = Len(id) + FieldSize
                                /\ \A p \in 1 .. Len(id) : RawWrite(id, y)[p] = id[p]
      /\ ~Fits(id, FieldSize) => RawWrite(id, y) = id
  BY <1>3, <1>4, RawWriteFacts, ZenonT(30)
<1>6. buffer' = RawWrite(id, y) /\ arg_size_offset' = Size(id)
  BY <1>1, <1>2, <1>3, <1>4 DEF WriteHeader
<1>7. /\ Len(b) \in Nat /\ Len(id) \in Nat /\ MaxCapacity \in Nat
      /\ Fits(b, FieldSize) <=> CountSize + Len(b) + 2 <= MaxCapacity
      /\ Fits(b, 2 * FieldSize) <=> CountSize + Len(b) + 4 <= MaxCapacity
      /\ Fits(id, FieldSize) <=> CountSize + Len(id) + 2 <= MaxCapacity
      /\ Size(id) = 4 + Len(id) /\ CountSize = 4 /\ FieldSize = 2
  BY ConstantsAssumption DEF Fits, Size, FieldSize, CountSize
<1>8. CASE Fits(b, 2 * FieldSize)
  <2>1. Fits(b, FieldSize) /\ Len(id) = Len(b) + 2 /\ Fits(id, FieldSize)
    BY <1>4, <1>7, <1>8
  <2>2. /\ Len(buffer') = Len(b) + 4 /\ Size(buffer') = 4 + Len(buffer')
        /\ \A p \in 1 .. Len(id) : buffer'[p] = id[p]
    BY <1>5, <1>6, <1>7, <2>1 DEF Size
  <2>3. \A p \in 1 .. Len(b) : buffer'[p] = b[p]
    BY <1>4, <1>7, <2>1, <2>2
  <2>4. \A k \in 1 .. FieldSize :
          buffer'[Len(b) + k] = [of |-> call[t], part |-> FuncID, k |-> k]
    <3>. TAKE k \in 1 .. FieldSize
    <3>1. Len(b) + k \in 1 .. Len(id)
      BY <1>7, <2>1
    <3>2. buffer'[Len(b) + k] = id[Len(b) + k]
      BY <2>2, <3>1
    <3>3. id[Len(b) + k] = x[k]
      BY <1>4, <2>1
    <3>. QED  BY <1>1, <1>2, <3>2, <3>3
  <2>. QED  BY <1>4, <1>5, <1>6, <1>7, <1>8, <2>1, <2>2, <2>3, <2>4
<1>9. CASE ~Fits(b, 2 * FieldSize)
  <2>1. ~Fits(id, FieldSize)
    BY <1>4, <1>7, <1>9
  <2>2. buffer' = id
    BY <1>5, <1>6, <2>1
  <2>3. CASE Fits(b, FieldSize)
    BY <1>1, <1>2, <1>4, <1>6, <1>7, <1>9, <2>2, <2>3
  <2>4. CASE ~Fits(b, FieldSize)
    BY <1>4, <1>6, <1>7, <1>9, <2>2, <2>4
  <2>. QED  BY <2>3, <2>4
<1>. QED  BY <1>8, <1>9

\* A sequence over a set is one over a larger set.
LEMMA SeqOfMore ==
  ASSUME NEW S, NEW T, S \subseteq T, NEW s \in Seq(S)
  PROVE  s \in Seq(T)
<1>1. Len(s) \in Nat /\ s \in [1 .. Len(s) -> S]
  OBVIOUS
<1>2. s \in [1 .. Len(s) -> T]
  BY <1>1
<1>. QED  BY <1>1, <1>2

\* An element of a sequence.
LEMMA ElementOf ==
  ASSUME NEW S, NEW s \in Seq(S), NEW i \in DOMAIN s
  PROVE  s[i] \in S
OBVIOUS

\* A new call is the last one.
LEMMA EnterFacts ==
  ASSUME TypeInv, NEW t \in Threads, NEW f \in Commands \cup {Sync}, Enter(t, f)
  PROVE  /\ calls' \in Seq([by : Threads, func : Commands \cup {Sync}])
         /\ Len(calls) \in Nat /\ Len(calls') = Len(calls) + 1 /\ Len(calls') <= MaxCalls
         /\ DOMAIN calls = 1 .. Len(calls) /\ DOMAIN calls' = 1 .. Len(calls) + 1
         /\ \A i \in DOMAIN calls : calls'[i] = calls[i]
         /\ calls'[Len(calls) + 1] = [by |-> t, func |-> f]
         /\ call' \in [Threads -> 0 .. Len(calls')]
         /\ call'[t] = Len(calls) + 1
         /\ \A u \in Threads \ {t} : call'[u] = call[u]
         /\ SUBSET (1 .. Len(calls)) \subseteq SUBSET (1 .. Len(calls'))
         /\ Batch \subseteq Batch' /\ Request \subseteq Request'
<1>1. [by |-> t, func |-> f] \in [by : Threads, func : Commands \cup {Sync}]
  OBVIOUS
<1>2. /\ Len(calls) \in Nat /\ DOMAIN calls = 1 .. Len(calls) /\ MaxCalls \in Nat
      /\ calls \in Seq([by : Threads, func : Commands \cup {Sync}])
      /\ call \in [Threads -> 0 .. Len(calls)]
      /\ Len(calls) < MaxCalls
      /\ calls' = Append(calls, [by |-> t, func |-> f])
      /\ call' = [call EXCEPT ![t] = Len(calls) + 1]
  BY ConstantsAssumption DEF TypeInv, Enter
<1>3. /\ calls' \in Seq([by : Threads, func : Commands \cup {Sync}])
      /\ Len(calls') = Len(calls) + 1
      /\ \A i \in 1 .. Len(calls) : calls'[i] = calls[i]
      /\ calls'[Len(calls) + 1] = [by |-> t, func |-> f]
  BY <1>1, <1>2
<1>4. DOMAIN calls' = 1 .. Len(calls) + 1
  BY <1>2, <1>3
<1>5. call' \in [Threads -> 0 .. Len(calls')]
  BY <1>2, <1>3
<1>6. 1 .. Len(calls) \subseteq 1 .. Len(calls')
  BY <1>2, <1>3
<1>7. Batch \subseteq Batch' /\ Request \subseteq Request'
  BY <1>6 DEF Batch, Request
<1>. QED  BY <1>2, <1>3, <1>4, <1>5, <1>6, <1>7

\* The types after a call has begun.
LEMMA EnterTypes ==
  ASSUME TypeInv, NEW t \in Threads, NEW f \in Commands \cup {Sync}, Enter(t, f),
         UNCHANGED <<bufferVars, connection, copy, up, wire, serverVars, executed,
                     batched, full, lost, harmed, overtaken, raced>>,
         args' \in [Threads -> Nat], pc' \in [Threads -> Labels]
  PROVE  TypeInv'
<1>1. wire \in Seq(Batch' \cup Request')
  <2>1. Batch \cup Request \subseteq Batch' \cup Request' /\ wire \in Seq(Batch \cup Request)
    BY EnterFacts DEF TypeInv
  <2>2. PICK w \in Seq(Batch \cup Request) : w = wire
    BY <2>1
  <2>3. \A S, T : S \subseteq T /\ w \in Seq(S) => w \in Seq(T)
    BY SeqOfMore
  <2>. QED  BY <2>1, <2>2, <2>3
<1>2. copy \in [Threads -> Batch' \cup {<<>>}]
  BY EnterFacts DEF TypeInv
<1>3. /\ batched \in SUBSET (1 .. Len(calls')) /\ lost \in SUBSET (1 .. Len(calls'))
      /\ harmed \in SUBSET (1 .. Len(calls')) /\ overtaken \in SUBSET (1 .. Len(calls'))
  BY EnterFacts DEF TypeInv
<1>. QED  BY <1>1, <1>2, <1>3, EnterFacts DEF TypeInv, bufferVars, serverVars, Size

\* The beginning of a command, for the types.
LEMMA HeaderTypes ==
  ASSUME TypeInv, CallInv, NEW t \in Threads, NEW b \in Seq(Byte), Size(b) <= MaxCapacity,
         WriteHeader(t, b), call[t] # 0,
         cmd_count' \in Nat, raced' \in BOOLEAN
  PROVE  TypeInv'
<1>1. /\ buffer' \in Seq(Byte) /\ Size(buffer') <= MaxCapacity
      /\ arg_size_offset' \in CountSize .. MaxCapacity
  BY HeaderFacts
<1>2. pc' \in [Threads -> Labels]
  BY DEF TypeInv, WriteHeader, Goto, Labels
<1>3. \A u \in Threads : call[u] \in Nat /\ (call[u] # 0 => call[u] \in 1 .. Len(calls))
  BY DEF TypeInv
<1>4. PICK i \in 1 .. Len(calls) : i = call[t]
  BY <1>3
<1>5. full' \in BOOLEAN
  BY DEF TypeInv, WriteHeader
<1>6. batched' = batched \cup {i} /\ lost' \in {lost, lost \cup {i}}
  BY <1>4 DEF WriteHeader
<1>7. batched' \in SUBSET (1 .. Len(calls)) /\ lost' \in SUBSET (1 .. Len(calls))
  BY <1>6 DEF TypeInv
<1>8. harmed' \in SUBSET (1 .. Len(calls))
  <2>1. \A u \in Others(t, "write") : call[u] \in 1 .. Len(calls)
    BY <1>3 DEF Others, CallInv
  <2>2. \/ harmed' = harmed
        \/ harmed' = harmed \cup {i} \cup {call[u] : u \in Others(t, "write")}
    BY <1>4 DEF WriteHeader
  <2>3. {call[u] : u \in Others(t, "write")} \subseteq 1 .. Len(calls)
    BY <2>1
  <2>4. harmed \subseteq 1 .. Len(calls)
    BY DEF TypeInv
  <2>. QED  BY <2>2, <2>3, <2>4
<1>. QED  BY <1>1, <1>2, <1>5, <1>7, <1>8
          DEF TypeInv, WriteHeader, Batch, Request, serverVars

\* Each step preserves the types.
LEMMA TypeStep ==
  ASSUME TypeInv, CallInv, CountInv, [Next]_vars
  PROVE  TypeInv'
<1>. USE DEF bufferVars, threadVars, serverVars, historyVars
<1>1. ASSUME NEW t \in Threads, NEW f \in Commands, StartCommand(t, f)  PROVE TypeInv'
  <2>1. /\ f \in Commands \cup {Sync} /\ Enter(t, f)
        /\ args' \in [Threads -> Nat] /\ pc' \in [Threads -> Labels]
    BY <1>1 DEF StartCommand, Goto, TypeInv, Labels
  <2>. QED  BY <1>1, <2>1, EnterTypes DEF StartCommand
<1>2. ASSUME NEW t \in Threads, AppendCommand(t)  PROVE TypeInv'
  <2>1. PICK b \in Seq(Byte) : b = Finalized /\ Size(b) <= MaxCapacity
    BY FinalizedFacts DEF Size, TypeInv
  <2>2. cmd_count' \in Nat
    BY <1>2, CountBound DEF AppendCommand
  <2>3. raced' \in BOOLEAN /\ call[t] # 0
    BY <1>2 DEF AppendCommand, TypeInv, CallInv, Runs
  <2>4. WriteHeader(t, b)
    BY <1>2, <2>1 DEF AppendCommand
  <2>. QED  BY <2>1, <2>2, <2>3, <2>4, HeaderTypes
<1>3. ASSUME NEW t \in Threads, FindNoBuffer(t)  PROVE TypeInv'
  BY <1>3 DEF TypeInv, FindNoBuffer, Goto, Labels, Batch, Request
<1>4. ASSUME NEW t \in Threads, BatchInit(t)  PROVE TypeInv'
  <2>1. <<>> \in Seq(Byte) /\ Size(<<>>) <= MaxCapacity
    BY ConstantsAssumption DEF Size, CountSize
  <2>2. raced' \in BOOLEAN
    BY <1>4 DEF BatchInit, TypeInv
  <2>3. pc' \in [Threads -> Labels]
    BY <1>4 DEF BatchInit, TypeInv, Goto, Labels
  <2>. QED  BY <1>4, <2>1, <2>2, <2>3 DEF TypeInv, BatchInit, Batch, Request
<1>5. ASSUME NEW t \in Threads, FirstCommand(t)  PROVE TypeInv'
  <2>1. PICK b \in Seq(Byte) : b = buffer /\ Size(b) <= MaxCapacity
    BY DEF TypeInv
  <2>2. cmd_count' \in Nat /\ raced' \in BOOLEAN /\ call[t] # 0 /\ WriteHeader(t, b)
    BY <1>5, <2>1 DEF FirstCommand, TypeInv, CallInv, Runs
  <2>. QED  BY <2>1, <2>2, HeaderTypes
<1>6. ASSUME NEW t \in Threads, WriteArgument(t)  PROVE TypeInv'
  <2>0. /\ pc[t] = "write" /\ call[t] \in 0 .. Len(calls) /\ args[t] \in Nat
        /\ calls \in Seq([by : Threads, func : Commands \cup {Sync}])
    BY <1>6 DEF WriteArgument, Runs, TypeInv
  <2>1. /\ pc[t] = "write" /\ call[t] \in DOMAIN calls /\ calls[call[t]].func \in Commands
        /\ args[t] \in Nat /\ args[t] < NumArgs(call[t])
        /\ calls \in Seq([by : Threads, func : Commands \cup {Sync}])
    BY <2>0 DEF CallInv
  <2>2. PICK i \in DOMAIN calls : i = call[t] /\ calls[i].func \in Commands
    BY <2>1
  <2>3. PICK j \in 1 .. NumArgs(i) : j = args[t] + 1
    BY <2>1, <2>2, EndFacts
  <2>4. PICK x \in Seq(Byte) : x = Argument(i, j)
    BY <2>1, <2>2, ArgumentFacts
  <2>5. buffer \in Seq(Byte) /\ Size(buffer) <= MaxCapacity
    BY DEF TypeInv
  <2>6. RawWrite(buffer, x) \in Seq(Byte) /\ Size(RawWrite(buffer, x)) <= MaxCapacity
    BY <2>4, <2>5, RawWriteFacts
  <2>7. buffer' \in Seq(Byte) /\ Size(buffer') <= MaxCapacity
    BY <1>6, <2>2, <2>3, <2>4, <2>5, <2>6 DEF WriteArgument
  <2>8. full' \in BOOLEAN /\ lost' \in SUBSET (1 .. Len(calls))
    <3>1. full' \in BOOLEAN
      BY <1>6 DEF WriteArgument, TypeInv
    <3>2. lost' \in {lost, lost \cup {i}}
      BY <1>6, <2>2 DEF WriteArgument
    <3>. QED  BY <2>1, <2>2, <3>1, <3>2, SMTT(20) DEF TypeInv
  <2>9. pc' \in [Threads -> Labels] /\ args' \in [Threads -> Nat]
    <3>1. pc \in [Threads -> Labels] /\ args \in [Threads -> Nat]
      BY DEF TypeInv
    <3>2. /\ \/ pc' = [pc EXCEPT ![t] = "idle"]
             \/ pc' = [pc EXCEPT ![t] = "write"]
          /\ args' = [args EXCEPT ![t] = args[t] + 1]
      BY <1>6 DEF WriteArgument, Goto
    <3>. QED  BY <3>1, <3>2 DEF Labels
  <2>. QED  BY <1>6, <2>7, <2>8, <2>9 DEF WriteArgument, TypeInv, Batch, Request
<1>7. ASSUME NEW t \in Threads, StartSync(t)  PROVE TypeInv'
  <2>1. /\ Sync \in Commands \cup {Sync} /\ Enter(t, Sync)
        /\ args' \in [Threads -> Nat] /\ pc' \in [Threads -> Labels]
    BY <1>7 DEF StartSync, Goto, TypeInv, Labels
  <2>. QED  BY <1>7, <2>1, EnterTypes DEF StartSync
<1>8. ASSUME NEW t \in Threads, FlushNothing(t)  PROVE TypeInv'
  BY <1>8 DEF TypeInv, FlushNothing, Goto, Labels, Batch, Request
<1>9. ASSUME NEW t \in Threads, NEW valid \in {"valid", "none"}, Flush(t, valid)
      PROVE  TypeInv'
  <2>1. Message \in Batch
    <3>1. Finalized \in Seq(Byte) /\ FinalizedCount \in 0 .. MaxCalls
      BY FinalizedFacts, CountBound
    <3>. QED  BY <3>1 DEF Message, Batch, TypeInv
  <2>2. /\ pc' \in [Threads -> Labels] /\ copy' \in [Threads -> Batch \cup {<<>>}]
        /\ lost' \in SUBSET (1 .. Len(calls))
    BY <1>9, <2>1 DEF Flush, TypeInv, Goto, Labels
  <2>3. harmed' \in SUBSET (1 .. Len(calls))
    <3>1. \A u \in Others(t, "write") : call[u] \in 1 .. Len(calls)
      BY DEF Others, CallInv, TypeInv
    <3>. QED  BY <1>9, <3>1 DEF Flush, TypeInv
  <2>4. <<>> \in Seq(Byte) /\ Size(<<>>) <= MaxCapacity
    BY ConstantsAssumption DEF Size, CountSize
  <2>. QED  BY <1>9, <2>2, <2>3, <2>4 DEF Flush, TypeInv, Batch, Request
<1>10. ASSUME NEW t \in Threads, NEW m \in Batch \cup Request, Sends(t, m), copy' \in [Threads -> Batch \cup {<<>>}],
              connection' \in {"unopened", "valid", "none"},
              UNCHANGED <<bufferVars, call, args, up, serverVars, calls, executed,
                          batched, full, lost, harmed, raced>>
       PROVE  TypeInv'
  <2>1. /\ wire' \in Seq(Batch \cup Request) /\ pc' \in [Threads -> Labels]
    BY <1>10 DEF Sends, TypeInv, Goto, Labels
  <2>2. overtaken' \in SUBSET (1 .. Len(calls))
    <3>1. \A u \in Others(t, "send") : copy[u].calls \in SUBSET (1 .. Len(calls))
      <4>. TAKE u \in Others(t, "send")
      <4>1. copy[u] \in Batch
        BY DEF Others, CallInv, TypeInv
      <4>. QED  BY <4>1 DEF Batch
    <3>. QED  BY <1>10, <3>1 DEF Sends, TypeInv
  <2>. QED  BY <1>10, <2>1, <2>2 DEF TypeInv, Batch, Request
<1>11. ASSUME NEW t \in Threads, SendBatch(t)  PROVE TypeInv'
  <2>1. copy[t] \in Batch
    BY <1>11 DEF SendBatch, Runs, TypeInv, CallInv
  <2>2. copy' \in [Threads -> Batch \cup {<<>>}]
    BY <1>11 DEF SendBatch, TypeInv
  <2>. QED  BY <1>10, <1>11, <2>1, <2>2 DEF SendBatch, TypeInv
<1>12. ASSUME NEW t \in Threads, NEW valid \in {"valid", "none"}, SendRequest(t, valid)
       PROVE  TypeInv'
  <2>1. CASE valid = "valid"
    <3>1. [type |-> "sync", call |-> call[t]] \in Batch \cup Request
      <4>1. call[t] \in 1 .. Len(calls)
        BY <1>12 DEF SendRequest, Runs, TypeInv, CallInv
      <4>. QED  BY <4>1 DEF Request
    <3>2. copy' \in [Threads -> Batch \cup {<<>>}]
      BY <1>12 DEF SendRequest, TypeInv
    <3>. QED  BY <1>10, <1>12, <2>1, <3>1, <3>2 DEF SendRequest
  <2>2. CASE valid # "valid"
    BY <1>12, <2>2 DEF SendRequest, TypeInv, Batch, Request
  <2>. QED  BY <2>1, <2>2
<1>13. CASE Receive
  <2>1. wire \in Seq(Batch \cup Request) /\ wire # <<>>
    BY <1>13 DEF Receive, TypeInv
  <2>2. Head(wire) \in Batch \cup Request /\ Tail(wire) \in Seq(Batch \cup Request)
    BY <2>1
  <2>3. CASE Head(wire).type = "batch"
    <3>1. Head(wire) \in Batch
      BY <2>2, <2>3 DEF Request
    <3>2. /\ payload' \in Seq(Byte) /\ at' \in 0 .. Len(payload') /\ left' \in 0 .. MaxCalls
      BY <1>13, <2>3, <3>1 DEF Receive, Batch
    <3>. QED  BY <1>13, <2>2, <3>2 DEF Receive, TypeInv, Batch, Request
  <2>4. CASE Head(wire).type # "batch"
    BY <1>13, <2>2, <2>4 DEF Receive, TypeInv, Batch, Request
  <2>. QED  BY <2>3, <2>4
<1>14. ASSUME NEW size \in 0 .. MaxArgSize, Dispatch(size)  PROVE TypeInv'
  <2>1. at' \in 0 .. Len(payload') /\ left' \in 0 .. MaxCalls
    BY <1>14, ConstantsAssumption DEF Dispatch, TypeInv, FieldSize
  <2>. QED  BY <1>14, <2>1 DEF Dispatch, TypeInv, Batch, Request
<1>15. ASSUME NEW size \in 0 .. MaxArgSize, GiveUp(size)  PROVE TypeInv'
  <2>1. left' \in 0 .. MaxCalls
    BY <1>15, ConstantsAssumption DEF GiveUp
  <2>. QED  BY <1>15, <2>1 DEF GiveUp, TypeInv, Batch, Request
<1>16. CASE UNCHANGED vars
  BY <1>16 DEF vars, TypeInv, Batch, Request
<1>. QED  BY <1>1, <1>2, <1>3, <1>4, <1>5, <1>6, <1>7, <1>8, <1>9, <1>11, <1>12, <1>13,
             <1>14, <1>15, <1>16 DEF Next

\* A thread other than t does not move.
LEMMA GotoFacts ==
  ASSUME TypeInv, NEW t \in Threads, NEW l \in Labels, Goto(t, l)
  PROVE  pc'[t] = l /\ \A u \in Threads \ {t} : pc'[u] = pc[u]
BY DEF TypeInv, Goto

\* A call begins.
LEMMA EnterCalls ==
  ASSUME TypeInv, CallInv, NEW t \in Threads, NEW f \in Commands \cup {Sync}, Enter(t, f),
         NEW l \in Labels, Goto(t, l), l \in {"append", "flush"},
         l = "append" => f \in Commands, l = "flush" => f = Sync,
         UNCHANGED <<copy, wire>>, \A u \in Threads \ {t} : args'[u] = args[u],
         l = "append" => args'[t] = 0
  PROVE  CallInv'
<1>1. /\ pc'[t] = l /\ \A u \in Threads \ {t} : pc'[u] = pc[u]
      /\ call'[t] = Len(calls) + 1 /\ \A u \in Threads \ {t} : call'[u] = call[u]
      /\ DOMAIN calls = 1 .. Len(calls) /\ DOMAIN calls' = 1 .. Len(calls) + 1
      /\ Len(calls) \in Nat
      /\ \A i \in DOMAIN calls : calls'[i] = calls[i]
      /\ calls'[Len(calls) + 1] = [by |-> t, func |-> f]
  BY GotoFacts, EnterFacts
<1>2. /\ \A i \in DOMAIN calls : calls[i].by \in Threads
      /\ \A u \in Threads : call[u] \in 0 .. Len(calls)
  <2>1. /\ calls \in Seq([by : Threads, func : Commands \cup {Sync}])
        /\ call \in [Threads -> 0 .. Len(calls)]
    BY DEF TypeInv
  <2>2. \A i \in DOMAIN calls : calls[i] \in [by : Threads, func : Commands \cup {Sync}]
    BY <2>1, ElementOf
  <2>3. \A i \in DOMAIN calls : calls[i].by \in Threads
    BY <2>2
  <2>. QED  BY <2>1, <2>3
<1>3. \A i \in DOMAIN calls' : i <= call'[calls'[i].by]
  <2>. TAKE i \in DOMAIN calls'
  <2>1. CASE i = Len(calls) + 1
    BY <1>1, <2>1
  <2>2. CASE i # Len(calls) + 1
    <3>1. i \in DOMAIN calls /\ calls'[i].by = calls[i].by
      BY <1>1, <2>2
    <3>2. i <= call[calls[i].by]
      BY <3>1 DEF CallInv
    <3>. QED  BY <1>1, <1>2, <3>1, <3>2
  <2>. QED  BY <2>1, <2>2
<1>4. ASSUME NEW u \in Threads \ {t}
      PROVE  /\ call'[u] # 0 => calls'[call'[u]].by = u
             /\ pc'[u] # "idle" => call'[u] # 0
             /\ pc'[u] = "send" => copy'[u] # <<>>
             /\ Unwritten(u)' \/ pc'[u] = "write" => calls'[call'[u]].func \in Commands
             /\ pc'[u] \in {"flush", "send", "request"} => calls'[call'[u]].func = Sync
             /\ Unwritten(u)' => args'[u] = 0
             /\ pc'[u] = "write" => args'[u] < NumArgs(call[u])'
  <2>1. call[u] # 0 => calls'[call'[u]] = calls[call[u]]
    BY <1>1, <1>2
  <2>2. pc'[u] = pc[u] /\ call'[u] = call[u] /\ args'[u] = args[u]
    BY <1>1
  <2>. QED  BY <2>1, <2>2 DEF CallInv, Unwritten, NumArgs
<1>5. /\ call'[t] # 0 => calls'[call'[t]].by = t
      /\ call'[t] # 0 /\ pc'[t] \notin {"idle", "send", "write"}
      /\ Unwritten(t)' => calls'[call'[t]].func \in Commands /\ args'[t] = 0
      /\ pc'[t] \in {"flush", "send", "request"} => calls'[call'[t]].func = Sync
  <2>1. call'[t] # 0 /\ calls'[call'[t]] = [by |-> t, func |-> f] /\ pc'[t] = l
    BY <1>1
  <2>2. calls'[call'[t]].by = t /\ calls'[call'[t]].func = f
    BY <2>1
  <2>3. Unwritten(t)' <=> l \in {"append", "init", "first"}
    BY <2>1 DEF Unwritten
  <2>4. CASE l = "append"
    BY <2>1, <2>2, <2>4
  <2>5. CASE l = "flush"
    BY <2>1, <2>2, <2>3, <2>5
  <2>. QED  BY <2>4, <2>5
<1>6. ASSUME NEW k \in DOMAIN wire', wire'[k].type = "sync"
      PROVE  calls'[wire'[k].call].func = Sync
  <2>1. wire[k] \in Request
    BY <1>6 DEF TypeInv, Batch
  <2>2. wire[k].call \in DOMAIN calls
    BY <1>1, <2>1 DEF Request
  <2>. QED  BY <1>1, <1>6, <2>2 DEF CallInv
<1>. QED  BY <1>3, <1>4, <1>5, <1>6 DEF CallInv

\* A thread goes on in its call.
LEMMA SameCalls ==
  ASSUME TypeInv, CallInv, NEW t \in Threads, NEW l \in Labels, Goto(t, l),
         UNCHANGED <<calls, call>>,
         \A u \in Threads \ {t} : copy'[u] = copy[u] /\ args'[u] = args[u],
         l = "send" => copy'[t] # <<>>,
         l # "idle" => call[t] # 0,
         l \in {"append", "init", "first", "write"} => calls[call[t]].func \in Commands,
         l \in {"append", "init", "first"} => args'[t] = 0,
         l \in {"flush", "send", "request"} => calls[call[t]].func = Sync,
         l = "write" => args'[t] < NumArgs(call[t]),
         \A k \in DOMAIN wire' : wire'[k].type = "sync" => calls[wire'[k].call].func = Sync
  PROVE  CallInv'
<1>1. pc'[t] = l /\ \A u \in Threads \ {t} : pc'[u] = pc[u]
  BY GotoFacts
<1>. QED  BY <1>1 DEF CallInv, Unwritten, NumArgs

\* The calls after a command has begun.
LEMMA HeaderCalls ==
  ASSUME TypeInv, CallInv, NEW t \in Threads, NEW b, WriteHeader(t, b), Unwritten(t)
  PROVE  CallInv'
<1>1. PICK l \in Labels : /\ l = IF NumArgs(call[t]) = 0 THEN "idle" ELSE "write"
                          /\ Goto(t, l)
  BY DEF WriteHeader, Labels
<1>2. call[t] \in DOMAIN calls /\ calls[call[t]].func \in Commands
  BY DEF CallInv, Unwritten, TypeInv
<1>3. args[t] = 0 /\ NumArgs(call[t]) \in Nat
  BY <1>2, EndFacts DEF CallInv, TypeInv
<1>4. l = "write" => args[t] < NumArgs(call[t])
  BY <1>1, <1>3
<1>5. /\ UNCHANGED <<calls, call, copy, args, wire>>
      /\ \A k \in DOMAIN wire' : wire'[k].type = "sync" => calls[wire'[k].call].func = Sync
  BY DEF WriteHeader, CallInv
<1>6. call[t] # 0 /\ l \in {"idle", "write"}
  BY <1>1 DEF CallInv, Unwritten
<1>. QED  BY <1>1, <1>2, <1>4, <1>5, <1>6, SameCalls

\* Each step leaves the threads in the calls they made.
LEMMA CallStep ==
  ASSUME TypeInv, CallInv, [Next]_vars
  PROVE  CallInv'
<1>. USE DEF bufferVars, threadVars, serverVars, historyVars
<1>. DEFINE WireInv(w) == \A k \in DOMAIN w : w[k].type = "sync" => calls[w[k].call].func = Sync
<1>0. WireInv(wire)
  BY DEF CallInv
<1>1. ASSUME NEW t \in Threads, NEW f \in Commands, StartCommand(t, f)  PROVE CallInv'
  BY <1>1, EnterCalls DEF StartCommand, TypeInv, Labels
<1>2. ASSUME NEW t \in Threads, AppendCommand(t)  PROVE CallInv'
  BY <1>2, HeaderCalls DEF AppendCommand, Runs, Unwritten
<1>3. ASSUME NEW t \in Threads, FindNoBuffer(t)  PROVE CallInv'
  BY <1>0, <1>3, SameCalls DEF FindNoBuffer, Runs, Unwritten, CallInv, Labels
<1>4. ASSUME NEW t \in Threads, BatchInit(t)  PROVE CallInv'
  BY <1>0, <1>4, SameCalls DEF BatchInit, Runs, Unwritten, CallInv, Labels
<1>5. ASSUME NEW t \in Threads, FirstCommand(t)  PROVE CallInv'
  BY <1>5, HeaderCalls DEF FirstCommand, Runs, Unwritten
<1>6. ASSUME NEW t \in Threads, WriteArgument(t)  PROVE CallInv'
  <2>1. /\ pc[t] = "write" /\ call[t] \in DOMAIN calls /\ calls[call[t]].func \in Commands
        /\ args[t] \in Nat /\ args[t] < NumArgs(call[t])
    BY <1>6, SMTT(20) DEF WriteArgument, Runs, TypeInv, CallInv
  <2>2. NumArgs(call[t]) \in Nat
    BY <2>1, EndFacts DEF TypeInv
  <2>3. PICK l \in {"idle", "write"} :
          /\ Goto(t, l)
          /\ l = IF args[t] + 1 = NumArgs(call[t]) THEN "idle" ELSE "write"
    BY <1>6 DEF WriteArgument
  <2>4. args'[t] = args[t] + 1 /\ \A u \in Threads \ {t} : args'[u] = args[u]
    BY <1>6 DEF WriteArgument, TypeInv
  <2>5. l = "write" => args'[t] < NumArgs(call[t])
    BY <2>1, <2>2, <2>3, <2>4
  <2>6. UNCHANGED <<calls, call, copy, wire>>
    BY <1>6 DEF WriteArgument
  <2>7. call[t] # 0 /\ l \in Labels
    BY <2>1 DEF Labels, TypeInv
  <2>. QED  BY <1>0, <2>1, <2>3, <2>4, <2>5, <2>6, <2>7, SameCalls
<1>7. ASSUME NEW t \in Threads, StartSync(t)  PROVE CallInv'
  BY <1>7, EnterCalls DEF StartSync, Labels
<1>8. ASSUME NEW t \in Threads, FlushNothing(t)  PROVE CallInv'
  BY <1>0, <1>8, SameCalls DEF FlushNothing, Runs, CallInv, Labels
<1>9. ASSUME NEW t \in Threads, NEW valid \in {"valid", "none"}, Flush(t, valid)
      PROVE  CallInv'
  <2>1. call[t] # 0 /\ calls[call[t]].func = Sync
    BY <1>9 DEF Flush, Runs, CallInv
  <2>2. UNCHANGED <<calls, call, args, wire>>
    BY <1>9 DEF Flush
  <2>3. CASE valid = "valid"
    <3>1. Goto(t, "send") /\ copy' = [copy EXCEPT ![t] = Message]
      BY <1>9, <2>3 DEF Flush
    <3>2. copy'[t] = Message /\ \A u \in Threads \ {t} : copy'[u] = copy[u]
      BY <3>1 DEF TypeInv
    <3>3. Message # <<>>
      BY DEF Message
    <3>. QED  BY <1>0, <2>1, <2>2, <3>1, <3>2, <3>3, SameCalls DEF Labels
  <2>4. CASE valid # "valid"
    <3>1. Goto(t, "request") /\ UNCHANGED copy
      BY <1>9, <2>4 DEF Flush
    <3>. QED  BY <1>0, <2>1, <2>2, <3>1, SameCalls DEF Labels
  <2>. QED  BY <2>3, <2>4
<1>10. ASSUME NEW t \in Threads, NEW m, Sends(t, m), call[t] # 0,
              m.type = "sync" => calls[m.call].func = Sync,
              UNCHANGED <<calls, call, args>>, \A u \in Threads \ {t} : copy'[u] = copy[u]
       PROVE  CallInv'
  <2>1. WireInv(wire')
    <3>1. wire \in Seq(Batch \cup Request) /\ wire' = Append(wire, m)
      BY <1>10 DEF Sends, TypeInv
    <3>2. DOMAIN wire' = 1 .. Len(wire) + 1 /\ DOMAIN wire = 1 .. Len(wire)
          /\ wire'[Len(wire) + 1] = m /\ \A k \in DOMAIN wire : wire'[k] = wire[k]
      BY <3>1
    <3>. QED  BY <1>0, <1>10, <3>1, <3>2
  <2>2. Goto(t, "wait") /\ "wait" \in Labels
    BY <1>10 DEF Sends, Labels
  <2>. QED  BY <1>10, <2>1, <2>2, SameCalls
<1>11. ASSUME NEW t \in Threads, SendBatch(t)  PROVE CallInv'
  <2>1. call[t] # 0 /\ copy[t] \in Batch /\ Sends(t, copy[t])
    BY <1>11 DEF SendBatch, Runs, TypeInv, CallInv
  <2>2. copy[t].type # "sync" /\ \A u \in Threads \ {t} : copy'[u] = copy[u]
    BY <1>11, <2>1 DEF SendBatch, Batch, TypeInv
  <2>3. UNCHANGED <<calls, call, args>>
    BY <1>11 DEF SendBatch
  <2>. QED  BY <1>10, <2>1, <2>2, <2>3
<1>12. ASSUME NEW t \in Threads, NEW valid \in {"valid", "none"}, SendRequest(t, valid)
       PROVE  CallInv'
  <2>1. CASE valid = "valid"
    <3>1. calls[call[t]].func = Sync /\ call[t] # 0
      BY <1>12 DEF SendRequest, Runs, CallInv
    <3>2. Sends(t, [type |-> "sync", call |-> call[t]]) /\ UNCHANGED <<calls, call, args, copy>>
      BY <1>12, <2>1 DEF SendRequest
    <3>. QED  BY <1>10, <3>1, <3>2
  <2>2. CASE valid # "valid"
    BY <1>12, <2>2 DEF SendRequest, CallInv, Unwritten, NumArgs
  <2>. QED  BY <2>1, <2>2
<1>13. CASE Receive
  <2>1. wire \in Seq(Batch \cup Request) /\ wire # <<>> /\ wire' = Tail(wire)
    BY <1>13 DEF Receive, TypeInv
  <2>2. \A k \in DOMAIN wire' : k + 1 \in DOMAIN wire /\ wire'[k] = wire[k + 1]
    BY <2>1
  <2>3. WireInv(wire')
    BY <1>0, <2>2
  <2>. QED  BY <1>13, <2>3 DEF Receive, CallInv, Unwritten, NumArgs
<1>14. ASSUME NEW size \in 0 .. MaxArgSize, Dispatch(size) \/ GiveUp(size)  PROVE CallInv'
  <2>1. UNCHANGED <<calls, call, args, copy, pc, wire>>
    BY <1>14 DEF Dispatch, GiveUp
  <2>. QED  BY <2>1 DEF CallInv, Unwritten, NumArgs
<1>15. CASE UNCHANGED vars
  BY <1>15 DEF vars, CallInv, Unwritten, NumArgs
<1>. QED  BY <1>1, <1>2, <1>3, <1>4, <1>5, <1>6, <1>7, <1>8, <1>9, <1>11, <1>12, <1>13,
             <1>14, <1>15 DEF Next

\* Calls belong to threads, and threads are in their own calls.
LEMMA CallFacts ==
  ASSUME TypeInv, CallInv
  PROVE  /\ Len(calls) \in Nat /\ DOMAIN calls = 1 .. Len(calls)
         /\ \A i \in DOMAIN calls : calls[i].by \in Threads /\ calls[i].func \in Commands \cup {Sync}
         /\ \A t \in Threads : call[t] \in 0 .. Len(calls)
         /\ \A t \in Threads : pc[t] # "idle" => call[t] \in DOMAIN calls
         /\ \A t, u \in Threads : t # u /\ call[t] # 0 => call[t] # call[u]
<1>1. /\ calls \in Seq([by : Threads, func : Commands \cup {Sync}])
      /\ call \in [Threads -> 0 .. Len(calls)]
  BY DEF TypeInv
<1>2. \A i \in DOMAIN calls : calls[i] \in [by : Threads, func : Commands \cup {Sync}]
  BY <1>1, ElementOf
<1>3. \A i \in DOMAIN calls : calls[i].by \in Threads /\ calls[i].func \in Commands \cup {Sync}
  BY <1>2
<1>4. Len(calls) \in Nat /\ DOMAIN calls = 1 .. Len(calls)
  BY <1>1
<1>. QED  BY <1>1, <1>3, <1>4 DEF CallInv

\* The count after a command has begun.
LEMMA HeaderCounts ==
  ASSUME TypeInv, CallInv, CountInv, NEW t \in Threads, Unwritten(t), NEW b, WriteHeader(t, b),
         arg_size_offset' # 0, cmd_count' \in Nat, cmd_count' <= FinalizedCount
  PROVE  CountInv'
<1>1. call[t] \in DOMAIN calls /\ call[t] \notin batched /\ IsFiniteSet(batched)
  BY CallFacts, CountBound DEF CountInv, Unwritten
<1>2. batched' = batched \cup {call[t]} /\ UNCHANGED call
  BY DEF WriteHeader
<1>3. Cardinality(batched') = Cardinality(batched) + 1 /\ Cardinality(batched) \in Nat
  BY <1>1, <1>2, FS_AddElement, FS_CardinalityType
<1>4. FinalizedCount' = cmd_count' + 1 /\ FinalizedCount \in Nat
  BY CountBound DEF FinalizedCount
<1>5. FinalizedCount' <= Cardinality(batched')
  BY <1>3, <1>4 DEF CountInv
<1>6. ASSUME NEW u \in Threads, Unwritten(u)'  PROVE call'[u] \notin batched'
  <2>1. PICK l \in {"idle", "write"} : Goto(t, l)
    BY DEF WriteHeader
  <2>2. u # t /\ pc'[u] = pc[u]
    BY <1>6, <2>1, GotoFacts DEF Unwritten, Labels
  <2>3. Unwritten(u)
    BY <1>6, <2>2 DEF Unwritten
  <2>4. call[u] # call[t]
    BY <1>1, <2>2, CallFacts
  <2>. QED  BY <1>2, <2>3, <2>4 DEF CountInv
<1>. QED  BY <1>5, <1>6 DEF CountInv

\* The count after a call has begun.
LEMMA EnterCounts ==
  ASSUME TypeInv, CallInv, CountInv, NEW t \in Threads, NEW f \in Commands \cup {Sync},
         Enter(t, f), NEW l \in Labels, Goto(t, l), UNCHANGED <<bufferVars, batched>>
  PROVE  CountInv'
<1>1. /\ call'[t] = Len(calls) + 1 /\ \A u \in Threads \ {t} : call'[u] = call[u]
      /\ \A u \in Threads \ {t} : pc'[u] = pc[u]
      /\ Len(calls) \in Nat /\ batched \subseteq 1 .. Len(calls)
  BY EnterFacts, GotoFacts DEF TypeInv
<1>2. \A u \in Threads : Unwritten(u)' => call'[u] \notin batched
  BY <1>1 DEF CountInv, Unwritten
<1>3. FinalizedCount' = FinalizedCount
  BY DEF FinalizedCount, bufferVars
<1>. QED  BY <1>2, <1>3 DEF CountInv

\* Each step counts the commands it begins.
LEMMA CountStep ==
  ASSUME TypeInv, CallInv, CountInv, [Next]_vars
  PROVE  CountInv'
<1>. USE DEF bufferVars, threadVars, serverVars, historyVars
<1>0. ASSUME UNCHANGED <<call, batched>>, FinalizedCount' = FinalizedCount,
             \A u \in Threads : Unwritten(u)' => Unwritten(u)
      PROVE  CountInv'
  BY <1>0 DEF CountInv
<1>1. ASSUME NEW t \in Threads, NEW f \in Commands, StartCommand(t, f)  PROVE CountInv'
  BY <1>1, EnterCounts DEF StartCommand, Labels
<1>2. ASSUME NEW t \in Threads, AppendCommand(t)  PROVE CountInv'
  <2>1. PICK b \in Seq(Byte) : b = Finalized /\ Size(b) <= MaxCapacity
    BY FinalizedFacts DEF Size, TypeInv
  <2>2. Unwritten(t) /\ WriteHeader(t, b)
    BY <1>2, <2>1 DEF AppendCommand, Runs, Unwritten
  <2>3. cmd_count' \in Nat /\ cmd_count' <= FinalizedCount
    BY <1>2, CountBound DEF AppendCommand
  <2>. QED  BY <2>1, <2>2, <2>3, HeaderFacts, HeaderCounts
<1>3. ASSUME NEW t \in Threads, FindNoBuffer(t) \/ FlushNothing(t)  PROVE CountInv'
  <2>1. PICK l \in {"init", "request"} : Goto(t, l) /\ (l = "init" => Unwritten(t))
    BY <1>3 DEF FindNoBuffer, FlushNothing, Runs, Unwritten
  <2>2. /\ pc'[t] = l /\ \A u \in Threads \ {t} : pc'[u] = pc[u]
    BY <2>1, GotoFacts DEF Labels
  <2>3. \A u \in Threads : Unwritten(u)' => Unwritten(u)
    BY <2>1, <2>2 DEF Unwritten
  <2>. QED  BY <1>0, <1>3, <2>3 DEF FindNoBuffer, FlushNothing, FinalizedCount
<1>4. ASSUME NEW t \in Threads, BatchInit(t)  PROVE CountInv'
  <2>1. Unwritten(t) /\ Goto(t, "first") /\ UNCHANGED <<call, batched>>
    BY <1>4 DEF BatchInit, Runs, Unwritten
  <2>2. \A u \in Threads : Unwritten(u)' => Unwritten(u)
    BY <2>1, GotoFacts DEF Unwritten, Labels
  <2>3. FinalizedCount' = 0 /\ Cardinality(batched) \in Nat
    BY <1>4, CountBound, FS_CardinalityType DEF BatchInit, FinalizedCount
  <2>. QED  BY <2>1, <2>2, <2>3 DEF CountInv
<1>5. ASSUME NEW t \in Threads, FirstCommand(t)  PROVE CountInv'
  <2>1. PICK b \in Seq(Byte) : b = buffer /\ Size(b) <= MaxCapacity
    BY DEF TypeInv
  <2>2. Unwritten(t) /\ WriteHeader(t, b)
    BY <1>5, <2>1 DEF FirstCommand, Runs, Unwritten
  <2>3. cmd_count' \in Nat /\ cmd_count' <= FinalizedCount
    BY <1>5 DEF FirstCommand, TypeInv, FinalizedCount
  <2>. QED  BY <2>1, <2>2, <2>3, HeaderFacts, HeaderCounts
<1>6. ASSUME NEW t \in Threads, WriteArgument(t)  PROVE CountInv'
  <2>1. PICK l \in {"idle", "write"} : Goto(t, l)
    BY <1>6 DEF WriteArgument
  <2>2. \A u \in Threads : Unwritten(u)' => Unwritten(u)
    BY <2>1, GotoFacts DEF Unwritten, Labels
  <2>. QED  BY <1>0, <1>6, <2>2 DEF WriteArgument, FinalizedCount
<1>7. ASSUME NEW t \in Threads, StartSync(t)  PROVE CountInv'
  BY <1>7, EnterCounts DEF StartSync, Labels
<1>8. ASSUME NEW t \in Threads, NEW valid \in {"valid", "none"}, Flush(t, valid)
      PROVE  CountInv'
  <2>1. batched' = {} /\ FinalizedCount' = 0
    BY <1>8 DEF Flush, FinalizedCount
  <2>2. Cardinality({}) = 0
    BY FS_EmptySet
  <2>. QED  BY <2>1, <2>2 DEF CountInv
<1>9. ASSUME NEW t \in Threads,
             SendBatch(t) \/ \E valid \in {"valid", "none"} : SendRequest(t, valid)
      PROVE  CountInv'
  <2>1. Goto(t, "wait") \/ UNCHANGED pc
    BY <1>9 DEF SendBatch, SendRequest, Sends
  <2>2. \A u \in Threads : Unwritten(u)' => Unwritten(u)
    BY <2>1, GotoFacts DEF Unwritten, Labels
  <2>. QED  BY <1>0, <1>9, <2>2 DEF SendBatch, SendRequest, FinalizedCount
<1>10. CASE Receive \/ \E size \in 0 .. MaxArgSize : Dispatch(size) \/ GiveUp(size)
  <2>1. UNCHANGED <<bufferVars, threadVars, batched>>
    BY <1>10 DEF Receive, Dispatch, GiveUp
  <2>. QED  BY <1>0, <2>1 DEF FinalizedCount, Unwritten
<1>11. CASE UNCHANGED vars
  BY <1>0, <1>11 DEF vars, FinalizedCount, Unwritten
<1>. QED  BY <1>1, <1>2, <1>3, <1>4, <1>5, <1>6, <1>7, <1>8, <1>9, <1>10, <1>11 DEF Next

-----------------------------------------------------------------------------
(* Frames.                                                                 *)

\* What no step takes back.
Grow ==
  /\ DOMAIN calls \subseteq DOMAIN calls'
  /\ \A i \in DOMAIN calls : calls'[i] = calls[i]
  /\ lost \subseteq lost' /\ harmed \subseteq harmed' /\ overtaken \subseteq overtaken'
  /\ raced => raced'

\* Only who has begun a command writes its arguments.
Writers ==
  \A t \in Threads :
    /\ pc[t] = "write" => call'[t] = call[t]
    /\ pc'[t] = "write" => call'[t] = call[t] /\ (pc[t] = "write" \/ Unwritten(t))

\* Each step keeps the calls and what is known of them.
LEMMA GrowStep ==
  ASSUME TypeInv, CallInv, [Next]_vars
  PROVE  Grow /\ Writers
<1>. USE DEF bufferVars, threadVars, serverVars, historyVars
<1>. raced \in BOOLEAN
  BY DEF TypeInv
<1>0. ASSUME NEW t \in Threads, NEW l \in Labels, Goto(t, l), UNCHANGED call,
             l = "write" => pc[t] = "write" \/ Unwritten(t)
      PROVE  Writers
  BY <1>0, GotoFacts DEF Writers
<1>1. ASSUME NEW t \in Threads, NEW f \in Commands \cup {Sync}, Enter(t, f),
             NEW l \in {"append", "flush"}, Goto(t, l), pc[t] = "idle",
             UNCHANGED <<lost, harmed, overtaken, raced>>
      PROVE  Grow /\ Writers
  <2>1. /\ pc'[t] = l /\ \A u \in Threads \ {t} : pc'[u] = pc[u]
    BY <1>1, GotoFacts DEF Labels
  <2>2. \A u \in Threads \ {t} : call'[u] = call[u]
    BY <1>1, EnterFacts
  <2>3. Writers
    BY <1>1, <2>1, <2>2 DEF Writers
  <2>4. DOMAIN calls \subseteq DOMAIN calls' /\ \A i \in DOMAIN calls : calls'[i] = calls[i]
    BY <1>1, EnterFacts
  <2>. QED  BY <1>1, <2>3, <2>4 DEF Grow
<1>2. ASSUME NEW t \in Threads, NEW f \in Commands, StartCommand(t, f)
      PROVE  Grow /\ Writers
  BY <1>1, <1>2 DEF StartCommand, Runs
<1>3. ASSUME NEW t \in Threads, StartSync(t)  PROVE Grow /\ Writers
  BY <1>1, <1>3 DEF StartSync, Runs
<1>4. ASSUME NEW t \in Threads, AppendCommand(t) \/ FirstCommand(t)  PROVE Grow /\ Writers
  <2>1. Unwritten(t) /\ \E b : WriteHeader(t, b)
    BY <1>4 DEF AppendCommand, FirstCommand, Unwritten, Runs
  <2>2. PICK l \in {"idle", "write"} : Goto(t, l)
    BY <2>1 DEF WriteHeader
  <2>3. Writers
    BY <1>0, <2>1, <2>2 DEF WriteHeader, Labels
  <2>4. raced => raced'
    <3>1. raced' = raced \/ raced' = (raced \/ batched # {})
      BY <1>4 DEF AppendCommand, FirstCommand
    <3>. QED  BY <3>1
  <2>5. lost \subseteq lost' /\ harmed \subseteq harmed' /\ UNCHANGED <<calls, overtaken>>
    BY <2>1 DEF WriteHeader
  <2>. QED  BY <2>3, <2>4, <2>5 DEF Grow
<1>5. ASSUME NEW t \in Threads, FindNoBuffer(t) \/ BatchInit(t) \/ FlushNothing(t)
      PROVE  Grow /\ Writers
  <2>1. PICK l \in {"init", "first", "request"} : Goto(t, l)
    BY <1>5 DEF FindNoBuffer, BatchInit, FlushNothing
  <2>2. Writers
    BY <1>0, <1>5, <2>1 DEF FindNoBuffer, BatchInit, FlushNothing, Labels
  <2>3. (raced => raced') /\ UNCHANGED <<calls, lost, harmed, overtaken>>
    <3>1. raced' = raced \/ raced' = (raced \/ batched # {})
      BY <1>5 DEF FindNoBuffer, BatchInit, FlushNothing
    <3>. QED  BY <1>5, <3>1 DEF FindNoBuffer, BatchInit, FlushNothing
  <2>. QED  BY <2>2, <2>3 DEF Grow
<1>6. ASSUME NEW t \in Threads, WriteArgument(t)  PROVE Grow /\ Writers
  <2>1. PICK l \in {"idle", "write"} : Goto(t, l) /\ pc[t] = "write"
    BY <1>6 DEF WriteArgument, Runs
  <2>2. Writers
    BY <1>0, <1>6, <2>1 DEF WriteArgument, Labels
  <2>3. lost \subseteq lost'
    BY <1>6 DEF WriteArgument
  <2>. QED  BY <1>6, <2>2, <2>3 DEF Grow, WriteArgument
<1>7. ASSUME NEW t \in Threads, NEW valid \in {"valid", "none"}, Flush(t, valid)
      PROVE  Grow /\ Writers
  <2>1. PICK l \in {"send", "request"} : Goto(t, l)
    BY <1>7 DEF Flush
  <2>2. Writers
    BY <1>0, <1>7, <2>1 DEF Flush, Labels
  <2>3. lost \subseteq lost' /\ harmed \subseteq harmed'
    BY <1>7 DEF Flush
  <2>. QED  BY <1>7, <2>2, <2>3 DEF Grow, Flush
<1>8. ASSUME NEW t \in Threads,
             SendBatch(t) \/ \E valid \in {"valid", "none"} : SendRequest(t, valid)
      PROVE  Grow /\ Writers
  <2>1. Goto(t, "wait") \/ UNCHANGED pc
    BY <1>8 DEF SendBatch, SendRequest, Sends
  <2>2. UNCHANGED <<call, calls, lost, harmed, raced>> /\ overtaken \subseteq overtaken'
    BY <1>8 DEF SendBatch, SendRequest, Sends
  <2>3. Writers
    BY <1>0, <2>1, <2>2 DEF Labels, Writers
  <2>. QED  BY <2>2, <2>3 DEF Grow
<1>9. CASE Receive \/ \E size \in 0 .. MaxArgSize : Dispatch(size) \/ GiveUp(size)
  <2>1. UNCHANGED <<pc, call, calls, lost, harmed, overtaken, raced>>
    BY <1>9 DEF Receive, Dispatch, GiveUp
  <2>. QED  BY <2>1 DEF Grow, Writers
<1>10. CASE UNCHANGED vars
  BY <1>10 DEF vars, Grow, Writers
<1>. QED  BY <1>2, <1>3, <1>4, <1>5, <1>6, <1>7, <1>8, <1>9, <1>10 DEF Next

\* A frame is where its bytes are.
LEMMA SameFrame ==
  ASSUME NEW b, NEW d, NEW s \in Nat, Header(b, s), After(b, s) <= Len(d),
         \A p \in s + 1 .. After(b, s) : d[p] = b[p]
  PROVE  /\ CallAt(d, s) = CallAt(b, s) /\ SizeAt(d, s) = SizeAt(b, s)
         /\ After(d, s) = After(b, s)
         /\ Header(d, s)
         /\ Content(b, s) => Content(d, s)
<1>1. SizeAt(b, s) \in Nat /\ After(b, s) = s + 4 + SizeAt(b, s) /\ FieldSize = 2
  BY ConstantsAssumption DEF Header, After, FieldSize
<1>2. \A k \in 1 .. 4 + SizeAt(b, s) : s + k \in s + 1 .. After(b, s)
  BY <1>1
<1>3. \A k \in 1 .. 4 + SizeAt(b, s) : d[s + k] = b[s + k]
  BY <1>2
<1>4. /\ CallAt(d, s) = CallAt(b, s)
  BY <1>1, <1>3 DEF CallAt
<1>5. SizeAt(d, s) = SizeAt(b, s)
  <2>1. s + FieldSize + 1 = s + 3 /\ 3 \in 1 .. 4 + SizeAt(b, s)
    BY <1>1
  <2>. QED  BY <1>3, <2>1 DEF SizeAt
<1>6. After(d, s) = After(b, s)
  BY <1>5 DEF After
<1>7. \A k \in 1 .. FieldSize : d[s + k] = b[s + k] /\ d[s + FieldSize + k] = b[s + FieldSize + k]
  <2>. TAKE k \in 1 .. FieldSize
  <2>1. k \in 1 .. 4 + SizeAt(b, s) /\ 2 + k \in 1 .. 4 + SizeAt(b, s)
        /\ s + FieldSize + k = s + (2 + k)
    BY <1>1
  <2>. QED  BY <1>3, <2>1
<1>8. Header(d, s)
  BY <1>4, <1>5, <1>6, <1>7 DEF Header
<1>9. \A k \in 1 .. SizeAt(b, s) : d[s + 2 * FieldSize + k] = b[s + 2 * FieldSize + k]
  <2>. TAKE k \in 1 .. SizeAt(b, s)
  <2>1. 4 + k \in 1 .. 4 + SizeAt(b, s) /\ s + 2 * FieldSize + k = s + (4 + k)
    BY <1>1
  <2>. QED  BY <1>3, <2>1
<1>10. Content(b, s) => Content(d, s)
  BY <1>4, <1>5, <1>9 DEF Content
<1>. QED  BY <1>4, <1>5, <1>6, <1>8, <1>10

\* What a frame was it is later, when its thread has left it.
LEMMA LaterFrame ==
  ASSUME Grow, NEW b, NEW s, Header(b, s)
  PROVE  /\ Header(b, s)'
         /\ CallAt(b, s) \in harmed' => Content(b, s)'
         /\ Content(b, s) /\ ~Writing(CallAt(b, s)) /\ ~Writing(CallAt(b, s))' =>
              Content(b, s)'
<1>1. PICK c \in DOMAIN calls : c = CallAt(b, s)
  BY DEF Header
<1>2. c \in DOMAIN calls' /\ calls'[c] = calls[c]
  BY DEF Grow
<1>3. Header(b, s)'
  BY <1>1, <1>2 DEF Header
<1>4. Total(c)' = Total(c)
  BY <1>2 DEF Total, ArgEnd, NumArgs
<1>5. ASSUME Content(b, s), ~Writing(c), ~Writing(c)'  PROVE Content(b, s)'
  <2>1. Written(c) = Total(c) /\ Written(c)' = Total(c)
    BY <1>4, <1>5 DEF Written
  <2>2. harmed \subseteq harmed' /\ lost \subseteq lost'
    BY DEF Grow
  <2>. QED  BY <1>1, <1>5, <2>1, <2>2 DEF Content
<1>6. ASSUME c \in harmed'  PROVE Content(b, s)'
  BY <1>1, <1>6 DEF Content
<1>. QED  BY <1>1, <1>3, <1>5, <1>6

\* A byte that begins an id is not at the end.
LEMMA FrameFacts ==
  ASSUME NEW b \in Seq(Byte)
  PROVE  /\ Len(b) \in Nat /\ DOMAIN b = 1 .. Len(b)
         /\ \A s : s \in Frames(b) <=>
              s \in Nat /\ s + 4 <= Len(b) /\ b[s + 1].part = FuncID /\ b[s + 1].k = 1
         /\ IsFiniteSet(Frames(b)) /\ Frames(b) \subseteq Nat
         /\ Rest(b, 0) = Frames(b)
         /\ \A from : IsFiniteSet(Rest(b, from))
<1>1. Len(b) \in Nat /\ DOMAIN b = 1 .. Len(b)
  OBVIOUS
<1>2. \A s : s \in Frames(b) <=>
        s \in Nat /\ s + 4 <= Len(b) /\ b[s + 1].part = FuncID /\ b[s + 1].k = 1
  BY <1>1 DEF Frames, IsId, FieldSize
<1>3. IsFiniteSet(Frames(b)) /\ Frames(b) \subseteq Nat
  <2>1. PICK n \in Nat : n = Len(b)
    BY <1>1
  <2>2. IsFiniteSet(0 .. n)
    BY FS_Interval
  <2>3. Frames(b) \subseteq 0 .. n
    BY <1>2, <2>1
  <2>. QED  BY <2>2, <2>3, FS_Subset
<1>4. Rest(b, 0) = Frames(b)
  BY <1>3 DEF Rest
<1>5. \A from : IsFiniteSet(Rest(b, from))
  <2>1. \A from : Rest(b, from) \subseteq Frames(b)
    BY DEF Rest
  <2>. QED  BY <1>3, <2>1, FS_Subset
<1>. QED  BY <1>1, <1>2, <1>3, <1>4, <1>5

\* A call that its thread has left, or was harmed, stays so.
LEMMA StillSettled ==
  ASSUME TypeInv, CallInv, Grow, Writers,
         NEW i \in DOMAIN calls, i \in harmed \/ ~Writing(i),
         \A t \in Threads : Unwritten(t) => call[t] # i
  PROVE  i \in harmed' \/ (~Writing(i) /\ ~Writing(i)')
<1>1. calls[i].by \in Threads /\ calls'[i] = calls[i]
  BY CallFacts DEF Grow
<1>2. Writing(i)' => Writing(i)
  BY <1>1 DEF Writers, Writing
<1>. QED  BY <1>2 DEF Grow

\* A sequence of frames stays one, once their threads have left them.
LEMMA FramedLater ==
  ASSUME Grow, NEW b \in Seq(Byte), NEW from \in Nat, Framed(b, from),
         \A s \in Rest(b, from) :
           \/ CallAt(b, s) \in harmed'
           \/ ~Writing(CallAt(b, s)) /\ ~Writing(CallAt(b, s))'
  PROVE  Framed(b, from)' /\ \A s \in Rest(b, from) : Settled(b, s)'
<1>1. ASSUME NEW s \in Rest(b, from)
      PROVE  /\ Header(b, s)' /\ Content(b, s)' /\ Follows(b, s)' /\ Settled(b, s)'
             /\ FrameOrEnd(b, After(b, s))
  <2>1. /\ Header(b, s) /\ Content(b, s) /\ Follows(b, s)
        /\ FrameOrEnd(b, After(b, s))
    BY <1>1 DEF Framed
  <2>2. Header(b, s)' /\ Content(b, s)'
    BY <1>1, <2>1, LaterFrame
  <2>3. Settled(b, s)'
    BY <1>1 DEF Settled
  <2>4. ASSUME NEW r \in Frames(b), r > s
        PROVE  r >= After(b, s) /\ InOrder(CallAt(b, s), CallAt(b, r))'
    <3>1. r \in Rest(b, from)
      BY <1>1, <2>4, FrameFacts DEF Rest
    <3>2. CallAt(b, s) \in DOMAIN calls /\ CallAt(b, r) \in DOMAIN calls
      BY <1>1, <3>1 DEF Framed, Header
    <3>3. r >= After(b, s) /\ InOrder(CallAt(b, s), CallAt(b, r))
      BY <2>1, <2>4 DEF Follows
    <3>. QED  BY <3>2, <3>3 DEF InOrder, Grow
  <2>5. Follows(b, s)'
    BY <2>4 DEF Follows
  <2>. QED  BY <2>1, <2>2, <2>3, <2>5
<1>2. FrameOrEnd(b, from)
  BY DEF Framed
<1>. QED  BY <1>1, <1>2 DEF Framed

\* A batch on its way stays what it is.
LEMMA BatchLater ==
  ASSUME TypeInv, CallInv, Grow, Writers, NEW m, m.body \in Seq(Byte), BatchInv(m),
         \A t \in Threads : Unwritten(t) => call[t] \notin Ids(m.body, 0)
  PROVE  BatchInv(m)'
<1>1. PICK b \in Seq(Byte) : b = m.body
  OBVIOUS
<1>2. /\ Framed(b, 0) /\ Rest(b, 0) = Frames(b)
      /\ \A s \in Frames(b) : Settled(b, s)
  BY <1>1, FrameFacts DEF BatchInv
<1>3. ASSUME NEW s \in Rest(b, 0)
      PROVE  \/ CallAt(b, s) \in harmed'
             \/ ~Writing(CallAt(b, s)) /\ ~Writing(CallAt(b, s))'
  <2>1. CallAt(b, s) \in DOMAIN calls /\ CallAt(b, s) \in Ids(b, 0)
    BY <1>2 DEF Framed, Header, Ids
  <2>2. PICK i \in DOMAIN calls : i = CallAt(b, s)
    BY <2>1
  <2>3. i \in harmed \/ ~Writing(i)
    BY <1>2, <2>2 DEF Settled
  <2>4. \A t \in Threads : Unwritten(t) => call[t] # i
    BY <1>1, <2>1, <2>2
  <2>. QED  BY <2>2, <2>3, <2>4, StillSettled
<1>4. Framed(b, 0)' /\ \A s \in Frames(b) : Settled(b, s)'
  BY <1>2, <1>3, FramedLater
<1>. QED  BY <1>1, <1>4 DEF BatchInv

\* The server's batch stays what it is.
LEMMA PayloadLater ==
  ASSUME TypeInv, CallInv, Grow, Writers, PayloadInv, UNCHANGED serverVars,
         \A t \in Threads : Unwritten(t) => call[t] \notin Ids(payload, at)
  PROVE  PayloadInv'
<1>1. PICK b \in Seq(Byte) : b = payload
  BY DEF TypeInv
<1>2. PICK a \in Nat : a = at
  BY DEF TypeInv
<1>3. /\ Framed(b, a) /\ \A s \in Rest(b, a) : Settled(b, s)
      /\ Cardinality(Rest(b, a)) <= left
  BY <1>1, <1>2 DEF PayloadInv
<1>4. ASSUME NEW s \in Rest(b, a)
      PROVE  \/ CallAt(b, s) \in harmed'
             \/ ~Writing(CallAt(b, s)) /\ ~Writing(CallAt(b, s))'
  <2>1. CallAt(b, s) \in DOMAIN calls /\ CallAt(b, s) \in Ids(b, a)
    BY <1>3 DEF Framed, Header, Ids
  <2>2. PICK i \in DOMAIN calls : i = CallAt(b, s)
    BY <2>1
  <2>3. i \in harmed \/ ~Writing(i)
    BY <1>3, <2>2 DEF Settled
  <2>4. \A t \in Threads : Unwritten(t) => call[t] # i
    BY <1>1, <1>2, <2>1, <2>2
  <2>. QED  BY <2>2, <2>3, <2>4, StillSettled
<1>5. Framed(b, a)' /\ \A s \in Rest(b, a) : Settled(b, s)'
  BY <1>3, <1>4, FramedLater
<1>6. payload' = b /\ at' = a /\ left' = left
  BY <1>1, <1>2 DEF serverVars
<1>. QED  BY <1>3, <1>5, <1>6 DEF PayloadInv

-----------------------------------------------------------------------------
(* The steps of the buffer.                                                *)

\* FinalizedFacts after a step.
LEMMA LaterFinalized ==
  ASSUME NEW b \in Seq(Byte), b = buffer', NEW o \in Nat \ {0}, o = arg_size_offset'
  PROVE  /\ Finalized' \in Seq(Byte) /\ Len(Finalized') = Len(b)
         /\ ArgDataSize' = IF Len(b) + 2 - o < 0 \/ Len(b) + 2 - o > MaxArgSize
                           THEN MaxArgSize ELSE Len(b) + 2 - o
         /\ ArgDataSize' \in 0 .. MaxArgSize
         /\ OpenAt' = o - 6
         /\ \A p \in 1 .. Len(b) :
              Finalized'[p] = IF p - (o - 6) - FieldSize \in 1 .. FieldSize
                              THEN [of |-> ArgDataSize', part |-> ArgSize,
                                    k |-> p - (o - 6) - FieldSize]
                              ELSE b[p]
<1>1. Len(b) \in Nat /\ MaxArgSize \in Nat
  BY ConstantsAssumption
<1>2. PICK n \in Nat :
        /\ n \in 0 .. MaxArgSize
        /\ n = ArgDataSize'
        /\ n = IF Len(b) + 2 - o < 0 \/ Len(b) + 2 - o > MaxArgSize
               THEN MaxArgSize ELSE Len(b) + 2 - o
  <2>1. ArgDataSize' = IF Len(b) + 2 - o < 0 \/ Len(b) + 2 - o > MaxArgSize
                       THEN MaxArgSize ELSE Len(b) + 2 - o
    BY <1>1 DEF ArgDataSize, Size, CountSize, FieldSize
  <2>2. ArgDataSize' \in 0 .. MaxArgSize
    BY <1>1, <2>1
  <2>. QED  BY <2>1, <2>2
<1>3. PICK x \in Seq(Byte) :
        /\ x = Bytes(n, ArgSize, FieldSize) /\ Len(x) = FieldSize
        /\ \A k \in 1 .. FieldSize : x[k] = [of |-> n, part |-> ArgSize, k |-> k]
  <2>1. FieldSize \in Nat
    BY DEF FieldSize
  <2>2. /\ Bytes(n, ArgSize, FieldSize) \in Seq(Byte)
        /\ Len(Bytes(n, ArgSize, FieldSize)) = FieldSize
        /\ \A k \in 1 .. FieldSize :
             Bytes(n, ArgSize, FieldSize)[k] = [of |-> n, part |-> ArgSize, k |-> k]
    BY <2>1, BytesType
  <2>. QED  BY <2>2
<1>4. Finalized' = Patched(b, o, x)
  BY <1>2, <1>3 DEF Finalized
<1>5. /\ Patched(b, o, x) \in Seq(Byte) /\ Len(Patched(b, o, x)) = Len(b)
      /\ \A p \in 1 .. Len(b) :
           Patched(b, o, x)[p] = IF CountSize + p - o \in 1 .. Len(x)
                                 THEN x[CountSize + p - o] ELSE b[p]
  BY PatchedFacts
<1>6. \A p \in 1 .. Len(b) : CountSize + p - o = p - (o - 6) - FieldSize
  BY <1>1 DEF CountSize, FieldSize
<1>7. OpenAt' = o - 6
  BY DEF OpenAt, CountSize, FieldSize
<1>8. ASSUME NEW p \in 1 .. Len(b)
      PROVE  Finalized'[p] = IF p - (o - 6) - FieldSize \in 1 .. FieldSize
                             THEN [of |-> n, part |-> ArgSize, k |-> p - (o - 6) - FieldSize]
                             ELSE b[p]
  <2>0. p - (o - 6) - FieldSize \in Int
    BY <1>1 DEF FieldSize
  <2>1. PICK k \in Int : k = p - (o - 6) - FieldSize
    BY <2>0
  <2>2. Finalized'[p] = IF k \in 1 .. FieldSize THEN x[k] ELSE b[p]
    BY <1>3, <1>4, <1>5, <1>6, <2>1
  <2>. QED  BY <1>3, <2>1, <2>2
<1>9. /\ Finalized' \in Seq(Byte) /\ Len(Finalized') = Len(b)
  BY <1>4, <1>5
<1>. QED  BY <1>2, <1>7, <1>8, <1>9

\* What there is of frames when the buffer is sent, or the next command begins.
LEMMA SealedFacts ==
  ASSUME TypeInv, CountInv, BufferInv, NEW b \in Seq(Byte), b = Finalized
  PROVE  /\ Framed(b, 0)
         /\ 0 \in Frames(b) \/ Len(b) = 0 \/ NoRoom(0)
         /\ \A s \in Frames(b) :
              After(b, s) \in Frames(b) \/ After(b, s) = Len(b) \/ NoRoom(After(b, s))
         /\ \A p \in DOMAIN b : IsId(b[p]) => p - 1 \in Frames(b) \/ NoRoom(p - 1)
         /\ Cardinality(Frames(b)) <= FinalizedCount
         /\ Ids(b, 0) \subseteq batched
<1>1. CASE arg_size_offset = 0
  <2>1. b = <<>> /\ Len(b) = 0 /\ FinalizedCount = 0
    BY <1>1 DEF BufferInv, Finalized, FinalizedCount
  <2>2. Frames(b) = {} /\ Rest(b, 0) = {} /\ DOMAIN b = {}
    <3>1. \A s : s \notin Frames(b)
      <4>1. \A s : s \in Frames(b) => s \in Nat /\ s + 4 <= 0
        BY <2>1, FrameFacts
      <4>. QED  BY <4>1
    <3>. QED  BY <2>1, <3>1 DEF Rest
  <2>3. Cardinality(Frames(b)) <= FinalizedCount
    BY <2>1, <2>2, FS_EmptySet
  <2>4. Framed(b, 0)
    BY <2>1, <2>2 DEF Framed, FrameOrEnd, FieldSize
  <2>5. Ids(b, 0) \subseteq batched
    BY <2>2 DEF Ids
  <2>. QED  BY <2>1, <2>2, <2>3, <2>4, <2>5
<1>2. CASE arg_size_offset # 0
  <2>1. OpenInv(b)
    BY <1>2 DEF BufferInv
  <2>2. CASE OpenFrame(b)
    BY <2>1, <2>2 DEF OpenInv, OpenFrame
  <2>3. CASE Overflow(b)
    <3>1. ASSUME OpenAt \in Frames(b)  PROVE FALSE
      <4>1. OpenAt \in Nat /\ OpenAt + 4 <= Len(b)
        BY <3>1, FrameFacts
      <4>2. Len(b) \in Nat /\ CountSize + Len(b) <= MaxCapacity /\ MaxCapacity \in Nat
        <5>1. Len(b) = Len(buffer) /\ Len(b) \in Nat
          BY FinalizedFacts
        <5>2. CountSize + Len(buffer) <= MaxCapacity
          BY DEF TypeInv, Size
        <5>. QED  BY <5>1, <5>2, ConstantsAssumption
      <4>. QED  BY <2>3, <4>1, <4>2 DEF Overflow, NoRoom, CountSize, FieldSize
    <3>. QED  BY <2>1, <3>1 DEF OpenInv
  <2>. QED  BY <2>1, <2>2, <2>3 DEF OpenInv
<1>. QED  BY <1>1, <1>2

\* Who begins a command, or flushes, harms the calls that are being written.
LEMMA Harms ==
  ASSUME TypeInv, CallInv, Grow, Writers, NEW t \in Threads, pc[t] # "write",
         {call[u] : u \in Others(t, "write")} \subseteq harmed',
         \A u \in Threads \ {t} : pc'[u] = "write" => pc[u] = "write",
         NEW i \in DOMAIN calls, i # call[t]
  PROVE  i \in harmed' \/ (~Writing(i) /\ ~Writing(i)')
<1>1. calls[i].by \in Threads /\ calls'[i] = calls[i]
  BY CallFacts DEF Grow
<1>2. CASE Writing(i)
  <2>1. calls[i].by \in Others(t, "write") /\ i = call[calls[i].by]
    BY <1>1, <1>2 DEF Writing, Others
  <2>. QED  BY <2>1
<1>3. CASE ~Writing(i)
  <2>1. ~Writing(i)'
    BY <1>1, <1>3 DEF Writing, Writers
  <2>. QED  BY <1>3, <2>1
<1>. QED  BY <1>2, <1>3

\* What is sent is a sequence of frames.
LEMMA SentBatch ==
  ASSUME TypeInv, CallInv, CountInv, Grow, Writers, BufferInv,
         NEW t \in Threads, NEW valid, Flush(t, valid), NEW m, m = Message
  PROVE  BatchInv(m)' /\ m.body \in Seq(Byte) /\ Ids(m.body, 0) = InBuffer
<1>1. PICK b \in Seq(Byte) : b = Finalized
  BY FinalizedFacts
<1>2. m.body = b /\ m.count = FinalizedCount /\ m.calls = batched
  BY <1>1 DEF Message
<1>3. /\ Framed(b, 0) /\ Rest(b, 0) = Frames(b)
      /\ Cardinality(Frames(b)) <= FinalizedCount /\ Ids(b, 0) \subseteq batched
  BY <1>1, SealedFacts, FrameFacts
<1>4. ASSUME NEW s \in Rest(b, 0)
      PROVE  \/ CallAt(b, s) \in harmed'
             \/ ~Writing(CallAt(b, s)) /\ ~Writing(CallAt(b, s))'
  <2>1. PICK i \in DOMAIN calls : i = CallAt(b, s) /\ calls[i].func \in Commands
    BY <1>3 DEF Framed, Header
  <2>2. PICK l \in {"send", "request"} : Goto(t, l) /\ pc[t] = "flush"
    BY DEF Flush, Runs
  <2>3. \A u \in Threads \ {t} : pc'[u] = "write" => pc[u] = "write"
    BY <2>2, GotoFacts DEF Labels
  <2>4. {call[u] : u \in Others(t, "write")} \subseteq harmed'
    BY DEF Flush
  <2>5. i # call[t] \/ (~Writing(i) /\ ~Writing(i)')
    <3>1. pc[t] # "write" /\ pc'[t] # "write"
      BY <2>2, GotoFacts DEF Labels
    <3>2. i = call[t] => calls[i].by = t /\ calls'[i].by = t
      BY <2>2 DEF CallInv, Grow
    <3>. QED  BY <3>1, <3>2 DEF Writing
  <2>. QED  BY <2>1, <2>2, <2>3, <2>4, <2>5, Harms
<1>5. Framed(b, 0)' /\ \A s \in Frames(b) : Settled(b, s)'
  BY <1>3, <1>4, FramedLater
<1>. QED  BY <1>1, <1>2, <1>3, <1>5 DEF BatchInv, InBuffer

\* A command begins after the last frame, with a frame of its own if it fits.
LEMMA BeginCommand ==
  ASSUME TypeInv, CallInv, CountInv, Grow, Writers, BufferInv,
         NEW t \in Threads, Unwritten(t), NEW b \in Seq(Byte), b = Finalized,
         Size(b) <= MaxCapacity, WriteHeader(t, b), cmd_count' = FinalizedCount
  PROVE  /\ BufferInv'
         /\ \/ InBuffer' = InBuffer \cup {call[t]}
            \/ InBuffer' = InBuffer /\ call[t] \in lost'
<1>1. PICK c \in DOMAIN calls :
        c = call[t] /\ c \in Nat /\ calls[c].func \in Commands /\ calls[c].by = t
  BY CallFacts DEF CallInv, Unwritten
<1>2. /\ c \notin batched /\ args[t] = 0
      /\ \A i \in DOMAIN calls : calls[i].by = t => i <= c
  BY <1>1 DEF CountInv, CallInv
<1>3. PICK w \in Seq(Byte), o \in Nat \ {0} :
        /\ w = buffer' /\ o = arg_size_offset' /\ Size(w) <= MaxCapacity
        /\ o <= Size(w) /\ o \in CountSize .. MaxCapacity
        /\ Fits(b, 2 * FieldSize) =>
             /\ Len(w) = Len(b) + 2 * FieldSize
             /\ o = CountSize + Len(b) + FieldSize
             /\ \A p \in 1 .. Len(b) : w[p] = b[p]
             /\ \A k \in 1 .. FieldSize :
                  w[Len(b) + k] = [of |-> c, part |-> FuncID, k |-> k]
        /\ ~Fits(b, 2 * FieldSize) =>
             /\ o = Size(w)
             /\ \/ w = b /\ ~Fits(b, FieldSize)
                \/ /\ Len(w) = Len(b) + FieldSize
                   /\ \A p \in 1 .. Len(b) : w[p] = b[p]
                   /\ \A k \in 1 .. FieldSize :
                        w[Len(b) + k] = [of |-> c, part |-> FuncID, k |-> k]
  <2>1. /\ buffer' \in Seq(Byte) /\ Size(buffer') <= MaxCapacity
        /\ arg_size_offset' \in CountSize .. MaxCapacity
        /\ arg_size_offset' <= Size(buffer')
        /\ Fits(b, 2 * FieldSize) =>
             /\ Len(buffer') = Len(b) + 2 * FieldSize
             /\ arg_size_offset' = CountSize + Len(b) + FieldSize
             /\ \A p \in 1 .. Len(b) : buffer'[p] = b[p]
             /\ \A k \in 1 .. FieldSize :
                  buffer'[Len(b) + k] = [of |-> call[t], part |-> FuncID, k |-> k]
        /\ ~Fits(b, 2 * FieldSize) =>
             /\ arg_size_offset' = Size(buffer')
             /\ \/ buffer' = b /\ ~Fits(b, FieldSize)
                \/ /\ Len(buffer') = Len(b) + FieldSize
                   /\ \A p \in 1 .. Len(b) : buffer'[p] = b[p]
                   /\ \A k \in 1 .. FieldSize :
                        buffer'[Len(b) + k] = [of |-> call[t], part |-> FuncID, k |-> k]
    BY HeaderFacts
  <2>2. arg_size_offset' \in Nat \ {0}
    BY <2>1, ConstantsAssumption DEF CountSize
  <2>3. PICK w \in Seq(Byte) : w = buffer'
    BY <2>1
  <2>4. PICK o \in Nat \ {0} : o = arg_size_offset'
    BY <2>2
  <2>. QED  BY <1>1, <2>1, <2>3, <2>4
<1>4. PICK d \in Seq(Byte), n \in 0 .. MaxArgSize :
        /\ d = Finalized' /\ Len(d) = Len(w)
        /\ n = ArgDataSize'
        /\ n = IF Len(w) + 2 - o < 0 \/ Len(w) + 2 - o > MaxArgSize
               THEN MaxArgSize ELSE Len(w) + 2 - o
        /\ \A p \in 1 .. Len(w) :
             d[p] = IF p - (o - 6) - FieldSize \in 1 .. FieldSize
                    THEN [of |-> n, part |-> ArgSize, k |-> p - (o - 6) - FieldSize]
                    ELSE w[p]
  BY <1>3, LaterFinalized, SMTT(20)
<1>5. OpenAt' = o - 6
  BY <1>3, LaterFinalized
<1>6. /\ Len(b) \in Nat /\ Len(w) \in Nat /\ Len(d) \in Nat /\ MaxCapacity \in Nat
      /\ MaxArgSize \in Nat
      /\ 4 + Len(w) <= MaxCapacity
      /\ Fits(b, FieldSize) <=> Len(b) + 6 <= MaxCapacity
      /\ Fits(b, 2 * FieldSize) <=> Len(b) + 8 <= MaxCapacity
      /\ \A p \in Int : NoRoom(p) <=> p + 8 > MaxCapacity
  BY <1>3, <1>4, ConstantsAssumption DEF Fits, Size, FieldSize, CountSize, NoRoom
<1>sizes. /\ Len(d) = Len(w) /\ Len(b) <= Len(d)
          /\ Fits(b, 2 * FieldSize) => Len(w) = Len(b) + 4
          /\ ~Fits(b, 2 * FieldSize) =>
               (Len(w) = Len(b) /\ ~Fits(b, FieldSize)) \/ Len(w) = Len(b) + 2
  <2>1. Len(d) = Len(w)
    BY <1>4
  <2>2. Fits(b, 2 * FieldSize) => Len(w) = Len(b) + 4
    BY <1>3 DEF FieldSize
  <2>3. ~Fits(b, 2 * FieldSize) =>
          (Len(w) = Len(b) /\ ~Fits(b, FieldSize)) \/ Len(w) = Len(b) + 2
    BY <1>3 DEF FieldSize
  <2>. QED  BY <1>6, <2>1, <2>2, <2>3
<1>7. /\ Framed(b, 0)
      /\ 0 \in Frames(b) \/ Len(b) = 0 \/ NoRoom(0)
      /\ \A s \in Frames(b) :
           After(b, s) \in Frames(b) \/ After(b, s) = Len(b) \/ NoRoom(After(b, s))
      /\ \A p \in DOMAIN b : IsId(b[p]) => p - 1 \in Frames(b) \/ NoRoom(p - 1)
      /\ Cardinality(Frames(b)) <= FinalizedCount
      /\ Ids(b, 0) \subseteq batched
  BY SealedFacts
<1>8. /\ Rest(b, 0) = Frames(b) /\ Rest(d, 0) = Frames(d)
      /\ IsFiniteSet(Frames(b)) /\ Frames(b) \subseteq Nat
      /\ DOMAIN b = 1 .. Len(b) /\ DOMAIN d = 1 .. Len(d)
      /\ \A s : s \in Frames(b) <=>
           s \in Nat /\ s + 4 <= Len(b) /\ b[s + 1].part = FuncID /\ b[s + 1].k = 1
      /\ \A s : s \in Frames(d) <=>
           s \in Nat /\ s + 4 <= Len(d) /\ d[s + 1].part = FuncID /\ d[s + 1].k = 1
  BY FrameFacts
<1>9. PICK l \in {"idle", "write"} :
        /\ Goto(t, l) /\ l = (IF NumArgs(c) = 0 THEN "idle" ELSE "write")
        /\ pc'[t] = l /\ \A u \in Threads \ {t} : pc'[u] = pc[u]
  <2>1. PICK l \in {"idle", "write"} :
          Goto(t, l) /\ l = (IF NumArgs(c) = 0 THEN "idle" ELSE "write")
    BY <1>1 DEF WriteHeader
  <2>. QED  BY <2>1, GotoFacts DEF Labels
<1>10. /\ batched' = batched \cup {c} /\ FinalizedCount' = FinalizedCount + 1
       /\ {call[u] : u \in Others(t, "write")} \subseteq harmed'
       /\ Others(t, "write") # {} => c \in harmed'
       /\ ~Fits(b, 2 * FieldSize) => full' /\ c \in lost'
       /\ UNCHANGED <<args, call, calls>>
  <2>1. FinalizedCount' = FinalizedCount + 1
    BY <1>3, CountBound DEF FinalizedCount
  <2>. QED  BY <1>1, <2>1 DEF WriteHeader
\* The frames that are there stay.
<1>11. \A p \in 1 .. Len(b) : p \in 1 .. Len(w) /\ d[p] = b[p]
  <2>. TAKE p \in 1 .. Len(b)
  <2>1. p \in 1 .. Len(w) /\ w[p] = b[p]
    BY <1>3, <1>6 DEF FieldSize
  <2>2. o >= Len(b) + 4
    BY <1>3, <1>6 DEF FieldSize, CountSize, Size
  <2>3. p - (o - 6) - FieldSize \notin 1 .. FieldSize
    BY <1>6, <2>2 DEF FieldSize
  <2>. QED  BY <1>4, <2>1, <2>3
<1>12. ASSUME NEW s \in Frames(b)
       PROVE  /\ CallAt(d, s) = CallAt(b, s) /\ After(d, s) = After(b, s)
              /\ After(b, s) \in Nat /\ After(b, s) <= Len(b) /\ s + 4 <= After(b, s)
              /\ CallAt(b, s) \in DOMAIN calls /\ CallAt(b, s) # c
              /\ CallAt(b, s) \in batched
              /\ Header(d, s)' /\ Content(d, s)' /\ Settled(d, s)'
  <2>1. /\ s \in Nat /\ Header(b, s) /\ Content(b, s)
    BY <1>7, <1>8 DEF Framed
  <2>2. /\ After(b, s) \in Nat /\ After(b, s) <= Len(b) /\ s + 4 <= After(b, s)
    <3>1. SizeAt(b, s) \in Nat /\ After(b, s) <= Len(b)
      BY <1>6, <2>1 DEF Header
    <3>2. After(b, s) = s + 4 + SizeAt(b, s)
      BY <2>1, <3>1 DEF After, FieldSize
    <3>. QED  BY <1>6, <2>1, <3>1, <3>2
  <2>3. \A p \in s + 1 .. After(b, s) : d[p] = b[p]
    BY <1>6, <1>11, <2>1, <2>2
  <2>4. After(b, s) <= Len(d)
    BY <1>3, <1>4, <1>6, <2>2, SMTT(20) DEF FieldSize
  <2>5. /\ CallAt(d, s) = CallAt(b, s) /\ After(d, s) = After(b, s)
        /\ Header(d, s) /\ Content(d, s)
    BY <2>1, <2>3, <2>4, SameFrame
  <2>6. CallAt(b, s) \in Ids(b, 0)
    BY <1>8 DEF Ids
  <2>7. PICK i \in DOMAIN calls : i = CallAt(b, s) /\ i # c /\ i \in batched
    BY <1>2, <1>7, <2>1, <2>6 DEF Header
  <2>8. pc[t] # "write" /\ \A u \in Threads \ {t} : pc'[u] = "write" => pc[u] = "write"
    BY <1>9 DEF Unwritten
  <2>9. i \in harmed' \/ (~Writing(i) /\ ~Writing(i)')
    BY <1>1, <1>10, <2>7, <2>8, Harms
  <2>10. Header(d, s)' /\ Content(d, s)'
    BY <2>5, <2>7, <2>9, LaterFrame
  <2>11. Settled(d, s)'
    BY <2>5, <2>7, <2>9 DEF Settled
  <2>. QED  BY <2>2, <2>5, <2>7, <2>10, <2>11
<1>13. ASSUME NEW s \in Frames(b), NEW r \in Frames(b), r > s
       PROVE  r >= After(d, s) /\ InOrder(CallAt(d, s), CallAt(d, r))'
  <2>1. r >= After(b, s) /\ InOrder(CallAt(b, s), CallAt(b, r))
    BY <1>7, <1>8, <1>13 DEF Framed, Follows
  <2>. QED  BY <1>10, <1>12, <2>1 DEF InOrder
<1>14. /\ Frames(b) \subseteq Frames(d)
       /\ \A s \in Frames(d) : s \in Frames(b) \/ (s = Len(b) /\ Fits(b, 2 * FieldSize))
  <2>2. ASSUME NEW s \in Frames(b)  PROVE s \in Frames(d)
    <3>1. s \in Nat /\ s + 4 <= Len(b) /\ b[s + 1].part = FuncID /\ b[s + 1].k = 1
      BY <1>8
    <3>2. s + 1 \in 1 .. Len(b) /\ s + 4 <= Len(d)
      BY <1>6, <1>sizes, <3>1
    <3>. QED  BY <1>8, <1>11, <3>1, <3>2
  <2>3. ASSUME NEW s \in Frames(d), s + 1 <= Len(b)  PROVE s \in Frames(b)
    <3>1. s \in Nat /\ s + 4 <= Len(d) /\ d[s + 1].part = FuncID /\ d[s + 1].k = 1
      BY <1>8
    <3>2. s + 1 \in 1 .. Len(b) /\ (s + 1) - 1 = s /\ ~(s + 8 > MaxCapacity)
      BY <1>6, <1>sizes, <2>3, <3>1
    <3>3. IsId(b[s + 1])
      BY <1>11, <3>1, <3>2 DEF IsId
    <3>4. s \in Frames(b) \/ NoRoom(s)
      BY <1>7, <1>8, <3>2, <3>3
    <3>. QED  BY <1>6, <3>1, <3>2, <3>4
  <2>4. ASSUME NEW s \in Frames(d), s + 1 > Len(b)
        PROVE  s = Len(b) /\ Fits(b, 2 * FieldSize)
    <3>1. s \in Nat /\ s + 4 <= Len(d)
      BY <1>8
    <3>. QED  BY <1>6, <1>sizes, <2>4, <3>1
  <2>. QED  BY <1>6, <1>8, <2>2, <2>3, <2>4
\* The new command has a frame.
<1>15. CASE Fits(b, 2 * FieldSize)
  <2>. PICK q \in Nat : q = Len(b)
    BY <1>6
  <2>1. /\ Len(w) = q + 4 /\ Len(d) = q + 4 /\ o = q + 6 /\ OpenAt' = q /\ n = 0
        /\ q + 8 <= MaxCapacity
    <3>1. Len(w) = q + 4 /\ o = q + 6
      BY <1>3, <1>15 DEF FieldSize, CountSize
    <3>2. Len(w) + 2 - o = 0
      BY <3>1
    <3>. QED  BY <1>4, <1>5, <1>6, <1>15, <3>1, <3>2
  <2>2. \A k \in 1 .. FieldSize :
          /\ d[q + k] = [of |-> c, part |-> FuncID, k |-> k]
          /\ d[q + FieldSize + k] = [of |-> 0, part |-> ArgSize, k |-> k]
    <3>. TAKE k \in 1 .. FieldSize
    <3>1. /\ q + k \in 1 .. Len(w) /\ q + FieldSize + k \in 1 .. Len(w)
          /\ (q + k) - (o - 6) - FieldSize \notin 1 .. FieldSize
          /\ (q + FieldSize + k) - (o - 6) - FieldSize = k
      BY <2>1 DEF FieldSize
    <3>2. w[q + k] = [of |-> c, part |-> FuncID, k |-> k]
      BY <1>3, <1>15
    <3>. QED  BY <1>4, <2>1, <3>1, <3>2
  <2>3. CallAt(d, q) = c /\ SizeAt(d, q) = 0 /\ After(d, q) = q + 4
    <3>1. 1 \in 1 .. FieldSize
      BY DEF FieldSize
    <3>2. /\ d[q + 1] = [of |-> c, part |-> FuncID, k |-> 1]
          /\ d[q + FieldSize + 1] = [of |-> 0, part |-> ArgSize, k |-> 1]
      BY <2>2, <3>1
    <3>. QED  BY <3>2 DEF CallAt, SizeAt, After, FieldSize
  <2>4. Frames(d) = Frames(b) \cup {q} /\ q \notin Frames(b)
    <3>1. d[q + 1] = [of |-> c, part |-> FuncID, k |-> 1]
      BY <2>2 DEF FieldSize
    <3>2. q \in Frames(d)
      <4>1. d[q + 1].part = FuncID /\ d[q + 1].k = 1
        BY <3>1
      <4>2. q \in Nat /\ q + 4 <= Len(d)
        BY <1>6, <2>1
      <4>. QED  BY <1>8, <4>1, <4>2
    <3>3. q \notin Frames(b)
      BY <1>8
    <3>. QED  BY <1>14, <3>2, <3>3
  <2>5. Header(d, q)'
    <3>1. c \in DOMAIN calls' /\ calls'[c].func \in Commands
      BY <1>1, <1>10
    <3>2. 0 \in 0 .. MaxArgSize /\ q + 4 <= Len(d)
      BY <1>6, <2>1
    <3>. QED  BY <2>2, <2>3, <3>1, <3>2 DEF Header
  <2>6. Content(d, q)'
    <3>1. /\ NumArgs(c)' = NumArgs(c) /\ ArgEnd(c, 0)' = 0
          /\ Total(c)' = ArgEnd(c, NumArgs(c))' /\ calls'[c].by = t
      BY <1>1, <1>10 DEF NumArgs, ArgEnd, Total
    <3>2. Written(c)' = 0
      <4>1. CASE l = "idle"
        <5>1. NumArgs(c) = 0 /\ ~Writing(c)'
          BY <1>9, <3>1, <4>1 DEF Writing
        <5>. QED  BY <3>1, <5>1 DEF Written
      <4>2. CASE l = "write"
        <5>1. Writing(c)' /\ args'[t] = 0
          BY <1>1, <1>2, <1>9, <1>10, <3>1, <4>2 DEF Writing
        <5>. QED  BY <3>1, <5>1 DEF Written
      <4>. QED  BY <4>1, <4>2
    <3>3. \A k \in 1 .. 0 : FALSE
      OBVIOUS
    <3>. QED  BY <2>3, <3>2, <3>3 DEF Content
  <2>7. ASSUME NEW s \in Frames(b)
        PROVE  /\ After(d, s) \in Frames(d) /\ s < q /\ q >= After(d, s)
               /\ InOrder(CallAt(d, s), c)'
    <3>1. s \in Nat /\ After(b, s) \in Nat /\ After(b, s) <= q /\ s + 4 <= After(b, s)
      BY <1>8, <1>12
    <3>2. ~NoRoom(After(b, s))
      BY <1>6, <2>1, <3>1
    <3>3. After(b, s) \in Frames(b) \cup {q}
      BY <1>7, <3>2
    <3>4. PICK i \in DOMAIN calls : i = CallAt(b, s) /\ i # c
      BY <1>12
    <3>5. InOrder(i, c)'
      <4>1. calls[i].by = t => i < c
        <5>1. calls[i].by = t => i <= c
          BY <1>2
        <5>2. i \in Int /\ c \in Int
          BY CallFacts
        <5>. QED  BY <3>4, <5>1, <5>2
      <4>. QED  BY <1>1, <1>10, <4>1 DEF InOrder
    <3>. QED  BY <1>12, <2>4, <3>1, <3>3, <3>4, <3>5
  <2>8. ASSUME NEW s \in Frames(d)
        PROVE  /\ Header(d, s)' /\ Content(d, s)' /\ Follows(d, s)'
               /\ FrameOrEnd(d, After(d, s))
    <3>1. CASE s = q
      <4>1. FrameOrEnd(d, After(d, q))
        BY <2>1, <2>3 DEF FrameOrEnd, FieldSize
      <4>2. \A r \in Frames(d) : ~(r > q)
        <5>1. \A r \in Frames(b) : r < q
          BY <2>7
        <5>. QED  BY <1>8, <2>4, <5>1
      <4>. QED  BY <2>5, <2>6, <3>1, <4>1, <4>2 DEF Follows
    <3>2. CASE s \in Frames(b)
      <4>1. FrameOrEnd(d, After(d, s))
        BY <2>7, <3>2 DEF FrameOrEnd
      <4>2. ASSUME NEW r \in Frames(d), r > s
            PROVE  r >= After(d, s) /\ InOrder(CallAt(d, s), CallAt(d, r))'
        <5>1. CASE r = q
          BY <2>3, <2>7, <3>2, <5>1
        <5>2. CASE r \in Frames(b)
          BY <1>13, <3>2, <4>2, <5>2
        <5>. QED  BY <2>4, <5>1, <5>2
      <4>3. Follows(d, s)'
        BY <4>2 DEF Follows
      <4>. QED  BY <1>12, <3>2, <4>1, <4>3
    <3>. QED  BY <2>4, <3>1, <3>2
  <2>9. 0 \in Frames(d)
    <3>1. ~NoRoom(0)
      BY <1>6, <2>1
    <3>. QED  BY <1>7, <2>4, <3>1
  <2>10. Framed(d, 0)'
    <3>1. FrameOrEnd(d, 0)
      BY <2>9 DEF FrameOrEnd
    <3>. QED  BY <1>8, <2>8, <3>1 DEF Framed
  <2>11. ASSUME NEW p \in DOMAIN d, IsId(d[p])  PROVE p - 1 \in Frames(d) \/ NoRoom(p - 1)
    <3>1. CASE p <= q
      <4>1. p \in 1 .. Len(b) /\ d[p] = b[p]
        BY <1>8, <1>11, <3>1
      <4>. QED  BY <1>7, <1>8, <1>14, <2>11, <4>1
    <3>2. CASE p = q + 1
      BY <2>4, <3>2
    <3>3. CASE p > q + 1
      <4>1. p - q \in {2, 3, 4} /\ 2 \in 1 .. FieldSize /\ 1 \in 1 .. FieldSize
        BY <1>8, <2>1, <3>3 DEF FieldSize
      <4>2. /\ d[q + 2] = [of |-> c, part |-> FuncID, k |-> 2]
            /\ d[q + 3] = [of |-> 0, part |-> ArgSize, k |-> 1]
            /\ d[q + 4] = [of |-> 0, part |-> ArgSize, k |-> 2]
        BY <2>2, <4>1 DEF FieldSize
      <4>3. p = q + 2 \/ p = q + 3 \/ p = q + 4
        BY <1>8, <4>1
      <4>. QED  BY <2>11, <4>2, <4>3 DEF IsId, FuncID, ArgSize
    <3>. QED  BY <1>8, <3>1, <3>2, <3>3
  <2>12. Cardinality(Frames(d)) <= FinalizedCount'
    <3>1. Cardinality(Frames(d)) = Cardinality(Frames(b)) + 1
      <4>1. Cardinality(Frames(b) \cup {q}) = Cardinality(Frames(b)) + 1
        BY <1>8, <2>4, FS_AddElement, Zenon
      <4>. QED  BY <2>4, <4>1
    <3>2. Cardinality(Frames(b)) \in Nat /\ FinalizedCount \in Nat
      BY <1>8, FS_CardinalityType, CountBound
    <3>. QED  BY <1>7, <1>10, <3>1, <3>2
  <2>13. Ids(d, 0) = Ids(b, 0) \cup {c}
    <3>1. Ids(d, 0) = {CallAt(d, s) : s \in Frames(b)} \cup {CallAt(d, q)}
      BY <1>8, <2>4 DEF Ids
    <3>2. {CallAt(d, s) : s \in Frames(b)} = {CallAt(b, s) : s \in Frames(b)}
      BY <1>12
    <3>. QED  BY <1>8, <2>3, <3>1, <3>2 DEF Ids
  <2>14. OpenFrame(d)'
    <3>1. OpenBytes(d)'
      <4>1. OpenAt' + 2 * FieldSize + 1 .. Len(d) = {}
        BY <2>1 DEF FieldSize
      <4>. QED  BY <4>1 DEF OpenBytes
    <3>2. ASSUME NEW u \in Threads, pc'[u] = "write"  PROVE call'[u] = c \/ c \in harmed'
      <4>1. u # t => u \in Others(t, "write")
        BY <1>9, <3>2 DEF Others
      <4>. QED  BY <1>1, <1>10, <4>1
    <3>. QED  BY <2>1, <2>3, <2>4, <3>1, <3>2 DEF OpenFrame
  <2>15. OpenInv(d)'
    <3>1. \A s \in Frames(d) \ {OpenAt'} :
            /\ Settled(d, s)'
            /\ After(d, s) \in Frames(d) \/ NoRoom(After(d, s))
            /\ s < OpenAt'
      BY <1>12, <2>1, <2>4, <2>7
    <3>2. Ids(d, 0) \subseteq batched'
      BY <1>7, <1>10, <2>13
    <3>. QED  BY <2>9, <2>10, <2>11, <2>12, <2>14, <3>1, <3>2 DEF OpenInv
  <2>16. BufferInv'
    BY <1>3, <1>4, <2>15 DEF BufferInv
  <2>17. InBuffer' = InBuffer \cup {c}
    BY <1>4, <2>13 DEF InBuffer
  <2>. QED  BY <1>1, <2>16, <2>17
\* Nothing is begun: the buffer is full.
<1>16. CASE ~Fits(b, 2 * FieldSize)
  <2>1. /\ Len(d) = Len(w) /\ Len(w) \in Len(b) .. Len(b) + 2 /\ o = Len(w) + 4
        /\ OpenAt' = Len(w) - 2 /\ Len(b) + 8 > MaxCapacity /\ Len(w) + 6 > MaxCapacity
    <3>1. o = Len(w) + 4
      BY <1>3, <1>6, <1>16 DEF Size, CountSize
    <3>2. Len(b) + 8 > MaxCapacity
      BY <1>6, <1>16
    <3>. QED  BY <1>5, <1>6, <1>sizes, <1>16, <3>1, <3>2
  <2>2. Frames(d) = Frames(b)
    BY <1>14, <1>16
  <2>3. Ids(d, 0) = Ids(b, 0)
    <3>1. {CallAt(d, s) : s \in Frames(b)} = {CallAt(b, s) : s \in Frames(b)}
      BY <1>12
    <3>. QED  BY <1>8, <2>2, <3>1 DEF Ids
  <2>4. ASSUME NEW s \in Frames(b)
        PROVE  /\ After(d, s) \in Frames(d) \/ NoRoom(After(d, s))
               /\ FrameOrEnd(d, After(d, s)) /\ s < OpenAt'
               /\ After(d, s) <= OpenAt' + FieldSize
    <3>1. /\ s \in Nat /\ After(b, s) \in Nat /\ After(b, s) <= Len(b)
          /\ s + 4 <= After(b, s) /\ After(d, s) = After(b, s)
      BY <1>8, <1>12
    <3>2. s < OpenAt' /\ After(d, s) <= OpenAt' + FieldSize
      BY <1>6, <2>1, <3>1 DEF FieldSize
    <3>3. After(b, s) = Len(b) => NoRoom(After(b, s))
      BY <1>6, <2>1
    <3>4. NoRoom(After(b, s)) => FrameOrEnd(d, After(b, s))
      BY <1>4, <1>6, <3>1 DEF FrameOrEnd, FieldSize
    <3>5. After(b, s) \in Frames(b) => FrameOrEnd(d, After(b, s))
      BY <2>2 DEF FrameOrEnd
    <3>. QED  BY <1>7, <2>2, <3>1, <3>2, <3>3, <3>4, <3>5
  <2>5. 0 \in Frames(d) \/ NoRoom(0)
    <3>1. Len(b) = 0 => NoRoom(0)
      BY <1>6, <2>1
    <3>. QED  BY <1>7, <2>2, <3>1
  <2>6. Framed(d, 0)'
    <3>1. NoRoom(0) => FrameOrEnd(d, 0)
      BY <1>4, <1>6, SMTT(20) DEF FrameOrEnd, FieldSize
    <3>2. FrameOrEnd(d, 0)
      BY <2>5, <3>1 DEF FrameOrEnd
    <3>3. \A s \in Frames(d) : Follows(d, s)'
      BY <1>13, <2>2 DEF Follows
    <3>. QED  BY <1>8, <1>12, <2>2, <2>4, <3>2, <3>3 DEF Framed
  <2>7. ASSUME NEW p \in DOMAIN d, IsId(d[p])  PROVE p - 1 \in Frames(d) \/ NoRoom(p - 1)
    <3>1. CASE p <= Len(b)
      <4>1. p \in 1 .. Len(b) /\ d[p] = b[p]
        BY <1>6, <1>8, <1>11, <3>1
      <4>. QED  BY <1>7, <1>8, <2>2, <2>7, <4>1
    <3>2. CASE p > Len(b)
      <4>1. p \in Nat
        BY <1>6, <1>8
      <4>2. (p - 1) + 8 > MaxCapacity /\ p - 1 \in Int
        BY <1>6, <2>1, <3>2, <4>1
      <4>3. NoRoom(p - 1)
        BY <1>6, <4>2
      <4>. QED  BY <4>3
    <3>3. p \in Nat
      BY <1>6, <1>8
    <3>4. p <= Len(b) \/ p > Len(b)
      BY <1>6, <3>3
    <3>. QED  BY <3>1, <3>2, <3>4
  <2>8. Cardinality(Frames(d)) <= FinalizedCount'
    <3>1. Cardinality(Frames(b)) \in Nat /\ FinalizedCount \in Nat
      BY <1>8, FS_CardinalityType, CountBound
    <3>. QED  BY <1>7, <1>10, <2>2, <3>1
  <2>9. Overflow(d)'
    <3>1. NoRoom(OpenAt)'
      <4>1. OpenAt' + 8 > MaxCapacity /\ OpenAt' = Len(w) - 2
        BY <1>6, <2>1
      <4>2. CountSize + (Len(w) - 2) + 2 * FieldSize > MaxCapacity
        BY <1>6, <4>1 DEF CountSize, FieldSize
      <4>. QED  BY <4>1, <4>2 DEF NoRoom
    <3>2. arg_size_offset' <= Size(d)
      BY <1>3, <1>6, <2>1 DEF Size, CountSize
    <3>. QED  BY <1>10, <1>16, <2>2, <2>4, <3>1, <3>2 DEF Overflow
  <2>10. OpenInv(d)'
    <3>1. \A s \in Frames(d) \ {OpenAt'} :
            /\ Settled(d, s)'
            /\ After(d, s) \in Frames(d) \/ NoRoom(After(d, s))
            /\ s < OpenAt'
      BY <1>12, <2>2, <2>4
    <3>2. Ids(d, 0) \subseteq batched'
      BY <1>7, <1>10, <2>3
    <3>. QED  BY <2>5, <2>6, <2>7, <2>8, <2>9, <3>1, <3>2 DEF OpenInv
  <2>11. BufferInv'
    BY <1>3, <1>4, <2>10 DEF BufferInv
  <2>12. InBuffer' = InBuffer /\ c \in lost'
    BY <1>4, <1>10, <1>16, <2>3 DEF InBuffer
  <2>. QED  BY <1>1, <2>11, <2>12
<1>. QED  BY <1>15, <1>16

\* There is no command in the buffer.
LEMMA Unstarted ==
  ASSUME TypeInv, CountInv, BufferInv, batched = {}
  PROVE  /\ arg_size_offset = 0 /\ buffer = <<>> /\ cmd_count = 0 /\ ~full
         /\ Finalized = buffer /\ FinalizedCount = cmd_count
<1>1. FinalizedCount <= 0 /\ FinalizedCount \in Nat
  BY CountBound, FS_EmptySet DEF CountInv
<1>2. arg_size_offset = 0
  BY <1>1 DEF FinalizedCount, TypeInv
<1>. QED  BY <1>2 DEF BufferInv, Finalized, FinalizedCount, TypeInv

\* Nobody begins or leaves a command.
SameWriters ==
  \A u \in Threads :
    /\ pc'[u] = "write" <=> pc[u] = "write"
    /\ pc[u] = "write" => call'[u] = call[u] /\ args'[u] = args[u]

\* The buffer stays what it is while its writers do.
LEMMA SameBuffer ==
  ASSUME TypeInv, CallInv, BufferInv, Grow, SameWriters,
         UNCHANGED <<buffer, cmd_count, arg_size_offset, batched, full>>
  PROVE  BufferInv' /\ InBuffer' = InBuffer
<1>1. PICK b \in Seq(Byte) : b = Finalized
  BY FinalizedFacts
<1>2. Finalized' = b
  BY <1>1 DEF Finalized, ArgDataSize
<1>3. InBuffer' = InBuffer
  BY <1>1, <1>2 DEF InBuffer
<1>4. CASE arg_size_offset = 0
  BY <1>3, <1>4 DEF BufferInv
<1>5. CASE arg_size_offset # 0
  <2>1. OpenInv(b) /\ Framed(b, 0)
    BY <1>1, <1>5 DEF BufferInv, OpenInv
  <2>2. Rest(b, 0) = Frames(b)
    BY FrameFacts
  <2>3. OpenAt' = OpenAt /\ FinalizedCount' = FinalizedCount
    BY DEF OpenAt, FinalizedCount
  <2>4. ASSUME NEW i \in DOMAIN calls
        PROVE  /\ i \in DOMAIN calls' /\ calls'[i] = calls[i] /\ calls[i].by \in Threads
               /\ Writing(i)' <=> Writing(i)
               /\ Total(i)' = Total(i) /\ Written(i)' = Written(i)
    <3>1. i \in DOMAIN calls' /\ calls'[i] = calls[i] /\ calls[i].by \in Threads
      BY CallFacts DEF Grow
    <3>2. \A j : ArgEnd(i, j)' = ArgEnd(i, j)
      BY <3>1 DEF ArgEnd
    <3>3. Total(i)' = Total(i)
      BY <3>1, <3>2 DEF Total, NumArgs
    <3>4. Writing(i)' <=> Writing(i)
      BY <3>1 DEF Writing, SameWriters
    <3>5. Writing(i) => args'[calls[i].by] = args[calls[i].by]
      BY <3>1 DEF Writing, SameWriters
    <3>6. Writing(i) => ArgEnd(i, args[calls[i].by])' = ArgEnd(i, args[calls[i].by])
      BY <3>1, <3>5 DEF ArgEnd
    <3>. QED  BY <3>1, <3>3, <3>4, <3>6 DEF Written
  <2>5. harmed \subseteq harmed' /\ lost \subseteq lost'
    BY DEF Grow
  <2>6. ASSUME NEW s \in Frames(b)
        PROVE  /\ Header(b, s)' /\ Content(b, s)' /\ Follows(b, s)'
               /\ FrameOrEnd(b, After(b, s))
               /\ Settled(b, s) => Settled(b, s)'
    <3>1. /\ Header(b, s) /\ Content(b, s) /\ Follows(b, s)
          /\ FrameOrEnd(b, After(b, s))
      BY <2>1, <2>2 DEF Framed
    <3>2. PICK i \in DOMAIN calls : i = CallAt(b, s)
      BY <3>1 DEF Header
    <3>3. Header(b, s)'
      BY <3>1, LaterFrame
    <3>4. Content(b, s)'
      BY <2>4, <2>5, <3>1, <3>2 DEF Content
    <3>5. ASSUME NEW r \in Frames(b), r > s
          PROVE  r >= After(b, s) /\ InOrder(CallAt(b, s), CallAt(b, r))'
      <4>1. CallAt(b, r) \in DOMAIN calls
        BY <2>1, <2>2 DEF Framed, Header
      <4>2. r >= After(b, s) /\ InOrder(CallAt(b, s), CallAt(b, r))
        BY <3>1, <3>5 DEF Follows
      <4>. QED  BY <2>4, <3>2, <4>1, <4>2 DEF InOrder
    <3>6. Follows(b, s)'
      BY <3>5 DEF Follows
    <3>7. Settled(b, s) => Settled(b, s)'
      BY <2>4, <2>5, <3>2 DEF Settled
    <3>. QED  BY <3>1, <3>3, <3>4, <3>6, <3>7
  <2>7. Framed(b, 0)'
    <3>1. FrameOrEnd(b, 0)
      BY <2>1 DEF Framed
    <3>. QED  BY <2>2, <2>6, <3>1 DEF Framed
  <2>8. ASSUME OpenFrame(b)  PROVE OpenFrame(b)'
    <3>1. OpenBytes(b)'
      <4>1. ASSUME NEW p \in OpenAt + 2 * FieldSize + 1 .. Len(b)
            PROVE  LET i == b[p].of
                       t == calls[i].by
                   IN  /\ i \in DOMAIN calls' /\ calls'[i] = calls[i]
                       /\ calls[i].func \in Commands
                       /\ b[p].part = ArgData /\ b[p].k \in 1 .. Total(i)'
                       /\ pc'[t] = "write" => i = call'[t] /\ b[p].k <= ArgEnd(i, args[t])'
        <5>1. PICK i \in DOMAIN calls : i = b[p].of
          BY <2>8, <4>1 DEF OpenFrame, OpenBytes
        <5>2. PICK t \in Threads : t = calls[i].by
          BY <2>4
        <5>3. /\ calls[i].func \in Commands
              /\ b[p].part = ArgData /\ b[p].k \in 1 .. Total(i)
              /\ pc[t] = "write" => i = call[t] /\ b[p].k <= ArgEnd(i, args[t])
          BY <2>8, <4>1, <5>1, <5>2 DEF OpenFrame, OpenBytes
        <5>4. pc'[t] = "write" => i = call'[t] /\ b[p].k <= ArgEnd(i, args[t])'
          <6>1. ArgEnd(i, args[t]) = IF args[t] = 0 THEN 0 ELSE ArgEnds[calls[i].func][args[t]]
            BY DEF ArgEnd
          <6>2. ArgEnd(i, args[t])' = IF args'[t] = 0 THEN 0 ELSE ArgEnds[calls'[i].func][args'[t]]
            BY DEF ArgEnd
          <6>. QED  BY <2>4, <5>3, <6>1, <6>2 DEF SameWriters
        <5>. QED  BY <2>4, <5>1, <5>2, <5>3, <5>4
      <4>2. \A p, q \in OpenAt + 2 * FieldSize + 1 .. Len(b) :
              p # q /\ calls'[b[p].of].by = calls'[b[q].of].by =>
                b[p].of = b[q].of /\ b[p].k # b[q].k
        BY <2>8, <4>1 DEF OpenFrame, OpenBytes
      <4>. QED  BY <2>3, <4>1, <4>2 DEF OpenBytes
    <3>. QED  BY <2>3, <2>5, <2>8, <3>1 DEF OpenFrame, SameWriters
  <2>9. Overflow(b) => Overflow(b)'
    <3>1. OpenAt' = OpenAt /\ arg_size_offset' = arg_size_offset /\ full' = full
      BY <2>3
    <3>. QED  BY <3>1 DEF Overflow, NoRoom
  <2>10. OpenInv(b)'
    <3>1. \A s \in Frames(b) \ {OpenAt'} :
            /\ Settled(b, s)'
            /\ After(b, s) \in Frames(b) \/ NoRoom(After(b, s))
            /\ s < OpenAt'
      BY <2>1, <2>3, <2>6 DEF OpenInv
    <3>2. /\ 0 \in Frames(b) \/ NoRoom(0)
          /\ \A p \in DOMAIN b : IsId(b[p]) => p - 1 \in Frames(b) \/ NoRoom(p - 1)
          /\ Cardinality(Frames(b)) <= FinalizedCount'
          /\ Ids(b, 0) \subseteq batched'
          /\ OpenFrame(b)' \/ Overflow(b)'
      BY <2>1, <2>3, <2>8, <2>9 DEF OpenInv
    <3>. QED  BY <2>7, <3>1, <3>2 DEF OpenInv
  <2>. QED  BY <1>2, <1>3, <1>5, <2>10 DEF BufferInv
<1>. QED  BY <1>4, <1>5

\* Different bytes, of each thread at most m.
Distinct(m, from, to, by, no) ==
  /\ \A p \in from + 1 .. to : by[p] \in Threads /\ no[p] \in 1 .. m
  /\ \A p, q \in from + 1 .. to : p # q /\ by[p] = by[q] => no[p] # no[q]

\* There are no more different bytes than the threads can write.
LEMMA FewBytes ==
  ASSUME IsFiniteSet(Threads), NEW m \in Nat, ThreadsWrite(m) <= MaxArgSize,
         NEW from \in Nat, NEW to \in Nat, from <= to,
         NEW by, NEW no, Distinct(m, from, to, by, no)
  PROVE  to - from <= MaxArgSize
<1> DEFINE S == from + 1 .. to
           T == Threads \X (1 .. m)
           f == [p \in S |-> <<by[p], no[p]>>]
<1>1. IsFiniteSet(T) /\ Cardinality(T) = ThreadsWrite(m)
  <2>1. IsFiniteSet(1 .. m) /\ Cardinality(1 .. m) = m
    <3>1. IsFiniteSet(1 .. m) /\ Cardinality(1 .. m) = IF 1 > m THEN 0 ELSE m - 1 + 1
      BY FS_Interval
    <3>. QED  BY <3>1
  <2>. QED  BY <2>1, FS_Product DEF ThreadsWrite
<1>2. f \in Injection(S, T)
  <2>1. f \in [S -> T]
    BY DEF Distinct
  <2>2. \A p, q \in S : f[p] = f[q] => p = q
    BY DEF Distinct
  <2>. QED  BY <2>1, <2>2 DEF Injection, IsInjective
<1>3. Cardinality(S) <= Cardinality(T)
  <2>. HIDE DEF S, T, f
  <2>. QED  BY <1>1, <1>2, FS_Injection
<1>4. Cardinality(S) = to - from
  <2>1. Cardinality(from + 1 .. to) = IF from + 1 > to THEN 0 ELSE to - (from + 1) + 1
    BY FS_Interval
  <2>. QED  BY <2>1
<1>5. Cardinality(T) \in Nat /\ Cardinality(T) <= MaxArgSize
  BY <1>1, FS_CardinalityType
<1>. HIDE DEF T
<1>. QED  BY <1>3, <1>4, <1>5, ConstantsAssumption

\* An argument is written.
WritesOne(t, i, e, g, x) ==
  /\ i = call[t] /\ calls[i].by = t /\ calls[i].func \in Commands /\ pc[t] = "write"
  /\ e = ArgEnd(i, args[t]) /\ e < g /\ g <= Total(i)
  /\ Len(x) = g - e
  /\ \A k \in 1 .. g - e : x[k] = [of |-> i, part |-> ArgData, k |-> e + k]
  /\ buffer' = IF arg_size_offset = 0 THEN buffer ELSE RawWrite(buffer, x)
  /\ full' = (full \/ (arg_size_offset # 0 /\ ~Fits(buffer, Len(x))))
  /\ full' => i \in lost'
  /\ UNCHANGED <<cmd_count, arg_size_offset, call, calls, batched, harmed>>
  /\ \A u \in Threads \ {t} : pc'[u] = pc[u] /\ args'[u] = args[u]
  /\ pc'[t] = "write" => ArgEnd(i, args[t])' = g
  /\ Writing(i) /\ Written(i) = e /\ Written(i)' = g
  /\ \A k \in DOMAIN calls :
       /\ Total(k)' = Total(k) /\ (Writing(k)' => Writing(k))
       /\ k # i => Written(k)' = Written(k)

\* The next argument of a thread.
LEMMA WriteFacts ==
  ASSUME TypeInv, CallInv, NEW t \in Threads, WriteArgument(t)
  PROVE  \E i \in DOMAIN calls, e, g \in Nat, x \in Seq(Byte) : WritesOne(t, i, e, g, x)
<1>1. PICK i \in DOMAIN calls :
        /\ i = call[t] /\ calls[i].func \in Commands /\ calls[i].by = t
        /\ pc[t] = "write" /\ args[t] < NumArgs(i)
  <2>1. pc[t] = "write"
    BY DEF WriteArgument, Runs
  <2>2. call[t] \in DOMAIN calls
    BY <2>1, CallFacts
  <2>. QED  BY <2>1, <2>2 DEF CallInv
<1>2. PICK j \in Nat : j = args[t]
  BY DEF TypeInv
<1>3. calls \in Seq([by : Threads, func : Commands \cup {Sync}])
  BY DEF TypeInv
<1>4. PICK n \in Nat : n = NumArgs(i) /\ j < n /\ j + 1 \in 1 .. n /\ (j + 1) - 1 = j
  BY <1>1, <1>2, <1>3, EndFacts
<1>5. j \in 0 .. n /\ j + 1 \in 0 .. n /\ j < j + 1
  BY <1>4
<1>6. PICK e \in Nat : e = ArgEnd(i, j)
  BY <1>1, <1>3, <1>4, <1>5, EndFacts
<1>7. PICK g \in Nat : g = ArgEnd(i, j + 1) /\ e < g /\ g <= Total(i)
  BY <1>1, <1>3, <1>4, <1>5, <1>6, EndFacts
<1>8. PICK x \in Seq(Byte) :
        /\ x = Argument(i, j + 1) /\ Len(x) = g - e
        /\ \A k \in 1 .. g - e : x[k] = [of |-> i, part |-> ArgData, k |-> e + k]
  <2>1. PICK h \in 1 .. NumArgs(i) : h = j + 1 /\ h - 1 = j
    BY <1>4
  <2>2. /\ Argument(i, h) \in Seq(Byte)
        /\ Len(Argument(i, h)) = ArgEnd(i, h) - ArgEnd(i, h - 1)
        /\ \A k \in 1 .. Len(Argument(i, h)) :
             Argument(i, h)[k] = [of |-> i, part |-> ArgData, k |-> ArgEnd(i, h - 1) + k]
    BY <1>1, <1>3, ArgumentFacts
  <2>. QED  BY <1>6, <1>7, <2>1, <2>2
<1>9. PICK l \in {"idle", "write"} :
        /\ Goto(t, l) /\ l = (IF j + 1 = n THEN "idle" ELSE "write")
        /\ pc'[t] = l /\ \A u \in Threads \ {t} : pc'[u] = pc[u]
  <2>1. PICK l \in {"idle", "write"} :
          Goto(t, l) /\ l = (IF j + 1 = n THEN "idle" ELSE "write")
    BY <1>1, <1>2, <1>4 DEF WriteArgument
  <2>. QED  BY <2>1, GotoFacts DEF Labels
<1>10. args'[t] = j + 1 /\ \A u \in Threads \ {t} : args'[u] = args[u]
  BY <1>2 DEF WriteArgument, TypeInv
<1>11. /\ buffer' = IF arg_size_offset = 0 THEN buffer ELSE RawWrite(buffer, x)
       /\ full' = (full \/ (arg_size_offset # 0 /\ ~Fits(buffer, Len(x))))
       /\ full' => i \in lost'
       /\ UNCHANGED <<cmd_count, arg_size_offset, call, calls, batched, harmed>>
  BY <1>1, <1>2, <1>8 DEF WriteArgument
<1>12. \A k \in DOMAIN calls : Total(k)' = Total(k)
  BY <1>11 DEF Total, ArgEnd, NumArgs
<1>13. Writing(i) /\ Written(i) = e
  BY <1>1, <1>2, <1>6 DEF Writing, Written
<1>14. ArgEnd(i, args[t])' = g
  BY <1>7, <1>10, <1>11 DEF ArgEnd
<1>15. Written(i)' = g
  <2>1. CASE l = "write"
    BY <1>1, <1>9, <1>11, <1>14, <2>1 DEF Writing, Written
  <2>2. CASE l = "idle"
    <3>1. ~Writing(i)'
      BY <1>1, <1>9, <1>11, <2>2 DEF Writing
    <3>2. Total(i) = g
      BY <1>4, <1>7, <1>9, <2>2 DEF Total
    <3>. QED  BY <1>12, <3>1, <3>2 DEF Written
  <2>. QED  BY <2>1, <2>2
<1>16. ASSUME NEW k \in DOMAIN calls
       PROVE  (Writing(k)' => Writing(k)) /\ (k # i => Written(k)' = Written(k))
  <2>1. PICK u \in Threads : u = calls[k].by
    BY CallFacts
  <2>2. CASE u = t
    <3>1. k # i => ~Writing(k) /\ ~Writing(k)'
      BY <1>1, <1>11, <2>1, <2>2 DEF Writing
    <3>. QED  BY <1>12, <1>13, <3>1 DEF Written
  <2>3. CASE u # t
    <3>1. Writing(k)' <=> Writing(k)
      BY <1>9, <1>11, <2>1, <2>3 DEF Writing
    <3>2. ArgEnd(k, args[u])' = ArgEnd(k, args[u])
      BY <1>10, <1>11, <2>3 DEF ArgEnd
    <3>. QED  BY <1>11, <1>12, <2>1, <3>1, <3>2 DEF Written
  <2>. QED  BY <2>2, <2>3
<1>17. pc'[t] = "write" => ArgEnd(i, args[t])' = g
  BY <1>14
<1>18. /\ i = call[t] /\ calls[i].by = t /\ calls[i].func \in Commands /\ pc[t] = "write"
       /\ e = ArgEnd(i, args[t]) /\ e < g /\ g <= Total(i)
  BY <1>1, <1>2, <1>6, <1>7
<1>19. WritesOne(t, i, e, g, x)
  BY <1>8, <1>9, <1>10, <1>11, <1>12, <1>13, <1>15, <1>16, <1>17, <1>18 DEF WritesOne
<1>. QED  BY <1>19

\* A byte that is there already is one of those written, after the write as well.
OpenByte(y) ==
  LET t == calls[y.of].by
  IN  /\ y.of \in DOMAIN calls /\ calls[y.of].func \in Commands
      /\ y.part = ArgData /\ y.k \in 1 .. Total(y.of)
      /\ pc[t] = "write" => y.of = call[t] /\ y.k <= ArgEnd(y.of, args[t])

\* A byte of the open command stays what it is.
LEMMA OpenByteLater ==
  ASSUME TypeInv, CallInv, NEW t \in Threads, NEW i \in DOMAIN calls, NEW e \in Nat, NEW g \in Nat,
         NEW x \in Seq(Byte), WritesOne(t, i, e, g, x), NEW y, OpenByte(y)
  PROVE  OpenByte(y)'
<1>1. PICK k \in DOMAIN calls : k = y.of
  BY DEF OpenByte
<1>2. PICK u \in Threads : u = calls[k].by
  BY CallFacts
<1>3. /\ calls[k].func \in Commands /\ y.part = ArgData /\ y.k \in 1 .. Total(k)
      /\ pc[u] = "write" => k = call[u] /\ y.k <= ArgEnd(k, args[u])
  BY <1>1, <1>2 DEF OpenByte
<1>4. calls' = calls /\ call' = call /\ Total(k)' = Total(k)
  BY DEF WritesOne
<1>5. ASSUME pc'[u] = "write"
      PROVE  k = call[u] /\ y.k <= ArgEnd(k, args[u])'
  <2>1. CASE u = t
    <3>1. k = i /\ y.k <= e /\ e < g /\ ArgEnd(i, args[t])' = g
      BY <1>3, <1>5, <2>1 DEF WritesOne
    <3>2. y.k \in Nat
      <4>1. calls \in Seq([by : Threads, func : Commands \cup {Sync}])
        BY DEF TypeInv
      <4>2. Total(k) \in Nat
        BY <1>3, <4>1, EndFacts
      <4>. QED  BY <1>3, <4>2
    <3>. QED  BY <1>3, <1>5, <2>1, <3>1, <3>2 DEF WritesOne
  <2>2. CASE u # t
    <3>1. pc'[u] = pc[u] /\ args'[u] = args[u]
      BY <2>2 DEF WritesOne
    <3>2. ArgEnd(k, args[u])' = ArgEnd(k, args[u])
      BY <1>4, <3>1 DEF ArgEnd
    <3>. QED  BY <1>3, <1>5, <3>1, <3>2
  <2>. QED  BY <2>1, <2>2
<1>. QED  BY <1>1, <1>2, <1>3, <1>4, <1>5 DEF OpenByte

\* A write that does not fit leaves the frames, and the call is lost.
LEMMA WriteSkipped ==
  ASSUME TypeInv, CallInv, BufferInv, Grow, arg_size_offset # 0,
         NEW t \in Threads, NEW i \in DOMAIN calls, NEW e \in Nat, NEW g \in Nat,
         NEW x \in Seq(Byte), WritesOne(t, i, e, g, x), ~Fits(buffer, Len(x))
  PROVE  BufferInv' /\ InBuffer' = InBuffer
<1>1. PICK b \in Seq(Byte) : b = Finalized
  BY FinalizedFacts
<1>2. /\ buffer' = buffer /\ full' = TRUE /\ i \in lost'
      /\ UNCHANGED <<cmd_count, arg_size_offset, call, calls, batched, harmed>>
  BY DEF WritesOne, RawWrite
<1>3. Finalized' = b
  BY <1>1, <1>2 DEF Finalized, ArgDataSize
<1>4. InBuffer' = InBuffer
  BY <1>1, <1>3 DEF InBuffer
<1>5. OpenInv(b) /\ Framed(b, 0)
  BY <1>1 DEF BufferInv, OpenInv
<1>6. Rest(b, 0) = Frames(b)
  BY FrameFacts
<1>7. OpenAt' = OpenAt /\ FinalizedCount' = FinalizedCount
  BY <1>2 DEF OpenAt, FinalizedCount
<1>8. ASSUME NEW s \in Frames(b)
      PROVE  /\ Header(b, s)' /\ Content(b, s)' /\ Follows(b, s)'
             /\ FrameOrEnd(b, After(b, s))
             /\ Settled(b, s) => Settled(b, s)'
  <2>1. /\ Header(b, s) /\ Content(b, s) /\ Follows(b, s)
        /\ FrameOrEnd(b, After(b, s))
    BY <1>5, <1>6 DEF Framed
  <2>2. PICK k \in DOMAIN calls : k = CallAt(b, s)
    BY <2>1 DEF Header
  <2>3. Header(b, s)'
    BY <2>1, LaterFrame
  <2>4. Content(b, s)'
    <3>1. CASE k = i
      <4>1. SizeAt(b, s) \in Nat
        BY <2>1, ConstantsAssumption DEF Header
      <4>2. Written(k) = e /\ Written(k)' = g /\ e < g
        BY <3>1 DEF WritesOne
      <4>. QED  BY <1>2, <2>1, <2>2, <3>1, <4>1, <4>2 DEF Content
    <3>2. CASE k # i
      <4>1. Written(k)' = Written(k)
        BY <3>2 DEF WritesOne
      <4>2. lost \subseteq lost'
        BY DEF Grow
      <4>. QED  BY <1>2, <2>1, <2>2, <4>1, <4>2 DEF Content
    <3>. QED  BY <3>1, <3>2
  <2>5. Follows(b, s)'
    BY <1>2, <2>1 DEF Follows, InOrder
  <2>6. Settled(b, s) => Settled(b, s)'
    <3>1. Writing(k)' => Writing(k)
      BY DEF WritesOne
    <3>. QED  BY <1>2, <2>2, <3>1 DEF Settled
  <2>. QED  BY <2>1, <2>3, <2>4, <2>5, <2>6
<1>9. Framed(b, 0)'
  <2>1. FrameOrEnd(b, 0)
    BY <1>5 DEF Framed
  <2>. QED  BY <1>6, <1>8, <2>1 DEF Framed
<1>10. ASSUME OpenFrame(b)  PROVE OpenFrame(b)'
  <2>1. OpenBytes(b)'
    <3>1. ASSUME NEW p \in OpenAt + 2 * FieldSize + 1 .. Len(b)  PROVE OpenByte(b[p])'
      <4>1. OpenByte(b[p])
        BY <1>10, <3>1 DEF OpenFrame, OpenBytes, OpenByte
      <4>2. PICK y : y = b[p]
        OBVIOUS
      <4>3. OpenByte(y)'
        BY <4>1, <4>2, OpenByteLater
      <4>. QED  BY <4>2, <4>3
    <3>2. \A p, q \in OpenAt + 2 * FieldSize + 1 .. Len(b) :
            p # q /\ calls[b[p].of].by = calls[b[q].of].by =>
              b[p].of = b[q].of /\ b[p].k # b[q].k
      BY <1>10 DEF OpenFrame, OpenBytes
    <3>. QED  BY <1>2, <1>7, <3>1, <3>2 DEF OpenBytes, OpenByte
  <2>2. \A u \in Threads : pc'[u] = "write" => pc[u] = "write"
    BY DEF WritesOne
  <2>. QED  BY <1>2, <1>7, <1>10, <2>1, <2>2 DEF OpenFrame
<1>11. Overflow(b) => Overflow(b)'
  BY <1>2, <1>7 DEF Overflow, NoRoom
<1>12. OpenInv(b)'
  <2>1. \A s \in Frames(b) \ {OpenAt'} :
          /\ Settled(b, s)'
          /\ After(b, s) \in Frames(b) \/ NoRoom(After(b, s))
          /\ s < OpenAt'
    BY <1>5, <1>7, <1>8 DEF OpenInv
  <2>2. /\ 0 \in Frames(b) \/ NoRoom(0)
        /\ \A p \in DOMAIN b : IsId(b[p]) => p - 1 \in Frames(b) \/ NoRoom(p - 1)
        /\ Cardinality(Frames(b)) <= FinalizedCount'
        /\ Ids(b, 0) \subseteq batched'
        /\ OpenFrame(b)' \/ Overflow(b)'
    BY <1>2, <1>5, <1>7, <1>10, <1>11 DEF OpenInv
  <2>. QED  BY <1>9, <2>1, <2>2 DEF OpenInv
<1>. QED  BY <1>2, <1>3, <1>4, <1>12 DEF BufferInv

\* A write that fits goes on with the last frame, if its header did fit.
LEMMA WriteFitting ==
  ASSUME ArgumentsFit, TypeInv, CallInv, BufferInv, Grow, arg_size_offset # 0,
         NEW t \in Threads, NEW i \in DOMAIN calls, NEW e \in Nat, NEW g \in Nat,
         NEW x \in Seq(Byte), WritesOne(t, i, e, g, x), Fits(buffer, Len(x))
  PROVE  BufferInv' /\ InBuffer' = InBuffer
<1>1. PICK b \in Seq(Byte) : b = Finalized /\ Len(b) = Len(buffer)
  BY FinalizedFacts
<1>2. PICK o \in Int : o = OpenAt /\ arg_size_offset = o + 6 /\ o + 6 \in Nat \ {0} /\ o >= -2
  <2>1. arg_size_offset \in Nat /\ arg_size_offset >= 4
    BY ConstantsAssumption DEF TypeInv, CountSize
  <2>. QED  BY <2>1 DEF OpenAt, CountSize, FieldSize
<1>3. PICK w \in Seq(Byte) :
        /\ w = buffer' /\ Len(w) = Len(b) + Len(x) /\ Size(w) <= MaxCapacity
        /\ \A p \in 1 .. Len(b) : w[p] = buffer[p]
        /\ \A p \in 1 .. Len(x) : w[Len(b) + p] = x[p]
  <2>1. buffer \in Seq(Byte) /\ Size(buffer) <= MaxCapacity
    BY DEF TypeInv
  <2>2. buffer' = RawWrite(buffer, x)
    BY DEF WritesOne
  <2>3. /\ RawWrite(buffer, x) \in Seq(Byte) /\ Size(RawWrite(buffer, x)) <= MaxCapacity
        /\ Len(RawWrite(buffer, x)) = Len(buffer) + Len(x)
        /\ \A p \in 1 .. Len(buffer) : RawWrite(buffer, x)[p] = buffer[p]
        /\ \A p \in 1 .. Len(x) : RawWrite(buffer, x)[Len(buffer) + p] = x[p]
    BY <2>1, RawWriteFacts
  <2>. QED  BY <1>1, <2>2, <2>3
<1>4. /\ UNCHANGED <<cmd_count, arg_size_offset, call, calls, batched, harmed>>
      /\ Len(x) = g - e /\ e < g /\ g <= Total(i)
      /\ \A k \in 1 .. g - e : x[k] = [of |-> i, part |-> ArgData, k |-> e + k]
      /\ full => full'
      /\ i = call[t] /\ calls[i].by = t /\ calls[i].func \in Commands /\ pc[t] = "write"
      /\ \A u \in Threads : pc'[u] = "write" => pc[u] = "write"
  <2>1. full' = (full \/ (arg_size_offset # 0 /\ ~Fits(buffer, Len(x))))
    BY DEF WritesOne
  <2>2. full => full'
    BY <2>1
  <2>3. /\ UNCHANGED <<cmd_count, arg_size_offset, call, calls, batched, harmed>>
        /\ Len(x) = g - e /\ e < g /\ g <= Total(i)
        /\ \A k \in 1 .. g - e : x[k] = [of |-> i, part |-> ArgData, k |-> e + k]
        /\ i = call[t] /\ calls[i].by = t /\ calls[i].func \in Commands /\ pc[t] = "write"
    BY DEF WritesOne
  <2>4. \A u \in Threads : pc'[u] = "write" => pc[u] = "write"
    BY DEF WritesOne
  <2>. QED  BY <2>2, <2>3, <2>4
<1>5. PICK d \in Seq(Byte), n \in 0 .. MaxArgSize :
        /\ d = Finalized' /\ Len(d) = Len(w)
        /\ n = IF Len(w) - o - 4 < 0 \/ Len(w) - o - 4 > MaxArgSize
               THEN MaxArgSize ELSE Len(w) - o - 4
        /\ \A p \in 1 .. Len(w) :
             d[p] = IF p - o - FieldSize \in 1 .. FieldSize
                    THEN [of |-> n, part |-> ArgSize, k |-> p - o - FieldSize]
                    ELSE w[p]
  <2>1. PICK q \in Nat \ {0} : q = o + 6 /\ q = arg_size_offset'
    BY <1>2, <1>4
  <2>2. PICK n \in 0 .. MaxArgSize : n = ArgDataSize'
    BY <1>3, <2>1, LaterFinalized
  <2>3. PICK d \in Seq(Byte) : d = Finalized'
    BY <1>3, <2>1, LaterFinalized
  <2>4. /\ Len(d) = Len(w)
        /\ n = IF Len(w) + 2 - q < 0 \/ Len(w) + 2 - q > MaxArgSize
               THEN MaxArgSize ELSE Len(w) + 2 - q
        /\ \A p \in 1 .. Len(w) :
             d[p] = IF p - (q - 6) - FieldSize \in 1 .. FieldSize
                    THEN [of |-> n, part |-> ArgSize, k |-> p - (q - 6) - FieldSize]
                    ELSE w[p]
    <3>1. w = buffer' /\ w \in Seq(Byte)
      BY <1>3
    <3>2. /\ Len(Finalized') = Len(w)
          /\ ArgDataSize' = IF Len(w) + 2 - q < 0 \/ Len(w) + 2 - q > MaxArgSize
                            THEN MaxArgSize ELSE Len(w) + 2 - q
          /\ \A p \in 1 .. Len(w) :
               Finalized'[p] = IF p - (q - 6) - FieldSize \in 1 .. FieldSize
                               THEN [of |-> ArgDataSize', part |-> ArgSize,
                                     k |-> p - (q - 6) - FieldSize]
                               ELSE w[p]
      BY <2>1, <3>1, LaterFinalized
    <3>. QED  BY <2>2, <2>3, <3>2
  <2>5. Len(w) + 2 - q = Len(w) - o - 4 /\ q - 6 = o /\ Len(w) \in Nat
    BY <2>1
  <2>6. n = IF Len(w) - o - 4 < 0 \/ Len(w) - o - 4 > MaxArgSize
            THEN MaxArgSize ELSE Len(w) - o - 4
    BY <2>4, <2>5
  <2>7. \A p \in 1 .. Len(w) :
          d[p] = IF p - o - FieldSize \in 1 .. FieldSize
                 THEN [of |-> n, part |-> ArgSize, k |-> p - o - FieldSize]
                 ELSE w[p]
    BY <2>4, <2>5
  <2>. QED  BY <2>3, <2>4, <2>6, <2>7
<1>6. /\ Len(b) \in Nat /\ Len(d) \in Nat /\ Len(x) \in Nat /\ Len(x) > 0
      /\ Len(d) = Len(b) + Len(x) /\ Len(x) = g - e /\ 4 + Len(d) <= MaxCapacity
      /\ MaxCapacity \in Nat /\ MaxArgSize \in Nat /\ FieldSize = 2
  <2>1. 4 + Len(w) <= MaxCapacity
    BY <1>3 DEF Size, CountSize
  <2>2. Len(d) = Len(w) /\ Len(w) = Len(b) + Len(x)
    BY <1>3, <1>5
  <2>3. Len(x) = g - e /\ e < g
    BY <1>4
  <2>. QED  BY <2>1, <2>2, <2>3, ConstantsAssumption DEF FieldSize
<1>room. /\ DOMAIN b = 1 .. Len(b) /\ DOMAIN d = 1 .. Len(d)
         /\ \A p \in Int : NoRoom(p) <=> p + 8 > MaxCapacity
  BY ConstantsAssumption DEF FieldSize, CountSize, NoRoom
<1>7. /\ OpenInv(b) /\ Framed(b, 0) /\ Rest(b, 0) = Frames(b) /\ Rest(d, 0) = Frames(d)
      /\ OpenAt' = o /\ FinalizedCount' = FinalizedCount
  <2>1. OpenInv(b) /\ Framed(b, 0)
    BY <1>1 DEF BufferInv, OpenInv
  <2>. QED  BY <1>2, <1>4, <2>1, FrameFacts DEF OpenAt, FinalizedCount
\* The bytes.
<1>8. \A p \in 1 .. Len(b) : p - o - FieldSize \notin 1 .. FieldSize => d[p] = b[p]
  <2>1. \A p \in 1 .. Len(b) : p - o - FieldSize \notin 1 .. FieldSize => b[p] = buffer[p]
    BY <1>1, <1>2, FinalizedFacts
  <2>2. \A p \in 1 .. Len(b) : p \in 1 .. Len(w)
    BY <1>5, <1>6
  <2>. QED  BY <1>3, <1>5, <2>1, <2>2
<1>9. \A p \in 1 .. Len(d) : p - o - FieldSize \in 1 .. FieldSize =>
        d[p] = [of |-> n, part |-> ArgSize, k |-> p - o - FieldSize]
  BY <1>5
<1>10. \A p \in Len(b) + 1 .. Len(d) : p - o - FieldSize \notin 1 .. FieldSize =>
         d[p] = [of |-> i, part |-> ArgData, k |-> e + (p - Len(b))]
  <2>. TAKE p \in Len(b) + 1 .. Len(d)
  <2>1. Len(w) = Len(d)
    BY <1>5
  <2>2. p - Len(b) \in 1 .. Len(x) /\ p = Len(b) + (p - Len(b)) /\ p \in 1 .. Len(d)
    BY <1>6
  <2>3. PICK k \in 1 .. Len(x) : k = p - Len(b) /\ p = Len(b) + k
    BY <2>2
  <2>4. w[p] = [of |-> i, part |-> ArgData, k |-> e + k]
    BY <1>3, <1>4, <2>3
  <2>. QED  BY <1>5, <2>1, <2>2, <2>3, <2>4
<1>11. ASSUME NEW p \in 1 .. Len(d), IsId(d[p])
       PROVE  p \in 1 .. Len(b) /\ d[p] = b[p]
  <2>1. d[p].part # ArgSize /\ d[p].part # ArgData
    BY <1>11 DEF IsId, FuncID, ArgSize, ArgData
  <2>2. ASSUME p - o - FieldSize \in 1 .. FieldSize  PROVE FALSE
    <3>1. d[p] = [of |-> n, part |-> ArgSize, k |-> p - o - FieldSize]
      BY <1>9, <2>2
    <3>. QED  BY <2>1, <3>1
  <2>3. ASSUME p \in Len(b) + 1 .. Len(d)  PROVE FALSE
    <3>1. d[p] = [of |-> i, part |-> ArgData, k |-> e + (p - Len(b))]
      BY <1>10, <2>2, <2>3
    <3>. QED  BY <2>1, <3>1
  <2>4. p \in 1 .. Len(b)
    BY <1>6, <1>room, <2>3
  <2>. QED  BY <1>8, <2>2, <2>4
<1>12. Frames(d) = Frames(b)
  <2>1. ASSUME NEW s \in Frames(d)  PROVE s \in Frames(b)
    <3>1. s \in Nat /\ s + 4 <= Len(d) /\ IsId(d[s + 1])
      BY FrameFacts DEF IsId
    <3>2. s + 1 \in 1 .. Len(d) /\ (s + 1) - 1 = s /\ ~(s + 8 > MaxCapacity)
      BY <1>6, <1>room, <3>1
    <3>3. s + 1 \in 1 .. Len(b) /\ IsId(b[s + 1])
      BY <1>11, <3>1, <3>2
    <3>4. s \in Frames(b) \/ NoRoom(s)
      BY <1>6, <1>room, <1>7, <3>2, <3>3 DEF OpenInv
    <3>. QED  BY <1>6, <1>room, <3>1, <3>2, <3>4
  <2>2. ASSUME NEW s \in Frames(b)  PROVE s \in Frames(d)
    <3>1. s \in Nat /\ s + 4 <= Len(b) /\ b[s + 1].part = FuncID /\ b[s + 1].k = 1
      BY FrameFacts
    <3>2. s + 1 \in 1 .. Len(b) /\ s + 4 <= Len(d)
      <4>1. s \in Nat /\ s + 4 <= Len(b)
        BY <3>1
      <4>2. Len(b) <= Len(d) /\ Len(b) \in Nat /\ Len(d) \in Nat
        BY <1>6
      <4>. QED  BY <4>1, <4>2
    <3>3. s = o \/ s < o \/ s > o
      BY <1>2, <3>1
    <3>4. CASE s < o \/ s = o
      <4>1. (s + 1) - o - FieldSize \notin 1 .. FieldSize
        <5>1. (s + 1) - o - 2 < 0
          BY <1>2, <3>1, <3>4
        <5>. QED  BY <1>2, <3>1, <5>1, SMTT(20) DEF FieldSize
      <4>2. d[s + 1] = b[s + 1]
        BY <1>8, <3>2, <4>1
      <4>. QED  BY <3>1, <3>2, <4>2, FrameFacts
    <3>5. ~(s > o)
      <4>1. s # OpenAt => s < OpenAt
        BY <1>7 DEF OpenInv
      <4>2. s \in Nat
        BY <3>1
      <4>. QED  BY <1>2, <4>1, <4>2
    <3>. QED  BY <3>3, <3>4, <3>5
  <2>. QED  BY <2>1, <2>2
\* The frames before the open one.
<1>13. ASSUME NEW s \in Frames(b), s # o
       PROVE  /\ s \in Nat /\ s < o /\ After(b, s) \in Nat /\ After(b, s) <= Len(b)
              /\ s + 4 <= After(b, s) /\ After(b, s) <= o + 2
              /\ CallAt(d, s) = CallAt(b, s) /\ After(d, s) = After(b, s)
              /\ Header(d, s)' /\ Content(d, s)' /\ Settled(d, s)'
              /\ After(d, s) \in Frames(d) \/ NoRoom(After(d, s))
              /\ FrameOrEnd(d, After(d, s))
  <2>1. /\ s \in Nat /\ s < o /\ Settled(b, s)
        /\ After(b, s) \in Frames(b) \/ NoRoom(After(b, s))
    BY <1>2, <1>7, <1>13, FrameFacts DEF OpenInv
  <2>2. Header(b, s) /\ Content(b, s) /\ Follows(b, s)
    BY <1>7 DEF Framed
  <2>3. After(b, s) \in Nat /\ After(b, s) <= Len(b) /\ s + 4 <= After(b, s)
    <3>1. SizeAt(b, s) \in Nat /\ After(b, s) <= Len(b)
      BY <1>6, <1>room, <2>2 DEF Header
    <3>2. After(b, s) = s + 4 + SizeAt(b, s)
      BY <1>6, <1>room, <2>1, <3>1 DEF After
    <3>. QED  BY <1>6, <1>room, <2>1, <3>1, <3>2, SMTT(20)
  <2>4. After(b, s) <= o + 2
    <3>1. CASE OpenFrame(b)
      <4>1. o >= After(b, s)
        BY <1>2, <2>1, <2>2, <3>1 DEF OpenFrame, Follows
      <4>. QED  BY <2>3, <4>1
    <3>2. CASE Overflow(b)
      BY <1>2, <1>6, <1>room, <3>2 DEF Overflow
    <3>. QED  BY <1>7, <3>1, <3>2 DEF OpenInv
  <2>5. \A p \in s + 1 .. After(b, s) : d[p] = b[p]
    <3>. TAKE p \in s + 1 .. After(b, s)
    <3>1. p \in 1 .. Len(b) /\ p - o - FieldSize \notin 1 .. FieldSize
      BY <1>6, <1>room, <2>1, <2>3, <2>4, SMTT(20)
    <3>. QED  BY <1>8, <3>1
  <2>6. After(b, s) <= Len(d)
    BY <1>6, <1>room, <2>3
  <2>7. /\ CallAt(d, s) = CallAt(b, s) /\ After(d, s) = After(b, s)
        /\ Header(d, s) /\ Content(d, s)
    BY <2>1, <2>2, <2>5, <2>6, SameFrame
  <2>8. PICK k \in DOMAIN calls : k = CallAt(b, s)
    BY <2>2 DEF Header
  <2>9. k \in harmed' \/ (~Writing(k) /\ ~Writing(k)')
    <3>1. Writing(k)' => Writing(k)
      BY DEF WritesOne
    <3>. QED  BY <1>4, <2>1, <2>8, <3>1 DEF Settled
  <2>10. Header(d, s)' /\ Content(d, s)'
    BY <2>7, <2>8, <2>9, LaterFrame
  <2>11. Settled(d, s)'
    BY <2>7, <2>8, <2>9 DEF Settled
  <2>12. FrameOrEnd(d, After(d, s))
    <3>1. NoRoom(After(b, s)) => After(b, s) > Len(d) - 2 * FieldSize
      BY <1>6, <1>room, <2>3
    <3>. QED  BY <1>12, <2>1, <2>7, <3>1 DEF FrameOrEnd
  <2>. QED  BY <1>12, <2>1, <2>3, <2>4, <2>7, <2>10, <2>11, <2>12
<1>14. ASSUME NEW s \in Frames(b)  PROVE CallAt(d, s) = CallAt(b, s)
  <2>1. CASE s = o
    <3>1. o \in Nat /\ o + 4 <= Len(b)
      BY <2>1, FrameFacts
    <3>2. o + 1 \in 1 .. Len(b) /\ (o + 1) - o - FieldSize \notin 1 .. FieldSize
      BY <1>6, <1>room, <3>1
    <3>3. d[o + 1] = b[o + 1]
      BY <1>8, <3>2
    <3>. QED  BY <2>1, <3>3 DEF CallAt
  <2>. QED  BY <1>13, <2>1
<1>15. Ids(d, 0) = Ids(b, 0)
  <2>1. {CallAt(d, s) : s \in Frames(b)} = {CallAt(b, s) : s \in Frames(b)}
    BY <1>14
  <2>. QED  BY <1>7, <1>12, <2>1 DEF Ids
<1>16. ASSUME NEW s \in Frames(b), s # o  PROVE Follows(d, s)'
  <2>1. Follows(b, s) /\ After(d, s) = After(b, s)
    BY <1>7, <1>13, <1>16 DEF Framed
  <2>2. ASSUME NEW r \in Frames(d), r > s
        PROVE  r >= After(d, s) /\ InOrder(CallAt(d, s), CallAt(d, r))'
    <3>1. r >= After(b, s) /\ InOrder(CallAt(b, s), CallAt(b, r))
      BY <1>12, <2>1, <2>2 DEF Follows
    <3>2. InOrder(CallAt(b, s), CallAt(b, r))'
      BY <1>4, <3>1 DEF InOrder
    <3>. QED  BY <1>12, <1>14, <2>1, <2>2, <3>1, <3>2
  <2>. QED  BY <2>2 DEF Follows
<1>17. ASSUME NEW p \in DOMAIN d, IsId(d[p])  PROVE p - 1 \in Frames(d) \/ NoRoom(p - 1)
  <2>1. p \in DOMAIN b /\ IsId(b[p])
    BY <1>6, <1>room, <1>11, <1>17
  <2>. QED  BY <1>7, <1>12, <2>1 DEF OpenInv
<1>18. ASSUME o \in Frames(b) => Header(d, o)' /\ Content(d, o)' /\ After(d, o) = Len(d),
              OpenFrame(d)' \/ Overflow(d)'
       PROVE  BufferInv' /\ InBuffer' = InBuffer
  <2>1. FrameOrEnd(d, 0)
    <3>1. NoRoom(0) => 0 > Len(d) - 2 * FieldSize
      BY <1>6, <1>room
    <3>. QED  BY <1>7, <1>12, <3>1 DEF FrameOrEnd, OpenInv
  <2>2. ASSUME NEW s \in Frames(d)
        PROVE  /\ Header(d, s)' /\ Content(d, s)' /\ Follows(d, s)'
               /\ FrameOrEnd(d, After(d, s))
    <3>1. CASE s = o
      <4>1. FrameOrEnd(d, After(d, o))
        BY <1>6, <1>room, <1>12, <1>18, <3>1 DEF FrameOrEnd
      <4>2. ASSUME NEW r \in Frames(d), r > o  PROVE FALSE
        <5>1. r # o
          BY <1>2, <4>2
        <5>2. r \in Nat /\ r < o
          BY <1>12, <1>13, <5>1
        <5>. QED  BY <1>2, <4>2, <5>2
      <4>. QED  BY <1>12, <1>18, <3>1, <4>1, <4>2 DEF Follows
    <3>. QED  BY <1>12, <1>13, <1>16, <3>1
  <2>3. Framed(d, 0)'
    BY <1>7, <2>1, <2>2 DEF Framed
  <2>4. \A s \in Frames(d) \ {OpenAt'} :
          /\ Settled(d, s)'
          /\ After(d, s) \in Frames(d) \/ NoRoom(After(d, s))
          /\ s < OpenAt'
    BY <1>7, <1>12, <1>13
  <2>5. /\ 0 \in Frames(d) \/ NoRoom(0)
        /\ Cardinality(Frames(d)) <= FinalizedCount'
        /\ Ids(d, 0) \subseteq batched'
    BY <1>4, <1>7, <1>12, <1>15 DEF OpenInv
  <2>6. OpenInv(d)'
    BY <1>17, <1>18, <2>3, <2>4, <2>5 DEF OpenInv
  <2>7. BufferInv'
    BY <1>4, <1>5, <2>6 DEF BufferInv
  <2>8. InBuffer' = InBuffer
    BY <1>1, <1>5, <1>15 DEF InBuffer
  <2>. QED  BY <2>7, <2>8
\* One byte is left of the buffer at most.
<1>19. CASE Overflow(b)
  <2>1. /\ full /\ NoRoom(o) /\ arg_size_offset <= Size(b)
        /\ \A s \in Frames(b) : After(b, s) <= o + FieldSize
    BY <1>2, <1>19 DEF Overflow
  <2>2. arg_size_offset' <= Size(d)
    BY <1>2, <1>4, <1>6, <1>room, <2>1 DEF Size, CountSize
  <2>3. o \notin Frames(b)
    <3>1. o + 8 > MaxCapacity
      BY <1>6, <1>room, <2>1
    <3>2. o \in Frames(b) => o + 4 <= Len(b)
      BY FrameFacts
    <3>. QED  BY <1>6, <1>room, <3>1, <3>2
  <2>4. \A s \in Frames(d) : After(d, s) <= OpenAt' + FieldSize
    BY <1>7, <1>12, <1>13, <2>1, <2>3
  <2>5. NoRoom(OpenAt)'
    BY <1>7, <2>1 DEF NoRoom
  <2>6. Overflow(d)'
    BY <1>4, <2>1, <2>2, <2>4, <2>5 DEF Overflow
  <2>. QED  BY <1>18, <2>3, <2>6
<1>20. CASE OpenFrame(b)
  <2>1. /\ o \in Frames(b) /\ After(b, o) = Len(b) /\ OpenBytes(b)
        /\ \A u \in Threads :
             pc[u] = "write" => call[u] = CallAt(b, o) \/ CallAt(b, o) \in harmed
    BY <1>2, <1>20 DEF OpenFrame
  <2>2. o \in Nat /\ o + 4 <= Len(b) /\ Header(b, o) /\ Content(b, o)
    BY <1>7, <2>1, FrameFacts DEF Framed
  <2>3. PICK m \in Nat : m = SizeAt(b, o) /\ Len(b) = o + 4 + m
    <3>1. SizeAt(b, o) \in Nat
      BY <1>6, <1>room, <2>2 DEF Header
    <3>2. Len(b) = o + 4 + SizeAt(b, o)
      BY <1>6, <2>1, <2>2, <3>1 DEF After
    <3>. QED  BY <3>1, <3>2
  <2>4. PICK c \in DOMAIN calls : c = CallAt(b, o) /\ c = CallAt(d, o)
    BY <1>14, <2>1, <2>2 DEF Header
  \* What is written.
  <2>5. ASSUME NEW p \in o + 5 .. Len(d)
        PROVE  /\ OpenByte(d[p])'
               /\ p <= Len(b) => p \in o + 2 * FieldSize + 1 .. Len(b) /\ d[p] = b[p] /\ OpenByte(b[p])
               /\ p > Len(b) => d[p].of = i /\ d[p].k = e + (p - Len(b))
    <3>1. p - o - FieldSize \notin 1 .. FieldSize /\ p \in Nat
      BY <1>6, <1>room, <2>2
    <3>2. CASE p <= Len(b)
      <4>1. p \in 1 .. Len(b) /\ p \in o + 2 * FieldSize + 1 .. Len(b)
        BY <1>6, <1>room, <2>2, <3>1, <3>2
      <4>2. d[p] = b[p]
        BY <1>8, <3>1, <4>1
      <4>3. OpenByte(b[p])
        BY <1>2, <2>1, <4>1 DEF OpenBytes, OpenByte
      <4>4. PICK y : y = b[p]
        OBVIOUS
      <4>5. OpenByte(y)'
        BY <4>3, <4>4, OpenByteLater
      <4>6. OpenByte(d[p])'
        BY <4>2, <4>4, <4>5
      <4>. QED  BY <1>6, <1>room, <3>1, <3>2, <4>1, <4>2, <4>3, <4>6
    <3>3. CASE p > Len(b)
      <4>1. p \in Len(b) + 1 .. Len(d)
        BY <1>6, <1>room, <3>1, <3>3
      <4>2. PICK k \in 1 .. g - e : k = p - Len(b)
        <5>1. p - Len(b) \in 1 .. g - e
          BY <1>6, <3>1, <4>1
        <5>. QED  BY <5>1
      <4>3. d[p] = [of |-> i, part |-> ArgData, k |-> e + k]
        BY <1>10, <3>1, <4>1, <4>2
      <4>4. PICK y : y = d[p]
        OBVIOUS
      <4>5. y.of = i /\ y.part = ArgData /\ y.k = e + k
        BY <4>3, <4>4
      <4>6. e + k \in 1 .. g /\ e + k \in 1 .. Total(i)
        <5>1. calls \in Seq([by : Threads, func : Commands \cup {Sync}])
          BY DEF TypeInv
        <5>2. Total(i) \in Nat
          BY <1>4, <5>1, EndFacts
        <5>. QED  BY <1>4, <5>2
      <4>7. Total(i)' = Total(i) /\ (pc'[t] = "write" => ArgEnd(i, args[t])' = g)
        BY DEF WritesOne
      <4>8. pc'[t] = "write" => y.k <= ArgEnd(i, args[t])'
        BY <4>5, <4>6, <4>7
      <4>9. OpenByte(y)'
        BY <1>4, <4>5, <4>6, <4>7, <4>8 DEF OpenByte
      <4>10. OpenByte(d[p])'
        BY <4>4, <4>9
      <4>. QED  BY <1>6, <1>room, <3>1, <3>3, <4>2, <4>3, <4>10
    <3>4. p <= Len(b) \/ p > Len(b)
      BY <1>6, <3>1
    <3>. QED  BY <3>2, <3>3, <3>4
  <2>6. ASSUME NEW p \in o + 5 .. Len(d), NEW q \in o + 5 .. Len(d),
               p < q, calls[d[p].of].by = calls[d[q].of].by
        PROVE  d[p].of = d[q].of /\ d[p].k # d[q].k
    <3>1. CASE q <= Len(b)
      <4>1. p <= Len(b)
        <5>1. p < q /\ p \in Int /\ q \in Int
          BY <2>2, <2>6
        <5>. QED  BY <1>6, <3>1, <5>1
      <4>2. /\ p \in OpenAt + 2 * FieldSize + 1 .. Len(b) /\ d[p] = b[p]
            /\ q \in OpenAt + 2 * FieldSize + 1 .. Len(b) /\ d[q] = b[q]
        BY <1>2, <2>5, <3>1, <4>1
      <4>3. p # q
        BY <2>6
      <4>. QED  BY <2>1, <2>6, <4>2, <4>3 DEF OpenBytes
    <3>2. CASE p <= Len(b) /\ q > Len(b)
      <4>1. /\ d[p] = b[p] /\ OpenByte(b[p])
            /\ d[q].of = i /\ d[q].k = e + (q - Len(b))
        BY <2>5, <3>2
      <4>2. calls[b[p].of].by = t
        BY <1>4, <2>6, <4>1
      <4>3. b[p].of = i /\ b[p].k <= e /\ b[p].k \in Nat
        <5>1. b[p].of = call[t] /\ b[p].k <= ArgEnd(b[p].of, args[t])
          BY <1>4, <4>1, <4>2 DEF OpenByte
        <5>2. ArgEnd(i, args[t]) = e
          BY DEF WritesOne
        <5>3. p \in DOMAIN b
          BY <1>6, <1>room, <2>2, <3>2
        <5>4. b[p] \in Byte
          BY <5>3, ElementOf
        <5>. QED  BY <1>4, <5>1, <5>2, <5>4 DEF Byte
      <4>4. q - Len(b) > 0 /\ q - Len(b) \in Int
        BY <1>6, <1>room, <2>2, <3>2
      <4>. QED  BY <4>1, <4>3, <4>4, SMTT(20)
    <3>3. CASE p > Len(b) /\ q > Len(b)
      <4>1. d[p].of = i /\ d[q].of = i /\ d[p].k = e + (p - Len(b)) /\ d[q].k = e + (q - Len(b))
        BY <2>5, <3>3
      <4>2. e + (p - Len(b)) # e + (q - Len(b))
        <5>1. p < q /\ p \in Int /\ q \in Int
          BY <2>2, <2>6
        <5>. QED  BY <1>6, <5>1
      <4>. QED  BY <4>1, <4>2
    <3>. QED  BY <1>6, <1>room, <2>2, <2>6, <3>1, <3>2, <3>3, SMTT(20)
  <2>7. \A p, q \in o + 5 .. Len(d) :
          p # q /\ calls[d[p].of].by = calls[d[q].of].by => d[p].of = d[q].of /\ d[p].k # d[q].k
    <3>1. \A p, q \in o + 5 .. Len(d) : p # q => p < q \/ q < p
      BY <2>2
    <3>. QED  BY <2>6, <3>1
  <2>8. OpenBytes(d)'
    <3>1. OpenAt' + 2 * FieldSize + 1 .. Len(d) = o + 5 .. Len(d)
      BY <1>6, <1>room, <1>7
    <3>2. \A p \in o + 5 .. Len(d) : OpenByte(d[p])'
      BY <2>5
    <3>3. \A p, q \in o + 5 .. Len(d) :
            p # q /\ calls'[d[p].of].by = calls'[d[q].of].by =>
              d[p].of = d[q].of /\ d[p].k # d[q].k
      BY <1>4, <2>7
    <3>4. calls' = calls /\ call' = call
      BY <1>4
    <3>. QED  BY <3>1, <3>2, <3>3, <3>4, ZenonT(30) DEF OpenBytes, OpenByte
  \* So the size fits.
  <2>9. Len(d) - (o + 4) <= MaxArgSize
    <3>1. PICK mm \in 0 .. MaxArgSize :
            /\ \A f \in Commands : \A j \in DOMAIN ArgEnds[f] : ArgEnds[f][j] <= mm
            /\ ThreadsWrite(mm) <= MaxArgSize
      BY DEF ArgumentsFit
    <3>2. mm \in Nat /\ o + 4 \in Nat /\ o + 4 <= Len(d) /\ (o + 4) + 1 = o + 5
      BY <1>6, <1>room, <2>2
    <3>3. ASSUME NEW k \in DOMAIN calls, calls[k].func \in Commands  PROVE Total(k) <= mm
      <4>1. calls \in Seq([by : Threads, func : Commands \cup {Sync}])
        BY DEF TypeInv
      <4>2. ArgEnds[calls[k].func] \in Seq(Nat \ {0})
        BY <3>3, ConstantsAssumption
      <4>. DEFINE ends == ArgEnds[calls[k].func]
      <4>3. Total(k) = IF Len(ends) = 0 THEN 0 ELSE ends[Len(ends)]
        BY DEF Total, ArgEnd, NumArgs
      <4>4. \A j \in DOMAIN ends : ends[j] <= mm
        BY <3>1, <3>3
      <4>. HIDE DEF ends
      <4>5. ends \in Seq(Nat \ {0})
        BY <4>2 DEF ends
      <4>6. Len(ends) # 0 => Len(ends) \in DOMAIN ends
        BY <4>5
      <4>. QED  BY <3>2, <4>3, <4>4, <4>6
    <3> DEFINE by == [p \in o + 5 .. Len(d) |-> calls[d[p].of].by]
               no == [p \in o + 5 .. Len(d) |-> d[p].k]
    <3>4. \A p \in o + 5 .. Len(d) : by[p] \in Threads /\ no[p] \in 1 .. mm
      <4>. TAKE p \in o + 5 .. Len(d)
      <4>1. OpenByte(d[p])'
        BY <2>5
      <4>2. PICK k \in DOMAIN calls : k = d[p].of /\ calls[k].func \in Commands
        BY <1>4, <4>1 DEF OpenByte
      <4>3. d[p].k \in 1 .. Total(k) /\ Total(k) <= mm
        <5>1. Total(k)' = Total(k)
          BY DEF WritesOne
        <5>. QED  BY <3>3, <4>1, <4>2, <5>1 DEF OpenByte
      <4>4. d[p].k \in 1 .. mm
        <5>1. calls \in Seq([by : Threads, func : Commands \cup {Sync}])
          BY DEF TypeInv
        <5>2. Total(k) \in Nat
          BY <4>2, <5>1, EndFacts
        <5>3. PICK v \in Nat : v = Total(k)
          BY <5>2
        <5>4. d[p].k \in 1 .. v /\ v <= mm /\ mm \in Nat
          BY <3>2, <4>3, <5>3
        <5>. QED  BY <5>4, SMTT(20)
      <4>5. calls[k].by \in Threads
        BY CallFacts
      <4>. QED  BY <4>2, <4>4, <4>5
    <3>5. \A p, q \in o + 5 .. Len(d) : p # q /\ by[p] = by[q] => no[p] # no[q]
      BY <2>7
    <3>. HIDE DEF by, no
    <3>6. IsFiniteSet(Threads)
      BY DEF ArgumentsFit
    <3>7. PICK from \in Nat : from = o + 4 /\ from <= Len(d) /\ from + 1 = o + 5
      BY <3>2
    <3>8. PICK to \in Nat : to = Len(d) /\ from <= to
      BY <1>6, <3>7
    <3>9. Distinct(mm, from, to, by, no)
      BY <3>4, <3>5, <3>7, <3>8 DEF Distinct
    <3>10. mm \in Nat /\ ThreadsWrite(mm) <= MaxArgSize
      BY <3>1, <3>2
    <3>11. to - from <= MaxArgSize
      BY <3>6, <3>8, <3>9, <3>10, FewBytes
    <3>. QED  BY <3>7, <3>8, <3>11
  <2>10. n = m + (g - e) /\ Len(d) = o + 4 + n
    <3>1. Len(w) = Len(d) /\ Len(x) = g - e
      BY <1>4, <1>5
    <3>2. Len(d) - o - 4 = m + (g - e) /\ Len(d) - o - 4 > 0
      <4>1. Len(d) = Len(b) + (g - e) /\ Len(b) = o + 4 + m /\ g - e > 0
        BY <1>6, <2>3
      <4>2. o \in Nat
        BY <2>2
      <4>. QED  BY <1>6, <4>1, <4>2
    <3>3. Len(d) - o - 4 <= MaxArgSize
      BY <1>6, <2>2, <2>9
    <3>4. n = IF Len(d) - o - 4 < 0 \/ Len(d) - o - 4 > MaxArgSize
              THEN MaxArgSize ELSE Len(d) - o - 4
      BY <1>5, <3>1
    <3>5. n = Len(d) - o - 4
      <4>1. Len(d) - o - 4 \in Int
        BY <1>6, <2>2
      <4>2. PICK z \in Int : z = Len(d) - o - 4
        BY <4>1
      <4>3. z > 0 /\ z <= MaxArgSize
        BY <3>2, <3>3, <4>2
      <4>4. n = IF z < 0 \/ z > MaxArgSize THEN MaxArgSize ELSE z
        BY <3>4, <4>2
      <4>5. ~(z < 0) /\ ~(z > MaxArgSize)
        BY <1>6, <4>3
      <4>. QED  BY <4>2, <4>4, <4>5
    <3>6. Len(d) = o + 4 + n
      <4>1. Len(d) \in Int /\ o \in Int
        BY <1>6, <2>2
      <4>2. Len(d) = o + 4 + (Len(d) - o - 4)
        BY <4>1
      <4>. QED  BY <3>5, <4>2
    <3>. QED  BY <3>2, <3>5, <3>6
  <2>11. \A k \in 1 .. FieldSize :
           /\ d[o + k] = b[o + k]
           /\ d[o + FieldSize + k] = [of |-> n, part |-> ArgSize, k |-> k]
    <3>. TAKE k \in 1 .. FieldSize
    <3>1. /\ o + k \in 1 .. Len(b) /\ (o + k) - o - FieldSize \notin 1 .. FieldSize
          /\ o + FieldSize + k \in 1 .. Len(d) /\ (o + FieldSize + k) - o - FieldSize = k
      BY <1>6, <1>room, <2>2
    <3>. QED  BY <1>8, <1>9, <3>1
  <2>12. SizeAt(d, o) = n /\ After(d, o) = Len(d)
    <3>1. d[o + FieldSize + 1] = [of |-> n, part |-> ArgSize, k |-> 1]
      BY <1>6, <1>room, <2>11
    <3>2. SizeAt(d, o) = n
      BY <3>1 DEF SizeAt
    <3>. QED  BY <1>6, <2>2, <2>10, <3>2 DEF After
  <2>13. Header(d, o)'
    <3>1. /\ c \in DOMAIN calls' /\ calls'[c].func \in Commands
          /\ \A k \in 1 .. FieldSize : b[o + k] = [of |-> c, part |-> FuncID, k |-> k]
      BY <1>4, <2>2, <2>4 DEF Header
    <3>2. Len(d) <= Len(d)
      BY <1>6, <1>room
    <3>. QED  BY <2>4, <2>11, <2>12, <3>1, <3>2 DEF Header
  <2>14. Content(d, o)'
    <3>1. CASE c \in harmed
      BY <1>4, <2>4, <3>1 DEF Content
    <3>2. CASE c \notin harmed
      <4>1. c = i
        BY <1>4, <2>1, <2>4, <3>2
      <4>2. Written(i) = e /\ Written(i)' = g
        BY DEF WritesOne
      <4>3. lost \subseteq lost'
        BY DEF Grow
      <4>4. CASE i \in lost /\ m < e
        <5>1. n < g
          BY <1>4, <2>10, <4>4
        <5>. QED  BY <2>4, <2>12, <4>1, <4>2, <4>3, <4>4, <5>1 DEF Content
      <4>5. CASE /\ m = e
                 /\ \A k \in 1 .. m :
                      b[o + 2 * FieldSize + k] = [of |-> i, part |-> ArgData, k |-> k]
        <5>1. n = g
          BY <1>4, <2>10, <4>5
        <5>2. ASSUME NEW k \in 1 .. n
              PROVE  d[o + 2 * FieldSize + k] = [of |-> i, part |-> ArgData, k |-> k]
          <6>1. PICK p \in Nat : p = o + 2 * FieldSize + k /\ p = o + 4 + k
            BY <1>6, <1>room, <2>2
          <6>2. p - o - FieldSize \notin 1 .. FieldSize
            BY <1>6, <1>room, <2>2, <6>1
          <6>3. CASE k <= m
            <7>1. p \in 1 .. Len(b) /\ k \in 1 .. m
              BY <2>2, <2>3, <6>1, <6>3, SMTT(20)
            <7>. QED  BY <1>8, <4>5, <6>1, <6>2, <7>1
          <6>4. CASE k > m
            <7>1. p \in Len(b) + 1 .. Len(d) /\ e + (p - Len(b)) = k
              BY <1>6, <1>room, <2>2, <2>3, <2>10, <4>5, <6>1, <6>4
            <7>. QED  BY <1>10, <6>1, <6>2, <7>1
          <6>. QED  BY <6>3, <6>4
        <5>. QED  BY <2>4, <2>12, <4>1, <4>2, <5>1, <5>2 DEF Content
      <4>. QED  BY <2>2, <2>3, <2>4, <3>2, <4>1, <4>2, <4>4, <4>5 DEF Content
    <3>. QED  BY <3>1, <3>2
  <2>15. OpenFrame(d)'
    BY <1>4, <1>7, <1>12, <2>1, <2>4, <2>8, <2>12 DEF OpenFrame
  <2>. QED  BY <1>18, <2>12, <2>13, <2>14, <2>15
<1>. QED  BY <1>7, <1>19, <1>20 DEF OpenInv

\* A command begins, in a buffer that nobody resets.
LEMMA HeaderStep ==
  ASSUME TypeInv, CallInv, CountInv, Grow, Writers, BufferInv, NEW t \in Threads,
         AppendCommand(t) \/ FirstCommand(t), ~raced'
  PROVE  /\ BufferInv' /\ Unwritten(t)
         /\ \/ InBuffer' = InBuffer \cup {call[t]}
            \/ InBuffer' = InBuffer /\ call[t] \in lost'
<1>1. PICK b \in Seq(Byte) : b = Finalized /\ Len(b) = Len(buffer)
  BY FinalizedFacts
<1>2. Size(b) <= MaxCapacity
  BY <1>1 DEF TypeInv, Size
<1>3. Unwritten(t)
  BY DEF AppendCommand, FirstCommand, Runs, Unwritten
<1>4. WriteHeader(t, b) /\ cmd_count' = FinalizedCount
  <2>1. CASE AppendCommand(t)
    BY <1>1, <2>1 DEF AppendCommand
  <2>2. CASE FirstCommand(t)
    <3>1. raced' = (raced \/ batched # {}) /\ UNCHANGED cmd_count
      BY <2>2 DEF FirstCommand
    <3>2. batched = {}
      BY <3>1
    <3>. QED  BY <1>1, <2>2, <3>1, <3>2, Unstarted DEF FirstCommand
  <2>. QED  BY <2>1, <2>2
<1>. QED  BY <1>1, <1>2, <1>3, <1>4, BeginCommand

\* An argument is written, or skipped.
LEMMA ArgumentStep ==
  ASSUME ArgumentsFit, TypeInv, CallInv, CountInv, Grow, BufferInv,
         NEW t \in Threads, WriteArgument(t)
  PROVE  BufferInv' /\ InBuffer' = InBuffer
<1>1. PICK i \in DOMAIN calls, e, g \in Nat, x \in Seq(Byte) : WritesOne(t, i, e, g, x)
  BY WriteFacts
<1>2. CASE arg_size_offset = 0
  <2>1. buffer' = buffer /\ full' = full /\ UNCHANGED <<cmd_count, arg_size_offset, batched>>
    <3>1. full' = (full \/ (arg_size_offset # 0 /\ ~Fits(buffer, Len(x))))
      BY <1>1 DEF WritesOne
    <3>2. full' = full
      BY <1>2, <3>1 DEF TypeInv
    <3>. QED  BY <1>1, <1>2, <3>2 DEF WritesOne
  <2>2. Finalized = buffer /\ Finalized' = buffer
    BY <1>2, <2>1 DEF Finalized
  <2>. QED  BY <1>2, <2>1, <2>2 DEF BufferInv, InBuffer
<1>3. CASE arg_size_offset # 0
  BY <1>1, <1>3, WriteSkipped, WriteFitting
<1>. QED  BY <1>2, <1>3

\* Other steps but a flush leave the buffer.
LEMMA OtherSteps ==
  ASSUME TypeInv, CallInv, CountInv, Grow, BufferInv, ~raced', NEW t \in Threads,
         \/ \E f \in Commands : StartCommand(t, f)
         \/ FindNoBuffer(t) \/ BatchInit(t) \/ StartSync(t) \/ FlushNothing(t) \/ SendBatch(t)
         \/ \E valid \in {"valid", "none"} : SendRequest(t, valid)
  PROVE  BufferInv' /\ InBuffer' = InBuffer
<1>. USE DEF bufferVars, threadVars, serverVars, historyVars
<1>0. ASSUME NEW l \in Labels, l # "write", Goto(t, l), pc[t] # "write",
             \A u \in Threads \ {t} : call'[u] = call[u] /\ args'[u] = args[u]
      PROVE  SameWriters
  BY <1>0, GotoFacts DEF SameWriters
<1>1. CASE \/ \E f \in Commands : StartCommand(t, f)
           \/ StartSync(t)
  <2>1. PICK l \in {"append", "flush"}, f \in Commands \cup {Sync} :
          Enter(t, f) /\ Goto(t, l) /\ pc[t] = "idle"
    BY <1>1 DEF StartCommand, StartSync, Runs
  <2>2. \A u \in Threads \ {t} : call'[u] = call[u]
    BY <2>1, EnterFacts
  <2>3. \A u \in Threads \ {t} : args'[u] = args[u]
    BY <1>1 DEF StartCommand, StartSync, TypeInv
  <2>4. SameWriters
    BY <1>0, <2>1, <2>2, <2>3 DEF Labels
  <2>5. UNCHANGED <<buffer, cmd_count, arg_size_offset, batched, full>>
    BY <1>1 DEF StartCommand, StartSync
  <2>. QED  BY <2>4, <2>5, SameBuffer
<1>2. CASE FindNoBuffer(t) \/ FlushNothing(t) \/ SendBatch(t)
  <2>1. PICK l \in {"init", "request", "wait"} : Goto(t, l) /\ pc[t] # "write"
    BY <1>2 DEF FindNoBuffer, FlushNothing, SendBatch, Sends, Runs
  <2>2. UNCHANGED <<buffer, cmd_count, arg_size_offset, batched, full, call, args>>
    BY <1>2 DEF FindNoBuffer, FlushNothing, SendBatch
  <2>3. SameWriters
    BY <1>0, <2>1, <2>2 DEF Labels
  <2>. QED  BY <2>2, <2>3, SameBuffer
<1>3. CASE BatchInit(t)
  <2>1. batched = {}
    <3>1. raced' = (raced \/ batched # {})
      BY <1>3 DEF BatchInit
    <3>. QED  BY <3>1
  <2>2. UNCHANGED <<buffer, cmd_count, arg_size_offset, batched, full, call, args>>
    BY <1>3, <2>1, Unstarted DEF BatchInit
  <2>3. Goto(t, "first") /\ pc[t] # "write"
    BY <1>3 DEF BatchInit, Runs
  <2>4. SameWriters
    BY <1>0, <2>2, <2>3 DEF Labels
  <2>. QED  BY <2>2, <2>4, SameBuffer
<1>4. CASE \E valid \in {"valid", "none"} : SendRequest(t, valid)
  <2>1. UNCHANGED <<buffer, cmd_count, arg_size_offset, batched, full, call, args>>
    BY <1>4 DEF SendRequest
  <2>2. UNCHANGED pc \/ (Goto(t, "wait") /\ pc[t] # "write")
    BY <1>4 DEF SendRequest, Sends, Runs
  <2>3. SameWriters
    BY <1>0, <2>1, <2>2 DEF Labels, SameWriters
  <2>. QED  BY <2>1, <2>3, SameBuffer
<1>. QED  BY <1>1, <1>2, <1>3, <1>4

\* The server leaves the buffer.
LEMMA ServerSteps ==
  ASSUME TypeInv, CallInv, BufferInv, Grow,
         UNCHANGED <<bufferVars, threadVars, batched, full>>
  PROVE  BufferInv' /\ InBuffer' = InBuffer
<1>1. SameWriters
  BY DEF SameWriters, threadVars
<1>. QED  BY <1>1, SameBuffer DEF bufferVars

\* A flush empties the buffer.
LEMMA FlushStep ==
  ASSUME NEW t \in Threads, NEW valid, Flush(t, valid)
  PROVE  BufferInv' /\ InBuffer' = {}
<1>1. arg_size_offset' = 0 /\ buffer' = <<>> /\ cmd_count' = 0 /\ batched' = {} /\ full' = FALSE
  BY DEF Flush
<1>2. Finalized' = <<>>
  BY <1>1 DEF Finalized
<1>3. Ids(<<>>, 0) = {}
  <2>0. <<>> \in Seq(Byte) /\ Len(<<>>) = 0
    OBVIOUS
  <2>1. PICK b \in Seq(Byte) : b = <<>> /\ Len(b) = 0
    BY <2>0
  <2>2. \A s : s \notin Frames(b)
    <3>1. \A s : s \in Frames(b) => s \in Nat /\ s + 4 <= 0
      BY <2>1, FrameFacts
    <3>. QED  BY <3>1
  <2>. QED  BY <2>1, <2>2 DEF Ids, Rest
<1>. QED  BY <1>1, <1>2, <1>3 DEF BufferInv, InBuffer

-----------------------------------------------------------------------------
(* The steps of the places.                                                *)

\* Calls stay in order.
LEMMA OrderedLater ==
  ASSUME Grow, NEW i \in DOMAIN calls, NEW j \in DOMAIN calls, Ordered(i, j)
  PROVE  Ordered(i, j)'
<1>1. Exempt \subseteq Exempt'
  BY DEF Grow, Exempt
<1>2. InOrder(i, j) => InOrder(i, j)'
  BY DEF Grow, InOrder
<1>. QED  BY <1>1, <1>2 DEF Ordered

\* What is before or after something is somewhere.
LEMMA EarlierLocated ==
  ASSUME NEW i, NEW j, Earlier(i, j)
  PROVE  Located(i) /\ Located(j)
BY DEF Earlier, Located

\* What is somewhere is a call of the program.
LEMMA LocatedCalls ==
  ASSUME PlaceInv, NEW i, Located(i)
  PROVE  i \in DOMAIN calls
BY DEF PlaceInv, Located

\* Calls are where they were, or come into a place from none.
LEMMA PlacesLater ==
  ASSUME TypeInv, CallInv, PlaceInv, Grow,
         \A i, j \in DOMAIN calls' : Earlier(i, j)' => Earlier(i, j) \/ Ordered(i, j)',
         \A i : Located(i)' =>
           \/ Located(i)
           \/ \E t \in Threads : i = call[t] /\ Pending(t) /\ ~Pending(t)',
         \A t, u \in Threads : t # u => Copied(t)' \cap Copied(u)' = {},
         \A t \in Threads : Pending(t)' =>
           \/ Pending(t) /\ call'[t] = call[t]
           \/ call'[t] \notin DOMAIN calls,
         \A t \in Threads, i \in InBuffer' :
           pc'[t] \in {"send", "request", "wait"} => calls'[i].by # t
  PROVE  PlaceInv'
<1>1. \A i, j \in DOMAIN calls' : Earlier(i, j)' => Ordered(i, j)'
  <2>. TAKE i, j \in DOMAIN calls'
  <2>1. ASSUME Earlier(i, j)  PROVE Ordered(i, j)'
    <3>1. i \in DOMAIN calls /\ j \in DOMAIN calls
      BY <2>1, EarlierLocated, LocatedCalls
    <3>2. Ordered(i, j)
      BY <2>1, <3>1 DEF PlaceInv
    <3>. QED  BY <3>1, <3>2, OrderedLater
  <2>. QED  BY <2>1
<1>2. \A t \in Threads : Pending(t) => call[t] \in DOMAIN calls
  <2>1. \A t \in Threads : Pending(t) => pc[t] # "idle"
    BY DEF Pending, Unwritten
  <2>. QED  BY <2>1, CallFacts
<1>3. \A i : Located(i)' => i \in DOMAIN calls
  BY <1>2, LocatedCalls
<1>4. \A i : Located(i)' => i \in DOMAIN calls'
  BY <1>3 DEF Grow
<1>5. \A t \in Threads : Pending(t)' => ~Located(call[t])'
  <2>. SUFFICES ASSUME NEW t \in Threads, Pending(t)', Located(call[t])'
                PROVE  FALSE
    OBVIOUS
  <2>1. PICK i \in DOMAIN calls : i = call'[t]
    BY <1>3
  <2>2. Located(i)'
    BY <2>1
  <2>3. Pending(t) /\ i = call[t]
    BY <2>1
  <2>4. ~Located(i)
    BY <2>3 DEF PlaceInv
  <2>5. PICK u \in Threads : i = call[u] /\ Pending(u) /\ ~Pending(u)'
    BY <2>2, <2>4
  <2>6. u # t
    BY <2>5
  <2>7. call[t] # 0
    BY <2>1, <2>3, CallFacts
  <2>. QED  BY <2>3, <2>5, <2>6, <2>7, CallFacts
<1>6. /\ \A n \in Stages' : Stage(n)' \subseteq DOMAIN calls'
      /\ \A t \in Threads : Copied(t)' \subseteq DOMAIN calls'
      /\ InBuffer' \subseteq DOMAIN calls'
  BY <1>4 DEF Located
<1>. QED  BY <1>1, <1>5, <1>6 DEF PlaceInv

\* No call goes from its place unless it is exempt.
LEMMA CoverLater ==
  ASSUME TypeInv, CallInv, CoverInv, Grow,
         \A i \in DOMAIN calls : Located(i) => Located(i)' \/ i \in Exempt',
         \A t \in Threads :
           \/ pc[t] \in {"idle", "write"}
           \/ /\ call'[t] = call[t]
              /\ pc'[t] \notin {"idle", "write"} \/ Located(call[t])' \/ call[t] \in Exempt',
         \A i \in DOMAIN calls' \ DOMAIN calls :
           i = call'[calls'[i].by] /\ pc'[calls'[i].by] \notin {"idle", "write"}
  PROVE  CoverInv'
<1>1. Exempt \subseteq Exempt'
  BY DEF Grow, Exempt
<1>2. ASSUME NEW i \in DOMAIN calls
      PROVE  \/ i \in Exempt' \/ Located(i)'
             \/ i = call'[calls'[i].by] /\ pc'[calls'[i].by] \notin {"idle", "write"}
  <2>1. CASE i \in Exempt \/ Located(i)
    BY <1>1, <2>1
  <2>2. CASE i = call[calls[i].by] /\ pc[calls[i].by] \notin {"idle", "write"}
    <3>1. PICK t \in Threads : t = calls[i].by /\ t = calls'[i].by
      BY CallFacts DEF Grow
    <3>2. i = call[t] /\ pc[t] \notin {"idle", "write"}
      BY <2>2, <3>1
    <3>3. /\ call'[t] = i
          /\ pc'[t] \notin {"idle", "write"} \/ Located(i)' \/ i \in Exempt'
      BY <3>2
    <3>. QED  BY <3>1, <3>3
  <2>. QED  BY <2>1, <2>2 DEF CoverInv
<1>. QED  BY <1>2 DEF CoverInv

\* What the server has executed stays so.
LEMMA ExecutedLater ==
  ASSUME TypeInv, CallInv, Grow, UNCHANGED executed,
         executed \in Seq([call : 1 .. Len(calls), args : Seq(Byte)]),
         calls' \in Seq([by : Threads, func : Commands \cup {Sync}]),
         ~raced, OwnArguments, ProgramOrder
  PROVE  /\ executed' \in Seq([call : 1 .. Len(calls'), args : Seq(Byte)])
         /\ OwnArguments' /\ ProgramOrder'
<1>1. /\ Len(calls) \in Nat /\ DOMAIN calls = 1 .. Len(calls)
      /\ Len(calls') \in Nat /\ DOMAIN calls' = 1 .. Len(calls')
  BY CallFacts
<1>2. 1 .. Len(calls) \subseteq 1 .. Len(calls')
  BY <1>1 DEF Grow
<1>3. executed' \in Seq([call : 1 .. Len(calls'), args : Seq(Byte)])
  <2>1. [call : 1 .. Len(calls), args : Seq(Byte)] \subseteq [call : 1 .. Len(calls'), args : Seq(Byte)]
    BY <1>2
  <2>. QED  BY <2>1, SeqOfMore
<1>4. \A k \in DOMAIN executed : executed[k].call \in 1 .. Len(calls)
  <2>. TAKE k \in DOMAIN executed
  <2>1. executed[k] \in [call : 1 .. Len(calls), args : Seq(Byte)]
    BY ElementOf
  <2>. QED  BY <2>1
<1>5. \A i \in 1 .. Len(calls) : calls'[i] = calls[i] /\ Arguments(i)' = Arguments(i)
  BY <1>1 DEF Grow, Arguments, ArgEnd, NumArgs
<1>6. OwnArguments'
  <2>. SUFFICES ASSUME NEW k \in DOMAIN executed
                PROVE  LET i == executed[k].call
                       IN  /\ i # 0
                           /\ i \in harmed' \/ calls'[i].func = Sync
                              \/ executed[k].args = Arguments(i)'
    BY DEF OwnArguments
  <2>1. PICK i \in 1 .. Len(calls) : i = executed[k].call
    BY <1>4
  <2>2. /\ i # 0
        /\ i \in harmed \/ calls[i].func = Sync \/ executed[k].args = Arguments(i)
    BY <2>1 DEF OwnArguments
  <2>. QED  BY <1>5, <2>1, <2>2 DEF Grow
<1>7. ProgramOrder'
  <2>. SUFFICES ASSUME NEW k \in DOMAIN executed
                PROVE  LET i == executed[k].call
                           before == {executed[l].call : l \in 1 .. k - 1}
                       IN  /\ i \notin before
                           /\ \A j \in 1 .. i - 1 :
                                calls'[j].by = calls'[i].by =>
                                  j \in before \cup lost' \cup harmed' \cup overtaken'
    BY DEF ProgramOrder
  <2>1. PICK i \in 1 .. Len(calls) : i = executed[k].call
    BY <1>4
  <2>. DEFINE before == {executed[l].call : l \in 1 .. k - 1}
  <2>2. /\ i \notin before
        /\ \A j \in 1 .. i - 1 :
             calls[j].by = calls[i].by => j \in before \cup lost \cup harmed \cup overtaken
    BY <2>1 DEF ProgramOrder
  <2>. HIDE DEF before
  <2>3. \A j \in 1 .. i - 1 : j \in 1 .. Len(calls)
    BY <1>1
  <2>4. \A j \in 1 .. i - 1 :
          calls'[j].by = calls'[i].by => j \in before \cup lost' \cup harmed' \cup overtaken'
    BY <1>5, <2>2, <2>3 DEF Grow
  <2>. QED  BY <2>1, <2>2, <2>4 DEF before
<1>. QED  BY <1>3, <1>6, <1>7

\* A call is executed after its arguments were compared with the program's.
LEMMA Executes ==
  ASSUME TypeInv, CallInv, UNCHANGED <<calls, lost, harmed, overtaken>>,
         executed \in Seq([call : 1 .. Len(calls), args : Seq(Byte)]),
         ~raced, OwnArguments, ProgramOrder,
         NEW i \in DOMAIN calls, NEW a \in Seq(Byte),
         executed' = Append(executed, [call |-> i, args |-> a]),
         i \in harmed \/ calls[i].func = Sync \/ a = Arguments(i),
         i \notin Executed,
         \A j \in 1 .. i - 1 : calls[j].by = calls[i].by => j \in Executed \cup Exempt
  PROVE  /\ executed' \in Seq([call : 1 .. Len(calls'), args : Seq(Byte)])
         /\ OwnArguments' /\ ProgramOrder'
         /\ Executed' = Executed \cup {i}
<1>. DEFINE T == [call : 1 .. Len(calls), args : Seq(Byte)]
<1>. PICK n \in Nat : n = Len(executed)
  OBVIOUS
<1>1. [call |-> i, args |-> a] \in T
  BY CallFacts
<1>2. /\ executed' \in Seq(T) /\ DOMAIN executed = 1 .. n /\ DOMAIN executed' = 1 .. n + 1
      /\ \A k \in 1 .. n : executed'[k] = executed[k]
      /\ executed'[n + 1] = [call |-> i, args |-> a]
  <2>. HIDE DEF T
  <2>1. executed \in Seq(T)
    BY DEF T
  <2>. QED  BY <1>1, <2>1
<1>3. Arguments(i)' = Arguments(i) /\ \A k : Arguments(k)' = Arguments(k)
  BY DEF Arguments, ArgEnd, NumArgs
<1>4. OwnArguments'
  <2>. SUFFICES ASSUME NEW k \in 1 .. n + 1
                PROVE  LET c == executed'[k].call
                       IN  /\ c # 0
                           /\ c \in harmed \/ calls[c].func = Sync
                              \/ executed'[k].args = Arguments(c)
    BY <1>2, <1>3 DEF OwnArguments
  <2>1. CASE k = n + 1
    BY <1>2, <2>1, CallFacts
  <2>2. CASE k \in 1 .. n
    BY <1>2, <2>2 DEF OwnArguments
  <2>. QED  BY <2>1, <2>2
<1>5. ProgramOrder'
  <2>. SUFFICES ASSUME NEW k \in 1 .. n + 1
                PROVE  LET c == executed'[k].call
                           before == {executed'[l].call : l \in 1 .. k - 1}
                       IN  /\ c \notin before
                           /\ \A j \in 1 .. c - 1 :
                                calls[j].by = calls[c].by =>
                                  j \in before \cup lost \cup harmed \cup overtaken
    BY <1>2 DEF ProgramOrder
  <2>. DEFINE before == {executed[l].call : l \in 1 .. k - 1}
  <2>1. {executed'[l].call : l \in 1 .. k - 1} = before
    <3>1. \A l \in 1 .. k - 1 : executed'[l] = executed[l]
      BY <1>2
    <3>. QED  BY <3>1
  <2>2. CASE k = n + 1
    <3>1. before = Executed
      BY <1>2, <2>2 DEF Executed
    <3>. HIDE DEF before
    <3>2. executed'[k].call = i
      BY <1>2, <2>2
    <3>. QED  BY <2>1, <3>1, <3>2 DEF Exempt
  <2>3. CASE k \in 1 .. n
    <3>1. executed'[k] = executed[k] /\ k \in DOMAIN executed
      BY <1>2, <2>3
    <3>. QED  BY <2>1, <3>1 DEF ProgramOrder
  <2>4. k \in 1 .. n \/ k = n + 1
    OBVIOUS
  <2>. QED  BY <2>2, <2>3, <2>4
<1>6. Executed' = Executed \cup {i}
  <2>1. \A c : c \in Executed' <=> \E k \in 1 .. n + 1 : c = executed'[k].call
    BY <1>2 DEF Executed
  <2>2. \A c : c \in Executed <=> \E k \in 1 .. n : c = executed[k].call
    BY <1>2 DEF Executed
  <2>3. executed'[n + 1].call = i /\ \A k \in 1 .. n : executed'[k].call = executed[k].call
    BY <1>2
  <2>4. \A k \in 1 .. n + 1 : k \in 1 .. n \/ k = n + 1
    OBVIOUS
  <2>5. \A k \in 1 .. n : k \in 1 .. n + 1
    OBVIOUS
  <2>6. n + 1 \in 1 .. n + 1
    OBVIOUS
  <2>. QED  BY <2>1, <2>2, <2>3, <2>4, <2>5, <2>6
<1>. QED  BY <1>2, <1>4, <1>5, <1>6

\* Calls stay on their way while no message moves.
LEMMA SameStages ==
  ASSUME UNCHANGED <<wire, payload, at, executed>>
  PROVE  Stages' = Stages /\ \A n : Stage(n)' = Stage(n)
BY DEF Stage, Stages, Executed, Carried

\* A step of the program that takes no call from one place to another.
LEMMA QuietStep ==
  ASSUME TypeInv, CallInv, Grow, PlaceInv, CoverInv,
         NEW t \in Threads, NEW l \in Labels, Goto(t, l),
         UNCHANGED <<wire, payload, at, executed, copy>>, InBuffer' = InBuffer,
         pc[t] # "send", l # "send", l # "wait", l = "request" => InBuffer = {},
         \/ /\ UNCHANGED <<call, calls>>
            /\ l \in {"append", "init", "first", "flush", "request"} => Pending(t)
            /\ pc[t] \in {"idle", "write"} \/ l \notin {"idle", "write"} \/ call[t] \in Exempt'
         \/ pc[t] = "idle" /\ l \in {"append", "flush"}
            /\ \E f \in Commands \cup {Sync} : Enter(t, f)
  PROVE  PlaceInv' /\ CoverInv'
<1>1. Stages' = Stages /\ \A n : Stage(n)' = Stage(n)
  BY SameStages
<1>2. pc'[t] = l /\ \A u \in Threads \ {t} : pc'[u] = pc[u]
  BY GotoFacts
<1>3. \A u \in Threads : Copied(u)' = Copied(u)
  BY <1>2 DEF Copied
<1>4. /\ \A i, j : Earlier(i, j)' <=> Earlier(i, j)
      /\ \A i : Located(i)' <=> Located(i)
  BY <1>1, <1>3 DEF Earlier, Located
<1>5. /\ \A u \in Threads \ {t} : call'[u] = call[u]
      /\ \/ call'[t] = call[t] /\ calls' = calls
         \/ /\ pc[t] = "idle" /\ l \in {"append", "flush"}
            /\ call'[t] = Len(calls) + 1
            /\ DOMAIN calls = 1 .. Len(calls) /\ DOMAIN calls' = 1 .. Len(calls) + 1
            /\ calls'[Len(calls) + 1].by = t /\ Len(calls) \in Nat
  <2>1. CASE UNCHANGED <<call, calls>>
    BY <2>1
  <2>2. CASE pc[t] = "idle" /\ l \in {"append", "flush"}
             /\ \E f \in Commands \cup {Sync} : Enter(t, f)
    <3>1. PICK f \in Commands \cup {Sync} : Enter(t, f)
      BY <2>2
    <3>2. /\ call'[t] = Len(calls) + 1 /\ \A u \in Threads \ {t} : call'[u] = call[u]
          /\ DOMAIN calls = 1 .. Len(calls) /\ DOMAIN calls' = 1 .. Len(calls) + 1
          /\ calls'[Len(calls) + 1] = [by |-> t, func |-> f] /\ Len(calls) \in Nat
      BY <3>1, EnterFacts
    <3>3. calls'[Len(calls) + 1].by = t
      BY <3>2
    <3>. QED  BY <2>2, <3>2, <3>3
  <2>. QED  BY <2>1, <2>2
<1>6. ASSUME NEW u \in Threads, Pending(u)'
      PROVE  (Pending(u) /\ call'[u] = call[u]) \/ call'[u] \notin DOMAIN calls
  <2>1. CASE u # t
    BY <1>2, <1>5, <1>6, <2>1 DEF Pending, Unwritten
  <2>2. CASE u = t /\ pc[t] = "idle" /\ call'[t] = Len(calls) + 1 /\ DOMAIN calls = 1 .. Len(calls)
             /\ Len(calls) \in Nat
    BY <2>2
  <2>3. CASE u = t /\ UNCHANGED <<call, calls>>
             /\ (l \in {"append", "init", "first", "flush", "request"} => Pending(t))
    <3>1. l \in {"append", "init", "first", "flush", "request"}
      BY <1>2, <1>6, <2>3 DEF Pending, Unwritten
    <3>. QED  BY <2>3, <3>1
  <2>4. CASE u = t /\ pc[t] = "idle" /\ \E f \in Commands \cup {Sync} : Enter(t, f)
    <3>1. call'[t] = Len(calls) + 1 /\ DOMAIN calls = 1 .. Len(calls) /\ Len(calls) \in Nat
      BY <2>4, EnterFacts
    <3>. QED  BY <2>2, <2>4, <3>1
  <2>. QED  BY <2>1, <2>3, <2>4
<1>7. ASSUME NEW u \in Threads, NEW i \in InBuffer', pc'[u] \in {"send", "request", "wait"}
      PROVE  calls'[i].by # u
  <2>1. u # t
    BY <1>2, <1>7
  <2>2. i \in DOMAIN calls
    BY <1>7 DEF PlaceInv, Located
  <2>3. calls'[i] = calls[i]
    BY <2>2 DEF Grow
  <2>. QED  BY <1>2, <1>7, <2>1, <2>3 DEF PlaceInv
<1>8. \A u, v \in Threads : u # v => Copied(u)' \cap Copied(v)' = {}
  BY <1>3 DEF PlaceInv
<1>9. PlaceInv'
  <2>1. \A i, j \in DOMAIN calls' : Earlier(i, j)' => Earlier(i, j) \/ Ordered(i, j)'
    BY <1>4
  <2>2. \A i : Located(i)' => \/ Located(i)
                             \/ \E u \in Threads : i = call[u] /\ Pending(u) /\ ~Pending(u)'
    BY <1>4
  <2>. QED  BY <1>6, <1>7, <1>8, <2>1, <2>2, PlacesLater
<1>10. CoverInv'
  <2>1. \A i \in DOMAIN calls : Located(i) => Located(i)' \/ i \in Exempt'
    BY <1>4
  <2>2. \A u \in Threads :
          \/ pc[u] \in {"idle", "write"}
          \/ /\ call'[u] = call[u]
             /\ pc'[u] \notin {"idle", "write"} \/ Located(call[u])' \/ call[u] \in Exempt'
    BY <1>2, <1>5
  <2>3. \A i \in DOMAIN calls' \ DOMAIN calls :
          i = call'[calls'[i].by] /\ pc'[calls'[i].by] \notin {"idle", "write"}
    BY <1>2, <1>5
  <2>. QED  BY <2>1, <2>2, <2>3, CoverLater
<1>. QED  BY <1>9, <1>10

\* Where no command is counted there is none.
LEMMA EmptyBuffer ==
  ASSUME TypeInv, CountInv, BufferInv, FinalizedCount = 0
  PROVE  InBuffer = {}
<1>1. PICK b \in Seq(Byte) : b = Finalized
  BY FinalizedFacts
<1>2. /\ IsFiniteSet(Frames(b)) /\ Rest(b, 0) = Frames(b)
      /\ Cardinality(Frames(b)) <= 0
  BY <1>1, SealedFacts, FrameFacts
<1>3. Frames(b) = {}
  <2>1. Cardinality(Frames(b)) \in Nat
    BY <1>2, FS_CardinalityType
  <2>2. Cardinality(Frames(b)) = 0
    BY <1>2, <2>1
  <2>. QED  BY <1>2, <2>2, FS_EmptySet
<1>. QED  BY <1>1, <1>2, <1>3 DEF InBuffer, Ids

\* Most steps of the program move no call.
LEMMA QuietSteps ==
  ASSUME TypeInv, CallInv, CountInv, Grow, BufferInv, PlaceInv, CoverInv,
         InBuffer' = InBuffer, NEW t \in Threads,
         \/ \E f \in Commands : StartCommand(t, f)
         \/ FindNoBuffer(t) \/ BatchInit(t) \/ WriteArgument(t)
         \/ StartSync(t) \/ FlushNothing(t)
         \/ (AppendCommand(t) \/ FirstCommand(t)) /\ call[t] \in lost'
  PROVE  PlaceInv' /\ CoverInv'
<1>. USE DEF serverVars, historyVars
<1>1. CASE \/ \E f \in Commands : StartCommand(t, f)
           \/ StartSync(t)
  <2>1. PICK l \in {"append", "flush"} :
          /\ Goto(t, l) /\ pc[t] = "idle"
          /\ \E f \in Commands \cup {Sync} : Enter(t, f)
    BY <1>1 DEF StartCommand, StartSync, Runs
  <2>2. UNCHANGED <<wire, payload, at, executed, copy>>
    BY <1>1 DEF StartCommand, StartSync
  <2>. QED  BY <2>1, <2>2, QuietStep DEF Labels
<1>2. CASE FindNoBuffer(t) \/ BatchInit(t) \/ FlushNothing(t)
  <2>1. PICK l \in {"init", "first", "request"} :
          /\ Goto(t, l) /\ pc[t] \in {"append", "init", "flush"}
          /\ l = "request" => FinalizedCount = 0
    BY <1>2 DEF FindNoBuffer, BatchInit, FlushNothing, Runs
  <2>2. UNCHANGED <<wire, payload, at, executed, copy, call, calls>>
    BY <1>2 DEF FindNoBuffer, BatchInit, FlushNothing
  <2>3. l = "request" => InBuffer = {}
    BY <2>1, EmptyBuffer
  <2>4. Pending(t)
    BY <2>1 DEF Pending, Unwritten
  <2>. QED  BY <2>1, <2>2, <2>3, <2>4, QuietStep DEF Labels
<1>3. CASE WriteArgument(t)
  <2>1. PICK l \in {"idle", "write"} : Goto(t, l) /\ pc[t] = "write"
    BY <1>3 DEF WriteArgument, Runs
  <2>2. UNCHANGED <<wire, payload, at, executed, copy, call, calls>>
    BY <1>3 DEF WriteArgument
  <2>. QED  BY <2>1, <2>2, QuietStep DEF Labels
<1>4. CASE (AppendCommand(t) \/ FirstCommand(t)) /\ call[t] \in lost'
  <2>1. pc[t] # "send" /\ \E b : WriteHeader(t, b)
    BY <1>4 DEF AppendCommand, FirstCommand, Runs
  <2>2. PICK l \in {"idle", "write"} : Goto(t, l)
    BY <2>1 DEF WriteHeader
  <2>3. UNCHANGED <<wire, payload, at, executed, copy, call, calls>>
    BY <2>1 DEF WriteHeader
  <2>4. call[t] \in Exempt'
    BY <1>4 DEF Exempt
  <2>. QED  BY <2>1, <2>2, <2>3, <2>4, QuietStep DEF Labels
<1>. QED  BY <1>1, <1>2, <1>3, <1>4

\* A command comes into the buffer.
LEMMA HeaderPlaces ==
  ASSUME TypeInv, CallInv, Grow, PlaceInv, CoverInv,
         NEW t \in Threads, Unwritten(t), NEW b, WriteHeader(t, b),
         InBuffer' = InBuffer \cup {call[t]}
  PROVE  PlaceInv' /\ CoverInv'
<1>1. PICK c \in DOMAIN calls :
        c = call[t] /\ calls[c].by = t
        /\ \A i \in DOMAIN calls : i \in Nat /\ (calls[i].by = t => i <= c)
  <2>1. call[t] \in DOMAIN calls
    BY CallFacts DEF CallInv, Unwritten
  <2>2. call[t] # 0 /\ calls[call[t]].by = t
    BY <2>1, CallFacts DEF CallInv, Unwritten
  <2>3. \A i \in DOMAIN calls : i \in Nat /\ (calls[i].by = t => i <= call[t])
    BY CallFacts DEF CallInv
  <2>. QED  BY <2>1, <2>2, <2>3
<1>2. PICK l \in {"idle", "write"} : Goto(t, l)
  BY DEF WriteHeader
<1>3. pc'[t] = l /\ \A u \in Threads \ {t} : pc'[u] = pc[u]
  BY <1>2, GotoFacts DEF Labels
<1>4. UNCHANGED <<wire, payload, at, executed, copy, call, calls>>
  BY DEF WriteHeader, serverVars
<1>5. Stages' = Stages /\ \A n : Stage(n)' = Stage(n)
  BY <1>4, SameStages
<1>6. \A u \in Threads : Copied(u)' = Copied(u)
  BY <1>3, <1>4 DEF Copied, Unwritten
<1>7. ~Located(c) /\ Pending(t) /\ ~Pending(t)'
  BY <1>1, <1>2, <1>3 DEF PlaceInv, Pending, Unwritten
<1>8. \A i : Located(i)' <=> Located(i) \/ i = c
  BY <1>1, <1>5, <1>6 DEF Located
<1>9. \A i, j : Earlier(i, j)' => Earlier(i, j) \/ (j = c /\ Located(i))
  BY <1>1, <1>5, <1>6 DEF Earlier, Located
<1>10. PlaceInv'
  <2>1. ASSUME NEW i \in DOMAIN calls', NEW j \in DOMAIN calls', Earlier(i, j)'
        PROVE  Earlier(i, j) \/ Ordered(i, j)'
    <3>1. CASE j = c /\ Located(i)
      <4>1. i # c /\ (calls[i].by = calls[c].by => i < c)
        BY <1>1, <1>4, <1>7, <2>1, <3>1
      <4>. QED  BY <1>4, <3>1, <4>1 DEF Ordered, InOrder
    <3>. QED  BY <1>9, <2>1, <3>1
  <2>2. \A i : Located(i)' => \/ Located(i)
                             \/ \E u \in Threads : i = call[u] /\ Pending(u) /\ ~Pending(u)'
    BY <1>1, <1>7, <1>8
  <2>3. \A u, v \in Threads : u # v => Copied(u)' \cap Copied(v)' = {}
    BY <1>6 DEF PlaceInv
  <2>4. \A u \in Threads : Pending(u)' =>
          (Pending(u) /\ call'[u] = call[u]) \/ call'[u] \notin DOMAIN calls
    BY <1>3, <1>4, <1>7 DEF Pending, Unwritten
  <2>5. \A u \in Threads, i \in InBuffer' :
          pc'[u] \in {"send", "request", "wait"} => calls'[i].by # u
    BY <1>1, <1>2, <1>3, <1>4 DEF PlaceInv
  <2>. QED  BY <2>1, <2>2, <2>3, <2>4, <2>5, PlacesLater
<1>11. CoverInv'
  <2>1. \A i \in DOMAIN calls : Located(i) => Located(i)' \/ i \in Exempt'
    BY <1>8
  <2>2. \A u \in Threads :
          \/ pc[u] \in {"idle", "write"}
          \/ /\ call'[u] = call[u]
             /\ pc'[u] \notin {"idle", "write"} \/ Located(call[u])' \/ call[u] \in Exempt'
    BY <1>1, <1>3, <1>4, <1>8
  <2>3. \A i \in DOMAIN calls' \ DOMAIN calls :
          i = call'[calls'[i].by] /\ pc'[calls'[i].by] \notin {"idle", "write"}
    BY <1>4
  <2>. QED  BY <2>1, <2>2, <2>3, CoverLater
<1>. QED  BY <1>10, <1>11

\* A step that moves no thread and no message.
LEMMA SamePlaces ==
  ASSUME TypeInv, CallInv, Grow, PlaceInv, CoverInv,
         UNCHANGED <<pc, call, calls, copy>>, InBuffer' = InBuffer,
         Stages' = Stages, \A n \in Stages : Stage(n)' = Stage(n)
  PROVE  PlaceInv' /\ CoverInv'
<1>1. \A u \in Threads : Copied(u)' = Copied(u)
  BY DEF Copied
<1>2. /\ \A i, j : Earlier(i, j)' <=> Earlier(i, j)
      /\ \A i : Located(i)' <=> Located(i)
  BY <1>1 DEF Earlier, Located
<1>3. PlaceInv'
  <2>1. \A i, j \in DOMAIN calls' : Earlier(i, j)' => Earlier(i, j) \/ Ordered(i, j)'
    BY <1>2
  <2>2. \A i : Located(i)' => \/ Located(i)
                             \/ \E u \in Threads : i = call[u] /\ Pending(u) /\ ~Pending(u)'
    BY <1>2
  <2>3. \A u, v \in Threads : u # v => Copied(u)' \cap Copied(v)' = {}
    BY <1>1 DEF PlaceInv
  <2>4. \A u \in Threads : Pending(u)' =>
          (Pending(u) /\ call'[u] = call[u]) \/ call'[u] \notin DOMAIN calls
    BY DEF Pending, Unwritten
  <2>5. \A u \in Threads, i \in InBuffer' :
          pc'[u] \in {"send", "request", "wait"} => calls'[i].by # u
    BY DEF PlaceInv
  <2>. QED  BY <2>1, <2>2, <2>3, <2>4, <2>5, PlacesLater
<1>4. CoverInv'
  BY <1>2, CoverLater
<1>. QED  BY <1>3, <1>4

\* The commands in the buffer go into a copy, or are lost.
LEMMA FlushPlaces ==
  ASSUME TypeInv, CallInv, CountInv, Grow, BufferInv, PlaceInv, CoverInv,
         NEW t \in Threads, NEW valid, Flush(t, valid), InBuffer' = {}
  PROVE  PlaceInv' /\ CoverInv'
<1>1. /\ UNCHANGED <<wire, payload, at, executed, call, calls>>
      /\ pc[t] = "flush"
  BY DEF Flush, Runs, serverVars
<1>2. Stages' = Stages /\ \A n : Stage(n)' = Stage(n)
  BY <1>1, SameStages
<1>3. InBuffer \subseteq batched
  <2>1. PICK b \in Seq(Byte) : b = Finalized
    BY FinalizedFacts
  <2>2. Ids(b, 0) \subseteq batched
    BY <2>1, SealedFacts
  <2>. QED  BY <2>1, <2>2 DEF InBuffer
<1>4. /\ \A u \in Threads \ {t} : pc'[u] = pc[u] /\ Copied(u)' = Copied(u)
      /\ Copied(t) = {}
      /\ \/ pc'[t] = "send" /\ Copied(t)' = InBuffer
         \/ pc'[t] = "request" /\ Copied(t)' = {} /\ InBuffer \subseteq Exempt'
  <2>1. CASE valid = "valid"
    <3>1. Goto(t, "send") /\ copy' = [copy EXCEPT ![t] = Message]
      BY <2>1 DEF Flush
    <3>2. pc'[t] = "send" /\ \A u \in Threads \ {t} : pc'[u] = pc[u]
      BY <3>1, GotoFacts DEF Labels
    <3>3. copy'[t] = Message /\ \A u \in Threads \ {t} : copy'[u] = copy[u]
      BY <3>1 DEF TypeInv
    <3>4. Copied(t)' = InBuffer
      BY <3>2, <3>3 DEF Copied, InBuffer, Message
    <3>. QED  BY <1>1, <3>2, <3>3, <3>4 DEF Copied
  <2>2. CASE valid # "valid"
    <3>1. Goto(t, "request") /\ lost' = lost \cup batched /\ copy' = copy
      BY <2>2 DEF Flush
    <3>2. pc'[t] = "request" /\ \A u \in Threads \ {t} : pc'[u] = pc[u]
      BY <3>1, GotoFacts DEF Labels
    <3>3. InBuffer \subseteq Exempt'
      BY <1>3, <3>1 DEF Exempt
    <3>. QED  BY <1>1, <3>1, <3>2, <3>3 DEF Copied
  <2>. QED  BY <2>1, <2>2
<1>5. \A i : Located(i)' => Located(i)
  BY <1>2, <1>4 DEF Located
<1>6. \A i, j : Earlier(i, j)' => Earlier(i, j)
  BY <1>2, <1>4 DEF Earlier
<1>7. ASSUME NEW u \in Threads  PROVE Copied(u) \cap InBuffer = {}
  <2>. SUFFICES ASSUME NEW i \in Copied(u), i \in InBuffer  PROVE FALSE
    OBVIOUS
  <2>1. Earlier(i, i) /\ i \in DOMAIN calls
    BY DEF Earlier, Located, PlaceInv
  <2>. QED  BY <2>1 DEF PlaceInv, Ordered
<1>8. PlaceInv'
  <2>1. \A i, j \in DOMAIN calls' : Earlier(i, j)' => Earlier(i, j) \/ Ordered(i, j)'
    BY <1>6
  <2>2. \A i : Located(i)' => \/ Located(i)
                             \/ \E u \in Threads : i = call[u] /\ Pending(u) /\ ~Pending(u)'
    BY <1>5
  <2>3. ASSUME NEW u \in Threads, NEW v \in Threads, u # v
        PROVE  Copied(u)' \cap Copied(v)' = {}
    BY <1>4, <1>7, <2>3 DEF PlaceInv
  <2>4. \A u \in Threads : Pending(u)' =>
          (Pending(u) /\ call'[u] = call[u]) \/ call'[u] \notin DOMAIN calls
    BY <1>1, <1>4 DEF Pending, Unwritten
  <2>. QED  BY <2>1, <2>2, <2>3, <2>4, PlacesLater
<1>9. CoverInv'
  <2>1. \A i \in DOMAIN calls : Located(i) => Located(i)' \/ i \in Exempt'
    BY <1>2, <1>4 DEF Located
  <2>2. \A u \in Threads :
          \/ pc[u] \in {"idle", "write"}
          \/ /\ call'[u] = call[u]
             /\ pc'[u] \notin {"idle", "write"} \/ Located(call[u])' \/ call[u] \in Exempt'
    BY <1>1, <1>4
  <2>3. \A i \in DOMAIN calls' \ DOMAIN calls :
          i = call'[calls'[i].by] /\ pc'[calls'[i].by] \notin {"idle", "write"}
    BY <1>1
  <2>. QED  BY <2>1, <2>2, <2>3, CoverLater
<1>. QED  BY <1>8, <1>9

\* A message that is sent comes after those on their way.
LEMMA SentStages ==
  ASSUME TypeInv, NEW m, m \in Batch \cup Request, wire' = Append(wire, m),
         UNCHANGED <<payload, at, executed>>
  PROVE  /\ Stages \subseteq Nat
         /\ \E l \in Nat : /\ Stages' = Stages \cup {l} /\ Stage(l)' = Carried(m)
                           /\ \A n \in Stages : n < l
         /\ \A n \in Stages : Stage(n)' = Stage(n)
<1>1. PICK w \in Nat : w = Len(wire) /\ Len(wire') = w + 1 /\ wire'[w + 1] = m
                       /\ \A k \in 1 .. w : wire'[k] = wire[k]
  <2>1. wire \in Seq(Batch \cup Request)
    BY DEF TypeInv
  <2>. QED  BY <2>1
<1>2. Stages = 0 .. w + 1 /\ Stages' = 0 .. w + 2
  BY <1>1 DEF Stages
<1>3. Stage(w + 2)' = Carried(m)
  <2>1. w + 2 # 0 /\ w + 2 # 1 /\ (w + 2) - 1 = w + 1
    BY <1>1
  <2>. QED  BY <1>1, <2>1 DEF Stage, Carried
<1>4. ASSUME NEW n \in 0 .. w + 1  PROVE Stage(n)' = Stage(n)
  <2>1. CASE n \in {0, 1}
    BY <2>1 DEF Stage, Executed
  <2>2. CASE n \notin {0, 1}
    <3>1. n - 1 \in 1 .. w
      BY <1>1, <2>2
    <3>. QED  BY <1>1, <2>2, <3>1 DEF Stage, Carried
  <2>. QED  BY <2>1, <2>2
<1>5. w + 2 \in Nat /\ Stages' = Stages \cup {w + 2} /\ \A n \in Stages : n < w + 2
  BY <1>2
<1>. QED  BY <1>2, <1>3, <1>4, <1>5

\* What others have copied is overtaken.
LEMMA Overtakes ==
  ASSUME MessageInv, NEW t \in Threads, NEW m, Sends(t, m),
         NEW u \in Threads, u # t
  PROVE  Copied(u) \subseteq overtaken'
<1>1. CASE pc[u] = "send"
  <2>1. BatchInv(copy[u]) /\ u \in Others(t, "send")
    BY <1>1 DEF MessageInv, Others
  <2>2. Copied(u) \subseteq copy[u].calls
    BY <1>1, <2>1 DEF BatchInv, Copied
  <2>3. copy[u].calls \subseteq overtaken'
    BY <2>1 DEF Sends
  <2>. QED  BY <2>2, <2>3
<1>2. CASE pc[u] # "send"
  BY <1>2 DEF Copied
<1>. QED  BY <1>1, <1>2

\* The batch that is sent.
LEMMA SendPlaces ==
  ASSUME TypeInv, CallInv, Grow, PlaceInv, CoverInv, MessageInv,
         NEW t \in Threads, SendBatch(t), InBuffer' = InBuffer
  PROVE  PlaceInv' /\ CoverInv'
<1>1. /\ UNCHANGED <<payload, at, executed, call, calls>>
      /\ pc[t] = "send" /\ Sends(t, copy[t])
  BY DEF SendBatch, Runs, serverVars
<1>2. PICK m \in Batch : m = copy[t] /\ m.type = "batch"
  <2>1. copy[t] \in Batch
    BY <1>1 DEF TypeInv, CallInv
  <2>2. copy[t].type = "batch"
    BY <2>1 DEF Batch
  <2>. QED  BY <2>1, <2>2
<1>3. Carried(m) = Copied(t)
  BY <1>1, <1>2 DEF Carried, Copied
<1>4. wire' = Append(wire, m)
  BY <1>1, <1>2 DEF Sends
<1>5. PICK l \in Nat : /\ Stages' = Stages \cup {l} /\ Stage(l)' = Copied(t)
                       /\ \A n \in Stages : n \in Nat /\ n < l
                       /\ \A n \in Stages : Stage(n)' = Stage(n)
  BY <1>1, <1>2, <1>3, <1>4, SentStages
<1>6. pc'[t] = "wait" /\ \A u \in Threads \ {t} : pc'[u] = pc[u]
  BY <1>1, GotoFacts DEF Sends, Labels
<1>7. /\ Copied(t)' = {}
      /\ \A u \in Threads \ {t} : Copied(u)' = Copied(u)
  <2>1. \A u \in Threads \ {t} : copy'[u] = copy[u]
    BY DEF SendBatch, TypeInv
  <2>. QED  BY <1>6, <2>1 DEF Copied
<1>8. \A i : Located(i)' <=> Located(i)
  BY <1>5, <1>7 DEF Located
<1>9. ASSUME NEW i \in DOMAIN calls', NEW j \in DOMAIN calls', Earlier(i, j)'
      PROVE  Earlier(i, j) \/ Ordered(i, j)'
  <2>1. CASE \E n, p \in Stages' : n < p /\ i \in Stage(n)' /\ j \in Stage(p)'
    <3>1. PICK n \in Stages', p \in Stages' : n < p /\ i \in Stage(n)' /\ j \in Stage(p)'
      BY <2>1
    <3>2. n \in Stages
      BY <1>5, <3>1
    <3>3. CASE p \in Stages
      BY <1>5, <3>1, <3>2, <3>3 DEF Earlier
    <3>4. CASE p = l
      BY <1>5, <3>1, <3>2, <3>4 DEF Earlier
    <3>. QED  BY <1>5, <3>3, <3>4
  <2>2. CASE \E n \in Stages', u \in Threads : i \in Stage(n)' /\ j \in Copied(u)'
    <3>1. PICK n \in Stages', u \in Threads : i \in Stage(n)' /\ j \in Copied(u)'
      BY <2>2
    <3>2. u # t /\ j \in Copied(u)
      BY <1>7, <3>1
    <3>3. CASE n \in Stages
      BY <1>5, <3>1, <3>2, <3>3 DEF Earlier
    <3>4. CASE n = l
      <4>1. i # j
        BY <1>5, <3>1, <3>2, <3>4 DEF PlaceInv
      <4>2. j \in Exempt'
        BY <1>1, <3>2, Overtakes DEF Exempt
      <4>. QED  BY <4>1, <4>2 DEF Ordered
    <3>. QED  BY <1>5, <3>3, <3>4
  <2>3. CASE \E n \in Stages' : i \in Stage(n)' /\ j \in InBuffer'
    BY <1>5, <2>3 DEF Earlier
  <2>4. CASE \E u \in Threads : i \in Copied(u)' /\ j \in InBuffer'
    BY <1>7, <2>4 DEF Earlier
  <2>. QED  BY <1>9, <2>1, <2>2, <2>3, <2>4 DEF Earlier
<1>10. PlaceInv'
  <2>1. \A i, j \in DOMAIN calls' : Earlier(i, j)' => Earlier(i, j) \/ Ordered(i, j)'
    BY <1>9
  <2>2. \A i : Located(i)' => \/ Located(i)
                             \/ \E u \in Threads : i = call[u] /\ Pending(u) /\ ~Pending(u)'
    BY <1>8
  <2>3. \A u, v \in Threads : u # v => Copied(u)' \cap Copied(v)' = {}
    BY <1>7 DEF PlaceInv
  <2>4. \A u \in Threads : Pending(u)' =>
          (Pending(u) /\ call'[u] = call[u]) \/ call'[u] \notin DOMAIN calls
    BY <1>1, <1>6 DEF Pending, Unwritten
  <2>5. \A u \in Threads, i \in InBuffer' :
          pc'[u] \in {"send", "request", "wait"} => calls'[i].by # u
    BY <1>1, <1>6 DEF PlaceInv
  <2>. QED  BY <2>1, <2>2, <2>3, <2>4, <2>5, PlacesLater
<1>11. CoverInv'
  <2>1. \A i \in DOMAIN calls : Located(i) => Located(i)' \/ i \in Exempt'
    BY <1>8
  <2>2. \A u \in Threads :
          \/ pc[u] \in {"idle", "write"}
          \/ /\ call'[u] = call[u]
             /\ pc'[u] \notin {"idle", "write"} \/ Located(call[u])' \/ call[u] \in Exempt'
    BY <1>1, <1>6
  <2>3. \A i \in DOMAIN calls' \ DOMAIN calls :
          i = call'[calls'[i].by] /\ pc'[calls'[i].by] \notin {"idle", "write"}
    BY <1>1
  <2>. QED  BY <2>1, <2>2, <2>3, CoverLater
<1>. QED  BY <1>10, <1>11

\* The request that is sent.
LEMMA RequestPlaces ==
  ASSUME TypeInv, CallInv, Grow, PlaceInv, CoverInv, MessageInv,
         NEW t \in Threads, NEW valid \in {"valid", "none"}, SendRequest(t, valid),
         InBuffer' = InBuffer
  PROVE  PlaceInv' /\ CoverInv'
<1>1. /\ UNCHANGED <<payload, at, executed, call, calls, copy>>
      /\ pc[t] = "request"
  BY DEF SendRequest, Runs, serverVars
<1>a. CASE valid = "none"
  <2>1. UNCHANGED <<pc, wire>>
    BY <1>a DEF SendRequest
  <2>2. Stages' = Stages /\ \A n : Stage(n)' = Stage(n)
    BY <1>1, <2>1, SameStages
  <2>. QED  BY <1>1, <2>1, <2>2, SamePlaces
<1>b. CASE valid = "valid"
  <2>1. PICK c \in DOMAIN calls :
          c = call[t] /\ calls[c].by = t
          /\ \A i \in DOMAIN calls : i \in Nat /\ (calls[i].by = t => i <= c)
    <3>1. call[t] \in DOMAIN calls
      BY <1>1, CallFacts
    <3>2. call[t] # 0 /\ calls[call[t]].by = t
      BY <1>1, <3>1, CallFacts DEF CallInv
    <3>3. \A i \in DOMAIN calls : i \in Nat /\ (calls[i].by = t => i <= call[t])
      BY CallFacts DEF CallInv
    <3>. QED  BY <3>1, <3>2, <3>3
  <2>2. PICK m \in Request : m = [type |-> "sync", call |-> c]
    BY <2>1, CallFacts DEF Request
  <2>3. Sends(t, m)
    BY <1>b, <2>1, <2>2 DEF SendRequest
  <2>4. Carried(m) = {c} /\ wire' = Append(wire, m)
    BY <2>2, <2>3 DEF Carried, Sends
  <2>5. PICK l \in Nat : /\ Stages' = Stages \cup {l} /\ Stage(l)' = {c}
                         /\ \A n \in Stages : n \in Nat /\ n < l
                         /\ \A n \in Stages : Stage(n)' = Stage(n)
    BY <1>1, <2>2, <2>4, SentStages
  <2>6. pc'[t] = "wait" /\ \A u \in Threads \ {t} : pc'[u] = pc[u]
    BY <2>3, GotoFacts DEF Sends, Labels
  <2>7. \A u \in Threads : Copied(u)' = Copied(u)
    BY <1>1, <2>6 DEF Copied
  <2>8. Pending(t) /\ ~Pending(t)' /\ ~Located(c) /\ Copied(t) = {}
    BY <1>1, <2>1, <2>6 DEF PlaceInv, Pending, Unwritten, Copied
  <2>9. \A i : Located(i)' <=> Located(i) \/ i = c
    BY <2>5, <2>7 DEF Located
  <2>10. ASSUME NEW i \in DOMAIN calls', NEW j \in DOMAIN calls', Earlier(i, j)'
         PROVE  Earlier(i, j) \/ Ordered(i, j)'
    <3>0. ASSUME j = c, Located(i)  PROVE Ordered(i, j)'
      <4>1. i # c /\ (calls[i].by = calls[c].by => i < c)
        BY <1>1, <2>1, <2>8, <2>10, <3>0
      <4>. QED  BY <1>1, <3>0, <4>1 DEF Ordered, InOrder
    <3>1. CASE \E n, p \in Stages' : n < p /\ i \in Stage(n)' /\ j \in Stage(p)'
      <4>1. PICK n \in Stages', p \in Stages' : n < p /\ i \in Stage(n)' /\ j \in Stage(p)'
        BY <3>1
      <4>2. n \in Stages
        BY <2>5, <4>1
      <4>3. CASE p \in Stages
        BY <2>5, <4>1, <4>2, <4>3 DEF Earlier
      <4>4. CASE p = l
        BY <2>5, <3>0, <4>1, <4>2, <4>4 DEF Located
      <4>. QED  BY <2>5, <4>3, <4>4
    <3>2. CASE \E n \in Stages', u \in Threads : i \in Stage(n)' /\ j \in Copied(u)'
      <4>1. PICK n \in Stages', u \in Threads : i \in Stage(n)' /\ j \in Copied(u)'
        BY <3>2
      <4>2. u # t /\ j \in Copied(u) /\ Located(j)
        BY <2>7, <2>8, <4>1 DEF Located
      <4>3. CASE n \in Stages
        BY <2>5, <4>1, <4>2, <4>3 DEF Earlier
      <4>4. CASE n = l
        <5>1. i = c /\ i # j
          BY <2>5, <2>8, <4>1, <4>2, <4>4
        <5>2. j \in Exempt'
          BY <2>3, <4>2, Overtakes DEF Exempt
        <5>. QED  BY <5>1, <5>2 DEF Ordered
      <4>. QED  BY <2>5, <4>1, <4>3, <4>4
    <3>3. CASE \E n \in Stages' : i \in Stage(n)' /\ j \in InBuffer'
      <4>1. PICK n \in Stages' : i \in Stage(n)' /\ j \in InBuffer
        BY <3>3
      <4>2. CASE n \in Stages
        BY <2>5, <4>1, <4>2 DEF Earlier
      <4>3. CASE n = l
        <5>1. i = c /\ Located(j)
          BY <2>5, <4>1, <4>3 DEF Located
        <5>2. calls[j].by # t
          BY <1>1, <4>1 DEF PlaceInv
        <5>. QED  BY <1>1, <2>1, <2>8, <5>1, <5>2 DEF Ordered, InOrder
      <4>. QED  BY <2>5, <4>2, <4>3
    <3>4. CASE \E u \in Threads : i \in Copied(u)' /\ j \in InBuffer'
      BY <2>7, <3>4 DEF Earlier
    <3>. QED  BY <2>10, <3>1, <3>2, <3>3, <3>4 DEF Earlier
  <2>11. PlaceInv'
    <3>1. \A i, j \in DOMAIN calls' : Earlier(i, j)' => Earlier(i, j) \/ Ordered(i, j)'
      BY <2>10
    <3>2. \A i : Located(i)' => \/ Located(i)
                               \/ \E u \in Threads : i = call[u] /\ Pending(u) /\ ~Pending(u)'
      BY <2>1, <2>8, <2>9
    <3>3. \A u, v \in Threads : u # v => Copied(u)' \cap Copied(v)' = {}
      BY <2>7 DEF PlaceInv
    <3>4. \A u \in Threads : Pending(u)' =>
            (Pending(u) /\ call'[u] = call[u]) \/ call'[u] \notin DOMAIN calls
      BY <1>1, <2>6 DEF Pending, Unwritten
    <3>5. \A u \in Threads, i \in InBuffer' :
            pc'[u] \in {"send", "request", "wait"} => calls'[i].by # u
      BY <1>1, <2>6 DEF PlaceInv
    <3>. QED  BY <3>1, <3>2, <3>3, <3>4, <3>5, PlacesLater
  <2>12. CoverInv'
    <3>1. \A i \in DOMAIN calls : Located(i) => Located(i)' \/ i \in Exempt'
      BY <2>9
    <3>2. \A u \in Threads :
            \/ pc[u] \in {"idle", "write"}
            \/ /\ call'[u] = call[u]
               /\ pc'[u] \notin {"idle", "write"} \/ Located(call[u])' \/ call[u] \in Exempt'
      BY <1>1, <2>6
    <3>3. \A i \in DOMAIN calls' \ DOMAIN calls :
            i = call'[calls'[i].by] /\ pc'[calls'[i].by] \notin {"idle", "write"}
      BY <1>1
    <3>. QED  BY <3>1, <3>2, <3>3, CoverLater
  <2>. QED  BY <2>11, <2>12
<1>. QED  BY <1>a, <1>b

-----------------------------------------------------------------------------
(* The steps of the messages.                                              *)

\* No message has a call of which nothing is written.
LEMMA OldMessages ==
  ASSUME TypeInv, CallInv, Grow, Writers, PlaceInv, PayloadInv, MessageInv
  PROVE  /\ UNCHANGED serverVars => PayloadInv'
         /\ \A k \in DOMAIN wire, m \in Batch :
              wire[k] = m => m.body \in Seq(Byte) /\ BatchInv(m)'
         /\ \A u \in Threads, m \in Batch :
              pc[u] = "send" /\ copy[u] = m => m.body \in Seq(Byte) /\ BatchInv(m)'
<1>1. \A t \in Threads : Unwritten(t) => ~Located(call[t])
  BY DEF PlaceInv, Pending
<1>2. Len(wire) \in Nat /\ DOMAIN wire = 1 .. Len(wire)
  <2>1. wire \in Seq(Batch \cup Request)
    BY DEF TypeInv
  <2>. QED  BY <2>1
<1>3. UNCHANGED serverVars => PayloadInv'
  <2>1. Stage(1) = Ids(payload, at) /\ 1 \in Stages
    BY <1>2 DEF Stage, Stages
  <2>2. \A t \in Threads : Unwritten(t) => call[t] \notin Ids(payload, at)
    BY <1>1, <2>1 DEF Located
  <2>. QED  BY <2>2, PayloadLater
<1>4. ASSUME NEW k \in DOMAIN wire, NEW m \in Batch, wire[k] = m
      PROVE  m.body \in Seq(Byte) /\ BatchInv(m)'
  <2>1. m.type = "batch" /\ m.body \in Seq(Byte)
    BY DEF Batch
  <2>2. BatchInv(m)
    BY <1>4, <2>1 DEF MessageInv
  <2>3. k + 1 \in Stages /\ Stage(k + 1) = Ids(m.body, 0)
    <3>1. k + 1 # 0 /\ k + 1 # 1 /\ (k + 1) - 1 = k /\ k + 1 \in Stages
      BY <1>2 DEF Stages
    <3>. QED  BY <1>4, <2>1, <3>1 DEF Stage, Carried
  <2>4. \A t \in Threads : Unwritten(t) => call[t] \notin Ids(m.body, 0)
    BY <1>1, <2>3 DEF Located
  <2>. QED  BY <2>1, <2>2, <2>4, BatchLater
<1>5. ASSUME NEW u \in Threads, NEW m \in Batch, pc[u] = "send", copy[u] = m
      PROVE  m.body \in Seq(Byte) /\ BatchInv(m)'
  <2>1. m.body \in Seq(Byte)
    BY DEF Batch
  <2>2. BatchInv(m)
    BY <1>5 DEF MessageInv
  <2>3. Copied(u) = Ids(m.body, 0)
    BY <1>5 DEF Copied
  <2>4. \A t \in Threads : Unwritten(t) => call[t] \notin Ids(m.body, 0)
    BY <1>1, <2>3 DEF Located
  <2>. QED  BY <2>1, <2>2, <2>4, BatchLater
<1>. QED  BY <1>3, <1>4, <1>5

\* What is sent was copied before.
LEMMA MessageStep ==
  ASSUME TypeInv, CallInv, Grow, Writers, PlaceInv, PayloadInv, MessageInv,
         \A k \in DOMAIN wire' : wire'[k].type = "batch" =>
           \/ \E l \in DOMAIN wire : wire[l] = wire'[k]
           \/ \E u \in Threads : pc[u] = "send" /\ copy[u] = wire'[k],
         \A u \in Threads : pc'[u] = "send" =>
           (pc[u] = "send" /\ copy'[u] = copy[u]) \/ BatchInv(copy[u])'
  PROVE  MessageInv'
<1>1. ASSUME NEW k \in DOMAIN wire', wire'[k].type = "batch"
      PROVE  BatchInv(wire[k])'
  <2>1. CASE \E l \in DOMAIN wire : wire[l] = wire'[k]
    <3>1. PICK l \in DOMAIN wire : wire[l] = wire'[k]
      BY <2>1
    <3>2. wire[l] \in Batch \cup Request
      <4>1. wire \in Seq(Batch \cup Request)
        BY DEF TypeInv
      <4>. QED  BY <3>1, <4>1, ElementOf
    <3>3. PICK m \in Batch : m = wire'[k]
      BY <1>1, <3>1, <3>2 DEF Request
    <3>4. BatchInv(m)'
      BY <3>1, <3>3, OldMessages
    <3>. QED  BY <3>3, <3>4
  <2>2. CASE \E u \in Threads : pc[u] = "send" /\ copy[u] = wire'[k]
    <3>1. PICK u \in Threads : pc[u] = "send" /\ copy[u] = wire'[k]
      BY <2>2
    <3>2. PICK m \in Batch : m = wire'[k] /\ copy[u] = m
      BY <3>1 DEF TypeInv, CallInv
    <3>3. BatchInv(m)'
      BY <3>1, <3>2, OldMessages
    <3>. QED  BY <3>2, <3>3
  <2>. QED  BY <1>1, <2>1, <2>2
<1>2. ASSUME NEW u \in Threads, pc'[u] = "send"  PROVE BatchInv(copy[u])'
  <2>1. CASE pc[u] = "send" /\ copy'[u] = copy[u]
    <3>1. PICK m \in Batch : m = copy[u] /\ copy'[u] = m
      BY <2>1 DEF TypeInv, CallInv
    <3>2. BatchInv(m)'
      BY <2>1, <3>1, OldMessages
    <3>. QED  BY <3>1, <3>2
  <2>. QED  BY <1>2, <2>1
<1>. QED  BY <1>1, <1>2 DEF MessageInv

-----------------------------------------------------------------------------
(* The steps of the server.                                                *)

\* A command that is all there is read as it was written.
LEMMA NextCommand ==
  ASSUME TypeInv, CallInv, PayloadInv, at + 2 * FieldSize <= Len(payload)
  PROVE  /\ at \in Rest(payload, at)
         /\ Header(payload, at) /\ Content(payload, at) /\ Follows(payload, at)
         /\ Settled(payload, at) /\ FrameOrEnd(payload, After(payload, at))
         /\ Field(at, FuncID) /\ payload[at + 1].of = CallAt(payload, at)
         /\ \A size : Denotes(size) => size = SizeAt(payload, at)
<1>. PICK b \in Seq(Byte), a \in Nat : b = payload /\ a = at
  BY DEF TypeInv
<1>1. Len(b) \in Nat /\ a + 4 <= Len(b) /\ FieldSize = 2
  BY DEF FieldSize
<1>2. a \in Frames(b)
  <2>1. FrameOrEnd(b, a)
    BY DEF PayloadInv, Framed
  <2>. QED  BY <1>1, <2>1 DEF FrameOrEnd
<1>3. a \in Rest(b, a)
  BY <1>2 DEF Rest
<1>4. /\ Header(b, a) /\ Content(b, a) /\ Follows(b, a) /\ Settled(b, a)
      /\ FrameOrEnd(b, After(b, a))
  BY <1>3 DEF PayloadInv, Framed
<1>5. \A p \in Nat : Field(p, FuncID) <=>
        SubSeq(b, p + 1, p + 2) = Bytes(b[p + 1].of, FuncID, 2)
  BY <1>1 DEF Field
<1>6. ASSUME NEW p \in Nat, p + 2 <= Len(b), NEW of \in Nat,
             NEW part \in {FuncID, ArgSize, ArgData},
             \A k \in 1 .. 2 : b[p + k] = [of |-> of, part |-> part, k |-> k]
      PROVE  Field(p, part)
  <2>1. b[p + 1].of = of
    BY <1>6
  <2>2. /\ SubSeq(b, p + 1, p + 2) \in Seq(Byte) /\ Len(SubSeq(b, p + 1, p + 2)) = 2
        /\ \A k \in 1 .. 2 : SubSeq(b, p + 1, p + 2)[k] = b[p + k]
    <3>1. p + 2 \in Nat /\ p <= p + 2 /\ (p + 2) - p = 2
      OBVIOUS
    <3>. QED  BY <1>6, <3>1, SubSeqFacts
  <2>3. /\ Bytes(of, part, 2) \in Seq(Byte) /\ Len(Bytes(of, part, 2)) = 2
        /\ \A k \in 1 .. 2 : Bytes(of, part, 2)[k] = [of |-> of, part |-> part, k |-> k]
    <3>1. PICK n \in Nat : n = 2
      OBVIOUS
    <3>2. /\ Bytes(of, part, n) \in Seq(Byte) /\ Len(Bytes(of, part, n)) = n
          /\ \A k \in 1 .. n : Bytes(of, part, n)[k] = [of |-> of, part |-> part, k |-> k]
      <4>1. of \in Nat /\ part \in {FuncID, ArgSize, ArgData} /\ n \in Nat
        BY <1>6
      <4>2. Bytes(of, part, n) = [k \in 1 .. n |-> [of |-> of, part |-> part, k |-> k]]
        BY DEF Bytes
      <4>3. \A k \in 1 .. n : [of |-> of, part |-> part, k |-> k] \in Byte
        BY <4>1 DEF Byte
      <4>. QED  BY <4>2, <4>3
    <3>. QED  BY <3>1, <3>2
  <2>4. SubSeq(b, p + 1, p + 2) = Bytes(of, part, 2)
    BY <1>6, <2>2, <2>3
  <2>. QED  BY <1>1, <2>1, <2>4 DEF Field
<1>7. Field(a, FuncID)
  <2>1. CallAt(b, a) \in Nat
    BY <1>4, CallFacts DEF Header
  <2>2. \A k \in 1 .. 2 : b[a + k] = [of |-> CallAt(b, a), part |-> FuncID, k |-> k]
    BY <1>1, <1>4 DEF Header
  <2>3. a + 2 <= Len(b)
    BY <1>1
  <2>. QED  BY <1>6, <2>1, <2>2, <2>3
<1>8. Field(a + 2, ArgSize)
  <2>1. SizeAt(b, a) \in Nat
    BY <1>4, ConstantsAssumption DEF Header
  <2>2. \A k \in 1 .. 2 : b[(a + 2) + k] = [of |-> SizeAt(b, a), part |-> ArgSize, k |-> k]
    BY <1>1, <1>4 DEF Header
  <2>3. (a + 2) + 2 <= Len(b) /\ a + 2 \in Nat
    BY <1>1
  <2>. QED  BY <1>6, <2>1, <2>2, <2>3
<1>9. \A size : Denotes(size) => size = SizeAt(b, a)
  BY <1>1, <1>8 DEF Denotes, SizeAt
<1>. QED  BY <1>3, <1>4, <1>7, <1>9 DEF CallAt

\* A batch is left when it has no more commands.
LEMMA GivenUp ==
  ASSUME TypeInv, CallInv, PayloadInv, NEW size \in 0 .. MaxArgSize, GiveUp(size)
  PROVE  Rest(payload, at) = {}
<1>. PICK b \in Seq(Byte), a \in Nat : b = payload /\ a = at
  BY DEF TypeInv
<1>1. Len(b) \in Nat /\ FieldSize = 2
  BY DEF FieldSize
<1>2. ~(a + 4 <= Len(b))
  <2>. SUFFICES ASSUME a + 4 <= Len(b)  PROVE FALSE
    OBVIOUS
  <2>1. at + 2 * FieldSize <= Len(payload)
    BY <1>1
  <2>2. Denotes(size) /\ at + 2 * FieldSize + size > Len(payload)
    BY <2>1 DEF GiveUp
  <2>3. size = SizeAt(b, a) /\ Header(b, a)
    BY <2>1, <2>2, NextCommand
  <2>4. After(b, a) = a + 4 + size /\ After(b, a) <= Len(b)
    BY <1>1, <2>3 DEF Header, After
  <2>5. a + 4 + size > Len(b)
    BY <1>1, <2>2
  <2>6. size \in Nat
    BY ConstantsAssumption
  <2>. QED  BY <1>1, <2>4, <2>5, <2>6
<1>3. ASSUME NEW s \in Rest(b, a)  PROVE FALSE
  <2>1. s \in Nat /\ s >= a /\ s + 4 <= Len(b)
    BY <1>3, FrameFacts DEF Rest
  <2>. QED  BY <1>1, <1>2, <2>1
<1>. QED  BY <1>3

\* What comes before a call of its thread has been executed, or is exempt, where
\* nothing is between the executed calls and the place of the call.
LEMMA EarlierDone ==
  ASSUME TypeInv, CallInv, PlaceInv, CoverInv,
         NEW n \in Stages, n \in Nat \ {0}, NEW c \in Stage(n),
         \A m \in Stages : m # 0 /\ m < n => Stage(m) = {},
         NEW j \in 1 .. c - 1, calls[j].by = calls[c].by, j \notin Stage(n)
  PROVE  j \in Executed \cup Exempt
<1>1. c \in DOMAIN calls /\ c \in Nat
  <2>1. c \in DOMAIN calls
    BY DEF Located, PlaceInv
  <2>. QED  BY <2>1, CallFacts
<1>2. j \in DOMAIN calls /\ j < c
  BY <1>1, CallFacts
<1>3. ~Earlier(c, j) \/ j \in Exempt
  BY <1>1, <1>2 DEF PlaceInv, Ordered, InOrder
<1>4. c <= call[calls[j].by] /\ call[calls[j].by] \in Int
  BY <1>1, <1>2, CallFacts DEF CallInv
<1>5. j # call[calls[j].by]
  BY <1>1, <1>2, <1>4
<1>6. CASE Located(j)
  <2>1. ASSUME NEW m \in Stages, j \in Stage(m), ~Earlier(c, j)  PROVE j \in Executed
    <3>1. m \in Int
      BY DEF Stages, TypeInv
    <3>2. ~(n < m)
      BY <2>1 DEF Earlier
    <3>3. m = 0
      BY <2>1, <3>1, <3>2
    <3>. QED  BY <2>1, <3>3 DEF Stage
  <2>. QED  BY <1>3, <1>6, <2>1 DEF Located, Earlier
<1>. QED  BY <1>2, <1>5, <1>6 DEF CoverInv, Exempt

\* The server takes calls from one place to the next.
LEMMA ServerPlaces ==
  ASSUME TypeInv, CallInv, Grow, PlaceInv, CoverInv,
         UNCHANGED <<pc, call, calls, copy>>, InBuffer' = InBuffer,
         \A m, n \in Stages' : \A i, j \in DOMAIN calls :
           m < n /\ i \in Stage(m)' /\ j \in Stage(n)' => Earlier(i, j) \/ Ordered(i, j)',
         \A n \in Stages' : \A i \in Stage(n)' : \E m \in Stages : i \in Stage(m),
         \A n \in Stages : \A i \in Stage(n) :
           i \in Exempt' \/ \E m \in Stages' : i \in Stage(m)'
  PROVE  PlaceInv' /\ CoverInv'
<1>1. \A u \in Threads : Copied(u)' = Copied(u)
  BY DEF Copied
<1>2. \A i : Located(i)' => Located(i)
  BY <1>1 DEF Located
<1>3. \A i : Located(i) => Located(i)' \/ i \in Exempt'
  BY <1>1 DEF Located
<1>4. ASSUME NEW i \in DOMAIN calls', NEW j \in DOMAIN calls', Earlier(i, j)'
      PROVE  Earlier(i, j) \/ Ordered(i, j)'
  <2>1. CASE \E n, p \in Stages' : n < p /\ i \in Stage(n)' /\ j \in Stage(p)'
    BY <2>1
  <2>2. CASE \E n \in Stages', u \in Threads : i \in Stage(n)' /\ j \in Copied(u)'
    BY <1>1, <2>2 DEF Earlier
  <2>3. CASE \E n \in Stages' : i \in Stage(n)' /\ j \in InBuffer'
    BY <2>3 DEF Earlier
  <2>4. CASE \E u \in Threads : i \in Copied(u)' /\ j \in InBuffer'
    BY <1>1, <2>4 DEF Earlier
  <2>. QED  BY <1>4, <2>1, <2>2, <2>3, <2>4 DEF Earlier
<1>5. PlaceInv'
  <2>1. \A i, j \in DOMAIN calls' : Earlier(i, j)' => Earlier(i, j) \/ Ordered(i, j)'
    BY <1>4
  <2>2. \A i : Located(i)' => \/ Located(i)
                             \/ \E u \in Threads : i = call[u] /\ Pending(u) /\ ~Pending(u)'
    BY <1>2
  <2>3. \A u, v \in Threads : u # v => Copied(u)' \cap Copied(v)' = {}
    BY <1>1 DEF PlaceInv
  <2>4. \A u \in Threads : Pending(u)' =>
          (Pending(u) /\ call'[u] = call[u]) \/ call'[u] \notin DOMAIN calls
    BY DEF Pending, Unwritten
  <2>5. \A u \in Threads, i \in InBuffer' :
          pc'[u] \in {"send", "request", "wait"} => calls'[i].by # u
    BY DEF PlaceInv
  <2>. QED  BY <2>1, <2>2, <2>3, <2>4, <2>5, PlacesLater
<1>6. CoverInv'
  <2>1. \A i \in DOMAIN calls : Located(i) => Located(i)' \/ i \in Exempt'
    BY <1>3
  <2>2. \A u \in Threads :
          \/ pc[u] \in {"idle", "write"}
          \/ /\ call'[u] = call[u]
             /\ pc'[u] \notin {"idle", "write"} \/ Located(call[u])' \/ call[u] \in Exempt'
    OBVIOUS
  <2>3. \A i \in DOMAIN calls' \ DOMAIN calls :
          i = call'[calls'[i].by] /\ pc'[calls'[i].by] \notin {"idle", "write"}
    OBVIOUS
  <2>. QED  BY <2>1, <2>2, <2>3, CoverLater
<1>. QED  BY <1>5, <1>6

\* The next message is a batch, or a request that is executed.
LEMMA ReceiveStep ==
  ASSUME TypeInv, CallInv, Grow, Writers, PlaceInv, CoverInv, PayloadInv, MessageInv,
         executed \in Seq([call : 1 .. Len(calls), args : Seq(Byte)]),
         ~raced, OwnArguments, ProgramOrder, Receive, InBuffer' = InBuffer
  PROVE  /\ executed' \in Seq([call : 1 .. Len(calls'), args : Seq(Byte)])
         /\ PayloadInv' /\ PlaceInv' /\ CoverInv' /\ OwnArguments' /\ ProgramOrder'
<1>1. /\ UNCHANGED <<pc, call, calls, copy, lost, harmed, overtaken>>
      /\ left = 0
  BY DEF Receive, threadVars
<1>2. PICK w \in Nat, m \in Batch \cup Request :
        /\ Len(wire) = w + 1 /\ DOMAIN wire = 1 .. w + 1 /\ wire[1] = m /\ m = Head(wire)
        /\ Len(wire') = w /\ \A k \in 1 .. w : wire'[k] = wire[k + 1]
  <2>1. wire \in Seq(Batch \cup Request) /\ wire # <<>> /\ wire' = Tail(wire)
    BY DEF TypeInv, Receive
  <2>2. /\ Len(wire) \in Nat /\ Len(wire) # 0 /\ DOMAIN wire = 1 .. Len(wire)
        /\ wire[1] = Head(wire)
        /\ Len(wire') = Len(wire) - 1 /\ \A k \in 1 .. Len(wire) - 1 : wire'[k] = wire[k + 1]
    BY <2>1
  <2>3. wire[1] \in Batch \cup Request
    BY <2>1, <2>2, ElementOf
  <2>4. Len(wire) - 1 \in Nat
    BY <2>2
  <2>5. PICK w \in Nat : w = Len(wire) - 1
    BY <2>4
  <2>6. Len(wire) = w + 1
    BY <2>2, <2>5
  <2>. QED  BY <2>1, <2>2, <2>3, <2>5, <2>6
<1>3. Stages = 0 .. w + 2 /\ Stages' = 0 .. w + 1
  BY <1>2 DEF Stages
<1>4. /\ Stage(0) = Executed /\ Stage(0)' = Executed'
      /\ Stage(1) = Ids(payload, at) /\ Stage(1)' = Ids(payload', at')
      /\ Stage(2) = Carried(m)
      /\ \A n \in 2 .. w + 1 : Stage(n)' = Stage(n + 1)
  <2>1. Stage(2) = Carried(m)
    BY <1>2 DEF Stage
  <2>2. ASSUME NEW n \in 2 .. w + 1  PROVE Stage(n)' = Stage(n + 1)
    <3>1. n - 1 \in 1 .. w /\ n # 0 /\ n # 1 /\ n + 1 # 0 /\ n + 1 # 1 /\ (n + 1) - 1 = (n - 1) + 1
      OBVIOUS
    <3>2. wire'[n - 1] = wire[(n + 1) - 1]
      BY <1>2, <3>1
    <3>. QED  BY <3>1, <3>2 DEF Stage, Carried
  <2>. QED  BY <2>1, <2>2 DEF Stage
<1>5. Rest(payload, at) = {} /\ Stage(1) = {}
  <2>1. PICK b \in Seq(Byte), a \in Nat : b = payload /\ a = at
    BY DEF TypeInv
  <2>2. IsFiniteSet(Rest(b, a)) /\ Cardinality(Rest(b, a)) <= 0
    BY <1>1, <2>1, FrameFacts DEF PayloadInv
  <2>3. Cardinality(Rest(b, a)) = 0
    BY <2>2, FS_CardinalityType
  <2>4. Rest(b, a) = {}
    BY <2>2, <2>3, FS_EmptySet
  <2>. QED  BY <1>4, <2>1, <2>4 DEF Ids
<1>6. CASE m.type = "batch"
  <2>1. /\ payload' = m.body /\ at' = 0 /\ left' = m.count /\ executed' = executed
    BY <1>2, <1>6 DEF Receive
  <2>2. Stage(0)' = Stage(0) /\ Stage(1)' = Stage(2)
    BY <1>4, <1>6, <2>1 DEF Executed, Carried
  <2>3. m \in Batch
    BY <1>6 DEF Request
  <2>4. 1 \in DOMAIN wire
    BY <1>2
  <2>5. m.body \in Seq(Byte) /\ BatchInv(m)'
    BY <1>2, <2>3, <2>4, OldMessages
  <2>6. PayloadInv'
    <3>1. PICK b \in Seq(Byte) : b = m.body
      BY <2>5
    <3>2. Rest(b, 0) = Frames(b)
      BY FrameFacts
    <3>. QED  BY <2>1, <2>5, <3>1, <3>2 DEF BatchInv, PayloadInv
  <2>7. /\ executed' \in Seq([call : 1 .. Len(calls'), args : Seq(Byte)])
        /\ OwnArguments' /\ ProgramOrder'
    <3>1. calls' \in Seq([by : Threads, func : Commands \cup {Sync}])
      BY <1>1 DEF TypeInv
    <3>. QED  BY <2>1, <3>1, ExecutedLater
  <2>8. PlaceInv' /\ CoverInv'
    <3>1. \A n \in Stages' :
            /\ n = 0 \/ (n + 1 \in Stages /\ n > 0)
            /\ Stage(n)' = IF n = 0 THEN Stage(0) ELSE Stage(n + 1)
      BY <1>3, <1>4, <2>2
    <3>2. ASSUME NEW n \in Stages', NEW p \in Stages', NEW i \in DOMAIN calls,
                 NEW j \in DOMAIN calls, n < p, i \in Stage(n)', j \in Stage(p)'
          PROVE  Earlier(i, j)
      <4>0. 0 \in Stages /\ n \in Nat /\ p \in Nat /\ p > 0
        BY <1>3, <3>2
      <4>1. PICK q \in Stages : q < p + 1 /\ i \in Stage(q)
        BY <3>1, <3>2, <4>0
      <4>2. p + 1 \in Stages /\ j \in Stage(p + 1)
        BY <3>1, <3>2, <4>0
      <4>. QED  BY <4>1, <4>2 DEF Earlier
    <3>3. \A n \in Stages' : \A i \in Stage(n)' : \E p \in Stages : i \in Stage(p)
      <4>1. 0 \in Stages
        BY <1>3
      <4>. QED  BY <3>1, <4>1
    <3>4. ASSUME NEW n \in Stages, NEW i \in Stage(n)
          PROVE  \E p \in Stages' : i \in Stage(p)'
      <4>1. CASE n = 0
        BY <1>3, <2>2, <4>1
      <4>2. CASE n > 1
        <5>1. PICK p \in Stages' : p > 0 /\ n = p + 1
          BY <1>3, <4>2
        <5>. QED  BY <3>1, <5>1
      <4>. QED  BY <1>3, <1>5, <4>1, <4>2
    <3>. QED  BY <1>1, <3>2, <3>3, <3>4, ServerPlaces
  <2>. QED  BY <2>6, <2>7, <2>8
<1>7. CASE m.type # "batch"
  <2>1. m \in Request /\ m.type = "sync"
    BY <1>7 DEF Batch, Request
  <2>2. PICK c \in DOMAIN calls : c = m.call /\ calls[c].func = Sync
    <3>1. m.call \in DOMAIN calls
      BY <2>1, CallFacts DEF Request
    <3>2. calls[m.call].func = Sync
      <4>1. 1 \in DOMAIN wire
        BY <1>2
      <4>. QED  BY <1>2, <2>1, <4>1 DEF CallInv
    <3>. QED  BY <3>1, <3>2
  <2>3. /\ executed' = Append(executed, [call |-> c, args |-> <<>>])
        /\ UNCHANGED serverVars
    BY <1>2, <1>7, <2>2 DEF Receive
  <2>4. Stage(2) = {c} /\ 2 \in Stages /\ 0 \in Stages
    BY <1>3, <1>4, <1>7, <2>2 DEF Carried
  <2>5. c \notin Executed
    <3>. SUFFICES ASSUME c \in Executed  PROVE FALSE
      OBVIOUS
    <3>1. Earlier(c, c)
      BY <1>4, <2>4 DEF Earlier
    <3>. QED  BY <3>1 DEF PlaceInv, Ordered
  <2>6. ASSUME NEW j \in 1 .. c - 1, calls[j].by = calls[c].by
        PROVE  j \in Executed \cup Exempt
    <3>1. PICK n \in Nat \ {0} : n = 2
      OBVIOUS
    <3>2. j \notin Stage(n)
      BY <2>4, <3>1, CallFacts
    <3>3. n \in Stages /\ c \in Stage(n)
      BY <2>4, <3>1
    <3>4. \A p \in Stages : p # 0 /\ p < n => Stage(p) = {}
      BY <1>3, <1>5, <3>1
    <3>. QED  BY <2>6, <3>2, <3>3, <3>4, EarlierDone
  <2>7. /\ executed' \in Seq([call : 1 .. Len(calls'), args : Seq(Byte)])
        /\ OwnArguments' /\ ProgramOrder'
        /\ Executed' = Executed \cup {c}
    <3>1. <<>> \in Seq(Byte)
      OBVIOUS
    <3>2. PICK a \in Seq(Byte) : a = <<>>
      BY <3>1
    <3>. QED  BY <1>1, <2>2, <2>3, <2>5, <2>6, <3>2, Executes
  <2>8. PayloadInv'
    BY <2>3, OldMessages
  <2>9. Stage(0)' = Stage(0) \cup {c} /\ Stage(1)' = {}
    BY <1>4, <1>5, <2>3, <2>7 DEF serverVars
  <2>10. PlaceInv' /\ CoverInv'
    <3>1. ASSUME NEW n \in Stages', NEW p \in Stages', NEW i \in DOMAIN calls,
                 NEW j \in DOMAIN calls, n < p, i \in Stage(n)', j \in Stage(p)'
          PROVE  Earlier(i, j)
      <4>1. p \in 2 .. w + 1
        BY <1>3, <2>9, <3>1
      <4>2. p + 1 \in Stages /\ j \in Stage(p + 1)
        BY <1>3, <1>4, <3>1, <4>1
      <4>3. CASE n = 0
        <5>1. \E q \in {0, 2} : i \in Stage(q)
          BY <2>4, <2>9, <3>1, <4>3
        <5>2. \A q \in {0, 2} : q \in Stages /\ q < p + 1
          BY <2>4, <4>1
        <5>. QED  BY <4>2, <5>1, <5>2 DEF Earlier
      <4>4. CASE n # 0
        <5>1. n \in 2 .. w + 1
          BY <1>3, <2>9, <3>1, <4>4
        <5>2. n + 1 \in Stages /\ n + 1 < p + 1 /\ i \in Stage(n + 1)
          BY <1>3, <1>4, <3>1, <4>1, <5>1
        <5>. QED  BY <4>2, <5>2 DEF Earlier
      <4>. QED  BY <4>3, <4>4
    <3>2. ASSUME NEW n \in Stages', NEW i \in Stage(n)'
          PROVE  \E p \in Stages : i \in Stage(p)
      <4>1. CASE n = 0
        BY <2>4, <2>9, <3>2, <4>1
      <4>2. CASE n # 0
        <5>1. n \in 2 .. w + 1
          BY <1>3, <2>9, <3>2, <4>2
        <5>2. n + 1 \in Stages /\ i \in Stage(n + 1)
          BY <1>3, <1>4, <3>2, <5>1
        <5>. QED  BY <5>2
      <4>. QED  BY <4>1, <4>2
    <3>3. ASSUME NEW n \in Stages, NEW i \in Stage(n)
          PROVE  \E p \in Stages' : i \in Stage(p)'
      <4>1. CASE n \in {0, 2}
        <5>1. 0 \in Stages' /\ i \in Stage(0)'
          BY <1>3, <2>4, <2>9, <3>3, <4>1
        <5>. QED  BY <5>1
      <4>2. CASE n \in 3 .. w + 2
        <5>1. PICK p \in 2 .. w + 1 : n = p + 1
          BY <4>2
        <5>2. p \in Stages' /\ Stage(p)' = Stage(n)
          BY <1>3, <1>4, <5>1
        <5>. QED  BY <3>3, <5>2
      <4>. QED  BY <1>3, <1>5, <3>3, <4>1, <4>2
    <3>. QED  BY <1>1, <3>1, <3>2, <3>3, ServerPlaces
  <2>. QED  BY <2>7, <2>8, <2>10
<1>. QED  BY <1>6, <1>7

\* What is executed of the next command has its arguments.
LEMMA DispatchExecutes ==
  ASSUME TypeInv, CallInv, PayloadInv, NEW size \in 0 .. MaxArgSize, Dispatch(size),
         NEW c, c = CallAt(payload, at)
  PROVE  /\ c \in DOMAIN calls /\ at' = After(payload, at) /\ left' = left - 1
         /\ \/ executed' = executed /\ c \in Exempt
            \/ \E a \in Seq(Byte) :
                 /\ executed' = Append(executed, [call |-> c, args |-> a])
                 /\ c \in harmed \/ a = Arguments(c)
<1>. PICK b \in Seq(Byte), s \in Nat : b = payload /\ s = at
  BY DEF TypeInv
<1>1. FieldSize = 2 /\ Len(b) \in Nat /\ size \in Nat
  BY ConstantsAssumption DEF FieldSize
<1>2. /\ at + 2 * FieldSize <= Len(payload) /\ Denotes(size)
      /\ s + 4 + size <= Len(b)
  BY <1>1 DEF Dispatch
<1>3. /\ Header(b, s) /\ Content(b, s) /\ Settled(b, s)
      /\ Field(s, FuncID) /\ b[s + 1].of = c /\ size = SizeAt(b, s) /\ c = CallAt(b, s)
  BY <1>2, NextCommand
<1>4. c \in DOMAIN calls /\ calls[c].func \in Commands /\ c \in Nat
  BY <1>3, CallFacts DEF Header
<1>5. at' = After(b, s) /\ left' = left - 1
  BY <1>3 DEF Dispatch, After
<1>6. PICK n \in Nat : n = Total(c)
  BY <1>4, EndFacts DEF TypeInv
<1>7. PICK x \in Seq(Byte) :
        /\ x = Arguments(c) /\ Len(x) = n
        /\ \A k \in 1 .. n : x[k] = [of |-> c, part |-> ArgData, k |-> k]
  <2>1. Arguments(c) = Bytes(c, ArgData, n)
    BY <1>6 DEF Arguments, Total
  <2>2. /\ Bytes(c, ArgData, n) \in Seq(Byte) /\ Len(Bytes(c, ArgData, n)) = n
        /\ \A k \in 1 .. n :
             Bytes(c, ArgData, n)[k] = [of |-> c, part |-> ArgData, k |-> k]
    BY <1>4, BytesType
  <2>. QED  BY <2>1, <2>2
<1>8. c \in harmed \/ Written(c) = n
  BY <1>3, <1>6 DEF Settled, Written
<1>9. \/ c \in harmed
      \/ c \in lost /\ size < n
      \/ size = n /\ \A k \in 1 .. n : b[(s + 4) + k] = x[k]
  <2>1. \/ c \in harmed
        \/ c \in lost /\ size < n
        \/ size = n /\ \A k \in 1 .. n :
                         b[s + 2 * FieldSize + k] = [of |-> c, part |-> ArgData, k |-> k]
    BY <1>3, <1>8 DEF Content
  <2>2. ASSUME \A k \in 1 .. n :
                 b[s + 2 * FieldSize + k] = [of |-> c, part |-> ArgData, k |-> k]
        PROVE  \A k \in 1 .. n : b[(s + 4) + k] = x[k]
    <3>1. s + 2 * FieldSize = s + 4
      BY <1>1
    <3>. QED  BY <1>7, <2>2, <3>1
  <2>. QED  BY <2>1, <2>2
<1>10. CASE size < n
  <2>1. executed' = executed
    BY <1>3, <1>7, <1>10 DEF Dispatch
  <2>2. c \in Exempt
    BY <1>1, <1>9, <1>10 DEF Exempt
  <2>. QED  BY <1>4, <1>5, <2>1, <2>2
<1>11. CASE ~(size < n)
  <2>1. executed' = Append(executed, [call |-> c, args |-> SubSeq(b, (s + 4) + 1, (s + 4) + n)])
    BY <1>1, <1>3, <1>7, <1>11 DEF Dispatch
  <2>2. (s + 4) \in Nat /\ (s + 4) + n \in Nat /\ (s + 4) + n <= Len(b) /\ s + 4 <= (s + 4) + n
    BY <1>1, <1>2, <1>11
  <2>3. PICK f \in Nat, l \in Nat : f = s + 4 /\ l = (s + 4) + n
    BY <2>2
  <2>4. /\ SubSeq(b, f + 1, l) \in Seq(Byte) /\ Len(SubSeq(b, f + 1, l)) = n
        /\ \A k \in 1 .. n : SubSeq(b, f + 1, l)[k] = b[f + k]
    <3>1. l - f = n /\ f <= l /\ l <= Len(b)
      BY <2>2, <2>3
    <3>2. /\ SubSeq(b, f + 1, l) \in Seq(Byte) /\ Len(SubSeq(b, f + 1, l)) = l - f
          /\ \A k \in 1 .. l - f : SubSeq(b, f + 1, l)[k] = b[f + k]
      BY <3>1, SubSeqFacts
    <3>. QED  BY <3>1, <3>2
  <2>5. PICK a \in Seq(Byte) : a = SubSeq(b, f + 1, l) /\ Len(a) = n
                               /\ \A k \in 1 .. n : a[k] = b[f + k]
    BY <2>4
  <2>6. c \in harmed \/ a = x
    <3>1. CASE \A k \in 1 .. n : b[(s + 4) + k] = x[k]
      <4>1. \A k \in 1 .. n : a[k] = x[k]
        BY <2>3, <2>5, <3>1
      <4>. QED  BY <1>7, <2>5, <4>1
    <3>. QED  BY <1>9, <1>11, <3>1
  <2>7. executed' = Append(executed, [call |-> c, args |-> a])
    BY <2>1, <2>3, <2>5
  <2>. QED  BY <1>4, <1>5, <1>7, <2>6, <2>7
<1>. QED  BY <1>10, <1>11

\* The next command of a batch is executed, or left out.
LEMMA DispatchStep ==
  ASSUME TypeInv, CallInv, Grow, Writers, PlaceInv, CoverInv, PayloadInv, MessageInv,
         executed \in Seq([call : 1 .. Len(calls), args : Seq(Byte)]),
         ~raced, OwnArguments, ProgramOrder,
         NEW size \in 0 .. MaxArgSize, Dispatch(size), InBuffer' = InBuffer
  PROVE  /\ executed' \in Seq([call : 1 .. Len(calls'), args : Seq(Byte)])
         /\ PayloadInv' /\ PlaceInv' /\ CoverInv' /\ OwnArguments' /\ ProgramOrder'
<1>1. /\ UNCHANGED <<pc, call, calls, copy, wire, payload, lost, harmed, overtaken>>
  BY DEF Dispatch, threadVars
<1>. PICK b \in Seq(Byte), s \in Nat : b = payload /\ s = at
  BY DEF TypeInv
<1>2. /\ s \in Rest(b, s) /\ Header(b, s) /\ Follows(b, s)
      /\ FrameOrEnd(b, After(b, s))
  <2>1. at + 2 * FieldSize <= Len(payload)
    BY DEF Dispatch
  <2>. QED  BY <2>1, NextCommand
<1>3. PICK c \in DOMAIN calls : c = CallAt(b, s)
  BY <1>2 DEF Header
<1>4. /\ at' = After(b, s) /\ left' = left - 1
      /\ \/ executed' = executed /\ c \in Exempt
         \/ \E a \in Seq(Byte) :
              /\ executed' = Append(executed, [call |-> c, args |-> a])
              /\ c \in harmed \/ a = Arguments(c)
  BY <1>3, DispatchExecutes
<1>5. PICK f \in Nat : f = After(b, s) /\ f >= s + 4
  <2>1. SizeAt(b, s) \in Nat
    BY <1>2, ConstantsAssumption DEF Header
  <2>2. After(b, s) \in Nat /\ After(b, s) >= s + 4
    BY <2>1 DEF After, FieldSize
  <2>. QED  BY <2>2
<1>6. /\ Frames(b) \subseteq Nat /\ IsFiniteSet(Rest(b, s)) /\ IsFiniteSet(Rest(b, f))
  BY FrameFacts
<1>7. Rest(b, f) = Rest(b, s) \ {s} /\ s \notin Rest(b, f)
  <2>1. ASSUME NEW r \in Frames(b)
        PROVE  r \in Rest(b, f) <=> r \in Rest(b, s) /\ r # s
    <3>1. r \in Nat
      BY <1>6, <2>1
    <3>2. r > s => r >= f
      BY <1>2, <1>5, <2>1 DEF Follows
    <3>. QED  BY <1>5, <2>1, <3>1, <3>2 DEF Rest
  <2>. QED  BY <2>1 DEF Rest
<1>8. PayloadInv'
  <2>1. Framed(b, f)
    BY <1>2, <1>5, <1>7 DEF PayloadInv, Framed
  <2>2. ASSUME NEW r \in Rest(b, f)
        PROVE  \/ CallAt(b, r) \in harmed'
               \/ ~Writing(CallAt(b, r)) /\ ~Writing(CallAt(b, r))'
    <3>1. Settled(b, r)
      BY <1>7, <2>2 DEF PayloadInv
    <3>. QED  BY <1>1, <3>1 DEF Settled, Writing
  <2>3. Framed(b, f)' /\ \A r \in Rest(b, f) : Settled(b, r)'
    BY <2>1, <2>2, FramedLater
  <2>4. Cardinality(Rest(b, f)) <= left - 1
    <3>1. Cardinality(Rest(b, f)) = Cardinality(Rest(b, s)) - 1
      BY <1>2, <1>6, <1>7, FS_RemoveElement
    <3>2. Cardinality(Rest(b, s)) <= left /\ Cardinality(Rest(b, s)) \in Nat /\ left \in Int
      BY <1>6, FS_CardinalityType DEF PayloadInv, TypeInv
    <3>. QED  BY <3>1, <3>2
  <2>5. payload' = b /\ at' = f /\ left' = left - 1
    BY <1>1, <1>4, <1>5
  <2>. QED  BY <2>3, <2>4, <2>5 DEF PayloadInv
<1>9. PICK w \in Nat : w = Len(wire) /\ Stages = 0 .. w + 1 /\ Stages' = 0 .. w + 1
  <2>1. wire \in Seq(Batch \cup Request)
    BY DEF TypeInv
  <2>2. Len(wire) \in Nat
    BY <2>1
  <2>. QED  BY <1>1, <2>2 DEF Stages
<1>10. /\ Stage(0) = Executed /\ Stage(0)' = Executed'
       /\ Stage(1) = Ids(b, s) /\ Stage(1)' = Ids(b, f)
       /\ \A n \in 2 .. w + 1 : Stage(n)' = Stage(n)
  <2>1. payload' = b /\ at' = f
    BY <1>1, <1>4, <1>5
  <2>. QED  BY <1>1, <2>1 DEF Stage, Carried
<1>11. Stage(1) = Stage(1)' \cup {c} /\ 0 \in Stages /\ 1 \in Stages
  <2>1. Rest(b, s) = Rest(b, f) \cup {s}
    BY <1>2, <1>7
  <2>2. Ids(b, s) = Ids(b, f) \cup {c}
    BY <1>3, <2>1 DEF Ids
  <2>. QED  BY <1>9, <1>10, <2>2
<1>12. ASSUME NEW j \in Stage(1)'  PROVE InOrder(c, j)
  <2>1. PICK r \in Rest(b, f) : j = CallAt(b, r)
    BY <1>10, <1>12 DEF Ids
  <2>2. r \in Frames(b) /\ r \in Nat /\ r >= f
    BY <1>6, <2>1 DEF Rest
  <2>3. r > s
    BY <1>5, <2>2
  <2>. QED  BY <1>2, <1>3, <2>1, <2>2, <2>3 DEF Follows
<1>13. c \notin Executed
  <2>. SUFFICES ASSUME c \in Executed  PROVE FALSE
    OBVIOUS
  <2>1. Earlier(c, c)
    BY <1>10, <1>11 DEF Earlier
  <2>. QED  BY <2>1 DEF PlaceInv, Ordered
<1>14. ASSUME NEW j \in 1 .. c - 1, calls[j].by = calls[c].by
       PROVE  j \in Executed \cup Exempt
  <2>0. c \in Nat /\ j \in Nat /\ j < c
    BY <1>14, CallFacts
  <2>1. j \notin Stage(1)
    BY <1>11, <1>12, <1>14, <2>0 DEF InOrder
  <2>2. PICK n \in Nat \ {0} : n = 1
    OBVIOUS
  <2>3. n \in Stages /\ c \in Stage(n) /\ j \notin Stage(n)
    BY <1>11, <2>1, <2>2
  <2>4. \A p \in Stages : p # 0 /\ p < n => Stage(p) = {}
    BY <1>9, <2>2
  <2>. QED  BY <1>14, <2>3, <2>4, EarlierDone
<1>15. /\ executed' \in Seq([call : 1 .. Len(calls'), args : Seq(Byte)])
       /\ OwnArguments' /\ ProgramOrder'
       /\ \/ Executed' = Executed /\ c \in Exempt'
          \/ Executed' = Executed \cup {c}
  <2>1. CASE executed' = executed /\ c \in Exempt
    <3>1. calls' \in Seq([by : Threads, func : Commands \cup {Sync}])
      BY <1>1 DEF TypeInv
    <3>2. Executed' = Executed /\ c \in Exempt'
      BY <1>1, <2>1 DEF Executed, Exempt
    <3>3. executed' = executed
      BY <2>1
    <3>. QED  BY <3>1, <3>2, <3>3, ExecutedLater
  <2>2. CASE \E a \in Seq(Byte) :
               /\ executed' = Append(executed, [call |-> c, args |-> a])
               /\ c \in harmed \/ a = Arguments(c)
    <3>1. PICK a \in Seq(Byte) :
            /\ executed' = Append(executed, [call |-> c, args |-> a])
            /\ c \in harmed \/ a = Arguments(c)
      BY <2>2
    <3>. QED  BY <1>1, <1>13, <1>14, <3>1, Executes
  <2>. QED  BY <1>4, <2>1, <2>2
<1>16. PlaceInv' /\ CoverInv'
  <2>1. \A n \in Stages' : n \in Nat /\ n \in Stages /\ (n = 0 \/ n = 1 \/ n \in 2 .. w + 1)
    BY <1>9
  <2>2. /\ \A i \in Stage(0)' : i \in Stage(0) \/ i = c
        /\ \A i \in Stage(0) : i \in Stage(0)'
        /\ c \in Exempt' \/ c \in Stage(0)'
    BY <1>10, <1>15
  <2>3. ASSUME NEW n \in Stages', NEW p \in Stages', NEW i \in DOMAIN calls,
               NEW j \in DOMAIN calls, n < p, i \in Stage(n)', j \in Stage(p)'
        PROVE  Earlier(i, j) \/ Ordered(i, j)'
    <3>1. /\ p \in Stages /\ n \in Stages /\ j \in Stage(p) /\ p # 0
          /\ i \in Stage(n) \/ (n = 0 /\ i = c)
      <4>1. p \in Stages /\ n \in Stages /\ p # 0 /\ (p = 1 \/ p \in 2 .. w + 1)
        BY <2>1, <2>3
      <4>2. j \in Stage(p)
        BY <1>10, <1>11, <2>3, <4>1
      <4>3. i \in Stage(n) \/ (n = 0 /\ i = c)
        <5>1. CASE n = 0
          BY <2>2, <2>3, <5>1
        <5>2. CASE n = 1
          BY <1>11, <2>3, <5>2
        <5>3. CASE n \in 2 .. w + 1
          BY <1>10, <2>3, <5>3
        <5>. QED  BY <2>1, <5>1, <5>2, <5>3
      <4>. QED  BY <4>1, <4>2, <4>3
    <3>2. CASE i \in Stage(n)
      BY <2>3, <3>1, <3>2 DEF Earlier
    <3>3. CASE n = 0 /\ i = c /\ p = 1
      <4>1. InOrder(c, j)
        BY <1>12, <2>3, <3>3
      <4>2. c # j
        BY <4>1, CallFacts DEF InOrder
      <4>. QED  BY <1>1, <3>3, <4>1, <4>2 DEF Ordered, InOrder
    <3>4. CASE n = 0 /\ i = c /\ p > 1
      BY <1>11, <3>1, <3>4 DEF Earlier
    <3>5. p = 1 \/ p > 1
      BY <2>1, <3>1
    <3>. QED  BY <3>1, <3>2, <3>3, <3>4, <3>5
  <2>4. ASSUME NEW n \in Stages', NEW i \in Stage(n)'
        PROVE  \E m \in Stages : i \in Stage(m)
    BY <1>10, <1>11, <2>1, <2>2, <2>4
  <2>5. ASSUME NEW n \in Stages, NEW i \in Stage(n)
        PROVE  i \in Exempt' \/ \E m \in Stages' : i \in Stage(m)'
    BY <1>9, <1>10, <1>11, <2>1, <2>2, <2>5
  <2>. QED  BY <1>1, <2>3, <2>4, <2>5, ServerPlaces
<1>. QED  BY <1>8, <1>15, <1>16

\* The rest of a batch is left.
LEMMA GiveUpStep ==
  ASSUME TypeInv, CallInv, Grow, PlaceInv, CoverInv, PayloadInv,
         NEW size \in 0 .. MaxArgSize, GiveUp(size), InBuffer' = InBuffer
  PROVE  PayloadInv' /\ PlaceInv' /\ CoverInv'
<1>1. /\ UNCHANGED <<pc, call, calls, copy, wire, payload, at, executed>>
      /\ left' = 0
  BY DEF GiveUp, threadVars, historyVars
<1>2. Rest(payload, at) = {}
  BY GivenUp
<1>3. PayloadInv'
  <2>1. PICK b, s : b = payload /\ s = at
    OBVIOUS
  <2>2. FrameOrEnd(b, s) /\ Rest(b, s) = {}
    BY <1>2, <2>1 DEF PayloadInv, Framed
  <2>3. Cardinality(Rest(b, s)) = 0
    BY <2>2, FS_EmptySet
  <2>4. Framed(b, s)'
    BY <2>2 DEF Framed
  <2>5. payload' = b /\ at' = s /\ left' = 0
    BY <1>1, <2>1
  <2>. QED  BY <2>2, <2>3, <2>4, <2>5 DEF PayloadInv
<1>4. Stages' = Stages /\ \A n : Stage(n)' = Stage(n)
  BY <1>1, SameStages
<1>. QED  BY <1>1, <1>3, <1>4, SamePlaces

-----------------------------------------------------------------------------
(* All steps.                                                              *)

\* A step of the program.
Program ==
  \E t \in Threads :
    \/ \E f \in Commands : StartCommand(t, f)
    \/ AppendCommand(t) \/ FindNoBuffer(t) \/ BatchInit(t) \/ FirstCommand(t)
    \/ WriteArgument(t) \/ StartSync(t)
    \/ FlushNothing(t) \/ SendBatch(t)
    \/ \E valid \in {"valid", "none"} : Flush(t, valid) \/ SendRequest(t, valid)

\* A step of the program changes the buffer and moves calls.
LEMMA ProgramPlaces ==
  ASSUME ArgumentsFit, TypeInv, CallInv, CountInv, Grow, Writers,
         BufferInv, MessageInv, PlaceInv, CoverInv, ~raced', Program
  PROVE  BufferInv' /\ PlaceInv' /\ CoverInv'
<1>1. PICK t \in Threads :
        \/ \E f \in Commands : StartCommand(t, f)
        \/ AppendCommand(t) \/ FindNoBuffer(t) \/ BatchInit(t) \/ FirstCommand(t)
        \/ WriteArgument(t) \/ StartSync(t)
        \/ FlushNothing(t) \/ SendBatch(t)
        \/ \E valid \in {"valid", "none"} : Flush(t, valid) \/ SendRequest(t, valid)
  BY DEF Program
<1>2. CASE \/ \E f \in Commands : StartCommand(t, f)
           \/ FindNoBuffer(t) \/ BatchInit(t) \/ StartSync(t) \/ FlushNothing(t)
  <2>1. BufferInv' /\ InBuffer' = InBuffer
    BY <1>2, OtherSteps
  <2>. QED  BY <1>2, <2>1, QuietSteps
<1>3. CASE WriteArgument(t)
  <2>1. BufferInv' /\ InBuffer' = InBuffer
    BY <1>3, ArgumentStep
  <2>. QED  BY <1>3, <2>1, QuietSteps
<1>4. CASE AppendCommand(t) \/ FirstCommand(t)
  <2>1. /\ BufferInv' /\ Unwritten(t)
        /\ \/ InBuffer' = InBuffer \cup {call[t]}
           \/ InBuffer' = InBuffer /\ call[t] \in lost'
    BY <1>4, HeaderStep
  <2>2. CASE InBuffer' = InBuffer \cup {call[t]}
    <3>1. PICK b : WriteHeader(t, b)
      BY <1>4 DEF AppendCommand, FirstCommand
    <3>. QED  BY <2>1, <2>2, <3>1, HeaderPlaces
  <2>3. CASE InBuffer' = InBuffer /\ call[t] \in lost'
    BY <1>4, <2>1, <2>3, QuietSteps
  <2>. QED  BY <2>1, <2>2, <2>3
<1>5. CASE \E valid \in {"valid", "none"} : Flush(t, valid)
  <2>1. PICK valid \in {"valid", "none"} : Flush(t, valid)
    BY <1>5
  <2>2. BufferInv' /\ InBuffer' = {}
    BY <2>1, FlushStep
  <2>. QED  BY <2>1, <2>2, FlushPlaces
<1>6. CASE SendBatch(t)
  <2>1. BufferInv' /\ InBuffer' = InBuffer
    BY <1>6, OtherSteps
  <2>. QED  BY <1>6, <2>1, SendPlaces
<1>7. CASE \E valid \in {"valid", "none"} : SendRequest(t, valid)
  <2>1. BufferInv' /\ InBuffer' = InBuffer
    BY <1>7, OtherSteps
  <2>2. PICK valid \in {"valid", "none"} : SendRequest(t, valid)
    BY <1>7
  <2>. QED  BY <2>1, <2>2, RequestPlaces
<1>. QED  BY <1>1, <1>2, <1>3, <1>4, <1>5, <1>6, <1>7

\* A step of the program adds messages that are whole.
LEMMA ProgramMessages ==
  ASSUME TypeInv, CallInv, CountInv, Grow, Writers,
         BufferInv, PayloadInv, MessageInv, PlaceInv, Program
  PROVE  MessageInv' /\ UNCHANGED <<executed, payload, at, left>>
<1>. USE DEF bufferVars, threadVars, serverVars, historyVars
<1>1. PICK t \in Threads :
        \/ \E f \in Commands : StartCommand(t, f)
        \/ AppendCommand(t) \/ FindNoBuffer(t) \/ BatchInit(t) \/ FirstCommand(t)
        \/ WriteArgument(t) \/ StartSync(t)
        \/ FlushNothing(t) \/ SendBatch(t)
        \/ \E valid \in {"valid", "none"} : Flush(t, valid) \/ SendRequest(t, valid)
  BY DEF Program
<1>2. Len(wire) \in Nat /\ DOMAIN wire = 1 .. Len(wire) /\ wire \in Seq(Batch \cup Request)
  BY DEF TypeInv
<1>3. CASE \/ \E f \in Commands : StartCommand(t, f)
           \/ AppendCommand(t) \/ FindNoBuffer(t) \/ BatchInit(t) \/ FirstCommand(t)
           \/ WriteArgument(t) \/ StartSync(t) \/ FlushNothing(t)
  <2>1. UNCHANGED <<wire, copy, executed, payload, at, left>>
    BY <1>3 DEF StartCommand, AppendCommand, FindNoBuffer, BatchInit, FirstCommand,
                WriteArgument, StartSync, FlushNothing, WriteHeader
  <2>2. PICK l \in Labels : Goto(t, l) /\ l # "send"
    BY <1>3 DEF StartCommand, AppendCommand, FindNoBuffer, BatchInit, FirstCommand,
                WriteArgument, StartSync, FlushNothing, WriteHeader, Labels
  <2>3. \A u \in Threads : pc'[u] = "send" => pc[u] = "send"
    BY <2>2, GotoFacts
  <2>4. MessageInv'
    BY <2>1, <2>3, MessageStep
  <2>. QED  BY <2>1, <2>4
<1>4. CASE \E valid \in {"valid", "none"} : Flush(t, valid)
  <2>1. PICK valid \in {"valid", "none"} : Flush(t, valid)
    BY <1>4
  <2>2. UNCHANGED <<wire, executed, payload, at, left>>
    BY <2>1 DEF Flush
  <2>3. PICK m : m = Message
    OBVIOUS
  <2>4. BatchInv(m)'
    BY <2>1, <2>3, SentBatch
  <2>5. \A u \in Threads : pc'[u] = "send" =>
          \/ pc[u] = "send" /\ copy'[u] = copy[u]
          \/ BatchInv(copy[u])'
    <3>1. CASE valid = "valid"
      <4>1. /\ \A u \in Threads \ {t} : pc'[u] = pc[u] /\ copy'[u] = copy[u]
            /\ copy'[t] = m
        BY <2>1, <2>3, <3>1, GotoFacts DEF Flush, TypeInv, Labels
      <4>2. BatchInv(copy[t])'
        BY <2>4, <4>1
      <4>. QED  BY <4>1, <4>2
    <3>2. CASE valid # "valid"
      <4>1. Goto(t, "request") /\ copy' = copy
        BY <2>1, <3>2 DEF Flush
      <4>2. pc'[t] # "send" /\ \A u \in Threads \ {t} : pc'[u] = pc[u]
        BY <4>1, GotoFacts DEF Labels
      <4>. QED  BY <4>1, <4>2
    <3>. QED  BY <3>1, <3>2
  <2>6. MessageInv'
    BY <2>2, <2>5, MessageStep
  <2>. QED  BY <2>2, <2>6
<1>5. CASE SendBatch(t)
  <2>1. /\ UNCHANGED <<executed, payload, at, left>>
        /\ pc[t] = "send" /\ Sends(t, copy[t]) /\ copy' = [copy EXCEPT ![t] = <<>>]
    BY <1>5 DEF SendBatch, Runs
  <2>2. pc'[t] # "send" /\ \A u \in Threads \ {t} : pc'[u] = pc[u] /\ copy'[u] = copy[u]
    BY <2>1, GotoFacts DEF Sends, TypeInv, Labels
  <2>3. \A k \in DOMAIN wire' :
          (\E l \in DOMAIN wire : wire[l] = wire'[k]) \/ copy[t] = wire'[k]
    BY <1>2, <2>1 DEF Sends
  <2>4. MessageInv'
    BY <2>1, <2>2, <2>3, MessageStep
  <2>. QED  BY <2>1, <2>4
<1>6. CASE \E valid \in {"valid", "none"} : SendRequest(t, valid)
  <2>1. PICK valid \in {"valid", "none"} : SendRequest(t, valid)
    BY <1>6
  <2>2. UNCHANGED <<executed, payload, at, left, copy>>
    BY <2>1 DEF SendRequest
  <2>3. \/ Sends(t, [type |-> "sync", call |-> call[t]])
        \/ UNCHANGED <<pc, wire>>
    BY <2>1 DEF SendRequest
  <2>4. \A u \in Threads : pc'[u] = "send" => pc[u] = "send"
    <3>1. Goto(t, "wait") \/ UNCHANGED pc
      BY <2>3 DEF Sends
    <3>. QED  BY <3>1, GotoFacts DEF Labels
  <2>5. \A k \in DOMAIN wire' :
          (\E l \in DOMAIN wire : wire[l] = wire'[k]) \/ wire'[k].type = "sync"
    BY <1>2, <2>3 DEF Sends
  <2>6. MessageInv'
    BY <2>2, <2>4, <2>5, MessageStep
  <2>. QED  BY <2>2, <2>6
<1>. QED  BY <1>1, <1>3, <1>4, <1>5, <1>6

\* Each step preserves what holds as long as nobody has reset the buffer.
LEMMA FramingStep ==
  ASSUME ArgumentsFit, IInv, [Next]_vars
  PROVE  FramingInv'
<1>1. TypeInv /\ CallInv /\ CountInv /\ FramingInv
  BY DEF IInv
<1>2. Grow /\ Writers
  BY <1>1, GrowStep
<1>3. calls' \in Seq([by : Threads, func : Commands \cup {Sync}])
  <2>1. TypeInv'
    BY <1>1, TypeStep
  <2>. QED  BY <2>1 DEF TypeInv
<1>. SUFFICES ASSUME ~raced'
              PROVE  /\ executed' \in Seq([call : 1 .. Len(calls'), args : Seq(Byte)])
                     /\ BufferInv' /\ PayloadInv' /\ MessageInv'
                     /\ PlaceInv' /\ CoverInv'
                     /\ OwnArguments' /\ ProgramOrder'
  BY DEF FramingInv
<1>4. /\ ~raced
      /\ executed \in Seq([call : 1 .. Len(calls), args : Seq(Byte)])
      /\ BufferInv /\ PayloadInv /\ MessageInv
      /\ PlaceInv /\ CoverInv
      /\ OwnArguments /\ ProgramOrder
  BY <1>1, <1>2 DEF Grow, FramingInv
<1>5. ASSUME UNCHANGED executed
      PROVE  /\ executed' \in Seq([call : 1 .. Len(calls'), args : Seq(Byte)])
             /\ OwnArguments' /\ ProgramOrder'
  BY <1>1, <1>2, <1>3, <1>4, <1>5, ExecutedLater
<1>6. CASE Program
  <2>1. BufferInv' /\ PlaceInv' /\ CoverInv'
    BY <1>1, <1>2, <1>4, <1>6, ProgramPlaces
  <2>2. MessageInv' /\ UNCHANGED <<executed, payload, at, left>>
    BY <1>1, <1>2, <1>4, <1>6, ProgramMessages
  <2>3. PayloadInv'
    BY <1>1, <1>2, <1>4, <2>2, OldMessages DEF serverVars
  <2>. QED  BY <1>5, <2>1, <2>2, <2>3
<1>7. ASSUME UNCHANGED <<bufferVars, threadVars, batched, full>>,
             \A k \in DOMAIN wire' : \E l \in DOMAIN wire : wire[l] = wire'[k]
      PROVE  BufferInv' /\ InBuffer' = InBuffer /\ MessageInv'
  <2>1. BufferInv' /\ InBuffer' = InBuffer
    BY <1>1, <1>2, <1>4, <1>7, ServerSteps
  <2>2. MessageInv'
    BY <1>1, <1>2, <1>4, <1>7, MessageStep DEF threadVars
  <2>. QED  BY <2>1, <2>2
<1>8. CASE Receive
  <2>1. wire \in Seq(Batch \cup Request) /\ wire # <<>> /\ wire' = Tail(wire)
    BY <1>1, <1>8 DEF TypeInv, Receive
  <2>2. \A k \in DOMAIN wire' : k + 1 \in DOMAIN wire /\ wire[k + 1] = wire'[k]
    BY <2>1
  <2>3. BufferInv' /\ InBuffer' = InBuffer /\ MessageInv'
    BY <1>7, <1>8, <2>2 DEF Receive
  <2>. QED  BY <1>1, <1>2, <1>4, <1>8, <2>3, ReceiveStep
<1>9. ASSUME NEW size \in 0 .. MaxArgSize, Dispatch(size)
      PROVE  /\ executed' \in Seq([call : 1 .. Len(calls'), args : Seq(Byte)])
             /\ BufferInv' /\ PayloadInv' /\ MessageInv'
             /\ PlaceInv' /\ CoverInv'
             /\ OwnArguments' /\ ProgramOrder'
  <2>1. BufferInv' /\ InBuffer' = InBuffer /\ MessageInv'
    BY <1>7, <1>9 DEF Dispatch
  <2>. QED  BY <1>1, <1>2, <1>4, <1>9, <2>1, DispatchStep
<1>10. ASSUME NEW size \in 0 .. MaxArgSize, GiveUp(size)
       PROVE  /\ executed' \in Seq([call : 1 .. Len(calls'), args : Seq(Byte)])
              /\ BufferInv' /\ PayloadInv' /\ MessageInv'
              /\ PlaceInv' /\ CoverInv'
              /\ OwnArguments' /\ ProgramOrder'
  <2>1. BufferInv' /\ InBuffer' = InBuffer /\ MessageInv' /\ UNCHANGED executed
    BY <1>7, <1>10 DEF GiveUp, historyVars
  <2>2. PayloadInv' /\ PlaceInv' /\ CoverInv'
    BY <1>1, <1>2, <1>4, <1>10, <2>1, GiveUpStep
  <2>. QED  BY <1>5, <2>1, <2>2
<1>11. CASE UNCHANGED vars
  <2>1. /\ BufferInv' /\ InBuffer' = InBuffer /\ MessageInv'
        /\ UNCHANGED <<executed, wire, payload, at, pc, call, calls, copy, serverVars>>
    BY <1>7, <1>11 DEF vars, historyVars, threadVars, serverVars
  <2>2. PayloadInv'
    BY <1>1, <1>2, <1>4, <2>1, OldMessages
  <2>3. Stages' = Stages /\ \A n : Stage(n)' = Stage(n)
    BY <2>1, SameStages
  <2>4. PlaceInv' /\ CoverInv'
    BY <1>1, <1>2, <1>4, <2>1, <2>3, SamePlaces
  <2>. QED  BY <1>5, <2>1, <2>2, <2>4
<1>. QED  BY <1>6, <1>8, <1>9, <1>10, <1>11 DEF Next, Program

-----------------------------------------------------------------------------
(* The theorems.                                                           *)

\* Types, threads and counts at first.
LEMMA InitFacts ==
  ASSUME Init
  PROVE  TypeInv /\ CallInv /\ CountInv
<1>. USE DEF Init
<1>1. <<>> \in Seq(Byte) /\ Len(<<>>) = 0 /\ MaxCapacity >= 4 /\ MaxCapacity \in Nat
      /\ MaxCalls \in Nat
  BY ConstantsAssumption
<1>2. TypeInv
  <2>1. Size(buffer) <= MaxCapacity
    BY <1>1 DEF Size, CountSize
  <2>2. pc \in [Threads -> Labels] /\ call \in [Threads -> 0 .. Len(calls)]
    BY DEF Labels
  <2>3. copy \in [Threads -> Batch \cup {<<>>}] /\ wire \in Seq(Batch \cup Request)
    OBVIOUS
  <2>4. /\ calls \in Seq([by : Threads, func : Commands \cup {Sync}])
        /\ Len(calls) = 0 /\ Len(calls) <= MaxCalls
    BY <1>1
  <2>5. /\ buffer \in Seq(Byte) /\ payload \in Seq(Byte) /\ at \in 0 .. Len(payload)
        /\ cmd_count \in Nat /\ left \in 0 .. MaxCalls
    BY <1>1
  <2>6. args \in [Threads -> Nat]
    OBVIOUS
  <2>. HIDE DEF Init
  <2>7. /\ allocated \in BOOLEAN /\ up \in BOOLEAN /\ full \in BOOLEAN /\ raced \in BOOLEAN
        /\ arg_size_offset = 0 /\ connection = "unopened"
        /\ batched = {} /\ lost = {} /\ harmed = {} /\ overtaken = {}
    BY DEF Init
  <2>. QED  BY <2>1, <2>2, <2>3, <2>4, <2>5, <2>6, <2>7 DEF TypeInv
<1>3. CallInv
  BY DEF CallInv, Unwritten
<1>4. CountInv
  BY FS_EmptySet DEF CountInv, FinalizedCount, Unwritten
<1>. QED  BY <1>2, <1>3, <1>4

\* At first no call is anywhere.
LEMMA InitFraming ==
  ASSUME Init
  PROVE  FramingInv
<1>. USE DEF Init
<1>1. PICK b \in Seq(Byte) : b = <<>> /\ Len(b) = 0
  <2>1. <<>> \in Seq(Byte) /\ Len(<<>>) = 0
    OBVIOUS
  <2>. QED  BY <2>1
<1>2. Rest(b, 0) = {}
  <2>1. \A s : s \in Frames(b) => s \in Nat /\ s + 4 <= 0
    BY <1>1, FrameFacts
  <2>2. \A s : s \notin Frames(b)
    BY <2>1
  <2>. QED  BY <2>2 DEF Rest
<1>3. executed \in Seq([call : 1 .. Len(calls), args : Seq(Byte)])
  OBVIOUS
<1>4. BufferInv
  BY DEF BufferInv
<1>5. PayloadInv
  <2>1. Framed(b, 0)
    BY <1>1, <1>2 DEF Framed, FrameOrEnd, FieldSize
  <2>. QED  BY <1>1, <1>2, <2>1, FS_EmptySet DEF PayloadInv
<1>6. MessageInv
  BY DEF MessageInv
<1>7. /\ \A t \in Threads : Copied(t) = {}
      /\ InBuffer = {} /\ \A n \in Stages : Stage(n) = {}
  <2>1. Ids(b, 0) = {}
    BY <1>2 DEF Ids
  <2>2. InBuffer = {}
    BY <1>1, <2>1 DEF InBuffer, Finalized
  <2>3. Stages = 0 .. 1
    BY DEF Stages
  <2>4. Stage(0) = {} /\ Stage(1) = {}
    BY <1>1, <2>1 DEF Stage, Executed
  <2>5. \A n \in 0 .. 1 : n = 0 \/ n = 1
    OBVIOUS
  <2>. QED  BY <2>2, <2>3, <2>4, <2>5 DEF Copied
<1>8. \A i : ~Located(i)
  BY <1>7 DEF Located
<1>9. PlaceInv
  BY <1>7, <1>8, EarlierLocated DEF PlaceInv
<1>10. CoverInv /\ OwnArguments /\ ProgramOrder
  BY DEF CoverInv, OwnArguments, ProgramOrder
<1>. QED  BY <1>3, <1>4, <1>5, <1>6, <1>9, <1>10 DEF FramingInv

\* The variables have their types, and no more commands are counted than calls
\* were made (batch.cpp:54-190).
THEOREM TypeCorrect == Spec => []TypeOK
<1>1. Init => TypeInv /\ CallInv /\ CountInv
  BY InitFacts
<1>2. TypeInv /\ CallInv /\ CountInv /\ [Next]_vars => (TypeInv /\ CallInv /\ CountInv)'
  BY TypeStep, CallStep, CountStep
<1>3. TypeInv /\ CountInv => TypeOK
  BY TypesSuffice
<1>. QED  BY <1>1, <1>2, <1>3, PTL DEF Spec

\* The buffer and every batch are sequences of frames, and every call is in one
\* place or known to be left out.
THEOREM Invariance ==
  ASSUME ArgumentsFit
  PROVE  Spec => []IInv
<1>1. Init => IInv
  BY InitFacts, InitFraming DEF IInv
<1>2. IInv /\ [Next]_vars => IInv'
  <2>. SUFFICES ASSUME IInv, [Next]_vars  PROVE IInv'
    OBVIOUS
  <2>1. TypeInv' /\ CallInv' /\ CountInv'
    BY TypeStep, CallStep, CountStep DEF IInv
  <2>2. FramingInv'
    BY FramingStep
  <2>. QED  BY <2>1, <2>2 DEF IInv
<1>. QED  BY <1>1, <1>2, PTL DEF Spec

\* The server executes nothing but calls of the program, each with its own
\* arguments, unless another thread came between its parts
\* (batch.cpp:122-190, gen_gl_server.cpp:590-).
THEOREM ExecutesCalls ==
  ASSUME ArgumentsFit
  PROVE  Spec => []OwnArguments
<1>1. IInv => OwnArguments
  BY DEF IInv, FramingInv, OwnArguments
<1>. QED  BY <1>1, Invariance, PTL

\* The server executes each call once, and after all earlier calls of its thread
\* that were not left out (batch.cpp:302-328, 348-446).
THEOREM ExecutesInOrder ==
  ASSUME ArgumentsFit
  PROVE  Spec => []ProgramOrder
<1>1. IInv => ProgramOrder
  BY DEF IInv, FramingInv, ProgramOrder
<1>. QED  BY <1>1, Invariance, PTL
=============================================================================
