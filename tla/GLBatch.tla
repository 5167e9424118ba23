------------------------------ MODULE GLBatch ------------------------------
(***************************************************************************)
(* OpenGL commands that return nothing are collected in a buffer and sent  *)
(* as one message when a call needs an answer (gl/batch.cpp and the stubs  *)
(* of gen_gl_client.cpp).  A command is an id, the size of its arguments   *)
(* and the arguments; the size is filled in when the next command begins.  *)
(* A write that does not fit into the largest buffer is skipped, whatever  *)
(* has been written of the command, and the program goes on.               *)
(*                                                                         *)
(* What a mutex guards is one step here.  Nobody reads the connection, so  *)
(* a thread that has sent something waits for ever: what it sent is all    *)
(* the server gets from it.  Memory can always be allocated.               *)
(***************************************************************************)
EXTENDS Integers, Sequences

CONSTANTS
  Threads,
  Commands,      \* the functions that return nothing
  ArgEnds,       \* ArgEnds[f], where each of f's arguments ends, in bytes
  MaxCapacity,   \* BATCH_MAX_CAPACITY
  MaxArgSize,    \* UINT16_MAX
  MaxCalls       \* bound: how many calls the program makes

ASSUME ConstantsAssumption ==
  /\ ArgEnds \in [Commands -> Seq(Nat \ {0})]
  /\ \A f \in Commands : \A j, k \in DOMAIN ArgEnds[f] :
       j < k => ArgEnds[f][j] < ArgEnds[f][k]
  /\ MaxCapacity \in Nat /\ MaxCapacity >= 4
  /\ MaxArgSize \in Nat
  /\ MaxCalls \in Nat

CountSize == 4   \* the number of commands, at the start of the buffer
FieldSize == 2   \* an id, or the size of the arguments
Sync == "sync"   \* a call that returns something
FuncID == "FuncID"     \* the parts of a command
ArgSize == "ArgSize"
ArgData == "ArgData"

VARIABLES
  allocated,        \* s_batch.data # NULL
  buffer,           \* the bytes after the first four
  cmd_count,
  arg_size_offset,  \* where the open command has its size; 0: none is open
  connection,       \* s_conn_once and s_conn_valid
  pc,               \* per thread: where it is
  call,             \* per thread: the number of the call it is in
  args,             \* per thread: how many arguments it has written
  copy,             \* per thread: the message it is about to send
  up,               \* whether the program is there
  wire,             \* messages to the server
  payload, at, left, \* the server: a batch, where it is, commands to go
  \* history
  calls,            \* the calls of the program: who, and which function
  executed,         \* the calls the server executed, and with which arguments
  batched,          \* the calls whose commands are in the buffer
  full,             \* whether a write has not fitted into this buffer
  lost,             \* calls that went with a full buffer or no connection
  harmed,           \* calls another thread came in between
  overtaken,        \* calls whose batch was copied but not sent before others
  raced             \* whether two threads made the first calls at a time

bufferVars == <<allocated, buffer, cmd_count, arg_size_offset>>
threadVars == <<pc, call, args, copy>>
serverVars == <<payload, at, left>>
historyVars == <<calls, executed, batched, full, lost, harmed, overtaken,
                 raced>>
vars == <<bufferVars, connection, threadVars, up, wire, serverVars,
          historyVars>>

\* A byte on its way: the k-th of a part of a call's command.  The call is the
\* value instead, where the part is the size of the arguments.
Bytes(of, part, n) == [k \in 1 .. n |-> [of |-> of, part |-> part, k |-> k]]
NumArgs(i) == Len(ArgEnds[calls[i].func])
ArgEnd(i, j) == IF j = 0 THEN 0 ELSE ArgEnds[calls[i].func][j]
Arguments(i) == Bytes(i, ArgData, ArgEnd(i, NumArgs(i)))
Argument(i, j) == SubSeq(Arguments(i), ArgEnd(i, j - 1) + 1, ArgEnd(i, j))

Init ==
  /\ allocated = FALSE /\ buffer = <<>>
  /\ cmd_count = 0 /\ arg_size_offset = 0
  /\ connection = "unopened"
  /\ pc = [t \in Threads |-> "idle"]
  /\ call = [t \in Threads |-> 0]
  /\ args = [t \in Threads |-> 0]
  /\ copy = [t \in Threads |-> <<>>]
  /\ up = TRUE
  /\ wire = <<>>
  /\ payload = <<>> /\ at = 0 /\ left = 0
  /\ calls = <<>> /\ executed = <<>> /\ batched = {} /\ full = FALSE
  /\ lost = {} /\ harmed = {} /\ overtaken = {} /\ raced = FALSE

-----------------------------------------------------------------------------
(* The buffer.                                                             *)

\* batch_grow: a write fits as long as the largest capacity has room for it.
Size(b) == CountSize + Len(b)
\* Mutant of Fits: the number of commands at the start is forgotten.
FitsWithoutCount(b, n) == Len(b) + n <= MaxCapacity
Fits(b, n) == Size(b) + n <= MaxCapacity
RawWrite(b, bytes) == IF Fits(b, Len(bytes)) THEN b \o bytes ELSE b

\* batch_patch.  What lies past the end is not sent.  Past the largest capacity
\* it is two bytes, which fall into the rest of the last page of malloc's block,
\* where nobody reads or keeps anything.
Patched(b, off, bytes) ==
  [p \in DOMAIN b |-> LET k == CountSize + p - off
                      IN  IF k \in DOMAIN bytes THEN bytes[k] ELSE b[p]]

\* finalize_open_command: where the size of an open command did not fit, the
\* unsigned difference is below zero and becomes the largest number.
\* Mutant of ArgDataSize: the size is counted from the size field.
ArgDataSizeFromField == Size(buffer) - arg_size_offset
ArgDataSize ==
  LET n == Size(buffer) - (arg_size_offset + FieldSize)
  IN  IF n < 0 \/ n > MaxArgSize THEN MaxArgSize ELSE n
Finalized ==
  IF arg_size_offset = 0 THEN buffer
  ELSE Patched(buffer, arg_size_offset, Bytes(ArgDataSize, ArgSize, FieldSize))
FinalizedCount == cmd_count + (IF arg_size_offset = 0 THEN 0 ELSE 1)

-----------------------------------------------------------------------------
(* The program.                                                            *)

Runs(t, l) == up /\ pc[t] = l
Goto(t, l) == pc' = [pc EXCEPT ![t] = l]
Others(t, l) == {u \in Threads \ {t} : pc[u] = l}
Enter(t, f) ==
  /\ Len(calls) < MaxCalls
  /\ calls' = Append(calls, [by |-> t, func |-> f])
  /\ call' = [call EXCEPT ![t] = Len(calls) + 1]

\* A stub whose function returns nothing calls gl_batch_append.
StartCommand(t, f) ==
  /\ Runs(t, "idle")
  /\ Enter(t, f)
  /\ args' = [args EXCEPT ![t] = 0]
  /\ Goto(t, "append")
  /\ UNCHANGED <<bufferVars, connection, copy, up, wire, serverVars, executed,
                 batched, full, lost, harmed, overtaken, raced>>

\* The id, and a place for the size, after what is in b.
WriteHeader(t, b) ==
  LET i == call[t]
      id == RawWrite(b, Bytes(i, FuncID, FieldSize))
  IN  /\ buffer' = RawWrite(id, Bytes(0, ArgSize, FieldSize))
      /\ arg_size_offset' = Size(id)
      /\ Goto(t, IF NumArgs(i) = 0 THEN "idle" ELSE "write")
      /\ batched' = batched \cup {i}
      /\ full' = (full \/ ~Fits(b, 2 * FieldSize))
      /\ lost' = IF full' THEN lost \cup {i} ELSE lost
      /\ harmed' = IF Others(t, "write") = {} THEN harmed
                   ELSE harmed \cup {i} \cup {call[u] : u \in Others(t, "write")}
      /\ UNCHANGED <<allocated, connection, call, args, copy, up, wire,
                     serverVars, calls, executed, overtaken>>

AppendCommand(t) ==
  /\ Runs(t, "append") /\ allocated
  /\ WriteHeader(t, Finalized)
  /\ cmd_count' = FinalizedCount
  /\ UNCHANGED raced

\* The first one finds no buffer, and leaves the mutex to call gl_batch_init;
\* another thread may have begun to fill the buffer by then, or by the time it
\* has the mutex again.
FindNoBuffer(t) ==
  /\ Runs(t, "append") /\ ~allocated
  /\ Goto(t, "init")
  /\ UNCHANGED <<bufferVars, connection, call, args, copy, up, wire, serverVars,
                 historyVars>>

\* gl_batch_init, as one step: another thread that appends between two of its
\* stores would be a race of the first calls, which raced notes in any case.
BatchInit(t) ==
  /\ Runs(t, "init")
  /\ allocated' = TRUE
  /\ buffer' = <<>> /\ cmd_count' = 0 /\ arg_size_offset' = 0
  /\ Goto(t, "first")
  /\ raced' = (raced \/ batched # {})
  /\ UNCHANGED <<connection, call, args, copy, up, wire, serverVars, calls,
                 executed, batched, full, lost, harmed, overtaken>>

FirstCommand(t) ==
  /\ Runs(t, "first")
  /\ WriteHeader(t, buffer)
  /\ raced' = (raced \/ batched # {})
  /\ UNCHANGED cmd_count

\* gl_batch_write, for the next argument: without an open command, nothing is
\* written.
WriteArgument(t) ==
  LET i == call[t]
      j == args[t] + 1
      bytes == Argument(i, j)
  IN  /\ Runs(t, "write")
      /\ buffer' = IF arg_size_offset = 0 THEN buffer ELSE RawWrite(buffer, bytes)
      /\ args' = [args EXCEPT ![t] = j]
      /\ Goto(t, IF j = NumArgs(i) THEN "idle" ELSE "write")
      /\ full' = (full \/ (arg_size_offset # 0 /\ ~Fits(buffer, Len(bytes))))
      /\ lost' = IF full' THEN lost \cup {i} ELSE lost
      /\ UNCHANGED <<allocated, cmd_count, arg_size_offset, connection, call,
                     copy, up, wire, serverVars, calls, executed, batched,
                     harmed, overtaken, raced>>

\* A stub whose function returns something calls gl_batch_flush, and then sends
\* its own request.
StartSync(t) ==
  /\ Runs(t, "idle")
  /\ Enter(t, Sync)
  /\ Goto(t, "flush")
  /\ UNCHANGED <<bufferVars, connection, args, copy, up, wire, serverVars,
                 executed, batched, full, lost, harmed, overtaken, raced>>

\* connect_once, the outcome of which is kept.
Connected(valid) == IF connection = "unopened" THEN valid \in {"valid", "none"}
                    ELSE valid = connection

FlushNothing(t) ==
  /\ Runs(t, "flush")
  /\ FinalizedCount = 0
  /\ Goto(t, "request")
  /\ UNCHANGED <<bufferVars, connection, call, args, copy, up, wire, serverVars,
                 historyVars>>

\* The batch is copied for the connection, or dropped without one, and the
\* buffer emptied.
\* Mutant of Message: the command that is still open is not counted.
MessageOfClosed ==
  [type |-> "batch", count |-> cmd_count, body |-> Finalized, calls |-> batched]
Message ==
  [type |-> "batch", count |-> FinalizedCount, body |-> Finalized,
   calls |-> batched]
Flush(t, valid) ==
  /\ Runs(t, "flush")
  /\ FinalizedCount > 0
  /\ Connected(valid)
  /\ connection' = valid
  /\ buffer' = <<>> /\ cmd_count' = 0 /\ arg_size_offset' = 0
  /\ IF valid = "valid"
       THEN /\ copy' = [copy EXCEPT ![t] = Message]
            /\ Goto(t, "send")
            /\ UNCHANGED lost
       ELSE Goto(t, "request") /\ lost' = lost \cup batched /\ UNCHANGED copy
  /\ batched' = {} /\ full' = FALSE
  /\ harmed' = harmed \cup {call[u] : u \in Others(t, "write")}
  /\ UNCHANGED <<allocated, call, args, up, wire, serverVars, calls, executed,
                 overtaken, raced>>

\* A message goes out, before those that other threads have copied.
Sends(t, m) ==
  /\ wire' = Append(wire, m)
  /\ Goto(t, "wait")
  /\ overtaken' = overtaken \cup UNION {copy[u].calls : u \in Others(t, "send")}

\* The flush sends the batch, and waits for an empty response.
SendBatch(t) ==
  /\ Runs(t, "send")
  /\ Sends(t, copy[t])
  /\ copy' = [copy EXCEPT ![t] = <<>>]
  /\ UNCHANGED <<bufferVars, connection, call, args, up, serverVars, calls,
                 executed, batched, full, lost, harmed, raced>>

\* The stub sends its request, and waits for the result.  It does not look
\* whether there is a connection.
SendRequest(t, valid) ==
  /\ Runs(t, "request")
  /\ Connected(valid)
  /\ connection' = valid
  /\ IF valid = "valid"
       THEN Sends(t, [type |-> "sync", call |-> call[t]]) /\ UNCHANGED up
       ELSE up' = FALSE /\ UNCHANGED <<pc, wire, overtaken>>
  /\ UNCHANGED <<bufferVars, call, args, copy, serverVars, calls, executed,
                 batched, full, lost, harmed, raced>>

-----------------------------------------------------------------------------
(* The server takes one message after the other, and of a batch one command *)
(* after the other.                                                         *)

Receive ==
  /\ wire # <<>> /\ left = 0
  /\ wire' = Tail(wire)
  /\ IF Head(wire).type = "batch"
       THEN /\ payload' = Head(wire).body
            /\ at' = 0
            /\ left' = Head(wire).count
            /\ UNCHANGED executed
       ELSE /\ executed' = Append(executed, [call |-> Head(wire).call, args |-> <<>>])
            /\ UNCHANGED serverVars
  /\ UNCHANGED <<bufferVars, connection, threadVars, up, calls, batched, full,
                 lost, harmed, overtaken, raced>>

\* The bytes of one field, in order.
Field(p, part) ==
  LET first == payload[p + 1]
  IN  SubSeq(payload, p + 1, p + FieldSize) = Bytes(first.of, part, FieldSize)

\* The size of the arguments of the next command; bytes that are no size may
\* denote any, as those that are no id denote any function.
Denotes(size) ==
  Field(at + FieldSize, ArgSize) => size = payload[at + FieldSize + 1].of

\* gl_dispatch copies the arguments the function takes, if there are so many.
Dispatch(size) ==
  LET from == at + 2 * FieldSize
      i == payload[at + 1].of
  IN  /\ left > 0 /\ from <= Len(payload)
      /\ Denotes(size) /\ from + size <= Len(payload)
      /\ IF ~Field(at, FuncID)
           THEN executed' = Append(executed, [call |-> 0, args |-> <<>>])
         ELSE IF size < Len(Arguments(i)) THEN UNCHANGED executed
         ELSE executed' = Append(executed,
                [call |-> i, args |-> SubSeq(payload, from + 1,
                                             from + Len(Arguments(i)))])
      /\ at' = from + size
      /\ left' = left - 1
      /\ UNCHANGED <<bufferVars, connection, threadVars, up, wire, payload,
                     calls, batched, full, lost, harmed, overtaken, raced>>

\* The rest of a batch is left when a command is not all there.
GiveUp(size) ==
  /\ left > 0
  /\ at + 2 * FieldSize <= Len(payload) =>
       Denotes(size) /\ at + 2 * FieldSize + size > Len(payload)
  /\ left' = 0
  /\ UNCHANGED <<bufferVars, connection, threadVars, up, wire, payload, at,
                 historyVars>>

-----------------------------------------------------------------------------
Next ==
  \/ \E t \in Threads :
       \/ \E f \in Commands : StartCommand(t, f)
       \/ AppendCommand(t) \/ FindNoBuffer(t) \/ BatchInit(t) \/ FirstCommand(t)
       \/ WriteArgument(t) \/ StartSync(t)
       \/ FlushNothing(t) \/ SendBatch(t)
       \/ \E valid \in {"valid", "none"} : Flush(t, valid) \/ SendRequest(t, valid)
  \/ Receive
  \/ \E size \in 0 .. MaxArgSize : Dispatch(size) \/ GiveUp(size)

Spec == Init /\ [][Next]_vars

-----------------------------------------------------------------------------
TypeOK ==
  /\ allocated \in BOOLEAN /\ up \in BOOLEAN /\ full \in BOOLEAN
  /\ Size(buffer) <= MaxCapacity
  /\ cmd_count \in 0 .. MaxCalls
  /\ arg_size_offset = 0 \/ arg_size_offset \in CountSize .. MaxCapacity
  /\ connection \in {"unopened", "valid", "none"}
  /\ pc \in [Threads -> {"idle", "append", "init", "first", "write", "flush", "send",
                         "request", "wait"}]
  /\ call \in [Threads -> 0 .. MaxCalls]
  /\ args \in [Threads -> Nat]
  /\ at \in 0 .. Len(payload) /\ left \in 0 .. MaxCalls
  /\ batched \cup lost \cup harmed \cup overtaken \subseteq 1 .. Len(calls)

\* The server executes nothing but calls of the program, each with its own
\* arguments, even when the buffer was full in the middle of a command, or the
\* size of a command was written past its end.  The exceptions are calls between
\* whose parts another thread came (batch.cpp:122-190, gen_gl_server.cpp:590-).
OwnArguments ==
  ~raced => \A k \in DOMAIN executed :
    LET i == executed[k].call
    IN  /\ i # 0
        /\ i \in harmed \/ calls[i].func = Sync \/ executed[k].args = Arguments(i)

\* A call is executed once, and after all earlier calls of its thread: nothing
\* is left out but what did not fit, had no connection, or was reset by another
\* thread's gl_batch_init; and nothing is late but a batch that another thread
\* had copied and not sent (batch.cpp:302-328, 348-446).
ProgramOrder ==
  ~raced => \A k \in DOMAIN executed :
    LET i == executed[k].call
        before == {executed[l].call : l \in 1 .. k - 1}
    IN  /\ i \notin before
        /\ \A j \in 1 .. i - 1 :
             calls[j].by = calls[i].by =>
               j \in before \cup lost \cup harmed \cup overtaken

=============================================================================
