------------------------ MODULE RegistrationService ------------------------
(***************************************************************************)
(* What the registration code promises to a program with one thread,       *)
(* whether a call is batched, sent at once or answered from a cache: the   *)
(* server executes the calls of a process in program order, each once and  *)
(* for the fat binary it names; and a call that returns a value, or that   *)
(* launches a kernel, returns after every call up to it was executed.      *)
(***************************************************************************)
EXTENDS Integers, Sequences, SequencesExt

CONSTANTS
  Clients,
  Sync       \* the calls that return something the server computes

VARIABLES
  called,    \* the calls of the latest process of a client
  executed,  \* those of them the server executed
  busy       \* whether the process is in its latest call
vars == <<called, executed, busy>>

Init ==
  /\ called = [c \in Clients |-> <<>>]
  /\ executed = [c \in Clients |-> <<>>]
  /\ busy = [c \in Clients |-> FALSE]

Call(c) ==
  /\ ~busy[c]
  /\ called'[c] # <<>>
  /\ called' = [called EXCEPT ![c] = Append(@, Last(called'[c]))]
  /\ \/ busy' = [busy EXCEPT ![c] = TRUE]
     \/ Last(called'[c]).op \notin Sync /\ UNCHANGED busy
  /\ UNCHANGED executed

\* Several calls may be executed at once, and the last of them may return at
\* the same time.
Execute(c) ==
  /\ \E n \in Len(executed[c]) .. Len(called[c]) :
       executed' = [executed EXCEPT ![c] = SubSeq(called[c], 1, n)]
  /\ \/ UNCHANGED busy
     \/ /\ busy[c]
        /\ Last(called[c]).op \in Sync => executed'[c] = called[c]
        /\ busy' = [busy EXCEPT ![c] = FALSE]
  /\ UNCHANGED called

\* Processes end, alone or with the server, and new ones start.
Restart(C) ==
  /\ called' = [c \in Clients |-> IF c \in C THEN <<>> ELSE called[c]]
  /\ executed' = [c \in Clients |-> IF c \in C THEN <<>> ELSE executed[c]]
  /\ busy' = [c \in Clients |-> IF c \in C THEN FALSE ELSE busy[c]]

Next ==
  \/ \E c \in Clients : Call(c) \/ Execute(c)
  \/ \E C \in SUBSET Clients : Restart(C)

Spec == Init /\ [][Next]_vars
=============================================================================
