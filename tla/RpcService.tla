---------------------------- MODULE RpcService ----------------------------
(***************************************************************************)
(* What a SCUDA connection promises its callers, whichever threads, locks  *)
(* and frames bring it about: calls are executed one at a time, in the     *)
(* order in which they were sent, each at most once; a thread sends its    *)
(* next call after the one before has returned, unless that was            *)
(* asynchronous; and a call returns after its own execution, with its own  *)
(* result.  Client and server call each other in the same way.             *)
(***************************************************************************)
EXTENDS Integers, Sequences, SequencesExt

CONSTANTS
  Apps,       \* threads of the client that call the server
  Callbacks,  \* threads of the server that call the client
  Async       \* the kinds of call that have no response

VARIABLES
  sent,       \* calls sent to a process
  executed,   \* calls a process executed
  results     \* pairs of a call and what it returned with
vars == <<sent, executed, results>>

Ends == {"client", "server"}
Destination(c) == IF c.by \in Apps THEN "server" ELSE "client"
Returned(c) == \E r \in results : r[1] = c

\* A thread makes its calls one after the other.
Ready(c) ==
  \A b \in ToSet(sent[Destination(c)]) :
    b.by = c.by => b.n < c.n /\ (b.op \in Async \/ Returned(b))

Init ==
  /\ sent = [e \in Ends |-> <<>>]
  /\ executed = [e \in Ends |-> <<>>]
  /\ results = {}

Send ==
  \E e \in Ends :
    /\ Len(sent'[e]) = Len(sent[e]) + 1
    /\ LET c == Last(sent'[e])
       IN  /\ c.by \in Apps \union Callbacks
           /\ Destination(c) = e
           /\ Ready(c)
           /\ sent' = [sent EXCEPT ![e] = Append(@, c)]
    /\ UNCHANGED <<executed, results>>

Execute ==
  \E e \in Ends :
    /\ Len(executed[e]) < Len(sent[e])
    /\ executed' = [executed EXCEPT ![e] = Append(@, sent[e][Len(@) + 1])]
    /\ UNCHANGED <<sent, results>>

Return ==
  \E e \in Ends : \E c \in ToSet(executed[e]) :
    /\ c.op \notin Async
    /\ ~Returned(c)
    /\ results' = results \union {<<c, c>>}
    /\ UNCHANGED <<sent, executed>>

Next == Send \/ Execute \/ Return

Spec == Init /\ [][Next]_vars
=============================================================================
