-------------------------- MODULE HostNodes_proofs --------------------------
(***************************************************************************)
(* Proofs about host nodes: for any clients and graphs, a graph that is    *)
(* alone in having copy nodes is not harmed by what others have left, its  *)
(* functions see what its own launch copied, and the server does not fault *)
(* on the memory of a graph that exists.                                   *)
(***************************************************************************)
EXTENDS HostNodes, SequenceTheorems, TLAPS

\* The entries are those of the graphs that have attempted copies, under the
\* connections of their clients.
EntryInv ==
  /\ \A e \in managed_ptrs : e.graph \in attempted /\ e.conn = Owner[e.graph]
  /\ \A g \in attempted : Maps(g)

\* A graph that has a copy node, or whose executable graph has one, has
\* attempted it and was not destroyed since; a function that may be called is
\* known to the client.
NodeInv ==
  \A g \in Graphs :
    /\ nodes[g].copy \/ exec[g].copy => g \in attempted \/ graph[g] = "destroyed"
    /\ nodes[g].host \/ exec[g].host => host_funcs[Owner[g]][Fn[g]] # None
FunctionInv ==
  \A c \in Clients, f \in Fns :
    LET h == host_funcs[c][f]
    IN  h # None => h \in hosted /\ Owner[h] = c /\ Fn[h] = f

\* A launch is where its nodes put it, and its copy comes first.
PhaseOf(g) ==
  /\ phase[g] = "copy" => exec[g].copy
  /\ phase[g] \in {"call", "choose", "send", "sent"} =>
       /\ exec[g].host
       /\ exec[g].copy => server_mem[g] = launch[g]
  /\ phase[g] # "idle" => launch[g] > 0
PhaseInv == \A g \in Graphs : PhaseOf(g)

\* A callback that builds a request has its connection's lock, and one that
\* waits for the answer has not.
LockInv ==
  /\ \A g \in Graphs :
       phase[g] \in {"choose", "send"} => write_mutex[Owner[g]] = g
  /\ \A c \in Clients, g \in Graphs :
       write_mutex[c] = g => Owner[g] = c /\ phase[g] # "sent"

\* The callback of a graph that is alone has its own graph's memory.
SoleInv ==
  \A g \in sole :
    /\ phase[g] \in {"send", "sent"}
    /\ exec[g].copy
    /\ phase[g] = "send" => choice[g] = g

\* A request on the wire is that of a callback which waits.
FrameOk(c, f) ==
  /\ Owner[f.graph] = c /\ phase[f.graph] = "sent"
  /\ f.graph \in sole => f.entry = f.graph /\ f.data = launch[f.graph]
WireInv ==
  \A c \in Clients :
    /\ \A i \in 1 .. Len(wire[c]) : FrameOk(c, wire[c][i])
    /\ \A i, j \in 1 .. Len(wire[c]) :
         wire[c][i].graph = wire[c][j].graph => i = j

\* A callback that waits for the answer has its request on the wire to its client.
SentInv ==
  \A g \in Graphs :
    phase[g] = "sent" /\ alive[Owner[g]] =>
      \E i \in 1 .. Len(wire[Owner[g]]) : wire[Owner[g]][i].graph = g

\* The inductive invariant.
IInv ==
  /\ TypeOK /\ EntryInv /\ NodeInv /\ FunctionInv /\ PhaseInv /\ LockInv
  /\ SoleInv /\ WireInv /\ SentInv /\ OwnData /\ ServerSurvives

-----------------------------------------------------------------------------
LEMMA InitIInv == Init => IInv
  <1> SUFFICES ASSUME Init PROVE IInv
    OBVIOUS
  <1> USE ConstantsAssumption DEF Init
  <1>1. TypeOK
    <2>1. \A c \in Clients : wire[c] \in Seq(Frame)
      BY EmptySeq
    <2>2. NoNodes \in [copy : BOOLEAN, host : BOOLEAN]
      BY DEF NoNodes
    <2>3. QED
      BY <2>1, <2>2 DEF TypeOK, Phases
  <1>2. EntryInv /\ NodeInv /\ FunctionInv
    BY DEF EntryInv, NodeInv, FunctionInv, NoNodes
  <1>3. PhaseInv /\ LockInv /\ SoleInv
    BY DEF PhaseInv, PhaseOf, LockInv, SoleInv
  <1>4. WireInv
    <2>1. \A c \in Clients : 1 .. Len(wire[c]) = {}
      <3>1. \A c \in Clients : wire[c] = <<>>
        OBVIOUS
      <3>2. 1 .. Len(<<>>) = {}
        OBVIOUS
      <3>3. QED
        BY <3>1, <3>2, Zenon
    <2>2. QED
      BY <2>1 DEF WireInv
  <1>5. SentInv /\ OwnData /\ ServerSurvives
    BY DEF SentInv, OwnData, ServerSurvives
  <1>6. QED
    BY <1>1, <1>2, <1>3, <1>4, <1>5 DEF IInv

\* What the loop over managed_ptrs finds is an entry.
LEMMA LastEntryOf ==
  \A x \in LastEntry :
    (x = None /\ managed_ptrs = {}) \/ \E e \in managed_ptrs : x = e.graph
  <1>1. CASE managed_ptrs = {}
    BY <1>1 DEF LastEntry
  <1>2. CASE managed_ptrs # {}
    BY <1>2, Zenon DEF LastEntry
  <1>3. QED
    BY <1>1, <1>2

\* What each action does to the types.
LEMMA TypeStep == IInv /\ [Next]_vars => TypeOK'
  <1> SUFFICES ASSUME TypeOK, WireInv, FunctionInv, NodeInv, PhaseInv, [Next]_vars
               PROVE  TypeOK'
    BY DEF IInv
  <1> USE ConstantsAssumption
  <1>1. ASSUME NEW g \in Graphs, AddMemcpyNode(g) PROVE TypeOK'
    <2>1. managed_ptrs' \subseteq Entry
      BY <1>1 DEF AddMemcpyNode, WithEntry, Entry, TypeOK
    <2>2. nodes' \in [Graphs -> [copy : BOOLEAN, host : BOOLEAN]]
      <3>1. PICK ok \in BOOLEAN : nodes' = [nodes EXCEPT ![g].copy = @ \/ ok]
        BY <1>1 DEF AddMemcpyNode
      <3>2. nodes[g] \in [copy : BOOLEAN, host : BOOLEAN]
        BY DEF TypeOK
      <3>3. (nodes[g].copy \/ ok) \in BOOLEAN
        BY <3>2
      <3>4. [nodes[g] EXCEPT !.copy = nodes[g].copy \/ ok]
              \in [copy : BOOLEAN, host : BOOLEAN]
        BY <3>2, <3>3
      <3>5. QED
        BY <3>1, <3>4 DEF TypeOK
    <2>3. app' \in [Clients -> {"runs", "waits"}]
      BY <1>1 DEF AddMemcpyNode, Waits, TypeOK
    <2>4. appended' \in [Clients -> Nat]
      BY <1>1 DEF AddMemcpyNode, TypeOK
    <2>5. attempted' \subseteq Graphs /\ torn' \subseteq Graphs
      BY <1>1 DEF AddMemcpyNode, Iterating, TypeOK
    <2>6. QED
      BY <1>1, <2>1, <2>2, <2>3, <2>4, <2>5 DEF AddMemcpyNode, TypeOK
  <1>2. ASSUME NEW g \in Graphs, AddHostNode(g) PROVE TypeOK'
    <2>1. host_funcs' \in [Clients -> [Fns -> Graphs \cup {None}]]
      BY <1>2 DEF AddHostNode, Fns, TypeOK
    <2>2. nodes' \in [Graphs -> [copy : BOOLEAN, host : BOOLEAN]]
      <3>1. PICK ok \in BOOLEAN : nodes' = [nodes EXCEPT ![g].host = ok]
        BY <1>2 DEF AddHostNode
      <3>2. QED
        BY <3>1 DEF TypeOK
    <2>3. QED
      BY <1>2, <2>1, <2>2 DEF AddHostNode, Waits, TypeOK, serverVars
  <1>3. ASSUME NEW g \in Graphs, Instantiate(g) PROVE TypeOK'
    BY <1>3 DEF Instantiate, Waits, TypeOK, serverVars, historyVars
  <1>4. ASSUME NEW g \in Graphs, Destroy(g) PROVE TypeOK'
    BY <1>4 DEF Destroy, WithoutEntries, Waits, Iterating, TypeOK
  <1>5. ASSUME NEW g \in Graphs, Launch(g) PROVE TypeOK'
    <2>1. queued' \in [Graphs -> Nat]
      BY <1>5 DEF Launch, TypeOK
    <2>2. QED
      BY <1>5, <2>1 DEF Launch, TypeOK, clientVars, serverVars, historyVars
  <1>6. ASSUME NEW g \in Graphs, Begin(g) PROVE TypeOK'
    <2>1. queued' \in [Graphs -> Nat] /\ launch' \in [Graphs -> Nat]
      BY <1>6 DEF Begin, TypeOK
    <2>2. phase' \in [Graphs -> Phases]
      BY <1>6 DEF Begin, NextPhase, AfterCopy, Phases, TypeOK
    <2>3. QED
      BY <1>6, <2>1, <2>2 DEF Begin, TypeOK, clientVars, serverVars,
         historyVars
  <1>7. ASSUME NEW g \in Graphs, Copy(g) PROVE TypeOK'
    <2>1. phase' \in [Graphs -> Phases]
      BY <1>7 DEF Copy, NextPhase, AfterCopy, Phases, TypeOK
    <2>2. server_mem' \in [Graphs -> Nat] /\ up' \in BOOLEAN
      <3>1. launch[g] \in Nat /\ server_mem \in [Graphs -> Nat]
            /\ up \in BOOLEAN
        BY DEF TypeOK
      <3>2. CASE server_mem[g] # 0 \/ Maps(g)
        <4>1. /\ server_mem' = [server_mem EXCEPT ![g] = launch[g]]
              /\ up' = up
          BY <1>7, <3>2 DEF Copy
        <4>2. QED
          BY <3>1, <4>1
      <3>3. CASE ~(server_mem[g] # 0 \/ Maps(g))
        <4>1. up' = FALSE /\ server_mem' = server_mem
          BY <1>7, <3>3 DEF Copy
        <4>2. QED
          BY <3>1, <4>1
      <3>4. QED
        BY <3>2, <3>3
    <2>3. QED
      BY <1>7, <2>1, <2>2 DEF Copy, TypeOK, clientVars, historyVars
  <1>8. ASSUME NEW g \in Graphs, StartRequest(g) PROVE TypeOK'
    BY <1>8 DEF StartRequest, NextPhase, Phases, TypeOK, clientVars,
       historyVars
  <1>9. ASSUME NEW g \in Graphs, Choose(g) PROVE TypeOK'
    <2>1. choice' \in [Graphs -> Graphs \cup {None}]
      <3>1. LastEntry \subseteq Graphs \cup {None}
        BY LastEntryOf DEF TypeOK, Entry
      <3>2. choice \in [Graphs -> Graphs \cup {None}]
        BY DEF TypeOK
      <3>3. CASE \E e \in IF g \in torn THEN Graphs \cup {None} ELSE LastEntry :
                   choice' = [choice EXCEPT ![g] = e]
        BY <3>1, <3>2, <3>3
      <3>4. CASE UNCHANGED choice
        BY <3>2, <3>4
      <3>5. QED
        BY <1>9, <3>3, <3>4 DEF Choose
    <2>2. phase' \in [Graphs -> Phases] /\ up' \in BOOLEAN
      BY <1>9 DEF Choose, NextPhase, Phases, TypeOK
    <2>3. sole' \subseteq Graphs /\ torn' \subseteq Graphs
      BY <1>9 DEF Choose, TypeOK
    <2>4. QED
      BY <1>9, <2>1, <2>2, <2>3 DEF Choose, TypeOK, clientVars
  <1>10. ASSUME NEW g \in Graphs, Send(g) PROVE TypeOK'
    <2>1. Request(g) \in Frame
      BY DEF Request, Frame, TypeOK
    <2>2. Owner[g] \in Clients /\ wire[Owner[g]] \in Seq(Frame)
      BY DEF TypeOK
    <2>3. Append(wire[Owner[g]], Request(g)) \in Seq(Frame)
      BY <2>1, <2>2, AppendProperties
    <2>4. wire' \in [Clients -> Seq(Frame)]
      BY <1>10, <2>3 DEF Send, TypeOK
    <2>5. QED
      BY <1>10, <2>4 DEF Send, Unlocked, NextPhase, Phases, TypeOK, clientVars,
         historyVars
  <1>11. ASSUME NEW c \in Clients, Dispatch(c) PROVE TypeOK'
    <2> DEFINE f == Head(wire[c])
    <2>1. wire[c] \in Seq(Frame) /\ wire[c] # <<>>
      BY <1>11 DEF Dispatch, TypeOK
    <2>2. f \in Frame /\ Tail(wire[c]) \in Seq(Frame) /\ f = wire[c][1]
          /\ 1 \in 1 .. Len(wire[c])
      BY <2>1, HeadTailProperties, EmptySeq
    <2>3. wire' \in [Clients -> Seq(Frame)]
      BY <1>11, <2>2 DEF Dispatch, TypeOK
    <2>4. f.graph \in Graphs /\ f.data \in Nat /\ f.entry \in Graphs \cup {None}
      BY <2>2 DEF Frame
    <2>5. Function(c, f) \in Graphs
      <3>1. Owner[f.graph] = c /\ phase[f.graph] = "sent"
        BY <2>2 DEF WireInv, FrameOk
      <3>2. exec[f.graph].host
        BY <2>4, <3>1 DEF PhaseInv, PhaseOf
      <3>3. host_funcs[c][Fn[f.graph]] # None
        BY <2>4, <3>1, <3>2 DEF NodeInv
      <3>4. Fn[f.graph] \in Fns
        BY <2>4 DEF Fns
      <3>5. QED
        <4>1. host_funcs[c] \in [Fns -> Graphs \cup {None}]
          BY DEF TypeOK
        <4>2. host_funcs[c][Fn[f.graph]] \in Graphs \cup {None}
          BY <3>4, <4>1
        <4>3. QED
          BY <3>3, <4>2 DEF Function
    <2>6. CASE client_mem' = Filling(c, f) /\ NextPhase(f.graph, "idle")
               /\ alive' = alive /\ sole' = sole \ {f.graph}
               /\ ran' = {[graph |-> f.graph, launch |-> launch[f.graph],
                           sole |-> f.graph \in sole,
                           seen |-> client_mem'[Function(c, f)]]}
      <3>1. client_mem' \in [Graphs -> Nat]
        BY <2>4, <2>6 DEF Filling, TypeOK
      <3>2. phase' \in [Graphs -> Phases]
        BY <2>4, <2>6 DEF NextPhase, Phases, TypeOK
      <3>3. client_mem'[Function(c, f)] \in Nat /\ launch[f.graph] \in Nat
        BY <2>4, <2>5, <3>1 DEF TypeOK
      <3>4. (f.graph \in sole) \in BOOLEAN
        OBVIOUS
      <3>5. ran' \subseteq
              [graph : Graphs, launch : Nat, sole : BOOLEAN, seen : Nat]
        BY <2>4, <2>6, <3>3, <3>4
      <3>6. QED
        BY <1>11, <2>3, <2>6, <3>1, <3>2, <3>5 DEF Dispatch, TypeOK
    <2>7. CASE UNCHANGED <<client_mem, ran, sole, phase>>
               /\ alive' = [alive EXCEPT ![c] = FALSE]
      BY <1>11, <2>3, <2>7 DEF Dispatch, TypeOK
    <2>8. QED
      BY <1>11, <2>6, <2>7 DEF Dispatch, Answer
  <1>12. ASSUME NEW c \in Clients, Respond(c) PROVE TypeOK'
    BY <1>12 DEF Respond, TypeOK, serverVars, cudaVars, historyVars
  <1>13. CASE UNCHANGED vars
    BY <1>13 DEF vars, clientVars, serverVars, cudaVars, historyVars, TypeOK
  <1>14. QED
    BY <1>1, <1>2, <1>3, <1>4, <1>5, <1>6, <1>7, <1>8, <1>9, <1>10, <1>11,
       <1>12, <1>13 DEF Next, Call, Execute

-----------------------------------------------------------------------------
\* Steps by what they may change: managed_ptrs and the nodes of a graph are
\* changed by the program's calls, the phase of a launch by its execution.
Calling == \E g \in Graphs : Call(g)
Executing ==
  \/ \E g \in Graphs : Execute(g)
  \/ \E c \in Clients : Dispatch(c)

LEMMA Steps ==
  [Next]_vars =>
    \/ Calling
    \/ Executing
    \/ UNCHANGED <<alive, host_funcs, client_mem, up, serverVars, cudaVars,
                   historyVars>>
  BY Zenon DEF Next, Calling, Executing, Respond, vars, clientVars

LEMMA Callings ==
  ASSUME NEW g \in Graphs, Call(g)
  PROVE  UNCHANGED <<alive, client_mem, up, server_mem, write_mutex, choice,
                     wire, launch, phase, sole, ran>>
  BY DEF Call, AddMemcpyNode, AddHostNode, Instantiate, Destroy, Launch,
     serverVars, historyVars, clientVars

LEMMA Executings ==
  ASSUME Executing
  PROVE  UNCHANGED <<app, host_funcs, managed_ptrs, appended, graph, nodes,
                     exec, attempted, hosted>>
  <1>1. ASSUME NEW g \in Graphs, Execute(g)
        PROVE  UNCHANGED <<app, host_funcs, managed_ptrs, appended, graph,
                           nodes, exec, attempted, hosted>>
    BY <1>1 DEF Execute, Begin, Copy, StartRequest, Choose, Send, serverVars,
       historyVars, clientVars
  <1>2. ASSUME NEW c \in Clients, Dispatch(c)
        PROVE  UNCHANGED <<app, host_funcs, managed_ptrs, appended, graph,
                           nodes, exec, attempted, hosted>>
    BY <1>2 DEF Dispatch
  <1>3. QED
    BY <1>1, <1>2 DEF Executing

\* An execution step moves one launch on.
LEMMA PhaseMoves ==
  ASSUME TypeOK, NEW g \in Graphs, NEW p, NextPhase(g, p)
  PROVE  /\ phase'[g] = p
         /\ \A h \in Graphs \ {g} : phase'[h] = phase[h]
  BY DEF TypeOK, NextPhase

LEMMA EntryStep == IInv /\ [Next]_vars => EntryInv'
  <1> SUFFICES ASSUME TypeOK, EntryInv, [Next]_vars PROVE EntryInv'
    BY DEF IInv
  <1> USE DEF EntryInv, Maps
  <1>1. CASE Calling
    <2> PICK g \in Graphs : Call(g)
      BY <1>1 DEF Calling
    <2>1. CASE AddMemcpyNode(g)
      <3> DEFINE new == [conn |-> Owner[g], at |-> appended[Owner[g]], graph |-> g]
      <3>1. managed_ptrs' = managed_ptrs \cup {new}
            /\ attempted' = attempted \cup {g}
        BY <2>1 DEF AddMemcpyNode, WithEntry
      <3>2. new.graph = g /\ new.conn = Owner[g]
        OBVIOUS
      <3> HIDE DEF new
      <3>3. QED
        BY <3>1, <3>2
    <2>2. CASE Destroy(g)
      BY <2>2 DEF Destroy, WithoutEntries
    <2>3. CASE AddHostNode(g) \/ Instantiate(g) \/ Launch(g)
      <3>1. UNCHANGED <<managed_ptrs, attempted>>
        BY <2>3 DEF AddHostNode, Instantiate, Launch, serverVars, historyVars
      <3>2. QED
        BY <3>1
    <2>4. QED
      BY <2>1, <2>2, <2>3 DEF Call
  <1>2. CASE Executing
    BY <1>2, Executings
  <1>3. CASE UNCHANGED <<managed_ptrs, attempted>>
    BY <1>3
  <1>4. QED
    BY <1>1, <1>2, <1>3, Steps DEF serverVars, historyVars

LEMMA NodeStep == IInv /\ [Next]_vars => NodeInv'
  <1> SUFFICES ASSUME TypeOK, NodeInv, [Next]_vars PROVE NodeInv'
    BY DEF IInv
  <1> USE ConstantsAssumption
  <1>1. CASE Calling
    <2> PICK g \in Graphs : Call(g)
      BY <1>1 DEF Calling
    <2>1. CASE AddMemcpyNode(g)
      <3>1. PICK ok \in BOOLEAN : nodes' = [nodes EXCEPT ![g].copy = @ \/ ok]
        BY <2>1 DEF AddMemcpyNode
      <3>2. \A h \in Graphs : /\ nodes'[h].host = nodes[h].host
                              /\ h # g => nodes'[h] = nodes[h]
        BY <3>1 DEF TypeOK
      <3>3. QED
        BY <2>1, <3>2 DEF AddMemcpyNode, NodeInv
    <2>2. CASE AddHostNode(g)
      <3>1. \A h \in Graphs : /\ nodes'[h].copy = nodes[h].copy
                              /\ h # g => nodes'[h] = nodes[h]
        <4>1. PICK ok \in BOOLEAN : nodes' = [nodes EXCEPT ![g].host = ok]
          BY <2>2 DEF AddHostNode
        <4>2. QED
          BY <4>1 DEF TypeOK
      <3>2. \A h \in Graphs :
              host_funcs'[Owner[h]][Fn[h]] =
                IF Owner[h] = Owner[g] /\ Fn[h] = Fn[g] THEN g
                ELSE host_funcs[Owner[h]][Fn[h]]
        <4>1. /\ host_funcs' = [host_funcs EXCEPT ![Owner[g]][Fn[g]] = g]
              /\ host_funcs \in [Clients -> [Fns -> Graphs \cup {None}]]
          BY <2>2 DEF AddHostNode, TypeOK
        <4>2. \A h \in Graphs : Owner[h] \in Clients /\ Fn[h] \in Fns
          BY DEF Fns
        <4>3. QED
          BY <4>1, <4>2
      <3>3. UNCHANGED <<exec, attempted, graph>>
        BY <2>2 DEF AddHostNode
      <3>4. QED
        BY <3>1, <3>2, <3>3 DEF NodeInv
    <2>3. CASE Instantiate(g)
      <3>1. \A h \in Graphs : exec'[h] = IF h = g THEN nodes[h] ELSE exec[h]
        BY <2>3 DEF Instantiate, TypeOK
      <3>2. UNCHANGED <<nodes, attempted, graph, host_funcs>>
        BY <2>3 DEF Instantiate, historyVars
      <3>3. QED
        BY <3>1, <3>2 DEF NodeInv
    <2>4. CASE Destroy(g)
      <3>1. \A h \in Graphs : graph'[h] = IF h = g THEN "destroyed" ELSE graph[h]
        BY <2>4 DEF Destroy, TypeOK
      <3>2. UNCHANGED <<nodes, exec, host_funcs>> /\ attempted' = attempted \ {g}
        BY <2>4 DEF Destroy
      <3>3. QED
        BY <3>1, <3>2 DEF NodeInv
    <2>5. CASE Launch(g)
      BY <2>5 DEF Launch, NodeInv, clientVars, historyVars
    <2>6. QED
      BY <2>1, <2>2, <2>3, <2>4, <2>5 DEF Call
  <1>2. CASE Executing
    BY <1>2, Executings DEF NodeInv
  <1>3. CASE UNCHANGED <<host_funcs, graph, nodes, exec, attempted>>
    BY <1>3 DEF NodeInv
  <1>4. QED
    BY <1>1, <1>2, <1>3, Steps DEF cudaVars, historyVars

LEMMA FunctionStep == IInv /\ [Next]_vars => FunctionInv'
  <1> SUFFICES ASSUME TypeOK, FunctionInv, [Next]_vars PROVE FunctionInv'
    BY DEF IInv
  <1> USE ConstantsAssumption
  <1>1. CASE Calling
    <2> PICK g \in Graphs : Call(g)
      BY <1>1 DEF Calling
    <2>1. CASE AddHostNode(g)
      <3>1. \A c \in Clients, f \in Fns :
              host_funcs'[c][f] = IF c = Owner[g] /\ f = Fn[g] THEN g
                                  ELSE host_funcs[c][f]
        BY <2>1 DEF AddHostNode, TypeOK, Fns
      <3>2. hosted' = hosted \cup {g}
        BY <2>1 DEF AddHostNode
      <3>3. QED
        BY <3>1, <3>2 DEF FunctionInv
    <2>2. CASE AddMemcpyNode(g) \/ Instantiate(g) \/ Destroy(g) \/ Launch(g)
      <3>1. UNCHANGED <<host_funcs, hosted>>
        BY <2>2 DEF AddMemcpyNode, Instantiate, Destroy, Launch, historyVars,
           clientVars
      <3>2. QED
        BY <3>1 DEF FunctionInv
    <2>3. QED
      BY <2>1, <2>2 DEF Call
  <1>2. CASE Executing
    <2>1. UNCHANGED <<host_funcs, hosted>>
      BY <1>2, Executings
    <2>2. QED
      BY <2>1 DEF FunctionInv
  <1>3. CASE UNCHANGED <<host_funcs, hosted>>
    BY <1>3 DEF FunctionInv
  <1>4. QED
    BY <1>1, <1>2, <1>3, Steps DEF historyVars

-----------------------------------------------------------------------------
\* The request that a dispatch thread handles.
LEMMA HeadOfWire ==
  ASSUME TypeOK, WireInv, NEW c \in Clients, wire[c] # <<>>
  PROVE  /\ wire[c] \in Seq(Frame) /\ 1 \in 1 .. Len(wire[c])
         /\ Head(wire[c]) = wire[c][1] /\ Head(wire[c]) \in Frame
         /\ Head(wire[c]).graph \in Graphs
         /\ FrameOk(c, Head(wire[c]))
  <1>1. wire[c] \in Seq(Frame)
    BY DEF TypeOK
  <1>2. 1 \in 1 .. Len(wire[c]) /\ Head(wire[c]) = wire[c][1]
        /\ Head(wire[c]) \in Frame
    BY <1>1, HeadTailProperties, EmptySeq
  <1>3. QED
    BY <1>1, <1>2 DEF WireInv, Frame

\* What a step of an execution does to the phases of the launches.
LEMMA PhaseCases ==
  ASSUME TypeOK, WireInv, Executing
  PROVE  \/ UNCHANGED phase
         \/ \E g \in Graphs, p \in Phases :
              /\ phase'[g] = p
              /\ \A h \in Graphs \ {g} : phase'[h] = phase[h]
              /\ \/ Begin(g) /\ p = IF exec[g].copy THEN "copy" ELSE AfterCopy(g)
                 \/ Copy(g) /\ p = AfterCopy(g)
                    /\ server_mem' = [server_mem EXCEPT ![g] = launch[g]]
                 \/ StartRequest(g) /\ p = "choose"
                 \/ Choose(g) /\ p = "send"
                 \/ Send(g) /\ p \in {"idle", "sent"}
                 \/ p = "idle" /\ phase[g] = "sent"
                    /\ UNCHANGED <<server_mem, launch, choice, write_mutex>>
  <1>1. ASSUME NEW g \in Graphs, Begin(g), NEW p,
               p = IF exec[g].copy THEN "copy" ELSE AfterCopy(g)
        PROVE  phase'[g] = p /\ p \in Phases
               /\ \A h \in Graphs \ {g} : phase'[h] = phase[h]
    BY <1>1, PhaseMoves DEF Begin, AfterCopy, Phases
  <1>2. ASSUME NEW g \in Graphs, Copy(g)
        PROVE  \/ UNCHANGED phase
               \/ /\ phase'[g] = AfterCopy(g) /\ AfterCopy(g) \in Phases
                  /\ \A h \in Graphs \ {g} : phase'[h] = phase[h]
                  /\ server_mem' = [server_mem EXCEPT ![g] = launch[g]]
    BY <1>2, PhaseMoves DEF Copy, AfterCopy, Phases
  <1>3. ASSUME NEW g \in Graphs, StartRequest(g)
        PROVE  phase'[g] = "choose"
               /\ \A h \in Graphs \ {g} : phase'[h] = phase[h]
    BY <1>3, PhaseMoves DEF StartRequest
  <1>4. ASSUME NEW g \in Graphs, Choose(g)
        PROVE  \/ UNCHANGED phase
               \/ /\ phase'[g] = "send"
                  /\ \A h \in Graphs \ {g} : phase'[h] = phase[h]
    BY <1>4, PhaseMoves DEF Choose
  <1>5. ASSUME NEW g \in Graphs, Send(g)
        PROVE  /\ phase'[g] \in {"idle", "sent"}
               /\ \A h \in Graphs \ {g} : phase'[h] = phase[h]
    BY <1>5, PhaseMoves DEF Send
  <1>6. ASSUME NEW c \in Clients, Dispatch(c)
        PROVE  \/ UNCHANGED phase
               \/ \E g \in Graphs :
                    /\ phase'[g] = "idle" /\ phase[g] = "sent"
                    /\ \A h \in Graphs \ {g} : phase'[h] = phase[h]
                    /\ UNCHANGED <<server_mem, launch, choice, write_mutex>>
    <2>1. Head(wire[c]).graph \in Graphs /\ phase[Head(wire[c]).graph] = "sent"
      BY <1>6, HeadOfWire DEF Dispatch, FrameOk
    <2>2. UNCHANGED phase \/ NextPhase(Head(wire[c]).graph, "idle")
      BY <1>6 DEF Dispatch, Answer
    <2>3. UNCHANGED <<server_mem, launch, choice, write_mutex>>
      BY <1>6 DEF Dispatch
    <2>4. QED
      BY <2>1, <2>2, <2>3, PhaseMoves
  <1>7. CASE \E g \in Graphs : Execute(g)
    <2> PICK g \in Graphs : Execute(g)
      BY <1>7
    <2>1. {"idle", "choose", "send", "sent"} \subseteq Phases
      BY DEF Phases
    <2>2. QED
      BY <1>1, <1>2, <1>3, <1>4, <1>5, <2>1 DEF Execute
  <1>8. CASE \E c \in Clients : Dispatch(c)
    BY <1>6, <1>8 DEF Phases
  <1>9. QED
    BY <1>7, <1>8 DEF Executing

LEMMA PhaseStep == IInv /\ [Next]_vars => PhaseInv'
  <1> SUFFICES ASSUME IInv, TypeOK, WireInv, PhaseInv, [Next]_vars
               PROVE  PhaseInv'
    BY DEF IInv
  <1>1. CASE Calling
    <2> PICK g \in Graphs : Call(g)
      BY <1>1 DEF Calling
    <2>1. UNCHANGED <<phase, launch, server_mem>>
      BY Callings
    <2>2. CASE Instantiate(g)
      <3>1. \A h \in Graphs : exec'[h] = IF h = g THEN nodes[h] ELSE exec[h]
        BY <2>2 DEF Instantiate, TypeOK
      <3>2. phase[g] \in {"idle"} \cup (Phases \ {"idle"})
        BY DEF TypeOK
      <3>3. phase[g] = "idle"
        <4>1. ~exec[g].host /\ ~exec[g].copy
          BY <2>2 DEF Instantiate, NoNodes
        <4>2. QED
          BY <3>2, <4>1 DEF PhaseInv, PhaseOf, Phases
      <3>4. QED
        BY <2>1, <3>1, <3>3 DEF PhaseInv, PhaseOf
    <2>3. CASE AddMemcpyNode(g) \/ AddHostNode(g) \/ Destroy(g) \/ Launch(g)
      <3>1. UNCHANGED exec
        BY <2>3 DEF AddMemcpyNode, AddHostNode, Destroy, Launch
      <3>2. QED
        BY <2>1, <3>1 DEF PhaseInv, PhaseOf
    <2>4. QED
      BY <2>2, <2>3 DEF Call
  <1>2. CASE Executing
    <2>1. UNCHANGED exec
      BY <1>2, Executings
    <2>2. CASE UNCHANGED phase
      <3>1. ASSUME NEW g \in Graphs, Execute(g)
            PROVE  /\ server_mem' = server_mem
                   /\ \A h \in Graphs : phase[h] # "idle" => launch'[h] = launch[h]
        <4>1. CASE Begin(g)
          BY <4>1 DEF Begin, serverVars, TypeOK
        <4>2. CASE Copy(g)
          <5>1. phase[g] = "copy" /\ AfterCopy(g) # "copy" /\ launch' = launch
            BY <4>2 DEF Copy, AfterCopy
          <5>2. ~NextPhase(g, AfterCopy(g))
            BY <2>2, <5>1, PhaseMoves
          <5>3. QED
            BY <4>2, <5>1, <5>2 DEF Copy
        <4>3. CASE StartRequest(g) \/ Choose(g) \/ Send(g)
          BY <4>3 DEF StartRequest, Choose, Send
        <4>4. QED
          BY <3>1, <4>1, <4>2, <4>3 DEF Execute
      <3>2. /\ server_mem' = server_mem
            /\ \A h \in Graphs : phase[h] # "idle" => launch'[h] = launch[h]
        BY <1>2, <3>1 DEF Executing, Dispatch
      <3>3. QED
        BY <2>1, <2>2, <3>2 DEF PhaseInv, PhaseOf
    <2>3. CASE ~UNCHANGED phase
      <3> PICK g \in Graphs, p \in Phases :
              /\ phase'[g] = p
              /\ \A h \in Graphs \ {g} : phase'[h] = phase[h]
              /\ \/ Begin(g) /\ p = IF exec[g].copy THEN "copy" ELSE AfterCopy(g)
                 \/ Copy(g) /\ p = AfterCopy(g)
                    /\ server_mem' = [server_mem EXCEPT ![g] = launch[g]]
                 \/ StartRequest(g) /\ p = "choose"
                 \/ Choose(g) /\ p = "send"
                 \/ Send(g) /\ p \in {"idle", "sent"}
                 \/ p = "idle" /\ phase[g] = "sent"
                    /\ UNCHANGED <<server_mem, launch, choice, write_mutex>>
        BY <1>2, <2>3, PhaseCases
      <3>1. \A h \in Graphs \ {g} : launch'[h] = launch[h] /\ server_mem'[h] = server_mem[h]
        BY DEF Begin, Copy, StartRequest, Choose, Send, serverVars, TypeOK
      <3>2. PhaseOf(g)'
        <4>1. CASE Begin(g) /\ p = IF exec[g].copy THEN "copy" ELSE AfterCopy(g)
          <5>1. launch'[g] > 0
            BY <4>1 DEF Begin, TypeOK
          <5>2. QED
            BY <2>1, <4>1, <5>1 DEF PhaseOf, AfterCopy
        <4>2. CASE Copy(g) /\ p = AfterCopy(g)
                    /\ server_mem' = [server_mem EXCEPT ![g] = launch[g]]
          <5>1. server_mem'[g] = launch'[g] /\ launch' = launch
                /\ phase[g] = "copy"
            BY <4>2 DEF Copy, TypeOK
          <5>2. QED
            BY <2>1, <4>2, <5>1 DEF PhaseInv, PhaseOf, AfterCopy
        <4>3. CASE StartRequest(g) \/ Choose(g) \/ Send(g)
          <5>1. UNCHANGED <<launch, server_mem>>
                /\ phase[g] \in {"call", "choose", "send"}
            BY <4>3 DEF StartRequest, Choose, Send
          <5>2. p \in {"choose", "send", "idle", "sent"}
            BY <4>3 DEF AfterCopy, StartRequest, Choose, Send, Begin, Copy
          <5>3. QED
            BY <2>1, <5>1, <5>2 DEF PhaseInv, PhaseOf
        <4>4. CASE p = "idle" /\ phase[g] = "sent"
          BY <4>4 DEF PhaseOf
        <4>5. QED
          BY <4>1, <4>2, <4>3, <4>4
      <3>3. \A h \in Graphs \ {g} : PhaseOf(h)'
        BY <2>1, <3>1 DEF PhaseInv, PhaseOf
      <3>4. QED
        BY <3>2, <3>3 DEF PhaseInv
    <2>4. QED
      BY <2>2, <2>3
  <1>3. CASE UNCHANGED <<server_mem, exec, launch, phase>>
    BY <1>3 DEF PhaseInv, PhaseOf
  <1>4. QED
    BY <1>1, <1>2, <1>3, Steps DEF serverVars, cudaVars

LEMMA LockStep == IInv /\ [Next]_vars => LockInv'
  <1> SUFFICES ASSUME TypeOK, WireInv, LockInv, [Next]_vars
               PROVE  LockInv'
    BY DEF IInv
  <1> \A g \in Graphs : Owner[g] \in Clients /\ g # None
    BY ConstantsAssumption
  <1>1. CASE Calling
    BY <1>1, Callings DEF Calling, LockInv
  <1>2. ASSUME NEW g \in Graphs, Begin(g) \/ Copy(g) PROVE LockInv'
    <2>1. write_mutex' = write_mutex
      BY <1>2 DEF Begin, Copy, serverVars
    <2>2. /\ \A h \in Graphs \ {g} : phase'[h] = phase[h]
          /\ phase'[g] \notin {"choose", "send", "sent"} \/ UNCHANGED phase
      BY <1>2, PhaseMoves DEF Begin, Copy, AfterCopy
    <2>3. QED
      BY <2>1, <2>2 DEF LockInv
  <1>3. ASSUME NEW g \in Graphs, StartRequest(g) PROVE LockInv'
    <2>1. /\ \A h \in Graphs \ {g} : phase'[h] = phase[h]
          /\ phase'[g] = "choose"
      BY <1>3, PhaseMoves DEF StartRequest
    <2>2. \A c \in Clients :
            write_mutex'[c] = IF c = Owner[g] THEN g ELSE write_mutex[c]
      BY <1>3 DEF StartRequest, TypeOK
    <2>3. write_mutex[Owner[g]] = None
      BY <1>3 DEF StartRequest
    <2>4. QED
      BY <2>1, <2>2, <2>3 DEF LockInv
  <1>4. ASSUME NEW g \in Graphs, Choose(g) PROVE LockInv'
    <2>1. write_mutex' = write_mutex /\ phase[g] = "choose"
      BY <1>4 DEF Choose
    <2>2. \/ UNCHANGED phase
          \/ /\ \A h \in Graphs \ {g} : phase'[h] = phase[h]
             /\ phase'[g] = "send"
      BY <1>4, PhaseMoves DEF Choose
    <2>3. QED
      BY <2>1, <2>2 DEF LockInv
  <1>5. ASSUME NEW g \in Graphs, Send(g) PROVE LockInv'
    <2>1. phase[g] = "send" /\ write_mutex[Owner[g]] = g
      BY <1>5 DEF Send, LockInv
    <2>2. \A h \in Graphs \ {g} : phase'[h] = phase[h]
      BY <1>5, PhaseMoves DEF Send
    <2>3. CASE phase'[g] = "idle" /\ write_mutex' = write_mutex
      BY <2>1, <2>2, <2>3 DEF LockInv
    <2>4. CASE phase'[g] = "sent" /\ write_mutex' = Unlocked(Owner[g])
      <3>1. \A c \in Clients :
              write_mutex'[c] = IF c = Owner[g] THEN None ELSE write_mutex[c]
        BY <2>4 DEF Unlocked, TypeOK
      <3>2. \A h \in Graphs : phase[h] \in {"choose", "send"} /\ Owner[h] = Owner[g]
                              => h = g
        BY <2>1 DEF LockInv
      <3>3. QED
        BY <2>1, <2>2, <2>4, <3>1, <3>2 DEF LockInv
    <2>5. QED
      BY <1>5, <2>3, <2>4, PhaseMoves DEF Send
  <1>6. ASSUME NEW c \in Clients, Dispatch(c) PROVE LockInv'
    <2>1. Head(wire[c]).graph \in Graphs
      BY <1>6, HeadOfWire DEF Dispatch
    <2>2. UNCHANGED phase \/ NextPhase(Head(wire[c]).graph, "idle")
      BY <1>6 DEF Dispatch, Answer
    <2>3. write_mutex' = write_mutex
      BY <1>6 DEF Dispatch
    <2>4. \A h \in Graphs : phase'[h] = phase[h] \/ phase'[h] = "idle"
      BY <2>1, <2>2, PhaseMoves
    <2>5. QED
      BY <2>3, <2>4 DEF LockInv
  <1>7. CASE UNCHANGED <<write_mutex, phase>>
    BY <1>7 DEF LockInv
  <1>8. QED
    BY <1>1, <1>2, <1>3, <1>4, <1>5, <1>6, <1>7, Steps
    DEF Executing, Execute, serverVars, cudaVars

\* The one callback of a graph that is alone finds the graph's own entry.
LEMMA AloneFindsItself ==
  ASSUME TypeOK, EntryInv, NEW g \in Graphs, attempted = {g}
  PROVE  LastEntry \subseteq {g}
  <1>1. managed_ptrs # {}
    BY DEF EntryInv, Maps
  <1>2. \A e \in managed_ptrs : e.graph = g
    BY DEF EntryInv
  <1>3. QED
    BY <1>1, <1>2, LastEntryOf

LEMMA SoleStep == IInv /\ [Next]_vars => SoleInv'
  <1> SUFFICES ASSUME TypeOK, EntryInv, PhaseInv, WireInv, SoleInv, [Next]_vars
               PROVE  SoleInv'
    BY DEF IInv
  <1> USE ConstantsAssumption
  <1>1. CASE Calling
    <2> PICK g \in Graphs : Call(g)
      BY <1>1 DEF Calling
    <2>1. UNCHANGED <<sole, phase, choice>>
      BY Callings
    <2>2. \A h \in Graphs : exec[h].copy => exec'[h].copy
      <3>1. CASE Instantiate(g)
        BY <3>1 DEF Instantiate, NoNodes, TypeOK
      <3>2. CASE ~Instantiate(g)
        BY <3>2 DEF Call, AddMemcpyNode, AddHostNode, Destroy, Launch
      <3>3. QED
        BY <3>1, <3>2
    <2>3. QED
      BY <2>1, <2>2 DEF SoleInv, TypeOK
  <1>2. ASSUME NEW g \in Graphs, Begin(g) \/ Copy(g) \/ StartRequest(g)
        PROVE  SoleInv'
    <2>1. UNCHANGED <<sole, exec, choice>>
      BY <1>2 DEF Begin, Copy, StartRequest, serverVars, historyVars
    <2>2. \A h \in Graphs \ {g} : phase'[h] = phase[h]
      BY <1>2, PhaseMoves DEF Begin, Copy, StartRequest
    <2>3. g \notin sole
      BY <1>2 DEF Begin, Copy, StartRequest, SoleInv
    <2>4. QED
      BY <2>1, <2>2, <2>3 DEF SoleInv, TypeOK
  <1>3. ASSUME NEW g \in Graphs, Choose(g) PROVE SoleInv'
    <2>1. exec' = exec
      BY <1>3 DEF Choose
    <2>2. CASE UNCHANGED <<choice, phase, sole>>
      BY <2>1, <2>2 DEF SoleInv
    <2>3. CASE \E e \in IF g \in torn THEN Graphs \cup {None} ELSE LastEntry :
                 /\ choice' = [choice EXCEPT ![g] = e]
                 /\ NextPhase(g, "send")
                 /\ sole' = IF attempted = {g} /\ exec[g].copy /\ g \notin torn
                              THEN sole \cup {g} ELSE sole \ {g}
      <3> PICK e \in IF g \in torn THEN Graphs \cup {None} ELSE LastEntry :
            /\ choice' = [choice EXCEPT ![g] = e]
            /\ NextPhase(g, "send")
            /\ sole' = IF attempted = {g} /\ exec[g].copy /\ g \notin torn
                         THEN sole \cup {g} ELSE sole \ {g}
        BY <2>3
      <3>1. /\ phase'[g] = "send"
            /\ \A h \in Graphs \ {g} : phase'[h] = phase[h]
        BY PhaseMoves
      <3>2. choice'[g] = e /\ \A h \in Graphs \ {g} : choice'[h] = choice[h]
        BY DEF TypeOK
      <3>3. g \in sole' => exec[g].copy /\ e = g
        BY AloneFindsItself
      <3>4. QED
        BY <2>1, <3>1, <3>2, <3>3 DEF SoleInv, TypeOK
    <2>4. QED
      BY <1>3, <2>2, <2>3 DEF Choose
  <1>4. ASSUME NEW g \in Graphs, Send(g) PROVE SoleInv'
    <2>1. sole' = sole /\ exec' = exec
      BY <1>4 DEF Send, historyVars
    <2>2. \A h \in Graphs \ {g} : phase'[h] = phase[h] /\ choice'[h] = choice[h]
      BY <1>4, PhaseMoves DEF Send, TypeOK
    <2>3. g \in sole => phase'[g] = "sent"
      <3>1. g \in sole => choice[g] = g /\ server_mem[g] = launch[g]
                          /\ launch[g] > 0
        BY <1>4 DEF Send, SoleInv, PhaseInv, PhaseOf
      <3>2. g \in sole => ~(choice[g] # None /\ server_mem[choice[g]] = 0)
        BY <3>1 DEF TypeOK
      <3>3. QED
        BY <1>4, <3>2, PhaseMoves DEF Send
    <2>4. QED
      BY <2>1, <2>2, <2>3 DEF SoleInv, TypeOK
  <1>5. ASSUME NEW c \in Clients, Dispatch(c) PROVE SoleInv'
    <2> DEFINE f == Head(wire[c])
    <2>1. f.graph \in Graphs
      BY <1>5, HeadOfWire DEF Dispatch
    <2>2. \/ UNCHANGED <<sole, phase>>
          \/ NextPhase(f.graph, "idle") /\ sole' = sole \ {f.graph}
      BY <1>5 DEF Dispatch, Answer
    <2>3. UNCHANGED <<choice, exec>>
      BY <1>5 DEF Dispatch
    <2>4. CASE UNCHANGED <<sole, phase>>
      BY <2>3, <2>4 DEF SoleInv
    <2>5. CASE NextPhase(f.graph, "idle") /\ sole' = sole \ {f.graph}
      <3>1. \A h \in Graphs \ {f.graph} : phase'[h] = phase[h]
        BY <2>1, <2>5, PhaseMoves
      <3>2. sole \subseteq Graphs
        BY DEF TypeOK
      <3>3. QED
        BY <2>3, <2>5, <3>1, <3>2 DEF SoleInv
    <2>6. QED
      BY <2>2, <2>4, <2>5
  <1>6. CASE UNCHANGED <<sole, phase, exec, choice>>
    BY <1>6 DEF SoleInv
  <1>7. QED
    BY <1>1, <1>2, <1>3, <1>4, <1>5, <1>6, Steps
    DEF Executing, Execute, serverVars, cudaVars, historyVars

LEMMA FrameOfWire ==
  ASSUME TypeOK, NEW c \in Clients, NEW i \in 1 .. Len(wire[c])
  PROVE  wire[c][i] \in Frame /\ wire[c][i].graph \in Graphs
  <1>1. wire[c] \in Seq(Frame)
    BY DEF TypeOK
  <1>2. wire[c][i] \in Frame
    BY <1>1, ElementOfSeq
  <1>3. QED
    BY <1>2 DEF Frame

\* What FrameOk says of a request after a step.
StillOk(c, f) ==
  /\ Owner[f.graph] = c /\ phase'[f.graph] = "sent"
  /\ f.graph \in sole' => f.entry = f.graph /\ f.data = launch'[f.graph]
Distinct(s) ==
  \A i, j \in 1 .. Len(s) : s[i].graph = s[j].graph => i = j

LEMMA WireStays ==
  ASSUME \A c \in Clients : /\ \A i \in 1 .. Len(wire'[c]) : StillOk(c, wire'[c][i])
                            /\ Distinct(wire'[c])
  PROVE  WireInv'
  BY DEF WireInv, FrameOk, StillOk, Distinct

\* A request that waits for its answer is not disturbed by another launch.
LEMMA FramesKept ==
  ASSUME TypeOK, WireInv, NEW g \in Graphs, phase[g] # "sent",
         \A h \in Graphs \ {g} : /\ phase'[h] = phase[h]
                                 /\ launch'[h] = launch[h]
                                 /\ h \in sole' => h \in sole
  PROVE  \A c \in Clients : \A i \in 1 .. Len(wire[c]) :
           wire[c][i].graph # g /\ StillOk(c, wire[c][i])
  BY FrameOfWire DEF WireInv, FrameOk, StillOk

LEMMA WireStep == IInv /\ [Next]_vars => WireInv'
  <1> SUFFICES ASSUME TypeOK, WireInv, SoleInv, PhaseInv, [Next]_vars
               PROVE  WireInv'
    BY DEF IInv
  <1> \A g \in Graphs : Owner[g] \in Clients
    BY ConstantsAssumption
  <1>1. CASE Calling
    <2>1. UNCHANGED <<wire, phase, launch, sole>>
      BY <1>1, Callings DEF Calling
    <2>2. QED
      BY <2>1 DEF WireInv, FrameOk
  <1>2. ASSUME NEW g \in Graphs,
               Begin(g) \/ Copy(g) \/ StartRequest(g) \/ Choose(g)
        PROVE  WireInv'
    <2>1. wire' = wire /\ phase[g] # "sent"
      BY <1>2 DEF Begin, Copy, StartRequest, Choose, serverVars
    <2>2. \A h \in Graphs \ {g} : phase'[h] = phase[h]
      BY <1>2, PhaseMoves DEF Begin, Copy, StartRequest, Choose
    <2>3. \A h \in Graphs \ {g} : launch'[h] = launch[h]
      BY <1>2 DEF Begin, Copy, StartRequest, Choose, TypeOK
    <2>4. \A h \in Graphs \ {g} : h \in sole' => h \in sole
      BY <1>2 DEF Begin, Copy, StartRequest, Choose, historyVars
    <2>5. QED
      BY <2>1, <2>2, <2>3, <2>4, FramesKept, WireStays DEF WireInv, Distinct
  <1>3. ASSUME NEW g \in Graphs, Send(g) PROVE WireInv'
    <2> DEFINE o == Owner[g]
    <2>1. phase[g] = "send" /\ UNCHANGED <<launch, sole>>
      BY <1>3 DEF Send, historyVars
    <2>2. \A h \in Graphs \ {g} : phase'[h] = phase[h]
      BY <1>3, PhaseMoves DEF Send
    <2>3. \A c \in Clients : /\ \A i \in 1 .. Len(wire[c]) :
                                 wire[c][i].graph # g /\ StillOk(c, wire[c][i])
                            /\ Distinct(wire[c])
      BY <2>1, <2>2, FramesKept DEF WireInv, Distinct
    <2>4. CASE wire' = wire
      BY <2>3, <2>4, WireStays
    <2>5. CASE /\ wire' = [wire EXCEPT ![o] = Append(@, Request(g))]
               /\ phase'[g] = "sent"
      <3>1. wire[o] \in Seq(Frame) /\ wire'[o] = Append(wire[o], Request(g))
            /\ \A c \in Clients \ {o} : wire'[c] = wire[c]
        BY <2>5 DEF TypeOK
      <3>2. /\ Len(wire'[o]) = Len(wire[o]) + 1 /\ Len(wire[o]) \in Nat
            /\ \A i \in 1 .. Len(wire[o]) : wire'[o][i] = wire[o][i]
            /\ wire'[o][Len(wire[o]) + 1] = Request(g)
        <4>1. Request(g) \in Frame
          BY DEF Request, Frame, TypeOK
        <4>2. QED
          BY <3>1, <4>1, AppendProperties, LenProperties
      <3>3. /\ Request(g).graph = g
            /\ g \in sole => Request(g).entry = g /\ Request(g).data = launch[g]
        <4>1. g \in sole => choice[g] = g /\ server_mem[g] = launch[g]
          BY <2>1 DEF SoleInv, PhaseInv, PhaseOf
        <4>2. QED
          BY <4>1, ConstantsAssumption DEF Request
      <3>4. \A i \in 1 .. Len(wire'[o]) :
              i \in 1 .. Len(wire[o]) \/ i = Len(wire[o]) + 1
        BY <3>2
      <3>5. StillOk(o, Request(g))
        BY <2>1, <2>5, <3>3 DEF StillOk
      <3>6. \A i \in 1 .. Len(wire'[o]) : StillOk(o, wire'[o][i])
        BY <2>3, <3>2, <3>4, <3>5
      <3>7. Distinct(wire'[o])
        <4> SUFFICES ASSUME NEW i \in 1 .. Len(wire'[o]),
                            NEW j \in 1 .. Len(wire'[o]),
                            wire'[o][i].graph = wire'[o][j].graph
                     PROVE  i = j
          BY DEF Distinct
        <4>a. Distinct(wire[o]) /\ \A k \in 1 .. Len(wire[o]) : wire[o][k].graph # g
          BY <2>3
        <4>1. CASE i \in 1 .. Len(wire[o]) /\ j \in 1 .. Len(wire[o])
          <5>1. wire[o][i].graph = wire[o][j].graph
            BY <3>2, <4>1
          <5>2. QED
            BY <4>1, <4>a, <5>1, Zenon DEF Distinct
        <4>2. CASE i = Len(wire[o]) + 1 /\ j \in 1 .. Len(wire[o])
          BY <3>2, <3>3, <4>2, <4>a
        <4>3. CASE j = Len(wire[o]) + 1 /\ i \in 1 .. Len(wire[o])
          BY <3>2, <3>3, <4>3, <4>a
        <4>4. QED
          BY <3>4, <4>1, <4>2, <4>3
      <3>8. QED
        BY <2>3, <3>1, <3>6, <3>7, WireStays
    <2>6. QED
      BY <1>3, <2>4, <2>5, PhaseMoves DEF Send
  <1>4. ASSUME NEW c \in Clients, Dispatch(c) PROVE WireInv'
    <2> DEFINE f == Head(wire[c])
    <2>1. /\ wire[c] \in Seq(Frame) /\ f = wire[c][1] /\ 1 \in 1 .. Len(wire[c])
          /\ f.graph \in Graphs /\ wire[c] # <<>>
          /\ Owner[f.graph] = c
      BY <1>4, HeadOfWire DEF Dispatch, FrameOk
    <2>2. /\ \A h \in Graphs \ {f.graph} : phase'[h] = phase[h]
          /\ \A h \in sole' : h \in sole
          /\ launch' = launch
      BY <1>4, <2>1, PhaseMoves DEF Dispatch, Answer
    <2>3. /\ wire'[c] = Tail(wire[c])
          /\ \A d \in Clients \ {c} : wire'[d] = wire[d]
      BY <1>4 DEF Dispatch, TypeOK
    <2>4. /\ Len(wire'[c]) = Len(wire[c]) - 1 /\ Len(wire[c]) \in Nat
          /\ \A i \in 1 .. Len(wire'[c]) : wire'[c][i] = wire[c][i + 1]
      BY <2>1, <2>3, HeadTailProperties, LenProperties
    <2>5. ASSUME NEW d \in Clients, NEW i \in 1 .. Len(wire[d]),
                 d # c \/ i # 1
          PROVE  StillOk(d, wire[d][i])
      <3>1. FrameOk(d, wire[d][i]) /\ wire[d][i].graph \in Graphs
        BY FrameOfWire DEF WireInv
      <3>2. wire[d][i].graph # f.graph
        BY <2>1, <2>5, <3>1 DEF WireInv, FrameOk
      <3>3. QED
        BY <2>2, <3>1, <3>2 DEF FrameOk, StillOk
    <2>6. \A i \in 1 .. Len(wire'[c]) : i + 1 \in 1 .. Len(wire[c]) /\ i + 1 # 1
      BY <2>4
    <2>7. \A i \in 1 .. Len(wire'[c]) : StillOk(c, wire'[c][i])
      BY <2>4, <2>5, <2>6
    <2>8. Distinct(wire'[c])
      <3> SUFFICES ASSUME NEW i \in 1 .. Len(wire'[c]), NEW j \in 1 .. Len(wire'[c]),
                          wire'[c][i].graph = wire'[c][j].graph
                   PROVE  i = j
        BY DEF Distinct
      <3>1. Distinct(wire[c])
        BY DEF WireInv, Distinct
      <3>2. wire[c][i + 1].graph = wire[c][j + 1].graph
        BY <2>4
      <3>3. i + 1 = j + 1
        BY <2>6, <3>1, <3>2 DEF Distinct
      <3>4. QED
        BY <2>4, <3>3
    <2>9. ASSUME NEW d \in Clients \ {c}
          PROVE  /\ \A i \in 1 .. Len(wire'[d]) : StillOk(d, wire'[d][i])
                 /\ Distinct(wire'[d])
      <3>1. wire'[d] = wire[d]
        BY <2>3
      <3>2. Distinct(wire[d])
        BY DEF WireInv, Distinct
      <3>3. \A i \in 1 .. Len(wire[d]) : StillOk(d, wire[d][i])
        BY <2>5
      <3>4. QED
        BY <3>1, <3>2, <3>3
    <2>10. QED
      BY <2>7, <2>8, <2>9, WireStays
  <1>5. CASE UNCHANGED <<wire, phase, launch, sole>>
    BY <1>5 DEF WireInv, FrameOk
  <1>6. QED
    BY <1>1, <1>2, <1>3, <1>4, <1>5, Steps
    DEF Executing, Execute, serverVars, cudaVars, historyVars

LEMMA SentStep == IInv /\ [Next]_vars => SentInv'
  <1> SUFFICES ASSUME TypeOK, WireInv, SentInv, [Next]_vars PROVE SentInv'
    BY DEF IInv
  <1> \A g \in Graphs : Owner[g] \in Clients
    BY ConstantsAssumption
  <1>1. CASE Calling
    <2>1. UNCHANGED <<wire, phase, alive>>
      BY <1>1, Callings DEF Calling
    <2>2. QED
      BY <2>1 DEF SentInv
  <1>2. ASSUME NEW g \in Graphs,
               Begin(g) \/ Copy(g) \/ StartRequest(g) \/ Choose(g)
        PROVE  SentInv'
    <2>1. UNCHANGED <<wire, alive>>
      BY <1>2 DEF Begin, Copy, StartRequest, Choose, serverVars, clientVars
    <2>2. \A h \in Graphs : phase'[h] = "sent" => phase[h] = "sent"
      <3>1. \A h \in Graphs \ {g} : phase'[h] = phase[h]
        BY <1>2, PhaseMoves DEF Begin, Copy, StartRequest, Choose
      <3>2. phase' = phase \/ phase'[g] # "sent"
        BY <1>2, PhaseMoves DEF Begin, Copy, StartRequest, Choose, AfterCopy
      <3>3. QED
        BY <3>1, <3>2
    <2>3. QED
      BY <2>1, <2>2 DEF SentInv
  <1>3. ASSUME NEW g \in Graphs, Send(g) PROVE SentInv'
    <2> DEFINE o == Owner[g]
    <2>1. /\ phase[g] = "send" /\ alive' = alive
          /\ \A h \in Graphs \ {g} : phase'[h] = phase[h]
      BY <1>3, PhaseMoves DEF Send, clientVars
    <2>2. CASE wire' = wire /\ phase'[g] = "idle"
      BY <2>1, <2>2 DEF SentInv
    <2>3. CASE wire' = [wire EXCEPT ![o] = Append(@, Request(g))]
      <3>1. wire[o] \in Seq(Frame) /\ wire'[o] = Append(wire[o], Request(g))
            /\ \A c \in Clients \ {o} : wire'[c] = wire[c]
        BY <2>3 DEF TypeOK
      <3>2. /\ Len(wire'[o]) = Len(wire[o]) + 1 /\ Len(wire[o]) \in Nat
            /\ \A i \in 1 .. Len(wire[o]) : wire'[o][i] = wire[o][i]
            /\ wire'[o][Len(wire[o]) + 1] = Request(g)
        <4>1. Request(g) \in Frame
          BY DEF Request, Frame, TypeOK
        <4>2. QED
          BY <3>1, <4>1, AppendProperties, LenProperties
      <3>3. Request(g).graph = g
        BY DEF Request
      <3>4. Len(wire[o]) + 1 \in 1 .. Len(wire'[o])
            /\ 1 .. Len(wire[o]) \subseteq 1 .. Len(wire'[o])
        BY <3>2
      <3>5. \E i \in 1 .. Len(wire'[o]) : wire'[o][i].graph = g
        BY <3>2, <3>3, <3>4
      <3>6. ASSUME NEW h \in Graphs \ {g}, phase'[h] = "sent", alive'[Owner[h]]
            PROVE  \E i \in 1 .. Len(wire'[Owner[h]]) : wire'[Owner[h]][i].graph = h
        <4>1. PICK i \in 1 .. Len(wire[Owner[h]]) : wire[Owner[h]][i].graph = h
          BY <2>1, <3>6 DEF SentInv
        <4>2. CASE Owner[h] = o
          BY <3>2, <3>4, <4>1, <4>2
        <4>3. CASE Owner[h] # o
          BY <3>1, <4>1, <4>3
        <4>4. QED
          BY <4>2, <4>3
      <3>7. QED
        BY <3>5, <3>6 DEF SentInv
    <2>4. QED
      BY <1>3, <2>2, <2>3, PhaseMoves DEF Send
  <1>4. ASSUME NEW c \in Clients, Dispatch(c) PROVE SentInv'
    <2> DEFINE f == Head(wire[c])
    <2>1. /\ wire[c] \in Seq(Frame) /\ wire[c] # <<>> /\ f = wire[c][1]
          /\ f.graph \in Graphs
      BY <1>4, HeadOfWire DEF Dispatch
    <2>2. /\ wire'[c] = Tail(wire[c])
          /\ \A d \in Clients \ {c} : wire'[d] = wire[d]
      BY <1>4 DEF Dispatch, TypeOK
    <2>3. /\ Len(wire'[c]) = Len(wire[c]) - 1 /\ Len(wire[c]) \in Nat
          /\ \A i \in 1 .. Len(wire'[c]) : wire'[c][i] = wire[c][i + 1]
      BY <2>1, <2>2, HeadTailProperties, LenProperties
    <2>4. \/ /\ alive' = alive /\ phase'[f.graph] = "idle"
             /\ \A h \in Graphs \ {f.graph} : phase'[h] = phase[h]
          \/ /\ alive' = [alive EXCEPT ![c] = FALSE] /\ phase' = phase
      BY <1>4, <2>1, PhaseMoves DEF Dispatch, Answer
    <2> SUFFICES ASSUME NEW h \in Graphs, phase'[h] = "sent", alive'[Owner[h]]
                 PROVE  \E i \in 1 .. Len(wire'[Owner[h]]) : wire'[Owner[h]][i].graph = h
      BY DEF SentInv
    <2>5. phase[h] = "sent" /\ alive[Owner[h]] /\ (Owner[h] = c => h # f.graph)
      BY <2>4 DEF TypeOK
    <2>6. PICK i \in 1 .. Len(wire[Owner[h]]) : wire[Owner[h]][i].graph = h
      BY <2>5 DEF SentInv
    <2>7. CASE Owner[h] = c
      <3>1. i # 1
        BY <2>1, <2>5, <2>6, <2>7
      <3>2. i - 1 \in 1 .. Len(wire'[c]) /\ wire'[c][i - 1] = wire[c][i]
        BY <2>3, <2>6, <2>7, <3>1
      <3>3. QED
        BY <2>6, <2>7, <3>2
    <2>8. CASE Owner[h] # c
      BY <2>2, <2>6, <2>8
    <2>9. QED
      BY <2>7, <2>8
  <1>5. CASE UNCHANGED <<wire, phase, alive>>
    BY <1>5 DEF SentInv
  <1>6. QED
    BY <1>1, <1>2, <1>3, <1>4, <1>5, Steps
    DEF Executing, Execute, serverVars, cudaVars

\* Host nodes that are added later only make the claim weaker.
LEMMA SharesStays ==
  ASSUME hosted \subseteq hosted', NEW g, SharesFunction(g)
  PROVE  SharesFunction(g)'
  BY DEF SharesFunction

LEMMA OwnDataStep == IInv /\ [Next]_vars => OwnData'
  <1> SUFFICES ASSUME TypeOK, NodeInv, FunctionInv, PhaseInv, WireInv, OwnData,
                      [Next]_vars
               PROVE  OwnData'
    BY DEF IInv
  <1>1. CASE Calling
    <2>1. ran' = ran
      BY <1>1, Callings DEF Calling
    <2>2. hosted \subseteq hosted'
      BY <1>1 DEF Calling, Call, AddMemcpyNode, AddHostNode, Instantiate,
         Destroy, Launch, historyVars
    <2>3. QED
      BY <2>1, <2>2, SharesStays DEF OwnData
  <1>2. ASSUME NEW g \in Graphs, Execute(g) PROVE OwnData'
    <2>1. UNCHANGED <<ran, hosted>>
      BY <1>2 DEF Execute, Begin, Copy, StartRequest, Choose, Send, historyVars
    <2>2. QED
      BY <2>1 DEF OwnData, SharesFunction
  <1>3. ASSUME NEW c \in Clients, Dispatch(c) PROVE OwnData'
    <2> DEFINE f == Head(wire[c])
               r == [graph |-> f.graph, launch |-> launch[f.graph],
                     sole |-> f.graph \in sole,
                     seen |-> client_mem'[Function(c, f)]]
    <2>1. hosted' = hosted
      BY <1>3 DEF Dispatch
    <2>2. CASE ran' = ran
      BY <2>1, <2>2 DEF OwnData, SharesFunction
    <2>3. CASE client_mem' = Filling(c, f) /\ ran' = {r}
      <3>1. f.graph \in Graphs /\ FrameOk(c, f)
        BY <1>3, HeadOfWire DEF Dispatch
      <3>2. SUFFICES ASSUME NEW x \in ran', x.sole, ~SharesFunction(x.graph)
                     PROVE  x.seen = x.launch
        BY <2>1 DEF OwnData, SharesFunction
      <3>. /\ f.graph \in sole /\ ~SharesFunction(f.graph)
           /\ x.launch = launch[f.graph]
           /\ x.seen = client_mem'[Function(c, f)]
        <4>1. x = r
          BY <2>3
        <4>2. /\ r.graph = f.graph /\ r.launch = launch[f.graph]
              /\ r.seen = client_mem'[Function(c, f)]
          OBVIOUS
        <4>3. r.sole = (f.graph \in sole)
          BY Zenon
        <4> HIDE DEF r
        <4>4. x.sole <=> f.graph \in sole
          BY <4>1, <4>3, Zenon
        <4>5. QED
          BY <3>2, <4>1, <4>2, <4>4
      <3>3. /\ Owner[f.graph] = c /\ phase[f.graph] = "sent"
            /\ f.entry = f.graph /\ f.data = launch[f.graph]
        BY <3>1 DEF FrameOk
      <3>4. Function(c, f) = f.graph
        <4> DEFINE h == host_funcs[c][Fn[f.graph]]
        <4>1. h # None
          BY <3>1, <3>3 DEF NodeInv, PhaseInv, PhaseOf
        <4>2. h \in hosted /\ Owner[h] = c /\ Fn[h] = Fn[f.graph]
          <5>1. Fn[f.graph] \in Fns
            BY <3>1 DEF Fns
          <5>2. QED
            BY <4>1, <5>1 DEF FunctionInv
        <4>3. h = f.graph
          BY <3>3, <4>2 DEF SharesFunction
        <4>4. QED
          BY <4>3 DEF Function
      <3>5. client_mem' = [client_mem EXCEPT ![f.graph] = launch[f.graph]]
        BY <2>3, <3>1, <3>3, ConstantsAssumption DEF Filling
      <3>6. client_mem \in [Graphs -> Nat]
        BY DEF TypeOK
      <3>7. QED
        BY <3>1, <3>4, <3>5, <3>6
    <2>4. QED
      BY <1>3, <2>2, <2>3 DEF Dispatch
  <1>4. CASE UNCHANGED <<ran, hosted>>
    BY <1>4 DEF OwnData, SharesFunction
  <1>5. QED
    BY <1>1, <1>2, <1>3, <1>4, Steps DEF Executing, historyVars

LEMMA SurvivesStep == IInv /\ [Next]_vars => ServerSurvives'
  <1> SUFFICES ASSUME TypeOK, EntryInv, NodeInv, PhaseInv, ServerSurvives,
                      [Next]_vars
               PROVE  ServerSurvives'
    BY DEF IInv
  <1>1. CASE Calling
    <2>1. up /\ up' = up
      BY <1>1, Callings DEF Calling, Call, AddMemcpyNode, AddHostNode,
         Instantiate, Destroy, Launch, Calls
    <2>2. QED
      BY <2>1 DEF ServerSurvives
  <1>2. ASSUME NEW g \in Graphs, Execute(g) PROVE ServerSurvives'
    <2>1. CASE up' = up
      <3>1. up
        BY <1>2 DEF Execute, Begin, Copy, StartRequest, Choose, Send
      <3>2. QED
        BY <2>1, <3>1 DEF ServerSurvives
    <2>2. CASE Copy(g) /\ server_mem[g] = 0 /\ ~Maps(g)
      <3>1. exec[g].copy /\ UNCHANGED <<graph, exec, server_mem>>
        BY <2>2 DEF Copy, PhaseInv, PhaseOf
      <3>2. g \notin attempted
        BY <2>2 DEF EntryInv
      <3>3. graph[g] = "destroyed"
        BY <3>1, <3>2 DEF NodeInv
      <3>4. QED
        BY <2>2, <3>1, <3>3 DEF ServerSurvives
    <2>3. CASE Choose(g) /\ g \in torn /\ torn' = torn
      BY <2>3 DEF ServerSurvives
    <2>4. QED
      BY <1>2, <2>1, <2>2, <2>3
      DEF Execute, Begin, Copy, StartRequest, Choose, Send
  <1>3. ASSUME NEW c \in Clients, Dispatch(c) PROVE ServerSurvives'
    BY <1>3 DEF Dispatch, ServerSurvives
  <1>4. CASE UNCHANGED <<up, torn, graph, exec, server_mem>>
    BY <1>4 DEF ServerSurvives
  <1>5. QED
    BY <1>1, <1>2, <1>3, <1>4, Steps
    DEF Executing, serverVars, cudaVars, historyVars

LEMMA NextIInv == IInv /\ [Next]_vars => IInv'
  BY TypeStep, EntryStep, NodeStep, FunctionStep, PhaseStep, LockStep, SoleStep,
     WireStep, SentStep, OwnDataStep, SurvivesStep DEF IInv

\* The inductive invariant holds of every state, for any clients and graphs.
THEOREM Invariance == Spec => []IInv
  BY InitIInv, NextIInv, PTL DEF Spec

\* A host function sees what its own launch copied, when no other graph of any
\* client was left with a copy node and the function serves one graph
\* (server.cpp:152-175, 198-211, client.cpp:159-214).
THEOREM SeesOwnData == Spec => []OwnData
  <1>1. IInv => OwnData
    BY DEF IInv
  <1>2. QED
    BY <1>1, Invariance, PTL

\* A graph that is alone in having a copy node does not keep its connection's
\* lock, and is sent no other graph's memory (server.cpp:147-182).
THEOREM NoHarmAlone == Spec => []HarmOnlyInCompany
  <1>1. IInv => HarmOnlyInCompany
    <2> SUFFICES ASSUME IInv PROVE HarmOnlyInCompany
      OBVIOUS
    <2> USE DEF IInv
    <2>1. ASSUME NEW c \in Clients, Leaked(c), write_mutex[c] \in sole
          PROVE  FALSE
      <3>1. write_mutex[c] \in Graphs
        BY <2>1 DEF Leaked, TypeOK
      <3>2. phase[write_mutex[c]] # "sent"
        BY <3>1 DEF LockInv
      <3>3. QED
        BY <2>1, <3>2 DEF Leaked, SoleInv
    <2>2. ASSUME NEW c \in Clients, NEW i \in 1 .. Len(wire[c]),
                 wire[c][i].entry # None, Owner[wire[c][i].entry] # c,
                 wire[c][i].graph \in sole
          PROVE  FALSE
      BY <2>2 DEF WireInv, FrameOk
    <2>3. QED
      BY <2>1, <2>2 DEF HarmOnlyInCompany
  <1>2. QED
    BY <1>1, Invariance, PTL

\* The server does not fault on the memory of a graph that exists
\* (server.cpp:68-125, 198-229, manual_server.cpp:1127-1135).
THEOREM Survival == Spec => []ServerSurvives
  <1>1. IInv => ServerSurvives
    BY DEF IInv
  <1>2. QED
    BY <1>1, Invariance, PTL

\* A launch never waits for somebody who cannot go on: the safety part of
\* LaunchesFinish (server.cpp:134-196, client.cpp:157-168 and 174-241).
THEOREM WaitsAreForSomebody == Spec => []LaunchesMove
  <1>1. IInv => LaunchesMove
    <2> SUFFICES ASSUME IInv PROVE LaunchesMove
      OBVIOUS
    <2> USE ConstantsAssumption DEF IInv
    <2>1. ASSUME NEW g \in Graphs, up, alive[Owner[g]]
          PROVE  /\ phase[g] = "call" /\ write_mutex[Owner[g]] # None =>
                      \/ Leaked(Owner[g])
                      \/ /\ Owner[write_mutex[Owner[g]]] = Owner[g]
                         /\ phase[write_mutex[Owner[g]]] \in {"choose", "send"}
                 /\ phase[g] \in {"choose", "send"} => write_mutex[Owner[g]] = g
                 /\ phase[g] = "sent" =>
                      \E i \in 1 .. Len(wire[Owner[g]]) : wire[Owner[g]][i].graph = g
      <3>1. Owner[g] \in Clients /\ write_mutex[Owner[g]] \in Graphs \cup {None}
        BY DEF TypeOK
      <3>2. QED
        BY <2>1, <3>1 DEF LockInv, SentInv, Leaked
    <2>2. ASSUME NEW c \in Clients, NEW i \in 1 .. Len(wire[c])
          PROVE  Function(c, wire[c][i]) # None
      <3>1. /\ wire[c][i].graph \in Graphs /\ Owner[wire[c][i].graph] = c
            /\ phase[wire[c][i].graph] = "sent"
        BY FrameOfWire DEF WireInv, FrameOk
      <3>2. exec[wire[c][i].graph].host
        BY <3>1 DEF PhaseInv, PhaseOf
      <3>3. QED
        BY <3>1, <3>2 DEF NodeInv, Function
    <2>3. QED
      BY <2>1, <2>2 DEF LaunchesMove
  <1>2. QED
    BY <1>1, Invariance, PTL
=============================================================================
