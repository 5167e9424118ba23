----------------------------- MODULE HostNodes -----------------------------
(***************************************************************************)
(* CUDA graphs with host nodes, of several clients of one server.  A host  *)
(* node calls a function of the client's program: the server gives CUDA    *)
(* its own invoke_host_func instead, which asks the client, over that      *)
(* client's connection, to run the function, and sends along the memory    *)
(* that a device-to-host copy of the graph has filled.  It finds that      *)
(* memory in managed_ptrs, one structure for all connections, which the    *)
(* handler threads change and CUDA's threads read without a lock.  The     *)
(* memory itself lies at the client's address in the server's process: it  *)
(* is mapped by the server's SIGSEGV handler when CUDA first writes there. *)
(*                                                                         *)
(* A graph g here has at most one destination of copies, which is named g  *)
(* too: the destinations of different graphs are different memory.         *)
(* Request and response of a call to the server are one action each; what  *)
(* happens on the connection between them is the subject of RpcConn.       *)
(***************************************************************************)
EXTENDS Integers, Sequences

CONSTANTS
  Clients,     \* client processes, ordered as their conn_t addresses are
  Graphs,      \* the graphs they create
  Owner,       \* Owner[g], the client that creates g
  Fn,          \* Fn[g], the address of the function of g's host node
  None,        \* no graph
  MaxEntries,  \* bound: MaxEntries[c], the copy nodes of client c
  MaxLaunches  \* bound: MaxLaunches[g], the launches of g

ASSUME ConstantsAssumption ==
  /\ Clients \subseteq Nat
  /\ Owner \in [Graphs -> Clients]
  /\ None \notin Graphs

Fns == {Fn[g] : g \in Graphs}

VARIABLES
  \* the client processes
  app,           \* per client: whether its program waits for a call
  alive,         \* per client: whether it is there
  host_funcs,    \* per client: the graph whose user data a function gets
  client_mem,    \* per graph: the launch whose copy the client's memory has
  \* the server process
  up,            \* whether it is there
  managed_ptrs,  \* the destinations of copy nodes, by connection and, within a
                 \* connection, in the order in which they were added
  appended,      \* per client: how many there have been
  server_mem,    \* per graph: the launch whose copy is in the server's
                 \* memory, zero while that memory is not mapped
  write_mutex,   \* per client: the callback that holds its connection's lock
  choice,        \* per graph: what its callback found in managed_ptrs
  wire,          \* per client: requests of callbacks that are under way
  \* CUDA
  graph,         \* per graph: whether it still exists
  nodes,         \* per graph: which nodes it has
  exec,          \* per graph: which nodes it had when it was instantiated
  queued,        \* per graph: launches that have not begun
  launch,        \* per graph: the launch that runs, or the last one that ran
  phase,         \* per graph: how far that launch is
  \* history
  attempted,     \* graphs the program gave a copy node, and did not destroy
  hosted,        \* graphs the program gave a host node
  torn,          \* callbacks that read managed_ptrs while it changed
  sole,          \* callbacks of the only graph with a copy, which had run
  ran            \* the function that ran last, and what it saw

clientVars == <<app, alive, host_funcs, client_mem>>
serverVars == <<managed_ptrs, appended, server_mem, write_mutex, choice, wire>>
cudaVars == <<graph, nodes, exec, queued, launch, phase>>
historyVars == <<attempted, hosted, torn, sole, ran>>
vars == <<clientVars, up, serverVars, cudaVars, historyVars>>

Entry == [conn : Clients, at : Nat, graph : Graphs]
NoNodes == [copy |-> FALSE, host |-> FALSE]
Frame == [graph : Graphs, entry : Graphs \cup {None}, data : Nat]
Phases == {"idle", "copy", "call", "choose", "send", "sent"}

Init ==
  /\ app = [c \in Clients |-> "runs"]
  /\ alive = [c \in Clients |-> TRUE]
  /\ host_funcs = [c \in Clients |-> [f \in Fns |-> None]]
  /\ client_mem = [g \in Graphs |-> 0]
  /\ up = TRUE
  /\ managed_ptrs = {}
  /\ appended = [c \in Clients |-> 0]
  /\ server_mem = [g \in Graphs |-> 0]
  /\ write_mutex = [c \in Clients |-> None]
  /\ choice = [g \in Graphs |-> None]
  /\ wire = [c \in Clients |-> <<>>]
  /\ graph = [g \in Graphs |-> "exists"]
  /\ nodes = [g \in Graphs |-> NoNodes]
  /\ exec = [g \in Graphs |-> NoNodes]
  /\ queued = [g \in Graphs |-> 0]
  /\ launch = [g \in Graphs |-> 0]
  /\ phase = [g \in Graphs |-> "idle"]
  /\ attempted = {} /\ hosted = {} /\ torn = {} /\ sole = {} /\ ran = {}

-----------------------------------------------------------------------------
(* The program's calls and their handlers.  A call that has a response      *)
(* keeps the program waiting until the handler thread could take the write  *)
(* lock of the connection (Respond).                                        *)

\* The program of g's client calls a function of the library.
Calls(g) == up /\ alive[Owner[g]] /\ app[Owner[g]] = "runs"
Waits(g) == app' = [app EXCEPT ![Owner[g]] = "waits"]

\* Callbacks that are iterating over managed_ptrs, without a lock.
Iterating == {g \in Graphs : phase[g] = "choose"}

\* append_managed_ptr, and the destruction of a graph's entries.
WithEntry(g) ==
  managed_ptrs \cup
    {[conn |-> Owner[g], at |-> appended[Owner[g]], graph |-> g]}

\* Mutant of WithoutEntries: it stops at the first entry of the graph.
WithoutFirstEntry(g) ==
  LET ofGraph == {e \in managed_ptrs : e.graph = g}
  IN  managed_ptrs \ {e \in ofGraph : \A d \in ofGraph : e.at <= d.at}
WithoutEntries(g) == {e \in managed_ptrs : e.graph # g}

\* The entry is made before CUDA is asked and stays when CUDA refuses.
AddMemcpyNode(g) ==
  /\ Calls(g) /\ graph[g] = "exists"
  /\ appended[Owner[g]] < MaxEntries[Owner[g]]
  /\ managed_ptrs' = WithEntry(g)
  /\ appended' = [appended EXCEPT ![Owner[g]] = @ + 1]
  /\ \E ok \in BOOLEAN : nodes' = [nodes EXCEPT ![g].copy = @ \/ ok]
  /\ attempted' = attempted \cup {g}
  /\ torn' = torn \cup Iterating
  /\ Waits(g)
  /\ UNCHANGED <<alive, host_funcs, client_mem, up, server_mem, write_mutex,
                 choice, wire, graph, exec, queued, launch, phase, hosted,
                 sole, ran>>

\* The stub remembers the user data by the function's address alone, before it
\* asks the server, and still does when CUDA refuses the node.
AddHostNode(g) ==
  /\ Calls(g) /\ graph[g] = "exists" /\ ~nodes[g].host
  /\ host_funcs' = [host_funcs EXCEPT ![Owner[g]][Fn[g]] = g]
  /\ \E ok \in BOOLEAN : nodes' = [nodes EXCEPT ![g].host = ok]
  /\ hosted' = hosted \cup {g}
  /\ Waits(g)
  /\ UNCHANGED <<alive, client_mem, up, serverVars, graph, exec, queued,
                 launch, phase, attempted, torn, sole, ran>>

\* The executable graph is a copy of the graph.
Instantiate(g) ==
  /\ Calls(g) /\ graph[g] = "exists" /\ exec[g] = NoNodes
  /\ exec' = [exec EXCEPT ![g] = nodes[g]]
  /\ Waits(g)
  /\ UNCHANGED <<alive, host_funcs, client_mem, up, serverVars, graph, nodes,
                 queued, launch, phase, historyVars>>

\* The executable graph outlives the graph, whose entries go.
Destroy(g) ==
  /\ Calls(g) /\ graph[g] = "exists"
  /\ graph' = [graph EXCEPT ![g] = "destroyed"]
  /\ managed_ptrs' = WithoutEntries(g)
  /\ attempted' = attempted \ {g}
  /\ torn' = IF managed_ptrs' = managed_ptrs THEN torn
             ELSE torn \cup Iterating
  /\ Waits(g)
  /\ UNCHANGED <<alive, host_funcs, client_mem, up, appended, server_mem,
                 write_mutex, choice, wire, nodes, exec, queued, launch, phase,
                 hosted, sole, ran>>

Respond(c) ==
  /\ up /\ app[c] = "waits" /\ write_mutex[c] = None
  /\ app' = [app EXCEPT ![c] = "runs"]
  /\ UNCHANGED <<alive, host_funcs, client_mem, up, serverVars, cudaVars,
                 historyVars>>

\* A launch has no response: the stub sets RPC_ASYNC_BIT.
Launch(g) ==
  /\ Calls(g) /\ exec[g] # NoNodes
  /\ launch[g] + queued[g] < MaxLaunches[g]
  /\ queued' = [queued EXCEPT ![g] = @ + 1]
  /\ UNCHANGED <<clientVars, up, serverVars, graph, nodes, exec, launch, phase,
                 historyVars>>

-----------------------------------------------------------------------------
(* CUDA executes the launches of a graph one after the other: first its     *)
(* copy, then its host node.                                                *)

NextPhase(g, p) == phase' = [phase EXCEPT ![g] = p]
AfterCopy(g) == IF exec[g].host THEN "call" ELSE "idle"

Begin(g) ==
  /\ up /\ phase[g] = "idle" /\ queued[g] > 0
  /\ queued' = [queued EXCEPT ![g] = @ - 1]
  /\ launch' = [launch EXCEPT ![g] = @ + 1]
  /\ NextPhase(g, IF exec[g].copy THEN "copy" ELSE AfterCopy(g))
  /\ UNCHANGED <<clientVars, up, serverVars, graph, nodes, exec, historyVars>>

\* The server's SIGSEGV handler maps memory at an address of an entry, of
\* whichever client, and lets any other fault end the process.
\* Mutant of Maps: it gives up at the first connection.
MapsOfOneClient(g) ==
  \E e \in managed_ptrs :
    e.graph = g /\ \A d \in managed_ptrs : e.conn <= d.conn
Maps(g) == \E e \in managed_ptrs : e.graph = g

\* CUDA writes to the client's address in the server's process.
Copy(g) ==
  /\ up /\ phase[g] = "copy"
  /\ IF server_mem[g] # 0 \/ Maps(g)
       THEN /\ server_mem' = [server_mem EXCEPT ![g] = launch[g]]
            /\ NextPhase(g, AfterCopy(g))
            /\ UNCHANGED up
       ELSE up' = FALSE /\ UNCHANGED <<server_mem, phase>>
  /\ UNCHANGED <<clientVars, managed_ptrs, appended, write_mutex, choice, wire,
                 graph, nodes, exec, queued, launch, historyVars>>

-----------------------------------------------------------------------------
(* invoke_host_func, on a thread of CUDA's.                                 *)

StartRequest(g) ==
  /\ up /\ phase[g] = "call" /\ write_mutex[Owner[g]] = None
  /\ write_mutex' = [write_mutex EXCEPT ![Owner[g]] = g]
  /\ NextPhase(g, "choose")
  /\ UNCHANGED <<clientVars, up, managed_ptrs, appended, server_mem, choice,
                 wire, graph, nodes, exec, queued, launch, historyVars>>

\* The loop over all connections, and over the entries of each, keeps the last
\* entry that it meets.
Precedes(d, e) == d.conn < e.conn \/ (d.conn = e.conn /\ d.at <= e.at)
LastEntry ==
  IF managed_ptrs = {} THEN {None}
  ELSE {e.graph : e \in
         {e \in managed_ptrs : \A d \in managed_ptrs : Precedes(d, e)}}

\* A callback that iterated while a list changed may have read any entry, one
\* that was erased included, or end the process.
Choose(g) ==
  /\ up /\ phase[g] = "choose"
  /\ \/ /\ \E e \in IF g \in torn THEN Graphs \cup {None} ELSE LastEntry :
             choice' = [choice EXCEPT ![g] = e]
        /\ NextPhase(g, "send")
        /\ sole' = IF attempted = {g} /\ exec[g].copy /\ g \notin torn
                     THEN sole \cup {g} ELSE sole \ {g}
        /\ torn' = torn \ {g}
        /\ UNCHANGED up
     \/ /\ g \in torn
        /\ up' = FALSE
        /\ UNCHANGED <<choice, phase, sole, torn>>
  /\ UNCHANGED <<clientVars, managed_ptrs, appended, server_mem, write_mutex,
                 wire, graph, nodes, exec, queued, launch, attempted, hosted,
                 ran>>

Request(g) ==
  [graph |-> g, entry |-> choice[g],
   data |-> IF choice[g] = None THEN 0 ELSE server_mem[choice[g]]]
\* Mutant of Unlocked: a request with data keeps the lock.
UnlockedWithoutData(c) ==
  [write_mutex EXCEPT ![c] = IF choice[@] = None THEN None ELSE @]
Unlocked(c) == [write_mutex EXCEPT ![c] = None]

\* writev reads the memory.  If it is not mapped, writev fails, and the
\* callback returns without releasing the lock.
Send(g) ==
  /\ up /\ phase[g] = "send"
  /\ IF choice[g] # None /\ server_mem[choice[g]] = 0
       THEN NextPhase(g, "idle") /\ UNCHANGED <<wire, write_mutex>>
       ELSE /\ wire' = [wire EXCEPT ![Owner[g]] = Append(@, Request(g))]
            /\ write_mutex' = Unlocked(Owner[g])
            /\ NextPhase(g, "sent")
  /\ choice' = [choice EXCEPT ![g] = None]
  /\ UNCHANGED <<clientVars, up, managed_ptrs, appended, server_mem, graph,
                 nodes, exec, queued, launch, historyVars>>

\* The client's dispatch thread copies the data to where it belongs, runs the
\* function with the user data it finds for it, and answers; the callback
\* returns to CUDA.  Where the memory is another client's, the copy hits memory
\* of this client that has nothing to do with it, or none, and ends it.
Function(c, f) == host_funcs[c][Fn[f.graph]]
Filling(c, f) ==
  IF f.entry = None \/ Owner[f.entry] # c THEN client_mem
  ELSE [client_mem EXCEPT ![f.entry] = f.data]
\* Mutant of Answer: the answer is skipped along with the transfer of memory.
AnswerWithData(f) ==
  IF f.entry = None THEN UNCHANGED phase ELSE NextPhase(f.graph, "idle")
Answer(f) == NextPhase(f.graph, "idle")

Dispatch(c) ==
  /\ alive[c] /\ wire[c] # <<>>
  /\ LET f == Head(wire[c])
     IN  \/ /\ client_mem' = Filling(c, f)
            /\ ran' = {[graph |-> f.graph, launch |-> launch[f.graph],
                        sole |-> f.graph \in sole,
                        seen |-> client_mem'[Function(c, f)]]}
            /\ sole' = sole \ {f.graph}
            /\ Answer(f)
            /\ UNCHANGED alive
         \/ /\ f.entry # None /\ Owner[f.entry] # c
            /\ alive' = [alive EXCEPT ![c] = FALSE]
            /\ UNCHANGED <<client_mem, ran, sole, phase>>
  /\ wire' = [wire EXCEPT ![c] = Tail(@)]
  /\ UNCHANGED <<app, host_funcs, up, managed_ptrs, appended, server_mem,
                 write_mutex, choice, graph, nodes, exec, queued, launch,
                 attempted, hosted, torn>>

-----------------------------------------------------------------------------
Call(g) == AddMemcpyNode(g) \/ AddHostNode(g) \/ Instantiate(g) \/ Destroy(g)
             \/ Launch(g)
Execute(g) == Begin(g) \/ Copy(g) \/ StartRequest(g) \/ Choose(g) \/ Send(g)

Next ==
  \/ \E g \in Graphs : Call(g) \/ Execute(g)
  \/ \E c \in Clients : Respond(c) \/ Dispatch(c)

Spec == Init /\ [][Next]_vars

\* CUDA's threads, the handler threads and the dispatch threads keep running.
\* What the program calls is up to the program.
FairSpec ==
  /\ Spec
  /\ \A g \in Graphs : WF_vars(Execute(g))
  /\ \A c \in Clients : WF_vars(Respond(c)) /\ WF_vars(Dispatch(c))

-----------------------------------------------------------------------------
TypeOK ==
  /\ app \in [Clients -> {"runs", "waits"}]
  /\ alive \in [Clients -> BOOLEAN]
  /\ host_funcs \in [Clients -> [Fns -> Graphs \cup {None}]]
  /\ client_mem \in [Graphs -> Nat]
  /\ up \in BOOLEAN
  /\ managed_ptrs \subseteq Entry
  /\ appended \in [Clients -> Nat]
  /\ server_mem \in [Graphs -> Nat]
  /\ write_mutex \in [Clients -> Graphs \cup {None}]
  /\ choice \in [Graphs -> Graphs \cup {None}]
  /\ wire \in [Clients -> Seq(Frame)]
  /\ graph \in [Graphs -> {"exists", "destroyed"}]
  /\ nodes \in [Graphs -> [copy : BOOLEAN, host : BOOLEAN]]
  /\ exec \in [Graphs -> [copy : BOOLEAN, host : BOOLEAN]]
  /\ queued \in [Graphs -> Nat]
  /\ launch \in [Graphs -> Nat]
  /\ phase \in [Graphs -> Phases]
  /\ attempted \subseteq Graphs /\ hosted \subseteq Graphs
  /\ torn \subseteq Graphs /\ sole \subseteq Graphs
  /\ ran \subseteq [graph : Graphs, launch : Nat, sole : BOOLEAN, seen : Nat]

\* The connection's write lock is held by a callback that has returned.
Leaked(c) ==
  /\ write_mutex[c] # None
  /\ phase[write_mutex[c]] \notin {"choose", "send"}

\* Another graph of the same client has a host node with the same function.
SharesFunction(g) ==
  \E h \in hosted : h # g /\ Owner[h] = Owner[g] /\ Fn[h] = Fn[g]

\* A host function sees what its own launch copied, when at the time its
\* callback read managed_ptrs no other graph of any client was left with a copy
\* node, and the function serves one graph: what graphs that were destroyed
\* have left behind does not matter (server.cpp:152-175, 198-211,
\* client.cpp:159-214).
OwnData ==
  \A r \in ran : r.sole /\ ~SharesFunction(r.graph) => r.seen = r.launch

\* The two ways in which clients and graphs harm each other, a connection whose
\* write lock is never released and memory of one client that is sent to
\* another, do not befall a graph that is alone in having a copy node
\* (server.cpp:147-182).
HarmOnlyInCompany ==
  /\ \A c \in Clients : Leaked(c) => write_mutex[c] \notin sole
  /\ \A c \in Clients : \A i \in 1 .. Len(wire[c]) :
       LET f == wire[c][i]
       IN  f.entry # None /\ Owner[f.entry] # c => f.graph \notin sole

\* The server does not fault on an address of a client while the graph exists,
\* whether or not its copy nodes were accepted, and however often it is
\* launched: only on one whose graph was destroyed before its executable graph
\* copied for the first time, or when it read a list that was changing
\* (server.cpp:68-125, 198-229, manual_server.cpp:1127-1135).
ServerSurvives ==
  up \/ torn # {}
     \/ \E g \in Graphs :
          graph[g] = "destroyed" /\ exec[g].copy /\ server_mem[g] = 0

\* Whoever a launch waits for can go on, whatever else is launched meanwhile: the
\* holder of its connection's write lock is a callback of the same client that
\* builds its request, unless it left the lock behind; a request that has no
\* answer yet is on its way to the client; and the client knows the function
\* (server.cpp:134-196, client.cpp:157-168 and 174-241).
LaunchesMove ==
  /\ \A g \in Graphs :
       LET c == Owner[g]
           holder == write_mutex[c]
       IN  up /\ alive[c] =>
             /\ phase[g] = "call" /\ holder # None =>
                  \/ Leaked(c)
                  \/ Owner[holder] = c /\ phase[holder] \in {"choose", "send"}
             /\ phase[g] \in {"choose", "send"} => holder = g
             /\ phase[g] = "sent" =>
                  \E i \in 1 .. Len(wire[c]) : wire[c][i].graph = g
  /\ \A c \in Clients : \A i \in 1 .. Len(wire[c]) : Function(c, wire[c][i]) # None

\* A launch comes to its end, the host function and its response included,
\* unless the server, the client or the connection's lock is lost
\* (server.cpp:134-196, client.cpp:174-241).
LaunchesFinish ==
  \A g \in Graphs :
    phase[g] # "idle" ~>
      \/ phase[g] = "idle"
      \/ ~up \/ ~alive[Owner[g]] \/ Leaked(Owner[g])

=============================================================================
