--------------------------- MODULE UnifiedMemory ---------------------------
(***************************************************************************)
(* Managed memory: cudaMallocManaged gives the program the address of      *)
(* device memory.  The program's first access to a page there faults, and  *)
(* the client's SIGSEGV handler maps anonymous memory at it.  From then on *)
(* there are two copies, at the same address: before a kernel is launched  *)
(* the client copies every region it knows of to the device, and after the *)
(* launch it copies every one back.  A stub of another function does the   *)
(* same with the one region that is its argument.                          *)
(*                                                                         *)
(* Of the contents the model keeps which of the two copies is what the     *)
(* program and its kernels have written last.  Addresses and sizes are any *)
(* numbers.  A call to the server is one action, see RpcConn.  Kernels run *)
(* on the default stream, so that the copy back waits for them.            *)
(***************************************************************************)
EXTENDS Integers, FiniteSets

CONSTANTS
  Threads,   \* threads of the client program
  Regions,   \* regions of device memory that may be allocated
  Base,      \* Base[r], the address of r
  Size,      \* Size[r], its size
  PageSize,  \* of the client's machine
  All,       \* every region
  MaxAllocations  \* bound: how often memory is allocated

ASSUME ConstantsAssumption ==
  /\ Base \in [Regions -> Nat]
  /\ Size \in [Regions -> Nat \ {0}]
  /\ PageSize \in Nat \ {0}
  /\ All \notin Regions

\* A page is a power of two: of its divisors only 1 is odd.
PowerOfTwo(p) == \A d \in 1 .. p : p % d = 0 => d = 1 \/ d % 2 = 0
ASSUME PageAssumption == PowerOfTwo(PageSize)

VARIABLES
  managed,          \* regions allocated by cudaMallocManaged
  plain,            \* regions allocated by cudaMalloc
  unified_devices,  \* the regions the client copies, one for an address
  mapped,           \* pages of the client that are mapped
  current_host,     \* managed regions whose copy at the client is the latest
  current_dev,      \* allocated regions whose copy on the device is the latest
  pc,               \* per thread: where it is in a call
  scope,            \* per thread: the region that the call is about, or All
  at,               \* per thread: the address at which its loop goes on
  up,               \* whether the client program is there
  broken,           \* whether the connection's lock or framing is lost
  failed,           \* whether a call returned an error
  \* history
  written,          \* managed regions the program has written since they exist
  harmed,           \* managed regions of which pages were unmapped since then
  untouched,        \* whether a call was made with a region not written before
  freed,            \* whether a managed region was freed
  overlapped,       \* regions of which two calls were under way at a time
  allocations,      \* how often memory was allocated
  strayed           \* whether a fault's address may have led to other pages

memoryVars == <<managed, plain, unified_devices, mapped, current_host,
                current_dev>>
threadVars == <<pc, scope, at, up, broken, failed>>
historyVars == <<written, harmed, untouched, freed, overlapped,
                allocations, strayed>>
vars == <<memoryVars, threadVars, historyVars>>

Extent(r) == Base[r] .. Base[r] + Size[r] - 1
Page(a) == a \div PageSize
Pages(r) == {Page(a) : a \in Extent(r)}
Allocated == managed \cup plain

\* The bits of x that y has not, x & ~y.
AndNot[x \in Nat] ==
  [y \in Nat |->
     IF x = 0 THEN 0
     ELSE 2 * AndNot[x \div 2][y \div 2]
            + IF x % 2 = 1 /\ y % 2 = 0 THEN 1 ELSE 0]
\* The fault handler's mask, which leads to a multiple of the size only where that
\* is a power of two.  Mutant of Rounded: to a multiple of any size.
RoundedToMultiple(a, e) == a - (a % Size[e])
Rounded(a, e) == AndNot[a][Size[e] - 1]

\* A fault in it may lead to more than one page.
Large(r) == 2 * Size[r] > PageSize
\* The handler does not map it from its first byte on.
Unaligned(r) ==
  Large(r) /\ (Base[r] % PageSize # 0 \/ Rounded(Base[r], r) # Base[r])
Whole(r) == Pages(r) \subseteq mapped \/ Pages(r) \cap mapped = {}
\* Of memory that was freed there is left, where r is allocated, the entry for
\* another address or a mapped page.
MeetsRemains(r) ==
  \/ \E e \in unified_devices :
       Base[e] # Base[r] /\ Extent(e) \cap Extent(r) # {}
  \/ Large(r) /\ ~Whole(r)
\* One of two regions that the handler maps as a whole, and a page of the other.
SharesPages(r) ==
  \E q \in managed :
    (Large(q) \/ Large(r)) /\ Pages(q) \cap Pages(r) # {}
Free == {r \in Regions : \A q \in Allocated : Extent(r) \cap Extent(q) = {}}

Init ==
  /\ managed = {} /\ plain = {} /\ unified_devices = {} /\ mapped = {}
  /\ current_host = {} /\ current_dev = {}
  /\ pc = [t \in Threads |-> "idle"]
  /\ scope = [t \in Threads |-> All]
  /\ at = [t \in Threads |-> 0]
  /\ up = TRUE /\ broken = FALSE /\ failed = FALSE
  /\ written = {} /\ harmed = {}
  /\ untouched = FALSE /\ freed = FALSE /\ overlapped = {}
  /\ allocations = 0 /\ strayed = FALSE

-----------------------------------------------------------------------------
Runs(t) == up /\ pc[t] = "idle"
Goto(t, l) == pc' = [pc EXCEPT ![t] = l]
Leave(t, l) ==
  /\ Goto(t, l)
  /\ scope' = [scope EXCEPT ![t] = All]
  /\ at' = [at EXCEPT ![t] = 0]

\* Threads inside a call that copies, and those that iterate over the entries.
Busy == {t \in Threads : pc[t] \notin {"idle", "spins", "stuck"}}
Iterating == {t \in Threads : pc[t] \in {"push", "fetch", "pull"}}
Within(s) == IF s = All THEN Regions ELSE {s}
About(t) == IF pc[t] = "free" THEN Regions ELSE Within(scope[t])

\* The program does not use a region any more that it frees, nor free one that
\* is an argument of a call under way.
Freeing == {scope[t] : t \in {t \in Threads : pc[t] = "free"}}
NotesOverlap(S) ==
  overlapped' = overlapped \cup (S \cap UNION {About(t) : t \in Busy})

\* allocate_unified_mem_pointer: an entry for the same address is replaced.
WithEntry(r) == {e \in unified_devices : Base[e] # Base[r]} \cup {r}

\* No lock keeps an insertion apart from another thread's loop, which may then
\* skip entries, or end the program.  New memory holds anything: nothing has
\* been written yet that a copy could miss.
MallocManaged(t, r) ==
  /\ Runs(t) /\ ~broken
  /\ allocations < MaxAllocations /\ allocations' = allocations + 1
  /\ r \in Free
  /\ managed' = managed \cup {r}
  /\ unified_devices' = WithEntry(r)
  /\ current_host' = current_host \cup {r}
  /\ current_dev' = current_dev \cup {r}
  /\ written' = written \ {r}
  /\ harmed' = harmed \ {r}
  /\ strayed' = (strayed \/ Unaligned(r) \/ MeetsRemains(r) \/ SharesPages(r))
  /\ untouched' = (untouched \/ \E u \in Busy : scope[u] = All)
  /\ NotesOverlap(Regions)
  /\ \/ \E to \in {Base[q] : q \in Regions} :
          at' = [u \in Threads |->
                   IF u \in Iterating /\ at[u] < to THEN to ELSE at[u]]
        /\ UNCHANGED up
     \/ Iterating # {} /\ up' = FALSE /\ UNCHANGED at
  /\ UNCHANGED <<plain, mapped, pc, scope, broken, failed, freed>>

\* cudaMalloc, and the copy with which the program fills the memory.
Malloc(t, r) ==
  /\ Runs(t) /\ ~broken
  /\ allocations < MaxAllocations /\ allocations' = allocations + 1
  /\ r \in Free
  /\ plain' = plain \cup {r}
  /\ current_dev' = current_dev \cup {r}
  /\ NotesOverlap({r})
  /\ UNCHANGED <<managed, unified_devices, mapped, current_host, threadVars,
                 written, harmed, untouched, freed, strayed>>

\* The SIGSEGV handler takes the first entry that holds the address a, clears
\* bits of a with that entry's size, and asks for memory from there on, to the
\* end of as many bytes as the entry has after a.
Owners(a) == {e \in unified_devices : a \in Extent(e)}
Lowest(S) == {e \in S : \A d \in S : Base[e] <= Base[d]}
NewPages(a, e) ==
  LET from == Page(Rounded(a, e))
      size == Size[e] + a - Rounded(a, e)
  IN  from .. from + (size + PageSize - 1) \div PageSize - 1

\* mmap takes the address as a hint: where a page of the range is in use it maps
\* memory somewhere else, and the access faults again, for ever.
Touch(t, r, a) ==
  /\ Runs(t) /\ r \in managed \ Freeing
  /\ a \in Extent(r) /\ Page(a) \notin mapped
  /\ \E e \in Lowest(Owners(a)) :
       IF NewPages(a, e) \cap mapped = {}
         THEN mapped' = mapped \cup NewPages(a, e) /\ UNCHANGED pc
         ELSE Goto(t, "spins") /\ UNCHANGED mapped
  /\ strayed' = (strayed \/ (Large(r) /\ a # Base[r]))
  /\ UNCHANGED <<managed, plain, unified_devices, current_host, current_dev,
                 scope, at, up, broken, failed, written, harmed, untouched,
                 freed, overlapped, allocations>>

\* The program writes a region all of whose pages it has touched.
Write(t, r) ==
  /\ Runs(t) /\ r \in managed \ Freeing /\ Pages(r) \subseteq mapped
  /\ current_host' = current_host \cup {r}
  /\ current_dev' = current_dev \ {r}
  /\ written' = written \cup {r}
  /\ harmed' = harmed \ {r}
  /\ NotesOverlap({r})
  /\ UNCHANGED <<managed, plain, unified_devices, mapped, threadVars,
                 untouched, freed, allocations,
                 strayed>>

\* cudaFree unmaps the region at the client, where munmap wants the address of a
\* page, and then asks the server to free it.  The entry stays.
\* Mutant of Unmapped: any memory is unmapped, not only managed memory.
UnmappedAnyway(r) == IF Base[r] % PageSize = 0 THEN Pages(r) ELSE {}
Unmapped(r) ==
  UNION {Pages(e) : e \in {e \in unified_devices :
                             Base[e] = Base[r] /\ Base[e] % PageSize = 0}}

StartFree(t, r) ==
  /\ Runs(t) /\ r \in Allocated \ {scope[u] : u \in Busy}
  /\ mapped' = mapped \ Unmapped(r)
  /\ LET gone == {q \in managed : Pages(q) \cap Unmapped(r) # {}}
     IN  /\ current_host' = current_host \ gone
         /\ harmed' = harmed \cup gone
  /\ freed' = (freed \/ r \in managed)
  /\ Goto(t, "free")
  /\ scope' = [scope EXCEPT ![t] = r]
  /\ NotesOverlap(Regions)
  /\ UNCHANGED <<managed, plain, unified_devices, current_dev, at, up, broken,
                 failed, written, untouched, allocations, strayed>>

FinishFree(t) ==
  /\ up /\ pc[t] = "free" /\ ~broken
  /\ managed' = managed \ {scope[t]}
  /\ plain' = plain \ {scope[t]}
  /\ current_host' = current_host \ {scope[t]}
  /\ current_dev' = current_dev \ {scope[t]}
  /\ Leave(t, "idle")
  /\ UNCHANGED <<unified_devices, mapped, up, broken, failed, historyVars>>

-----------------------------------------------------------------------------
(* cudaLaunchKernel copies every region to the device, a generated stub     *)
(* that of an argument; but where the argument is declared NULLABLE, a stub *)
(* copies it back before the call instead, and sends what is then there.    *)

StartCall(t, s, first) ==
  /\ Runs(t) /\ ~broken
  /\ Goto(t, first)
  /\ scope' = [scope EXCEPT ![t] = s]
  /\ at' = [at EXCEPT ![t] = 0]
  /\ untouched' = (untouched \/ ~(managed \cap Within(s) \subseteq written))
  /\ NotesOverlap(Within(s))
  /\ UNCHANGED <<memoryVars, up, broken, failed, written, harmed, freed,
                 allocations, strayed>>

LaunchKernel(t) == StartCall(t, All, "push")
CallWithArray(t, r) == r \in managed \ Freeing /\ StartCall(t, r, "push")
CallWithNullable(t, r) ==
  r \in managed \ Freeing /\ StartCall(t, r, "fetch")

\* The entries that a thread's loop has yet to copy.
\* Mutant of Rest: the loop ends with the entry for the lowest address.
RestOfFirst(t) ==
  {e \in unified_devices :
     /\ at[t] <= Base[e] /\ scope[t] \in {All, e}
     /\ \A d \in unified_devices : Base[e] <= Base[d]}
Rest(t) ==
  {e \in unified_devices : at[t] <= Base[e] /\ scope[t] \in {All, e}}

\* The memory on the device that a copy of e reaches: CUDA refuses one that
\* reaches past the end of what is allocated there.
Reached(e) == {q \in Allocated : Extent(e) \subseteq Extent(q)}
Copyable(e) == Pages(e) \subseteq mapped /\ Reached(e) # {}

\* After e was copied, the regions of which one side has the latest contents:
\* this side's that were not overwritten by older ones, and e itself.
Copied(e, from, to) ==
  {q \in to : q \in Reached(e) => q \in from}
    \cup ({e} \cap managed \cap from)

\* One iteration of cuda_memcpy_unified_ptrs, or maybe_copy_unified_arg.
Push(t) ==
  /\ up /\ ~broken /\ pc[t] = "push"
  /\ \E e \in Lowest(Rest(t)) :
       /\ Copyable(e)
       /\ current_dev' = Copied(e, current_host, current_dev)
       /\ at' = [at EXCEPT ![t] = Base[e] + 1]
  /\ UNCHANGED <<managed, plain, unified_devices, mapped, current_host, pc,
                 scope, up, broken, failed, historyVars>>

Pull(t) ==
  /\ up /\ ~broken /\ pc[t] \in {"fetch", "pull"}
  /\ \E e \in Lowest(Rest(t)) :
       /\ Copyable(e)
       /\ current_host' = Copied(e, current_dev, current_host)
       /\ at' = [at EXCEPT ![t] = Base[e] + 1]
  /\ harmed' = IF pc[t] = "fetch"
                 THEN harmed \cup (current_host \ current_host') ELSE harmed
  /\ UNCHANGED <<managed, plain, unified_devices, mapped, current_dev, pc,
                 scope, up, broken, failed, written, untouched, freed,
                 overlapped, allocations, strayed>>

\* CUDA refuses the copy; or writev or recv meets a page that is not mapped,
\* which leaves a lock of the connection taken or a message cut short.
CopyFails(t) ==
  /\ up /\ ~broken /\ t \in Iterating
  /\ \E e \in Lowest(Rest(t)) :
       /\ ~Copyable(e)
       /\ \/ Pages(e) \subseteq mapped /\ Leave(t, "idle") /\ UNCHANGED broken
          \/ /\ ~(Pages(e) \subseteq mapped)
             /\ broken' = TRUE
             /\ Leave(t, "idle") \/ Leave(t, "stuck")
  /\ failed' = TRUE
  /\ UNCHANGED <<memoryVars, up, historyVars>>

EndLoop(t) ==
  /\ up /\ ~broken /\ t \in Iterating /\ Rest(t) = {}
  /\ \/ pc[t] = "push" /\ Goto(t, "launch") /\ UNCHANGED <<scope, at>>
     \/ pc[t] = "fetch" /\ Goto(t, "send") /\ UNCHANGED <<scope, at>>
     \/ pc[t] = "pull" /\ Leave(t, "idle")
  /\ UNCHANGED <<memoryVars, up, broken, failed, historyVars>>

\* The server executes the call, and the device writes some regions W.
Execute(t, W) ==
  /\ up /\ ~broken /\ pc[t] = "launch"
  /\ scope[t] # All => W \subseteq {scope[t]}
  /\ current_dev' = current_dev \cup W
  /\ current_host' = current_host \ W
  /\ Goto(t, "pull")
  /\ at' = [at EXCEPT ![t] = 0]
  /\ UNCHANGED <<managed, plain, unified_devices, mapped, scope, up, broken,
                 failed, historyVars>>

\* It takes the value of a nullable argument from the request.
Send(t) ==
  /\ up /\ ~broken /\ pc[t] = "send"
  /\ Goto(t, "pull")
  /\ at' = [at EXCEPT ![t] = 0]
  /\ UNCHANGED <<memoryVars, scope, up, broken, failed, historyVars>>

-----------------------------------------------------------------------------
Program(t) ==
  \/ LaunchKernel(t)
  \/ \E r \in Regions :
       \/ MallocManaged(t, r) \/ Malloc(t, r) \/ Write(t, r) \/ StartFree(t, r)
       \/ CallWithArray(t, r) \/ CallWithNullable(t, r)
       \/ \E a \in Extent(r) : Touch(t, r, a)
Progress(t) ==
  \/ Push(t) \/ Pull(t) \/ CopyFails(t) \/ EndLoop(t) \/ Send(t) \/ FinishFree(t)
  \/ \E W \in SUBSET Allocated : Execute(t, W)
Next == \E t \in Threads : Program(t) \/ Progress(t)

Spec == Init /\ [][Next]_vars

-----------------------------------------------------------------------------
TypeOK ==
  /\ managed \subseteq Regions /\ plain \subseteq Regions
  /\ unified_devices \subseteq Regions /\ mapped \subseteq Nat
  /\ current_host \subseteq managed /\ current_dev \subseteq Allocated
  /\ pc \in [Threads -> {"idle", "push", "fetch", "launch", "send", "pull",
                         "free", "spins", "stuck"}]
  /\ scope \in [Threads -> Regions \cup {All}]
  /\ at \in [Threads -> Nat]
  /\ up \in BOOLEAN /\ broken \in BOOLEAN /\ failed \in BOOLEAN
  /\ written \subseteq Regions /\ harmed \subseteq Regions
  /\ untouched \in BOOLEAN /\ freed \in BOOLEAN /\ overlapped \subseteq Regions
  /\ allocations \in Nat /\ strayed \in BOOLEAN

\* While no call is about a region, the host sees in it what it or a kernel has
\* written there last, although each side overwrites the other's whole copy with
\* every call, and whatever was freed or has failed before.  The exceptions are
\* regions that two calls were about at the same time, regions that shared a page
\* with one that was freed, and arguments declared NULLABLE, which lose what was
\* written to them (client.cpp:100-127, 355-386, manual_client.cpp:492-540).
Intact == managed \ (harmed \cup overlapped)
Coherent == Intact \ UNION {About(t) : t \in Busy} \subseteq current_host

\* A kernel finds on the device what was written last to each managed region
\* that the call is about, and to memory of cudaMalloc unless cudaFree has left
\* an entry there, whose host copy then overwrites it with every launch
\* (client.cpp:355-386, manual_client.cpp:500-502).
KernelSeesMemory ==
  \A t \in Threads :
    pc[t] = "launch" =>
      /\ Intact \cap About(t) \subseteq current_dev
      /\ \A q \in plain \ current_dev :
           \E e \in unified_devices \ managed : Extent(e) \subseteq Extent(q)

\* A program that has written every managed region before it calls anything that
\* copies it, and frees none of them before its last call, sees no call fail and
\* keeps its connection, whichever calls of its threads are under way at a time
\* (client.cpp:46-83, 355-386).
CarefulProgramSucceeds == ~untouched /\ ~freed => ~failed /\ ~broken

\* No access to managed memory faults for ever, whatever is allocated and freed:
\* the mask never leads a fault in a region of half a page or less out of its
\* page, of whatever size it is.  A larger region has to begin with a page that
\* the mask of its size leaves alone, to share no page with another, and to be
\* touched at its first byte whenever it is not mapped; and no region may be
\* allocated where the entry for another address, or pages that munmap refused,
\* were left behind (client.cpp:50-64, 372-386).
FaultsAreHandled == (\E t \in Threads : pc[t] = "spins") => strayed

=============================================================================
