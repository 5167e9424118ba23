# A verification project for SCUDA

SCUDA runs CUDA programs against a GPU in another machine. A client library is
preloaded into the program, intercepts the CUDA calls and sends each over a TCP
connection to a server, whose handlers make the real calls. This directory
holds TLA+ models of that system, the TLC configurations that check them and
proofs about them for the TLA+ proof system.

## The system

| Component | State | Operations | Source |
|---|---|---|---|
| RPC transport | one `conn_t` per end: `request_id`, `read_id`, `write_id`, `write_op`, `suppress_response`, two mutexes, one condition variable, a reader thread, the iovec of the frame being built | `rpc_dispatch`, `rpc_read_start`, `rpc_read`, `rpc_read_end`, `rpc_write_start_request`, `rpc_write_start_response`, `rpc_write`, `rpc_write_end`, `rpc_wait_for_response` | `rpc.cpp`, `rpc.h` |
| Server | one detached thread per client, in `client_handler`; `managed_ptrs`, shared by all of them | accept, dispatch, handlers, `invoke_host_func`, graph resources | `server.cpp` |
| Client process | `conns`, `nconns`, `conn_mutex`, `host_funcs`, the map of unified pointers | `rpc_open`, `rpc_close`, the dispatch thread, unified memory, symbol interposition | `client.cpp` |
| Generated stubs and handlers | none of their own | one stub and one handler per CUDA function | `codegen/gen_client.cpp`, `codegen/gen_server.cpp` |
| Hand-written stubs and handlers | the lists of registered functions and fat binaries | memcpy, kernels, graphs, registration, managed memory | `codegen/manual_client.cpp`, `codegen/manual_server.cpp` |
| Batched registration | a buffer of registrations, placeholder handles | append, flush, translate | `codegen/cuda_batch.cpp`, `handle_batch_cuda_register` |
| Fat binary caches | a directory at the client, a map from hash to data at the server | save, load, hit, miss | `codegen/fatbin_cache.cpp`, `codegen/manual_server.cpp` |
| Fat binary parsing | none | `decompress`, `parse_ptx` | `codegen/manual_client.cpp` |
| OpenGL batching | the command buffer, one open command, one connection | append, write, flush, connect | `gl/batch.cpp` |

How they interact. Every stub calls `rpc_client_get_connection`, which flushes
the registrations that are pending and opens the connection if there is none;
it then builds a frame under `write_mutex`, sends it and, unless it set
`RPC_ASYNC_BIT`, waits under `read_mutex` for the frame with the same id. The
server's handler thread reads an opcode and runs the handler, which reads its
arguments, calls CUDA and answers. While a handler is in a CUDA call, CUDA may
call back (`invoke_host_func` in the server): that thread sends a request in
the other direction, over the same socket and the same `conn_t`, and the
client's dispatch thread runs the host function and answers.

What is hard. Up to five kinds of thread share a `conn_t`, and all of them read
one stream item by item, taking turns by the value of `read_id` and trusting
the position in the stream; requests and responses are told apart by the parity
of an id; one flag of the connection says that the next frame is not to be
sent; either process may exit at any time. In the registration code the hard
part is order (registrations before the first use, placeholders before handles)
and the error paths that leave a mutex locked or a frame half read. The hazards
are listed one by one, at their lines, in `PROJECT.json`.

What makes each component correct:

- transport: streams stay aligned; a call is executed at most once, in the
  order sent, and returns once, with its own response; calls return; threads of
  a dead connection come to rest;
- server: one client's behaviour does not disturb another's;
- client process: one connection per server, closed once; host data copied to
  the device before a call and back after it, and never through a freed entry;
- registration: what the server executes is the program's registrations, in
  program order, each once, each with the real handle;
- caches: what is loaded for a hash is what was stored for it;
- OpenGL: the server parses the commands the client appended, no others.

## Modules

| Module | What it is |
|---|---|
| `RpcService` | abstract: calls sent, executed in that order, each returned with its own result |
| `RpcConn` | the connection as the code has it, both ends |
| `RegistrationService` | abstract: the registrations of a program, executed in program order and once |
| `Registration` | batched registration, both fat binary caches, launches; programs and the server may be restarted |
| `HostNodes` | graphs with copies and host functions, `managed_ptrs`, several clients of one server |
| `UnifiedMemory` | managed memory of one client: allocation, faults, copies around calls |
| `GLBatch` | the OpenGL command buffer, its flush, and the server's parsing of it |
| `RpcConn_proofs`, `Registration_proofs`, `HostNodes_proofs`, `UnifiedMemory_proofs`, `GLBatch_proofs` | inductive invariants and proofs |
| `RegistrationKernels_proofs` | proofs about the kernels that clients know |
| `RegistrationService_proofs` | the proof that `Registration` implements `RegistrationService` |
| `RpcService_proofs` | the proof that `RpcConn` implements `RpcService` |
| `MC...` | instances for TLC; those of proved modules extend the proofs, to check the inductive invariant |

The modules are split where the code has an interface. `RpcConn` shows what a
stub may rely on when it makes a call: it is executed once, in order, and
returns with its own result (`RpcService`). The other modules take a call to
the server as one step for that reason, and keep apart only those parts of a
stub that other threads can come between. What goes wrong in `RpcConn` (the
race for `write_id`, the suppressed response) is not repeated in them.

### RpcConn and the code

`Ends` are the two processes. A variable such as `read_id[e]` is the field of
the `conn_t` in process `e`; `readOwner` and `writeOwner` are the holders of
`read_mutex` and `write_mutex`. `wire[e]` is what was sent to `e` and not read:
a sequence of frames, each what one `writev` sends, and `at[e]` the item of the
first one that the next `rpc_read` returns, whoever calls it. Payloads are
abstracted to the call they belong to. `sent`, `executed` and `results` are
history variables.

`pc[t]` is the place of a thread. The application's threads and CUDA's callback
threads are callers:

| `pc` | Code |
|---|---|
| `ready` | before `rpc_write_start_request` |
| `wbuild` | between that and `rpc_write_end` (it holds `write_mutex`) |
| `wret` | in `rpc_write_end`, after the unlock and before `return conn->write_id` |
| `rlock`, `wait` | `rpc_read_start`: about to lock `read_mutex`; in `pthread_cond_wait` |
| `args`, `rend` | reading the response; before `rpc_read_end` |
| `idle` | a callback thread that CUDA has not called |

A dispatcher (the server's handler thread, the client's dispatch thread) is at
`spawn` (`rpc_dispatch`, before it looks for a reader thread), `rlock`, `wait`,
`op`, `flag` (the server, before it sets `suppress_response`), `args`, `rend`,
`exec`, `wlock`, `wbuild`, or `off` (the client's has left its loop). A reader
thread is `off` (there is none), at `rlock`,
`wait` or `recv`, or at `exit` (out of its loop, `rpc_thread` not yet cleared).

Each action is what a thread does between two points where another thread can
tell the difference: what a mutex protects is one step, and what is done without
it (reading `write_id` for the return value, setting `suppress_response`,
looking at `rpc_thread`) is a step of its own. `pthread_cond_broadcast` moves
every waiting thread to `rlock`.

Abstractions, and what they leave out:

- a frame arrives whole; a process that dies leaves what it sent readable and
  nothing else. A stream that ends inside a frame, where `rpc_read` returns 0
  and `rpc_dispatch` goes on with an uninitialised opcode, is not modelled;
- ids are natural numbers and do not wrap around;
- `writev` does not block: the socket buffers never fill;
- one connection: what several clients share is in `HostNodes`;
- the kinds of call (`CallOps`) are representatives of the generated stubs: one
  that waits, one whose handler blocks until host functions have run, one that
  is asynchronous, one whose handler may keep silent, one whose stub may return
  before it sends. A `cudaStreamSynchronize` returns when no callback is under
  way, which is what CUDA promises of host functions enqueued before it;
- the first `rpc_write_end` to a peer that is gone succeeds. A later one raises
  SIGPIPE (`WriteEndBroken`), or is the first to notice the reset and returns an
  error, with `write_mutex` left locked (`WriteEndError`): a stub then returns,
  `client_handler` goes on, and the client's dispatch thread ends. The model
  decides whether it is the first by whether unread frames are left.

### Registration and the code

A user is a client and one of its threads. The dynamic loader runs the
constructor that nvcc generates for each fat binary: `__cudaRegisterFatBinary`,
then its functions and variables, then `__cudaRegisterFatBinaryEnd` (`todo`).
`stub[u]` is the call a thread is in, `pc[u]` where it is: `conn` is
`rpc_client_get_connection`, `flushSend`, `flushed` and `deactivate` the parts
of `cuda_batch_flush_if_pending` (before and after the flush's call to the
server, and the last statement), `query`, `load`, `parse`, `full` those of
`__cudaRegisterFatBinary`, `open` and `write` those of `fatbin_cache_save`.
`back` and `cont` say where a flush and a connection lead. `batch`,
`batch_active` and `inside_fat_binary` are the statics of `cuda_batch.cpp`;
`functions` is the vector of kernels that a launch searches; `handles` are the
fat binaries that CUDA has registered in the server that runs, whose position
is the handle.

The cache file of a fat binary is emptied, then its count is written, then one
record after the other. Two programs write the same file, each at its own
position; a write that fails, or the end of the process, leaves a part.

Abstractions: a hash is the fat binary it is computed from; reading the file is one
step; a kernel's argument sizes belong to its name; the check and the clearing of
`batch_active` in a flush are one step; only fat binaries of the current kind
(`__cudaFatMAGIC2`). `batch_active` is what `cuda_batch_is_active` would return: it
sets it with the buffer's allocation (`cuda_batch.cpp:53-60`), so that a call before
any registration leaves batching on, and is left out. The error returns of
`cuda_batch_flush` (`cuda_batch.cpp:121-161`) are those of a connection that is
gone; nothing is executed for the client any more, since `rpc_open` never opens
another one, and what is left is `ClientRestart` or `ServerRestart`. No client makes
the placeholder handles that the server would replace (`0xFAFBxxxx`), because fat
binaries are never batched; that a real handle looks like one is not modelled.

### HostNodes and the code

`managed_ptrs` is the set of its entries, with their place in it. A graph gets
a copy node (`AddMemcpyNode`: the entry, then CUDA, which may refuse), a host
node (the client remembers the user data for the function's address, then CUDA,
which may refuse), is
instantiated, launched and destroyed. `phase[g]` follows a launch: the copy,
then the callback `invoke_host_func`, which takes the write lock (`choose`),
iterates over `managed_ptrs` (`send`) and sends the request with the memory of
the last entry it met (`sent`); the client's dispatch thread fills its memory,
runs the function and answers. `server_mem[g]` is zero while the client's
address is not mapped in the server; the first copy to it faults, and the
server's SIGSEGV handler maps it if it finds an entry.

What no lock protects is `torn`: a callback during whose iteration the lists
changed may have read any entry, or end the server. `sole` are the callbacks
that read the lists while their graph was the only one left with a copy node.

Abstractions: contents are the number of the launch that produced them; one
copy node's destination per graph, and destinations differ; copies to the
device are left out (in the server they read zero pages that the fault handler
maps); the fault handler's own iteration is one step; a client that exits,
`cudaGraphClone` and a second instantiation are left out.

### UnifiedMemory and the code

Memory has addresses and pages. `unified_devices` are the regions the client copies,
`mapped` the pages that are there. A fault (`Touch`) maps the pages the SIGSEGV
handler computes: it clears in the faulting address the bits of the region's size
less one (`AndNot`), whether the size is a power of two or not, and `mmap` takes the
result as a hint. Instead of contents, `current_host` and `current_dev` say whose
copy is the one the program and its kernels wrote last. A thread in a call is in the
loop over the regions (`push`, `pull`; `fetch` for an argument declared NULLABLE,
which the generated stub copies the wrong way), in the call (`launch`, `send`) or
between `munmap` and the server's part of `cudaFree` (`free`); `spins` is an access
that faults for ever, `stuck` a call that never returns because the framing of the
connection was lost.

What the mask does to sizes that are no power of two, such as the 24, 40 and 400
bytes of `test/unified_pointer.cu` and `test/unified.cu`: it clears bits of the
address anyhow. A region of half a page or less is mapped whatever its size, because
neither the bits cleared nor the bytes asked for lead out of the page of the fault.
A larger one may not be: of three pages at `0x3000` the handler asks for memory from
`0x1000` on, where another region's page may be, and the access then faults for ever.
`Unaligned` says when this can happen, and `FaultsAreHandled` leaves it out.

Abstractions: addresses and sizes are any numbers, the page a power of two; kernels
run on the default stream, so that the copy back waits for them;
an insertion during another thread's loop makes it skip entries or ends the
program; the program does not use a region while it frees it.

### GLBatch and the code

`buffer` is a sequence of bytes, each tagged with the call, the part of the
command (id, size, argument) and its position in the part, so that a reader who
is off by one byte reads something that is recognisably no id. `arg_size_offset`,
`cmd_count` and the sizes are those of `batch.cpp`, with the arithmetic that
wraps where a write did not fit. `allocated`, `init` and `first` are the first
append, which calls `gl_batch_init` outside the mutex.

The server of the OpenGL stream is not in `src/`'s library: `batch.cpp:15-18`
names a `dispatch_gl_batch` that does not exist. The model's server is the loop
of `gl/test/gl_server_minimal.cpp`, with `gl_dispatch`'s check of sizes. Nobody
creates a reader thread for the OpenGL connection, so a thread that has sent a
batch or a synchronous call waits for ever (`wait`), although `batch.h:73-76`
says the flush waits for an answer and returns 0. What is checked is therefore
what each thread gets to the server by its first flush that has something to
send.

Abstractions: memory can be allocated; the stores of `gl_batch_init` are one step
(a thread that appends between two of them is in the race of the first calls, which
`raced` notes and both properties except); a size patched past the largest capacity
is not sent, and the two bytes fall into the rest of the last page of `malloc`'s
block; arguments larger than `UINT16_MAX` cannot come from the generated
scalar stubs.

## Runs

| Run | Instance | Shows |
|---|---|---|
| `threads` | 2 applications, 1 callback, 1 call each, nobody exits or keeps silent | types, alignment, own responses, nothing left unread, no call lost, `RpcService` |
| `exits` | 1 application, 1 callback, 2 calls each, either may exit, a handler may keep silent, a stub may give up | both inductive invariants (own responses are part of the second), no call lost, `RpcService` |
| `live` | 1 application, 3 calls, either may exit, fairness | nothing left unread, asynchronous requests unanswered, calls return, readers stop |
| `race` | 2 applications | `CallsReturn` is violated |
| `async` | 1 application, 1 callback, a graph launch | `NoResponseToAsync` is violated |
| `disconnect` | 2 applications, the client may exit | `ServerOutlivesClient` is violated |
| `libraries` | 1 program, 2 libraries, 2 restarts, 1 launch | three of the inductive invariants, handles, kernels, the end of batching, `RegistrationService` |
| `clients` | 2 programs, one library in common, 1 restart | the two others, kernels when the file is shared, `RegistrationService` |
| `first_use` | 1 program with 2 threads | `BatchingEnds` is violated |
| `host_nodes` | 2 clients with a graph each, 3 entries, 3 launches, fairness | the inductive invariant, own data, the harm graphs do each other, launches move and finish |
| `unified` | 2 threads, 4 regions that share pages and addresses, 2 allocations | the inductive invariant, coherence, what kernels find, careful programs, faults |
| `gl_batch` | 2 threads, 5 calls, a buffer for two short commands or a long one | own arguments, program order |

Why the bounds are enough.

- `RpcConn`: two applications and a callback already hold every lock against each
  other, put requests and responses in both directions on both streams at once,
  and race for `write_id`; a second call of a thread is what a late response or
  a stale id of its first call could be mistaken for, and a third adds only
  numbers. Alignment does not rest on them: it is proved.
- `Registration`: two libraries are what a kernel, a hash or a handle can be
  mixed up between; the second one's constructor begins with a batch of the first
  pending, which is the recursive flush. Two restarts are a program that finds
  the file and the server's cache of an earlier one, and after that a new server
  with the old file. `BatchCap` is larger than any batch, as 256 MB are; with a
  smaller one a dropped registration violates `ImplementsService`, which is what
  the code's silent return amounts to. In `clients` two processes write and one
  reads; with two libraries for each the state space is out of reach.
- `HostNodes`: two entries of the same client before or after one of another
  client's are the orders that the iterations distinguish; two launches of a
  graph tell old data from new. Both clients use the same function's address,
  which is per process. Two graphs of one client with the same function
  (`SharesFunction`) are covered by the theorem, not by this instance.
- `UnifiedMemory`: two regions at a time are enough to share a page, and one after
  the other to be at the same address, to meet an entry or a page that the first
  one left, and to be skipped, overwritten or unmapped for each other. Pages have
  eight bytes. `r1` has two pages, and is mapped as a whole; `r4`, at the same
  address, a page and a byte: the mask leaves that address alone, though it is no
  multiple of nine; `r2`, four bytes, straddles the
  two; `r3`, three bytes on the second, is of a size whose multiples are outside of
  the page. Rounding to a multiple of the size, the mask's purpose, violates
  `FaultsAreHandled` in this instance. No region of it is `Unaligned`; the theorem
  covers those.
- `GLBatch`: a command of one byte and one of two arguments (the arguments of
  `glDepthMask` and `glSampleCoverage`) and a capacity of 17 bytes put the end of
  the buffer at every part of a command: id, size, first and second argument.

`Symmetry` permutes interchangeable threads and is used in safety runs only.
Deadlock is not checked: programs may stop calling, and the states in which the
code does hang are what `CallsReturn` and `LaunchesFinish` are about.

Fairness. `live` and `race`: weak fairness of each thread's steps inside the
library, since the operating system schedules every thread and a pthread mutex
that is free is given to some thread that asks; a thread that competes for it
for ever against others that take turns is not assumed to win, and need not,
because every turn is taken by the thread whose `read_id` it is. An application
need not make another call; a callback thread that CUDA called does.
`host_nodes`: weak fairness of each graph's execution by CUDA, of each handler
thread's response and of each client's dispatch thread; nothing is assumed of
what programs call.

### What the properties say, and their exceptions

Many properties name exceptions. Each is a thing the code does, found by TLC
as a counterexample to the property without it, so that the property is also a
list of what a program must avoid:

- `ReadingGoesOn`: what has arrived at a process that runs is being read, or whoever
  has the turn is awake. Where two threads use the connection a response may stay
  unread because its caller returned the other's id from `rpc_write_end` (`race`);
  where host functions run, also because it is one that should have been
  suppressed (`async`). With one application thread and no host functions there
  is no exception.
- `NoCallLost`: a call that a thread of a process that runs waits for is on the
  stream, in a dispatcher's hands, or answered on the stream; except that of a
  handler that keeps silent, and a host function's request that was taken for a
  suppressed response.
- `NoResponseToAsync` is violated in `async` and holds in `live`, where no host
  functions run: one callback is what it takes.
- `LaunchesMove`: whom a launch of a graph waits for can go on, unless an earlier
  callback left the connection's write lock behind.
- `OwnData`, `HarmOnlyInCompany`: the data of a host function are its own graph's
  only while no other graph, of any client, has or had refused a copy node, or
  shares the function. With company, a callback sends another graph's memory,
  or fails in `writev` on memory that is not mapped and keeps its connection's
  write lock.
- `ServerSurvives`: a graph destroyed while its executable graph has yet to copy
  for the first time ends the server, and so may a list that changes during an
  iteration.
- `Coherent`, `KernelSeesMemory`: regions about which two calls were under way at
  once, regions that shared a page with one that was freed, and arguments
  declared NULLABLE lose what was written to them. Memory of `cudaMalloc` is
  overwritten by every launch if it lies where `cudaFree` has left an entry.
- `CarefulProgramSucceeds`: a call fails, or the connection is lost, once a managed
  region was freed, because its entry stays, or while one was never written,
  because its pages are not mapped.
- `FaultsAreHandled`: an access may fault for ever in a region of more than half a
  page that does not begin with a page, or at an address that the mask of its size
  changes, or that shares a page, or that is touched in the middle first; and in
  one that is allocated over the remains of freed memory: the entry of another
  region, by whose size the handler then masks, or pages of a small region that
  `munmap` refused because it does not begin at a page.
- `LaunchFindsKernel`, `KernelsOfPTX`: a fat binary that could not be decompressed
  once is cached without kernels.
- `OwnArguments`, `ProgramOrder`: two first commands at once lose commands and
  framing; arguments of two threads mix between append and write; batches of two
  threads overtake each other between copy and send; what does not fit is lost.

### Disagreements with the code's own words

1. `race`: `rpc_write_end` reads `write_id` after it unlocked (`rpc.cpp:172-175`).
   Thread A sends request 2 and unlocks, thread B starts request 4, A returns 4
   and waits for a response to request 4; the response to 2 arrives, nobody
   takes it and the connection stands still. `rpc.cpp:156-157` says that the
   function returns the id which can be used to wait for a response. When the
   handler of A's own call keeps silent (`manual_server.cpp:261-263`), A returns
   with the response to B's call instead.
2. `async`: between a graph launch and its handler's `rpc_write_end`, a host
   function of the graph runs `invoke_host_func`, whose own `rpc_write_end`
   finds `suppress_response` set: its request is not sent, the handler's
   response is, and the callback waits for ever. `rpc.h:7` says an asynchronous
   request has no response.
3. `disconnect`: a handler that answers a client that is gone ends the server by
   SIGPIPE. `TODO.md:10-11` lists the server's exit on a disconnect as fixed.
4. `first_use`: two threads make the first calls after registration. One flushes
   with `batch_active` off; the other finds it off, does not wait, and launches;
   the flush ends and turns batching on again (`cuda_batch.cpp:118`, `170`).
   `cuda_batch.cpp:34` says that batching is on before the first call that is not
   a registration.

## Proofs

For every value of the constants, from the assumptions that the modules state
on them (kinds of threads are disjoint, functions have the right domains, sizes
are positive, a page is a power of two; none bounds how many of anything there
are):

| Module | Proved | Obligations |
|---|---|---|
| `RpcConn_proofs` | `Invariance`, `TypeCorrect`, `Alignment`, `MoveInvariance` | 1786 |
| `RpcService_proofs` | `ServiceInvariance`, `OwnResponses`, `Refinement`, `CourseInvariance`, `NobodyStandsStill`, `CallsNotLost`, `AsyncInvariance`, `AsyncUnanswered` | 4355 |
| `Registration_proofs` | `Invariance`, `TypeCorrect`, `RegisteredUnderOwnHandle` | 1358 |
| `RegistrationKernels_proofs` | `KernelInvariance`, `KnowsItsKernels`, `LookupInvariance`, `LaunchesFindKernels` | 2122 |
| `RegistrationService_proofs` | `BufferInvariance`, `BatchingStops`, `OrderInvariance`, `ExecutedInOrder` | 2128 |
| `HostNodes_proofs` | `Invariance`, `SeesOwnData`, `NoHarmAlone`, `Survival`, `WaitsAreForSomebody` | 1159 |
| `GLBatch_proofs` | `TypeCorrect`, `Invariance`, `ExecutesCalls`, `ExecutesInOrder` | 5816 |
| `UnifiedMemory_proofs` | `Invariance`, `HostSeesLatest`, `DeviceSeesLatest`, `CareIsEnough`, `FaultsEnd` | 2299 |

Each `Invariance` is `Spec => []IInv`, and the others follow from it. TLC checks
`IInv` in a run of its own instance as well, but for that of `GLBatch`, whose
`IInv` takes TLC twice as long as the run's properties: it was checked on the
instance of `gl_batch`, all 1.8 million states, and is not part of the run.
`MoveInv`, `CourseInv` and `AsyncInv`, which are proved after the invariants of the
runs and from them, were checked in the same way on the instances of `threads`,
`exits` and `live`.

`RpcConn`. `TypeOK` and `FrameAligned` are not inductive and cannot be proved one
before the other: that an id is an integer depends on the reader being at the
start of a frame, and that depends on every thread having read its frame to the
end. `IInv` adds

- `LockInv`: who is where the program holds a mutex holds it;
- `BuildInv`: the header under construction belongs to the thread that builds
  it, requests have the parity of their sender, and a caller that waits under an
  id of the wrong parity (by the race above, its id may be one of a response its
  own process sent) waits under an old one;
- `OrderInv`: on each stream a request is newer than every request its receiver
  dispatched, and requests are in the order of their ids;
- `TakenInv`: no request was dispatched that was not numbered;
- `StreamInv`: the position in each stream is the one that the holder of
  `read_mutex` relies on.

`MoveInv` is about who may be asleep. `HeldInv` says that `read_mutex` is held by a
thread that reads, `WakeInv` that no thread is in `pthread_cond_wait` while
`read_id` gives it the turn, and `ReaderInv` that a reader thread that is gone has
read to the end of the stream, or that the dispatcher is about to create the next
one. `WakeInv` is the absence of a lost wake-up: all five kinds of thread share one
condition variable, and it holds because every change of `read_id` is followed by
a broadcast under the same mutex, while a waiting caller's id cannot change.

The interesting step is `ReadLock` of a caller. Its id may be wrong by the race,
so it may wait under the id of one of its peer's requests. It still cannot take
such a request for a response: `BuildInv` says the id is at most the latest one
dispatched, and `OrderInv` that a request on the stream is newer. So the race
costs a call, never the alignment of the stream.

`RpcService`. That calls return with their own responses, and that the connection
implements its service, is proved from two hypotheses, for any number of
application threads and calls, with abandoned requests, asynchronous calls and
exits of either process:

- `OneCallback`: CUDA runs the host functions of a process on one thread, as its
  runtime does; with two, `rpc_write_end` gives one of them the other's id in
  the server as well;
- `Responsive`: no handler keeps silent (`cudaGraphAddKernelNode`,
  `manual_server.cpp:261-263`), or the client calls from one thread.

Without either of them TLC finds a call that returns with another's response: two
threads in `cudaGraphAddKernelNode` and `cudaMalloc`, or two callback threads of
which one's request is taken for a suppressed response.

`ServiceInv` numbers the calls of each direction. `NumberInv` says that the id of
the k-th call on a stream is the k-th of its parity (but for a caller whose request
was lost, and which is then alone); `RequestInv` and `ExecutedInv` that the requests
on the stream are exactly the calls sent and not yet executed, in order; `ReplyInv`
that the responses on the stream are in the order of the calls and carry their
payloads. `TicketInv` is the heart: in a process that runs, the id that a caller
returned from `rpc_write_end` may belong to a later call of another thread, never to
an earlier one, and its own call is `Pending` (not executed, in execution, or
answered with the response still on the stream), so that the response to the other
call cannot be the next one; that it is, is preserved by every step but the silent
return of a handler (`PendingKept`). `OwnTurn` draws the conclusion at `ReadLock`:
the response for which a caller leaves the wait is its own, and if its id is wrong
it does not leave the wait. `SentInv` and `ResultInv` give the service's conditions
on `Send` and `Return`.

The connection does not stand still, as far as that is a matter of safety. Two
theorems say so under the same hypotheses, and both are the parts of `CallsReturn`
that no fairness is needed for: `NobodyStandsStill` (`ReadingGoesOn`) that what has
arrived is read or its reader awake, and `CallsNotLost` (`NoCallLost`) that the
answer to a waiting thread's call is still to come. `MoveInv` gives the first one
up to a response at the head of the stream: there somebody must be waiting for it.
That is the call's course, `CourseInv`. A response is read once (`AnswerInv`,
`ReadOnce`), because the calls of a thread are sent in the order it makes them
(`SeqInv`) and it makes one at a time; so a response on the stream has a caller that
waits (`ReaderOfReply`), or is one to an asynchronous call. `LossInv` says that the
call of a thread that waits was sent and is `Pending`, and `SoleInv` that a thread
which has the connection to itself waits for the id of its own, the latest, request:
this is where the exceptions of `ReadingGoesOn` end.

`AsyncUnanswered` needs neither hypothesis, but that no host functions run. The flag
`suppress_response` is then set from `client_handler` to the handler's
`rpc_write_end` whenever the call is asynchronous (`FlagInv`), as nobody else in the
server ends a frame.

`Registration`. A registration is executed with the handle that was stored when
it was called, which may have come from the server's cache, before any number of
flushes. `IInv` says of every place where a handle is kept that it denotes its
own fat binary in the server that runs: the server's cache and the clients'
variables (`HandleInv`), the batch (`BatchInv`), the call a thread is in
(`StubInv`) and those its constructor has yet to make (`TodoInv`). The
interesting steps are the restarts (the server's empties all of these at once)
and the hit without a file, which replaces a handle that the constructor's
remaining calls refer to.

`RegistrationKernels`. That a client knows the kernels of a loaded library as they
are in its PTX is proved for any number of clients, threads and restarts, though
several processes write one cache file at the same time, each at its own position,
and any of them may leave it half written. `KernelInv` says why: the dynamic loader
runs one constructor at a time (`LoaderInv`), so that the kernels from `before` on
are those of the library whose constructor runs (`Latest`, in `KernelsOf`) until its
file is written; hence all who write a file write the same at the same place
(`FileOf`), and a file that has its header and all the records it counts is right,
whoever wrote which of them. `ListOf` and `EndOf` say what a client knows of a
library before, during and after its constructor. The steps that matter are the hit
(`LoadHitKernels`), which appends what the file holds, and the write
(`WriteFileKernels`), for which `Latest` must still hold when other threads of the
process launch kernels meanwhile.

`LookupInvariance` adds that a kernel has its host function or its constructor
has yet to register it (`HostOf`, in `LookupInv`), and `LaunchesFindKernels` follows. It needs `DistinctNames`: no two
kernels of the process have one name. `__cudaRegisterFunction` sets the host function of
every kernel of the name (`manual_client.cpp:944-946`), so that with two libraries
that have a kernel of the same name the first one's host function is forgotten, and
TLC finds a launch that returns with `write_mutex` locked.

`RegistrationService`. Whether a call is batched, sent at once or answered from the
caches, the server executes the calls of a program in program order, each once, and a
launch, or a call that returns a handle, not before those that precede it. This is
proved for any number of programs, restarts and fat binaries from two hypotheses:

- `OneThread`: a program registers and launches on one thread. With two, the flush of
  one leaves batching off for the other, which does not wait for it (`first_use`);
- `BatchFits`: the buffer holds the calls of one constructor. `cuda_batch_append` drops
  what does not fit and tells nobody (`cuda_batch.cpp:97-98`).

`BufferInv` says that the buffer is empty while batching is off, but for the flush that
turned it off, and whenever a thread has its connection; so a registration sent by
itself, a full fat binary and a launch overtake nothing. Its subtle part is that
`cuda_batch_flush` turns batching on again at its end: this is why a registration that
is sent by itself must not be in a flush, and why a launch turns batching off once more
(`Deactivate`). `BatchingStops` follows from it and needs `OneThread` only. `OrderInv`
says where the calls are: those executed, then those in the buffer unless they have
just been executed (`pc` is `flushed`), then the one in its stub (`Pending`), which is
in the buffer already while a batched `__cudaRegisterFatBinaryEnd` saves the kernels
(`Saving`). Each step moves a call from one place to the next. With `OwnHandle`, from
`Registration_proofs`, what the service sees as executed is then a prefix of the
program's calls, and `ExecutedInOrder` maps every step of a thread in a stub to
`Execute` (of no call, if need be), the entry into a stub to `Call`, restarts to
`Restart`.

`HostNodes`. `SeesOwnData` needs that the request on the wire of a callback that
was alone carries its own graph's memory from its own launch (`WireInv`,
`SoleInv`), which holds because the launch that waits for its callback keeps
the memory as it is (`PhaseInv`), the entries are those of graphs with attempted
copies (`EntryInv`, `NodeInv`), and nobody else takes the lock (`LockInv`).
`WaitsAreForSomebody` is the safety part of `LaunchesFinish`: a callback that waits has
its request on the wire until the client's dispatch thread answers it (`SentInv`),
and the function it asks for was remembered before the node was added and is not
forgotten, though another node may have changed its user data (`NodeInv`).

`UnifiedMemory`. `Coherent` speaks of states in which no call is about a region;
`PhaseInv` says what is current on either side in the course of a call, as far
as its loop has come, and `SoloInv` that two calls about a region are noticed.
`ReadyInv` says that what a call has copied to the device it can copy back;
`CarefulInv` is what holds until the program is careless. `FaultInv` is for
`FaultsEnd`: no entry but its own covers a region, and one of more than half a page
is mapped as a whole or not at all. The steps that map and unmap rest on lemmas about
pages: what the handler maps for the first byte of such a region is the region
(`LargePages`), nobody else has these pages (`OwnPages`), and masking in a smaller
one stays in the page (`SmallPages`). They need of the mask that it gives no more than
the address (`AndNotBounds`) and that one by less than a page keeps the page
(`AndNotKeepsPage`), and of the page only that it is a power of two. `AndNot` is a
recursive function, and these two facts are proved by a least counterexample
(`LeastNumber`) instead of an induction theorem. `PlainInv` is for the memory of
`cudaMalloc`: it is the latest on the device until an entry that was left there
overwrites it.

`GLBatch`. Any number of threads append commands with any arguments to a buffer of
any capacity, flush it and send. Two things have to be shown about what arrives: that
the server finds the frames the client wrote, and that calls come in order.

`Framed` says that a frame begins where the one before it ends, that it has the
header of a call of the program, and that its arguments are the call's (`Content`),
or fewer where one did not fit, in which case `gl_dispatch` leaves the command out, or
anything of the right length if another thread came in between. The buffer is looked
at as it would be sent, `Finalized`: the last frame's size grows with each write
(`OpenFrame`). The difficult part is the end of a full buffer. A header that does not
fit may leave nothing, an id alone, or an id whose size is later patched past the
end; an argument that does not fit is skipped while a smaller one after it is
written. `OpenInv` says that an id is a frame or at a place where no frame fits, so
that the server's parser stops there (`NoRoom`), and `Overflow` that a size patched
past the end touches no frame. `Settled` is why a batch stays right once it is
sent: no thread still writes arguments of a command in it, but for those that are
harmed. `PayloadInv` and `MessageInv` say the same of the rest of the server's batch
and of each message, and that no more frames are in it than were counted, so that
the server reaches the last one (`CountInv`).

For the order, a call is in one of a row of places: executed, in the server's batch,
in the k-th message, in a thread's copy, in the buffer (`Stage`, `Copied`,
`InBuffer`). `PlaceInv` says that no call is in two of them and that a call in an
earlier place does not follow one of its own thread in a later one, unless the later
one is exempt: two copies are on their way to the connection at the same time, and
the one that is sent last is overtaken. `CoverInv` says that a call is in a place, in
its thread, or exempt. So when a call is executed (`Executes`), each earlier one of its
thread has been executed or is exempt (`EarlierDone`). The steps that move calls are
the header of a command (`HeaderPlaces`), the flush, the two sends, and the server's
`Receive` and `Dispatch`; the others are `QuietSteps`.

`ExecutesCalls` and `ExecutesInOrder` have one hypothesis, `ArgumentsFit`: all threads
together write no more than `UINT16_MAX` bytes of arguments into one command, as each
leaves its call before it writes of another one. `finalize_open_command` cuts a larger
size off and the server would take the rest for commands. The commands that
`gen_gl_client.cpp` appends have a few scalar arguments, some tens of bytes, so that it
takes a thousand threads to break it; `MCGLBatch` assumes it of the instance, for
TLC to evaluate. `TypeCorrect` does not need it.

Model-checked only: liveness (`CallsReturn`, `ReaderStops`, `LaunchesFinish`), which is
outside the prover. What is proved of it is that nothing is lost and nobody sleeps
through his turn; that each thread then gets there is fairness.

## Not modelled

Most of the repository's lines are generated: 54 000 lines of client stubs,
43 000 of handlers, 17 000 of annotations and 15 000 for OpenGL. They keep no
state and have a handful of shapes; the models take one stub of each shape, and
mapping a definition to thousands of copies of it would say nothing more about
them. The lines with state of their own (`rpc.cpp`, `client.cpp`, `server.cpp`,
`cuda_batch.cpp`, `fatbin_cache.cpp`, `gl/batch.cpp` and the hand-written stubs and
handlers about registration, memory and graphs) are what the modules cover.

- Connection lifecycle. `rpc_open` is called by every stub and does nothing after
  the first time. `rpc_close` leaves `nconns` at -1 and closes one descriptor
  several times; only `nvmlShutdown` calls it, and no call works after it.
- Streams that end inside a frame, an opcode outside the table, ids that wrap,
  more iovec entries than there is room for: single faults with an undefined
  outcome, listed under hazards.
- Parsing of fat binaries (`decompress`, `parse_ptx`): pure functions of what nvcc
  writes; `Registration` has their two outcomes.
- Copies between devices, memory nodes of graphs, streams other than the default
  one.
- Symbol interposition, the code generators, tests, packaging and deployment,
  which keep no state of their own.

What could come next: the composition of `HostNodes` with a client that exits.
