# UDI: a verification project

UDI (Userland Debugger Interface) lets a debugger control a process through a
library that is loaded into the debuggee. This directory models that system in
TLA+, checks the models with TLC and proves theorems about them with TLAPS.
All paths below are relative to `src/`; the Linux build is the one modelled.

## The system

Two libraries talk over named pipes (`docs/DESIGN.md`, `docs/PROTOCOL.md`).

* **libudirt** (C, `libudirt/src`) lives in the debuggee. It takes over its
  signals, and everything it does for the debugger it does inside a signal
  handler, or inside its wrappers of `pthread_create`, `pthread_exit`, the
  thread start routine, `fork` and `sigaction`.
* **libudi** (Rust, `libudi/src`) lives in the debugger: it creates processes,
  sends requests, reads responses and waits for events. **libudi-c** is its C
  interface.

There is one request, one response and one event pipe per process, and one
request and one response pipe per thread. An event stops all threads of the
debuggee; requests are served while it is stopped; the continue request sets it
running.

### Inventory

| Part | State | Operations | Talks to |
|---|---|---|---|
| Breakpoint table (`udirt.c`) | hash buckets of structures: address, saved byte, `in_memory`, owning thread | create, install, remove, remove for continue, delete, find | program text, allocator |
| Trap decoding (`udirt-msg.c:1582`) | `continue_bp`, `last_bp_address`, per thread `single_step`, `single_step_bp` | decode a hit, step over, re-install, single step, report | breakpoint table, events |
| Stopping threads (`udirt-posix.c:805-976`) | `sync_var`, sentinel pipes, per thread `control_thread`, `suspended`, `suspend_pending`, pending event | block others, release others, transfer control | SIGSYS, all threads |
| Thread life (`udirt-posix-pthreads.c`) | thread list, `num_threads`, `dead`, `stack_event_pending` | create, link, report death, destroy | stopping threads, events |
| Signal handler (`udirt-posix.c:428`) | event state, failed memory access | decode, wait for requests, release | everything in libudirt |
| Requests (`udirt-msg.c`) | CBOR reader state | 8 process and 7 thread requests | pipes |
| Start-up (`udirt-posix.c:1313`, `create.rs:52`) | pipes opened so far | open, init request, init response | both libraries |
| Memory access (`udirt.c:77`) | `performing_mem_access`, `aborting_mem_access`, the signal mask, page protections | read, write, grant a page, abort the copy | signal handler, requests |
| Registers, x86 decoding (`udirt-linux-x86.c`, `udirt-x86.c`) | the copied context and its validity | read, write, next instruction | memory access, trap decoding |
| Signal dispositions (`udirt-posix-sys.c`) | table of the program's actions, `pass_signal`, `pipe_write_failure` | set up, `sigaction`, `signal`, pass a signal, give up | signal handler, kernel |
| Allocator (`dlmalloc.c`) | chunks, small bins, tree bins, `dv`, `top`, segments | malloc, free, realloc | mmap, everything in libudirt |
| libudi process and thread | `running`, `terminating`, file contexts, thread list | requests, refresh, wait for events | pipes |
| libudi-c | handle lists, event structures | conversion | libudi |

What is hard here, and what a test hardly reaches: threads that hit breakpoints
at the same time; a thread that steps over a breakpoint while others would run
past it; SIGSYS that arrives late, merges or is not wanted any more; threads
that are created, suspended or die while others stop; structures that are freed
while another pointer holds them; an allocator that fails in the middle of an
operation, or joins and divides chunks in an order no test takes; faults of the
library inside its own handler; signals that are passed on while others arrive. `PROJECT.json` lists these hazards at the lines where they bite,
with the properties that watch them.

## Modules

| Module | Models |
|---|---|
| `Breakpoints` | the breakpoint table, the program text, trap decoding, breakpoint and single step requests |
| `MCBreakpoints` | a small program for TLC to run with breakpoints |
| `BreakpointsProofs` | theorems about `Breakpoints` |
| `StopWorld` | what stopping a multithreaded debuggee promises |
| `StopWorldProofs` | that the promise is kept, for any number of threads |
| `ThreadSync` | how SIGSYS, `sync_var` and pipes implement it; thread creation and death |
| `MCThreadSync` | initial thread lists for TLC |
| `Requests` | one request pipe, item by item: libudi's encoder and the debuggee's decoder |
| `Session`, `MCSession` | libudi and the debuggee joined by their pipes, from the handshake to the cleanup; the requests TLC makes |
| `SessionInvariant` | the inductive invariant of `Session`, and what each action does, in its terms |
| `SessionPipes` | lemmas about pipes, messages and the sets the invariant speaks of |
| `SessionRuntime`, `SessionLibrary` | that the debuggee, and libudi, keep each conjunct of the invariant |
| `SessionProofs` | that the actions do what `SessionInvariant` says, and the theorems about `Session` |
| `MemAccess` | the copy that a fault can abort, and the part of the signal handler that does so |
| `X86` | where an instruction goes, according to `udirt-x86.c` and according to the processor |
| `Inspect` | a stopped thread: requests for memory, registers and the next instruction; composes `MemAccess` and `X86` |
| `MCInspect` | instructions, page layouts and requests for TLC |
| `InspectProofs` | theorems about `Inspect` and `X86` |
| `SignalActions` | who handles a signal: the library's handler, the program's actions, passed signals, failing writes |
| `MCSignalActions`, `SignalProofs` | signals for TLC; theorems about `SignalActions` |
| `TreeBin` | the tree bins of the allocator as operators |
| `Heap` | the allocator; composes `TreeBin` |
| `MCHeap` | sizes for TLC, and the tree bins on their own |

### Breakpoints

`m` holds what the C functions of `udirt.c` read and write: `heap` (the
structures; `live` is FALSE for freed ones), `breakpoints` (a sequence per hash
bucket, for the `next_breakpoint` links) and `text` (a byte is the program's or
`int3`). `create_breakpoint`, `install_breakpoint`, `remove_breakpoint`,
`remove_breakpoint_for_continue`, `delete_breakpoint` and `find_breakpoint` are
operators from one memory to the next, with the names of the C functions.
`delete_breakpoint` empties the bucket when the structure heads it, as
`udirt.c:312` does.

The program is a set of instructions with a flow relation. `Run` executes one;
`Deliver` takes a trap at an `int3`, or another signal if `Signals`. `next[t]`
is chosen when the thread arrives at an instruction: the direction of a branch
is fixed by registers that only the thread changes, and `get_ctf_successor`
computes it from them. An instruction may span two bytes; `RunTorn` is the
execution of one whose second byte was overwritten.

One run of the signal handler, from the moment the thread has stopped the
others to the moment it waits for a request or returns, is one action:
`HandleSignal`, `UnknownTrap`, `SingleStepHit`, `ContinueHit`, `BreakpointHit`.
Each ends in `Finish` (the rest of `signal_entry_impl`: place the next single
step breakpoint, report an error, wait or leave) and `Leave` (step alone, hand
control on, or release). This atomicity is what `ThreadSync` checks: no other
thread executes in between. Requests are `CreateRequest`, `InstallRequest`,
`RemoveRequest`, `DeleteRequest`, `MissingRequest` (no such breakpoint: the code
follows a null pointer), `SingleStepRequest` and `ContinueRequest`.

`user` and `installed` are what the debugger believes, and are read by
properties only (and by `Careful`, below). A use of a freed structure ends in
the mode `undefined`. `get_ctf_successor` is taken to know the way the processor
takes, to fail, or to read a breakpoint as an instruction of one byte; when it
does know the way is a question for `X86`.

`First` and `Without` are written out although the community modules have
similar operators: a module that extends `SequencesExt` takes the prover four
times as long.

### ThreadSync

A thread is a stack of activations of library code (`frames`): the signal
handler, `pthread_create`, the start routine wrapper or `report_thread_death`,
each at one of its blocking points or accesses to shared state. The actions
follow `block_other_threads` (`WinControl`, `SignalOthers`, `Collect`,
`Collected`, or `LoseControl`, `ReportBlocked`, `NoteSuspend`, `Released`),
`signal_entry_impl` (`RaiseEvent`, `DeliverSuspend`, `HandleSignal`), the
requests that matter here (`SetState`, `Continue`, `ContinueFailed`),
`release_other_threads` (`TransferControl`, `Resumed`, `ClearBarrier`,
`ReleaseNext`, `ReleaseDone`, `Unpark`) and thread life (`CallCreate`, `Spawn`,
`SpawnFailed`, `LinkThread`, `ReportCreated`, `Begin`, `Handshake`, `CallExit`,
`Leave`). SIGSYS is a pending flag per thread: a second one merges with the
first, as standard signals do. The handler runs with all signals blocked
(`sigfillset`), and the two reads that are not retried may be interrupted
(`Eintr`). Breakpoints are reduced to `continue_bp`, whether a thread is
stepping over one alone.

What the program and the debugger do is a record `use`, chosen in the initial
state: the threads of the list, those with events, those that create or exit,
those that are suspended and resumed, and whether creation may fail. `Supported`
names the uses the library is up to. The others are explored all the same and
must keep the types: two creators (the one that lost the race for control goes
on as if it had won, `udirt-posix-pthreads.c:474`), a creation that fails, a
creator interrupted by an exit, the exit of the thread at the head of the list
(the list is lost with it), and a thread that is resumed before it has parked
itself (it runs into the next stop).

### StopWorld

Each thread is absent, running, stepping alone, held (with or without an event
of its own) or in command. `ThreadSync` maps to it by `WorldState`; the
property `StopsTheWorld` is `World!WorldSpec`.

### Requests

The pipe holds CBOR data items. `Fields` and `Encodings` are the structures of
`protocol.rs` as serde and ciborium write them: integers in the shortest form
that holds them, a byte slice as an array. Only the value of a one byte integer
is kept, since it is all that a decoder can mistake for a request type.
`send_request` appends one encoding and `read_response` takes one response,
whatever it names, as libudi does.

The decoder is `reader`: the fields of `struct req_data_state`, and `keys`, the
ones stored so far, which only `AllFields` reads. One action consumes one item:
`read_request_type`, or `read_request_data` with the callback that
`item_callbacks`, `request_data_map_start` or `request_data_string` select. The
configurations (`continue_init_config` and the others) are the kinds of item
each key has a callback for. An error that sets `done` (`Refuse`) answers and
leaves the rest of the request in the pipe; one that does not (`Drop`) goes on
reading. `breakpoints` holds the addresses to which the requests have given an
entry in the table: the handlers of install, remove and delete follow a null
pointer for any other (`HandleNull`; `udirt-msg.c:942` tests `bp`, not `*bp`),
the process is killed, and libudi reads the end of the pipe
(`read_response_eof`).

### Session

Messages are whole here, and each has one response: that a memory request is
refused in the middle, and its rest read as new requests, is left to `Requests`.
`opened` holds who has called `open` on each pipe: it
returns once both have. The debuggee's side is `rt` and `threads`: the
handshakes (`create_udi_filesystem`, `RtOpen`, `InitRequest`,
`process_response_fd_callback`, `init_handler`, `ThreadInitRequest`,
`thread_create_response`), the command loop (`HandleRequest`, `RefuseRequest`,
`RefuseSingleStep`, `FailRequest`, `Continue`, `ContinueRefused`) and the events
of the running program (`Stop`, `CreateThread`, `ReportCreate`, `ThreadDeath`,
`Exit`, `Terminate`). libudi's side is `udi`, the call it is in, `process` and
`known`, its `Process` and `Thread` objects: the handshakes (`PollFilesystem` to
`ReadThreadInit`), requests (`AskProcess`, `AskThread`, `continue_process`,
`ReadResponse`, `ResponseEof`) and `wait_for_events` (`ReadEvent`, `Cleanup`).
`udi.told` says that the debugger knows of a stop and has not continued since;
the debugger makes requests only then.

How a stop is brought about is the subject of `ThreadSync`, what a trap means
that of `Breakpoints`; here a stop is an event and a command loop.

What may go wrong is a set of faults that is chosen in the initial state, and
each property names the faults it does not survive: `late` events after that of
the exit, a `silent` stop, an `unknown` signal, a single `step` breakpoint that
cannot be placed or deleted, a failing allocation (`memory`), a process that is
`killed`, a `reckless` debugger that continues with all threads suspended.

### MemAccess and Inspect

`MemAccess` is `udi_memcpy` with its hooks. A copy proceeds one byte at a time
(`abortable_memcpy`); a byte on a page that does not permit the access is a
fault, which enters the signal handler again: it makes the page accessible and
resumes the copy, or sets `aborting_mem_access` and moves the copy to its
`abort_label` (`copy.cut`), where it returns what the flag says. What the
pages permit (`prot`), the contents (`byte`), the two flags, the saved
`si_code` and whether the fault signals are let through (`open`) are the state.
A page may be mapped or not, readable, writable, neither, or lie past the end of
its file.

`Inspect` is the thread around it: it is stopped (`Stop` copies its context), is
asked to read or write memory (`Read`, `Write`, `ReadUnallocated`) or a register
(`ReadRegister`, `WriteRegister`), for its next instruction
(`NextInstruction`, which reads the stack for a `ret`) or to be stepped
(`SingleStep`, whose breakpoint is written by the handler: `Planted`), and is
continued. `Fault` is the nested run of the handler, with what it does to
`event_state`: it invalidates the context of the stop, which is why a register
cannot be read after a fault. If the thread is single stepped, the nested
handler also places a breakpoint behind the instruction of the library that it
returns to, unless the table has an entry there. Entries of earlier faults stay,
and the debugger may make and delete some, so both are always possible
(`Handled`, `Stepped`). Installing the breakpoint copies a byte itself, with the
flags of the copy it interrupts. After an abort its read consumes
`aborting_mem_access`, fails, and nothing is planted; the interrupted copy finds
the flag clear at its `abort_label` and returns success, with the bytes behind
the fault not copied (`request.lost`, `Uncopied`). Otherwise the breakpoint is
planted in `abortable_memcpy` and the thread runs into it (`Planted`), or a hook
fails and the copy goes on with `performing_mem_access` clear, so that its next
fault is taken for one of the program (`FaultUnmarked`). The error event that
the failed installation writes is left out. `live` is the context the kernel restores,
`context` the copy the requests read and write.

### X86

Operators only: `ctf_condition_met`, `compute_target` and `get_ctf_successor` of
`udirt-x86.c` on the record the disassembler leaves,
beside `Taken` and `Executes`, which say what the processor does with the same
instruction. `Decodable` names the branches on which both agree: a signed
condition is decoded wrongly when SF and OF are both set (masked values are
compared with each other), and a branch on CX or ECX when the register is zero
only in that part (the whole register is tested).

### SignalActions

`kernel`, `pending` and `blocked` are the kernel's; `app_actions` is the table of
`udirt-posix-sys.c`. The actions are `Setup`, the program's calls (`Sigaction`,
`SigactionUnknown` for a signal without an entry, `Block`, `Raise`, `LongJump`),
`Deliver` to the handler the kernel has, `signal_entry_impl` (a stop, the passing
of a signal, a SIGPIPE of the library), `Continue` with or without a signal,
`WriteFails`, `LogFails`, `LogBreaks` (a log that stays broken: the handler logs
before it clears `pipe_write_failure`, `udirt-posix.c:436`, and recurses),
`Return` and `udi_abort`. `frames` are the handlers
entered and not yet left, with the mask each one restores. `intended`, `own`,
`leaked` and `ran` are histories: what the program asked for, and what was
called.

### TreeBin and Heap

`TreeBin` has `insert_large_chunk`, `unlink_large_chunk` and the searches of the
tree bins as recursive operators on tries. `Heap` is `dlmalloc.c` as
`udirt-malloc.c` builds it: one call of `malloc`, `free` or `realloc` is one
action, with every outcome of mmap, mremap and munmap. `heap.tag` holds the
heads and feet of all chunks, keyed by address and counted in words, so that
joining and dividing is the arithmetic of the code. One call at a time is how the
library calls it with all other threads stopped; it is built without locks
although `wrapped_start_routine` frees its context (`udirt-posix-pthreads.c:431`)
while another thread may be in the library.

## Runs

Passing runs:

| Run | Instance | Shows |
|---|---|---|
| `bp_threads` | 2 threads, loop of 4 instructions with a way to `exit()`, breakpoints at 1 and 3 | `TrapExplained`: an int3 is always found in the table, with the original byte; `ArmedWhenRunning`: no thread runs past an installed breakpoint; `BreakpointsKept`: the table does not lose the debugger's breakpoints to the library's own; `HitsReported`: hits are reported exactly where the debugger has breakpoints; with weak fairness `Rearmed`: a breakpoint that is stepped over goes back into the text |
| `bp_step` | 1 single stepping thread, breakpoints at 1, 3 and an unmapped address | `NoAbort`: no unexplained trap and no freed structure; `StepGuarded`: a step executes one intact instruction |
| `bp_faults` | 2 threads, one of them stepped, 3 buckets, 3 structures, one undecodable instruction, signals anywhere, any request | `TypeOK`, `TableSound`, `StepsOwned`: no thread reports the steps of another; reaches the failure branches of every handler |
| `ts_world` | 6 uses of 3 threads: stops and steps, exits, creation with suspended threads, and the unsupported ones; weak fairness | `StopsTheWorld`: refines `StopWorld`; `NothingLeft`: no sentinel and no lock survives a stop; `SuspendedStays`; `AllKnown`: the list is complete and the process stays up; `StopCompletes`: a stop completes and an event is reported |
| `rq_stream` | every request, with integers of every width, on a process or a thread pipe | `Framed`: the debuggee accepts every request of libudi but the memory ones, and after each exchange both sides stand at a message boundary; `AllFields`: no handler runs before all its fields are stored; `Answered`: every request but the memory ones and those for an address without a breakpoint |
| `ses_faults` | 2 threads, one created by the other, 5 kinds of request, 8 sets of faults | `StopAgrees`, `ThreadsAgree`: what libudi believes of stops and threads, and the states it shows, are what the debuggee does; `ResponseFits`: each request gets its own response; `Started`: the handshakes find their pipes and end; `Answered`, `Reported`, `CleanedUp`: no side waits for the other forever |
| `ins_access` | 2 pages of 2 bytes in every layout of protections; every conditional branch with every flags register, jumps and calls of every operand, a `ret`; allocations and signal masks that fail | `AccessExact`: a copy moves what was asked, however often it faults; `AccessClosed`: its flags and its mask do not outlive its request; `RegistersKept`: registers shown are those of the stop; `FailureExplained`: the reason given is the right one; `NextTrue`: the next instruction is where the processor goes; `AccessEnds` |
| `sig_actions` | HUP, ABRT and PIPE of the table and a signal without an entry, three actions, two masks, handlers two deep, writes that fail | `InControl`: the library keeps every signal of its table and the program's actions apart; `MaskKept`: no signal stays blocked or open; `Restored`: all but SIGABRT is given back when the library gives up; `PassEnds`: a passed signal ends the passing |
| `heap` | 3 pages of 20 words, requests of 2 to 14 words, 3 blocks, calls to the kernel that fail; tree bins with 4 chunks of 6 sizes | `WellFormed`: chunks tile segments, boundary tags agree and all memory is accounted for; `Binned`: every free chunk is in its bin, once; `BlocksHeld`: blocks are large enough, mapped and disjoint; `BestFit`: a search finds the smallest chunk that fits; `NoCorruption`: no legal sequence of calls fails the allocator's own checks |

Runs in which the code and the repository's own words disagree
(`findings` in `PROJECT.json` quotes them):

| Run | Violated | Because |
|---|---|---|
| `bp_adjacent` | `HitsReported` | a breakpoint at the successor of another one is consumed as the continue breakpoint (`udirt-msg.c:1679`) |
| `ins_write` | `RegisterWritten` | a register is written into the handler's copy of the context, which nothing copies back (`udirt-msg.c:1342`) |
| `sig_passed` | `PassedRight` | a passed signal is handled by the first action of the table, that of SIGHUP (`udirt-posix-sys.c:408`) |

Some properties name what they except, in their comment or in a definition of
its own: `NoMemory` (the memory requests have a callback for one width of
integer only, so libudi's shortest encoding is refused and the rest of the
request is read as new requests), `Endless` (a copy whose fault the handler
answers without granting the page it needs faults for ever), `Predictable` and
`Decodable` (what the decoder gets wrong), `leaked` (the wrapper of `sigaction`
returns with all signals blocked for a signal without an entry), `Dangling` (a
request for an address without a breakpoint kills the process), `request.lost`
(an access that was aborted succeeds while the thread is single stepped), SIGABRT
in `Restored` (`udi_abort` gives it its default action to "avoid any user
handlers", `udirt-posix.c:101`, and `disable_debugging` puts the program's back
before `abort()`, so the handler does run), the faults of `Session`, and
`Supported`. Each exception is an unwelcome behaviour that the
models show when the exception is taken out, and stands in `PROJECT.json` with
the hazard it belongs to.

Other behaviours met on the way are recorded as hazards with a note: the error
event for a thread at the single step breakpoint of another one, whose continue breakpoint is then
left out of the text so that the thread goes on alone; a removal that leaves
int3 behind after a signal during a step; a bucket of breakpoints lost with its
head; two SIGSYS that merge and leave the control thread waiting; a refused
continue request that continues; a SIGSEGV of the program that stops it without
an event; and the response of the last continue, which libudi does not read.

### Bounds

* **Two threads for breakpoints.** A step over a breakpoint involves the
  stepping thread and one that would run past; a third adds no new role.
* **Three threads for stopping.** One in control, one that lost the race and
  holds an event, and one that is only forced to stop: the three ways through
  `block_other_threads`. The uses that create start with two.
* **Structures.** Each thread can own a continue or single step breakpoint, so
  the runs that assume an allocator that works have as many structures as
  breakpoints can exist at a time; `bp_faults` has fewer, so that it fails.
* **Addresses.** The program has a conditional branch, a two byte instruction
  and a call of `exit()`. With 10 buckets no addresses collide, with 3 they do.
* **`MaxSentinel`** bounds the sentinels in a pipe, which the code leaves to the
  pipe's capacity.
* **Requests.** `Byte` has three values: one that is no request type, one of a
  process request with data and one of a memory request; wider integers have no
  value that is a request type. The bytes and the wider integers are the
  addresses of breakpoints too.
* **Session.** Two threads are enough for one that creates, dies or is suspended
  beside another. `MCAsks` has one request of each way through libudi: with
  and without data, with an effect on the thread, and one that may be refused or
  fail. Sessions in which single steps fail do without the `state` request: the
  two sides lose each other there, no property speaks of the states read then,
  and the states in stale responses would triple the number of states. `MaxQueue` bounds the events and responses that a session with late
  events may pile up. Thread ids are not reused.
* **Inspect.** Two pages are enough for a copy that crosses from one page to
  another, and two bytes for one that faults in the middle of a page. The widths
  2, 4 and 4096 of `X86` keep what matters of 16, 32 and 64 bits: a register may
  be zero in its low part only. Flags are complete.
* **SignalActions.** SIGHUP is the first entry of the table, SIGABRT and SIGPIPE
  are those the library treats specially; `MaxDepth` bounds the handlers entered
  and the signals pending, and two are enough for a handler that interrupts
  another.
* **Heap.** A page of 20 words holds several small chunks and one large one;
  three pages allow regions before, after and apart from each other, and one
  chunk mapped by itself. `TREEBIN_SHIFT` is 3 instead of 5, so that large
  chunks exist on such pages; `MmapThreshold`, `TrimThreshold` and
  `ReleaseRate` are small enough to be crossed. Of `prepend_alloc` the branch in
  front of `dv` is not reached here; it is with pages of 24 words, sizes 3, 9
  and 19 and thresholds of 10 and 20, where nothing is violated either. Trees of
  some depth need more memory, so `MCHeap` studies the bins on their own too.
* Breakpoint structures other than the exit breakpoint are interchangeable and
  are a symmetry set in runs without liveness.

`Careful` narrows the debugger, not the library: in `Breakpoints` it names only
breakpoints it created and creates none while a single step breakpoint is set;
in `ThreadSync` it does not continue a process all of whose threads are
suspended. `bp_faults` and the theorems do without it.

### Fairness

`Breakpoints!FairSpec` lets each thread execute and the debugger continue a
stopped process. `ThreadSync!FairSpec` lets each thread take the library's next
step, which the kernel's scheduler guarantees for a thread that is not blocked,
and the debugger continue; nothing obliges a thread to raise events, create
threads or end, nor the debugger to resume a thread. `Requests!FairSpec` lets the
decoder read what is in the pipe and libudi read its response or the end of its
pipe, all of which are blocking reads. `Session!FairSpec` does so for both libraries, lets a process
that is continued after `exit()` end, and libudi's blocking read of a
terminating process see that, with one condition for each side, since the two
kinds of step of a side are never enabled together; what the program does, and
what the debugger asks, is not fair. `Inspect!FairSpec` lets the thread in the handler run on.
`SignalActions!FairSpec` delivers signals that are not blocked and lets the
library go on; that every handler of the program returns, however often it is
interrupted, is strong fairness, an assumption on the program and not on the
library.

Deadlock is not checked: a debuggee may end, be aborted, or have all its
threads exit, and then nothing happens any more. That a stop does not hang is
what `StopCompletes` says. The allocator never stops: `heap` checks deadlock.

## Proofs

`BreakpointsProofs` proves, for every program, allocator, hash size, set of
threads and debugger (`ConstantsAssumption` in `Breakpoints`):

* `TypeCorrect`: `Spec => []TypeOK`;
* `TableAlwaysSound`: `Spec => []TableSound`, that no walk of the hash table
  reaches a freed structure or finds two structures for one address.

Neither is inductive alone: what `find_breakpoint` returns has its type because
chains hold structures, and a chain stays sound because a structure that is
linked is live, so `udi_malloc` does not return it again. `Inv`, their
conjunction, is inductive (`Invariance`). The lemmas follow the code: what
`First`, `Without` and `find_breakpoint` return; that `create_breakpoint`,
`install_breakpoint`, `remove_breakpoint`, `delete_breakpoint` and `reinstall`
map sound memories to sound memories; that `Finish` and `Leave` establish the
invariant from a sound memory; then one step per action of `Next`.

It also proves `StepsAreOwned`: `Spec => StepsOwned`, from the same
assumptions. A thread that is no longer stepped may keep its pointer, because
`single_step_handler` forgets it only when `delete_breakpoint` found the
structure. The invariant `Owned` says that such a structure is lost: allocated,
and in no chain. `Keeps` says that an operation on the table finds no lost
structure and frees none; every operator has its lemma (`DeleteKeeps` also
shows how a structure is lost), and `HandlerOwned` follows each run of the
handler.

`StopWorldProofs` proves `WorldStopped`: `WorldSpec => []OneCommands`, for any
set of threads. That `ThreadSync` implements `WorldSpec` is model-checked.

`InspectProofs` proves `AccessIsExact`, `AccessIsClosed`, `RegistersAreKept`,
`FailuresAreExplained` and `NextIsTrue` for every page size, memory, program,
width of the registers and set of requests. `MemoryAssumption` and
`InspectAssumption` give types, and say that the requests name modelled memory;
a stack pointer may point outside of it, which counts as unmapped. The
invariant adds to the first three properties `CopyOfRequest`: a copy in progress
is that of the request being served, what it has read so far is what memory
holds, memory is the old one with the bytes written so far, and a copy at its
`abort_label` has `aborting_mem_access` set or belongs to a thread that is single
stepped. `Blamed` adds that, while a copy is being aborted, `failed_si_code` is that of the byte it is
at and not of an earlier failure; `NextInv`, that the copy made for a `ret` reads
the word that the processor will. `NextIsTrue` rests on `ConditionRight`: for
every flags register and every counter `ctf_condition_met` decides like the
processor on the branches of `Decodable`.

`SignalProofs` proves `StaysInControl` (`Spec => []InControl`),
`MaskAlwaysKept` (`Spec => []MaskKept`) and `ActionsRestored`
(`Spec => Restored`) for any table of distinct signals that has SIGABRT and
SIGPIPE, any actions and masks (`SignalAssumption`). `Restored` speaks of
initializations that fail, too. The invariant adds that
nothing is installed before `Setup`, and that a stop has a frame to return to;
for the mask, that the handler entered first holds the mask of the program.

`SessionProofs` proves `ResponsesFit`, `StopsAgree` and `ThreadsAlwaysAgree`, which are
`Spec => []ResponseFits`, `Spec => []StopAgrees` and `Spec => ThreadsAgree`: for
any set of threads, requests, bound on the pipes and sets of faults
(`FirstAssumption`, `FaultsAssumption`, and `ProcAssumption`, that no thread is
called like the channel of the process). None of the three is inductive, since
each depends on where the other side is when a message is read. The invariant
`IInv` has, besides the types, one conjunct for each thing they rely on:

* `Handshake`: how far the two sides are apart while they connect;
* `Books`: libudi has every live thread open, or is about to;
* `Queue`, `Exits`: the thread of an event on its way is one libudi has open, a
  creation is the last event and is being waited for, a death is the last event
  of its thread, and the exit the last of all;
* `Matched`: a channel holds at most one message, and it is the request libudi
  waits to have answered or the response to it;
* `Control`: from the time the debugger is told of a stop to its continue, the
  debuggee is in its command loop;
* `Leftover`, `Private`: the response libudi may leave behind is that of the last
  continue, and the channel of a thread holds nothing left behind;
* `Settings`, `Refreshed`: what libudi holds of single stepping, and a state
  response on its way, are what the threads have.

Most of these, like the properties, name the faults they do not survive.
An action changes few variables and many of the sets that the conjuncts speak of.
So `SessionInvariant` says, in `Did<action>`, what each action does to both, and
`RtMoves` and `UdiMoves` gather those of the two sides. `SessionRuntime` and
`SessionLibrary` prove for each conjunct that such a step keeps it
(`BooksRuntime`, `BooksLibrary` and so on), with one step for each action or for
a group of actions that leave what it speaks of alone (`Quiet`, `Aside`, `Still`).
`SessionProofs` proves that the actions do what is said (`EffCreate` and so on,
`RuntimeMoves`, `LibraryMoves`), that `IInv` is inductive (`Inductive`), and that
it implies the properties (`NextLocated`, `StoppedThreads`, `StateRead`).
The lemma `Untyped` says nothing about the system: citing it keeps the SMT
backend from inferring types, which these long obligations make slow.

### Only model-checked

* Liveness, which is out of the prover's reach, and with it all of `Started`,
  `Answered`, `Reported`, `CleanedUp`, `Rearmed` and the like.
* That `ThreadSync` implements `StopWorld`, and `AllKnown`, `NothingLeft` and
  `SuspendedStays`. An inductive invariant would have to say what is in every
  pipe and which signals are pending for each combination of the places where
  the threads may be; it has not been written.
* `TrapExplained`, `ArmedWhenRunning`, `BreakpointsKept`, `NoAbort`,
  `HitsReported` and `StepGuarded`, which are not theorems: each is violated with
  the constants of `bp_faults`, where addresses collide, allocations fail and the
  debugger is not `Careful`. They hold for the instances of the other runs.
* `Framed` and `AllFields` of `Requests`, for the messages that `rq_stream`
  enumerates.
* The allocator, whose trees and folds over memory are recursive.

## Not modelled

* libudi-c converts values and calls libudi once per function; it has no state
  or protocol of its own to go wrong in an interleaving.
* The Windows runtime consists of stubs for most operations, and the Darwin port
  differs in the layout of registers.
* Wording of messages, logs and errors; environment variables, file names and
  exec in the creation of a process.
* udis86 and libcbor are external: an instruction is the record udis86 leaves,
  and a stream the items libcbor cuts it into. The kernel is external too:
  signals, pipes, mmap and mprotect do what the code relies on.
* `fork`: the child is not debugged, the reinitialization is a TODO of the code.
* libudi with several processes: `wait_for_events` polls their pipes, and the
  processes share nothing.
* Of `dlmalloc.c`: mspaces, memalign, bulk and statistics functions, which
  libudirt does not call, and sizes that wrap.
* In `Session` a process is killed only while it runs, and writes to pipes do not
  fail there; `SignalActions` models failing writes from the side of the
  library.
