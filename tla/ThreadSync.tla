----------------------------- MODULE ThreadSync ------------------------------
(***************************************************************************)
(* How libudirt stops and releases the threads of the debuggee             *)
(* (udirt-posix.c, udirt-posix-pthreads.c).  A thread with an event of its *)
(* own, a thread in pthread_create and a dying thread all compete in       *)
(* block_other_threads for thread_barrier.sync_var.  The winner forces the *)
(* others into the signal handler with SIGSYS, collects one sentinel from  *)
(* each through a pipe, executes the debugger's requests, and then hands   *)
(* control to another thread with an event or releases the others through  *)
(* their control pipes.                                                    *)
(*                                                                         *)
(* A thread is a stack of activations of library code: pthread_create, the *)
(* start routine wrapper and report_thread_death run on the thread's own   *)
(* stack, and the signal handler may interrupt the first two.  Breakpoints *)
(* are reduced to whether the thread in control steps over one alone.      *)
(***************************************************************************)
EXTENDS Naturals, Sequences, FiniteSets

CONSTANTS
    Thread,       \* the threads there can be
    Uses,         \* what programs and debuggers do, one of them in a behaviour
    MaxSentinel   \* bound on the sentinels in a pipe

\* initial: the thread list at the start, a sequence without repetition
\* active, creators, leavers: the threads that raise events (signals of their
\*   own), call pthread_create, exit
\* suspendable, resumable: the threads the debugger suspends and resumes
\* stepping: events may leave a breakpoint to step over
\* careful: the debugger does not continue when all threads are suspended
\* faults: real_pthread_create may fail
Use == [initial: Seq(Thread), active: SUBSET Thread, creators: SUBSET Thread,
        leavers: SUBSET Thread, suspendable: SUBSET Thread,
        resumable: SUBSET Thread, stepping: BOOLEAN, careful: BOOLEAN,
        faults: BOOLEAN]

ASSUME ConstantsAssumption ==
    /\ Uses \subseteq Use
    /\ \A u \in Uses :
         /\ u.initial # <<>>
         /\ \A i, j \in DOMAIN u.initial : u.initial[i] = u.initial[j] => i = j
    /\ MaxSentinel \in Nat

VARIABLES
    use,          \* the use of the behaviour
    threads,      \* the thread list
    num_threads,
    thr,          \* the thread structures
    sync_var,     \* thread_barrier.sync_var
    barrier,      \* sentinels in the barrier's pipe
    control,      \* sentinels in each thread's control pipe
    sigsys,       \* SIGSYS is pending for the thread
    frames,       \* the library's activations on the thread's stack
    life,         \* whether the thread exists
    continue_bp,  \* a breakpoint is being stepped over
    process       \* the process runs, was aborted, or followed a null pointer

vars == <<use, threads, num_threads, thr, sync_var, barrier, control, sigsys,
          frames, life, continue_bp, process>>

\* struct thread_struct.  signal is event_state.signal: none, SIGSYS, or a
\* signal of the thread's own.
ThreadStruct == [control_thread: BOOLEAN, suspended: BOOLEAN,
                 suspend_pending: BOOLEAN, signal: {"none", "sys", "event"},
                 stack_event_pending: BOOLEAN, dead: BOOLEAN]

\* An activation: which function it is, how far it has come, the signal being
\* handled, a count of sentinels or list positions left, and whether a system
\* call that is not retried was interrupted.
Frame == [in: {"signal", "pthread_create", "start", "death"},
          at: {"enter", "notify", "collect", "lost", "counted", "blocked", "handle",
               "command", "release", "releasing", "waiting", "parked",
               "spawn", "handshake", "link", "report", "begin"},
          sig: {"none", "sys", "event"}, n: Nat, eintr: BOOLEAN]

-----------------------------------------------------------------------------

InList(t) == \E i \in DOMAIN threads : threads[i] = t

Listed == {t \in Thread : InList(t)}

NewThread == [control_thread |-> FALSE, suspended |-> FALSE,
              suspend_pending |-> FALSE, signal |-> "none",
              stack_event_pending |-> FALSE, dead |-> FALSE]

Call(function, location, signal) ==
    [in |-> function, at |-> location, sig |-> signal, n |-> 0, eintr |-> FALSE]

Up == process = "up"

Top(t) == Head(frames[t])

\* The signal handler runs with all signals blocked, and so does
\* report_thread_death.
Masked(t) == frames[t] # <<>> /\ Top(t).in \in {"signal", "death"}

\* t is executing library code at the given place; a pending signal that it
\* does not block comes first.
IsAt(t, location) ==
    /\ Up
    /\ frames[t] # <<>>
    /\ Top(t).at = location
    /\ sigsys[t] => Masked(t)

Goto(t, location) ==
    frames' = [frames EXCEPT ![t] = <<[Head(@) EXCEPT !.at = location]>> \o Tail(@)]

Return(t) == frames' = [frames EXCEPT ![t] = Tail(@)]

\* t executes the program's code.
Executes(t) == life[t] = "alive" /\ frames[t] = <<>>

get_multithreaded == num_threads > 1

single_thread_executing == continue_bp

udi_abort == process' = "aborted"

\* The frames of t under a signal handler: a read of handshake_with_thread or
\* release_other_threads that is interrupted is not retried.
Interrupted(t) ==
    IF frames[t] # <<>> /\ Top(t).at \in {"handshake", "waiting"}
    THEN {frames[t], <<[Top(t) EXCEPT !.eintr = TRUE]>> \o Tail(frames[t])}
    ELSE {frames[t]}

-----------------------------------------------------------------------------
(* signal_entry_impl up to block_other_threads.                            *)

\* The handler is entered on top of the frames under; the thread's structure
\* is not used when only one thread executes.
SignalEntry(t, signal, under) ==
    \/ /\ single_thread_executing
       /\ frames' = [frames EXCEPT ![t] = <<Call("signal", "handle", signal)>> \o under]
       /\ UNCHANGED thr
    \/ /\ ~single_thread_executing
       /\ thr' = [thr EXCEPT ![t].signal = signal]
       /\ frames' = [frames EXCEPT ![t] = <<Call("signal", "enter", signal)>> \o under]

\* A signal of the thread's own: a trap, a fault, or a signal sent to it.
RaiseEvent(t) ==
    /\ Up
    /\ t \in use.active
    /\ Executes(t)
    /\ IF single_thread_executing \/ InList(t)
       THEN SignalEntry(t, "event", <<>>) /\ UNCHANGED process
       ELSE process' = "crashed" /\ UNCHANGED <<thr, frames>>
    /\ UNCHANGED <<use, threads, num_threads, sync_var, barrier, control, sigsys,
                   life, continue_bp>>

\* SIGSYS is delivered; it is ignored when the thread had already stopped for
\* another reason.
DeliverSuspend(t) ==
    /\ Up
    /\ life[t] = "alive"
    /\ sigsys[t]
    /\ ~Masked(t)
    /\ sigsys' = [sigsys EXCEPT ![t] = FALSE]
    /\ \E under \in Interrupted(t) :
          IF ~InList(t) \/ thr[t].suspend_pending
          THEN /\ thr' = [thr EXCEPT ![t].suspend_pending = FALSE]
               /\ frames' = [frames EXCEPT ![t] = under]
          ELSE SignalEntry(t, "sys", under)
    /\ UNCHANGED <<use, threads, num_threads, sync_var, barrier, control, life, continue_bp,
                   process>>

-----------------------------------------------------------------------------
(* block_other_threads.                                                    *)

\* What the callers do when it returns 0, the thread being in control, and
\* when it returns 1.  pthread_create only tests for a negative result.
TookControl(t) ==
    /\ CASE Top(t).in = "signal" -> Goto(t, "handle") /\ UNCHANGED thr
         [] Top(t).in = "pthread_create" -> Goto(t, "spawn") /\ UNCHANGED thr
         [] Top(t).in = "death" ->
              /\ thr' = [thr EXCEPT ![t].stack_event_pending = FALSE, ![t].dead = TRUE]
              /\ Goto(t, "command")
    /\ UNCHANGED process

WasReleased(t) ==
    /\ CASE Top(t).in = "signal" -> Return(t) /\ UNCHANGED process
         [] Top(t).in = "pthread_create" -> Goto(t, "spawn") /\ UNCHANGED process
         [] Top(t).in = "death" -> udi_abort /\ UNCHANGED frames
    /\ UNCHANGED thr

Blocked(t) == IF thr[t].control_thread THEN TookControl(t) ELSE WasReleased(t)

BlockAlone(t) ==
    /\ IsAt(t, "enter")
    /\ ~get_multithreaded
    /\ TookControl(t)
    /\ UNCHANGED <<use, threads, num_threads, sync_var, barrier, control, sigsys,
                   life, continue_bp>>

BlockUnknown(t) ==
    /\ IsAt(t, "enter")
    /\ get_multithreaded
    /\ ~InList(t)
    /\ udi_abort
    /\ UNCHANGED <<use, threads, num_threads, thr, sync_var, barrier, control,
                   sigsys, frames, life, continue_bp>>

\* The compare-and-swap on sync_var succeeds.
FirstToSync == sync_var = 0

\* How many sentinels the winner waits for.
Awaited_fewer(signalled) ==
    IF signalled = {} THEN 0 ELSE Cardinality(signalled) - 1
Awaited(signalled) == Cardinality(signalled)

WinControl(t) ==
    /\ IsAt(t, "enter")
    /\ get_multithreaded
    /\ InList(t)
    /\ FirstToSync
    /\ sync_var' = 1
    /\ Goto(t, "notify")
    /\ UNCHANGED <<use, threads, num_threads, thr, barrier, control, sigsys, life,
                   continue_bp, process>>

\* The winner sends SIGSYS to the threads that are not suspended.
SignalOthers(t) ==
    LET signalled == {u \in Listed \ {t} : ~thr[u].suspended}
    IN  /\ IsAt(t, "notify")
        /\ thr' = [u \in Thread |->
                      IF InList(u) THEN [thr[u] EXCEPT !.control_thread = (u = t)]
                                   ELSE thr[u]]
        /\ sigsys' = [u \in Thread |-> sigsys[u] \/ u \in signalled]
        /\ frames' = [frames EXCEPT
                        ![t] = <<[Head(@) EXCEPT !.at = "collect",
                                                 !.n = Awaited(signalled)]>>
                               \o Tail(@)]
        /\ UNCHANGED <<use, threads, num_threads, sync_var, barrier, control, life,
                       continue_bp, process>>

Collect(t) ==
    /\ IsAt(t, "collect")
    /\ Top(t).n > 0
    /\ barrier > 0
    /\ barrier' = barrier - 1
    /\ frames' = [frames EXCEPT ![t] = <<[Head(@) EXCEPT !.n = @ - 1]>> \o Tail(@)]
    /\ UNCHANGED <<use, threads, num_threads, thr, sync_var, control, sigsys, life,
                   continue_bp, process>>

Collected(t) ==
    /\ IsAt(t, "collect")
    /\ Top(t).n = 0
    /\ Blocked(t)
    /\ UNCHANGED <<use, threads, num_threads, sync_var, barrier, control, sigsys,
                   life, continue_bp>>

LoseControl(t) ==
    /\ IsAt(t, "enter")
    /\ get_multithreaded
    /\ InList(t)
    /\ ~FirstToSync
    /\ Goto(t, "lost")
    /\ UNCHANGED <<use, threads, num_threads, thr, sync_var, barrier, control,
                   sigsys, life, continue_bp, process>>

ReportBlocked(t) ==
    /\ IsAt(t, "lost")
    /\ barrier < MaxSentinel
    /\ barrier' = barrier + 1
    /\ Goto(t, "counted")
    /\ UNCHANGED <<use, threads, num_threads, thr, sync_var, control, sigsys, life,
                   continue_bp, process>>

\* The winner's SIGSYS is still to come when another signal brought the
\* thread here.
SuspendExpected_always(t) == TRUE
SuspendExpected(t) == thr[t].signal # "sys"

NoteSuspend(t) ==
    /\ IsAt(t, "counted")
    /\ thr' = [thr EXCEPT ![t].suspend_pending = SuspendExpected(t)]
    /\ Goto(t, "blocked")
    /\ UNCHANGED <<use, threads, num_threads, sync_var, barrier, control, sigsys,
                   life, continue_bp, process>>

Released(t) ==
    /\ IsAt(t, "blocked")
    /\ control[t] > 0
    /\ control' = [control EXCEPT ![t] = @ - 1]
    /\ Blocked(t)
    /\ UNCHANGED <<use, threads, num_threads, sync_var, barrier, sigsys, life, continue_bp>>

-----------------------------------------------------------------------------
(* The event and the debugger's requests.                                  *)

\* The signal is decoded into an event the debugger waits for.  A breakpoint
\* hit leaves a breakpoint to step over, and one that belongs to another
\* thread is stepped over at once; the end of the step is an event only for a
\* single stepping thread.
HandleSignal(t) ==
    /\ IsAt(t, "handle")
    /\ thr' = IF InList(t) THEN [thr EXCEPT ![t].signal = "none"] ELSE thr
    /\ \/ /\ Goto(t, "command")
          /\ UNCHANGED continue_bp
       \/ /\ Top(t).sig = "event" /\ use.stepping
          /\ continue_bp' = TRUE
          /\ Goto(t, "command") \/ Return(t)
       \/ /\ Top(t).sig = "event" /\ continue_bp
          /\ continue_bp' = FALSE
          /\ Goto(t, "command") \/ Goto(t, "release")
    /\ UNCHANGED <<use, threads, num_threads, sync_var, barrier, control, sigsys,
                   life, process>>

\* Requests are read from the threads that are not dead.
SetState(t, u, suspended) ==
    /\ IsAt(t, "command")
    /\ u \in IF suspended THEN use.suspendable ELSE use.resumable
    /\ InList(u)
    /\ ~thr[u].dead
    /\ thr' = [thr EXCEPT ![u].suspended = suspended]
    /\ UNCHANGED <<use, threads, num_threads, sync_var, barrier, control, sigsys,
                   frames, life, continue_bp, process>>

\* Mutant: what follows the dead thread is lost.
destroy_threads_tail ==
    LET dead == {i \in DOMAIN threads : thr[threads[i]].dead}
    IN  /\ threads' = IF dead = {} THEN threads
                      ELSE SubSeq(threads, 1, (CHOOSE i \in dead : \A j \in dead : i <= j) - 1)
        /\ num_threads' = num_threads - Cardinality(dead)

\* destroy_thread for every dead thread of the list; the list is emptied when
\* its head is destroyed.
destroy_threads ==
    LET dead == {u \in Listed : thr[u].dead}
    IN  IF threads # <<>> /\ Head(threads) \in dead
        THEN /\ threads' = <<>>
             /\ num_threads' = num_threads - 1
        ELSE /\ threads' = SelectSeq(threads, LAMBDA u : u \notin dead)
             /\ num_threads' = num_threads - Cardinality(dead)

\* continue_handler, and the return of wait_and_execute_command.  With a
\* breakpoint to step over the signal handler returns and releases nobody.
Continue(t) ==
    /\ IsAt(t, "command")
    /\ \E u \in Listed : ~thr[u].suspended
    /\ destroy_threads
    /\ IF Top(t).in = "signal" /\ single_thread_executing
       THEN Return(t) ELSE Goto(t, "release")
    /\ UNCHANGED <<use, thr, sync_var, barrier, control, sigsys, life, continue_bp,
                   process>>

\* The continue request fails, and ends the waiting for requests nevertheless.
ContinueFailed(t) ==
    /\ IsAt(t, "command")
    /\ use.careful => threads = <<>>
    /\ \A u \in Listed : thr[u].suspended
    /\ IF Top(t).in = "signal" THEN Return(t) ELSE Goto(t, "release")
    /\ UNCHANGED <<use, threads, num_threads, thr, sync_var, barrier, control,
                   sigsys, life, continue_bp, process>>

-----------------------------------------------------------------------------
(* release_other_threads.                                                  *)

HasEvent(u) == thr[u].signal = "event" \/ thr[u].stack_event_pending

\* The other threads of the list with an event to handle.
Waiting(t) == SelectSeq(threads, LAMBDA u : u # t /\ HasEvent(u))

\* The end of a library call; a thread that reported its death ends.
Leave(t) ==
    /\ Return(t)
    /\ IF Top(t).in = "death"
       THEN /\ life' = [life EXCEPT ![t] = "gone"]
            /\ sigsys' = [sigsys EXCEPT ![t] = FALSE]
       ELSE UNCHANGED <<life, sigsys>>

TransferControl(t) ==
    /\ IsAt(t, "release")
    /\ Waiting(t) # <<>>
    /\ LET next == Head(Waiting(t))
       IN  /\ control[next] < MaxSentinel
           /\ thr' = [u \in Thread |->
                         IF u = next THEN [thr[u] EXCEPT !.control_thread = TRUE]
                         ELSE IF u = t /\ InList(t)
                         THEN [thr[u] EXCEPT !.control_thread = FALSE]
                         ELSE thr[u]]
           /\ control' = [control EXCEPT ![next] = @ + 1]
    /\ IF InList(t)
       THEN Goto(t, "waiting") /\ UNCHANGED <<life, sigsys>>
       ELSE Leave(t)
    /\ UNCHANGED <<use, threads, num_threads, sync_var, barrier, continue_bp, process>>

\* After the transfer the thread waits to be released with the others.
Resumed(t) ==
    /\ IsAt(t, "waiting")
    /\ ~Top(t).eintr
    /\ control[t] > 0
    /\ control' = [control EXCEPT ![t] = @ - 1]
    /\ Leave(t)
    /\ UNCHANGED <<use, threads, num_threads, thr, sync_var, barrier, continue_bp, process>>

ClearBarrier(t) ==
    /\ IsAt(t, "release")
    /\ Waiting(t) = <<>>
    /\ sync_var' = 0
    /\ frames' = [frames EXCEPT ![t] = <<[Head(@) EXCEPT !.at = "releasing",
                                                         !.n = 1]>> \o Tail(@)]
    /\ UNCHANGED <<use, threads, num_threads, thr, barrier, control, sigsys, life,
                   continue_bp, process>>

\* Whom the control thread t releases.
Releases_self(t, u) == ~thr[u].suspended
Releases_all(t, u) == u # t
Releases(t, u) == u # t /\ ~thr[u].suspended

\* One round of the loop over the list.
ReleaseNext(t) ==
    LET u == threads[Top(t).n]
    IN  /\ IsAt(t, "releasing")
        /\ Top(t).n \in DOMAIN threads
        /\ IF Releases(t, u)
           THEN /\ control[u] < MaxSentinel
                /\ control' = [control EXCEPT ![u] = @ + 1]
           ELSE UNCHANGED control
        /\ frames' = [frames EXCEPT ![t] = <<[Head(@) EXCEPT !.n = @ + 1]>> \o Tail(@)]
        /\ UNCHANGED <<use, threads, num_threads, thr, sync_var, barrier, sigsys,
                       life, continue_bp, process>>

\* A thread that was suspended stays in the library.
ReleaseDone(t) ==
    /\ IsAt(t, "releasing")
    /\ Top(t).n \notin DOMAIN threads
    /\ IF InList(t) /\ thr[t].suspended
       THEN Goto(t, "parked") /\ UNCHANGED <<life, sigsys>>
       ELSE Leave(t)
    /\ UNCHANGED <<use, threads, num_threads, thr, sync_var, barrier, control, continue_bp,
                   process>>

Unpark(t) ==
    /\ IsAt(t, "parked")
    /\ control[t] > 0
    /\ control' = [control EXCEPT ![t] = @ - 1]
    /\ Leave(t)
    /\ UNCHANGED <<use, threads, num_threads, thr, sync_var, barrier, continue_bp, process>>

-----------------------------------------------------------------------------
(* Threads are created and end.                                            *)

CallCreate(t) ==
    /\ Up
    /\ t \in use.creators
    /\ ~continue_bp
    /\ Executes(t)
    /\ \E u \in Thread : life[u] = "unborn"
    /\ frames' = [frames EXCEPT ![t] = <<Call("pthread_create", "enter", "none")>>]
    /\ UNCHANGED <<use, threads, num_threads, thr, sync_var, barrier, control,
                   sigsys, life, continue_bp, process>>

Spawn(t) ==
    /\ IsAt(t, "spawn")
    /\ \E u \in Thread :
          /\ life[u] = "unborn"
          /\ life' = [life EXCEPT ![u] = "alive"]
          /\ frames' = [frames EXCEPT
                          ![t] = <<[Head(@) EXCEPT !.at = "handshake"]>> \o Tail(@),
                          ![u] = <<Call("start", "link", "none")>>]
    /\ UNCHANGED <<use, threads, num_threads, thr, sync_var, barrier, control,
                   sigsys, continue_bp, process>>

\* real_pthread_create fails; nobody is released.
SpawnFailed(t) ==
    /\ IsAt(t, "spawn")
    /\ use.faults
    /\ Return(t)
    /\ UNCHANGED <<use, threads, num_threads, thr, sync_var, barrier, control,
                   sigsys, life, continue_bp, process>>

\* handle_thread_create in the new thread: it links itself, reports the event
\* and completes the handshake with the debugger.
LinkThread(u) ==
    /\ IsAt(u, "link")
    /\ threads' = Append(threads, u)
    /\ num_threads' = num_threads + 1
    /\ thr' = [thr EXCEPT ![u] = NewThread]
    /\ Goto(u, "report")
    /\ UNCHANGED <<use, sync_var, barrier, control, sigsys, life, continue_bp, process>>

ReportCreated(u) ==
    /\ IsAt(u, "report")
    /\ barrier < MaxSentinel
    /\ barrier' = barrier + 1
    /\ Goto(u, "begin")
    /\ UNCHANGED <<use, threads, num_threads, thr, sync_var, control, sigsys, life,
                   continue_bp, process>>

Begin(u) ==
    /\ IsAt(u, "begin")
    /\ control[u] > 0
    /\ control' = [control EXCEPT ![u] = @ - 1]
    /\ Return(u)
    /\ UNCHANGED <<use, threads, num_threads, thr, sync_var, barrier, sigsys, life,
                   continue_bp, process>>

\* handshake_with_thread in the creator.
Handshake(t) ==
    /\ IsAt(t, "handshake")
    /\ ~Top(t).eintr
    /\ barrier > 0
    /\ barrier' = barrier - 1
    /\ Goto(t, "command")
    /\ UNCHANGED <<use, threads, num_threads, thr, sync_var, control, sigsys, life,
                   continue_bp, process>>

\* The interrupted read of handshake_with_thread makes pthread_create fail,
\* the one of release_other_threads aborts the process.
Eintr(t) ==
    /\ \/ /\ IsAt(t, "handshake")
          /\ Top(t).eintr
          /\ Return(t)
          /\ UNCHANGED process
       \/ /\ IsAt(t, "waiting")
          /\ Top(t).eintr
          /\ udi_abort
          /\ UNCHANGED frames
    /\ UNCHANGED <<use, threads, num_threads, thr, sync_var, barrier, control,
                   sigsys, life, continue_bp>>

\* report_thread_death, from pthread_exit or the end of the start routine.
CallExit(t) ==
    /\ Up
    /\ t \in use.leavers
    /\ ~continue_bp
    /\ Executes(t)
    /\ IF InList(t)
       THEN /\ thr' = [thr EXCEPT ![t].stack_event_pending = TRUE]
            /\ frames' = [frames EXCEPT ![t] = <<Call("death", "enter", "none")>>]
            /\ UNCHANGED process
       ELSE /\ process' = "crashed"
            /\ UNCHANGED <<thr, frames>>
    /\ UNCHANGED <<use, threads, num_threads, sync_var, barrier, control, sigsys,
                   life, continue_bp>>

-----------------------------------------------------------------------------

Init ==
    /\ use \in Uses
    /\ threads = use.initial
    /\ num_threads = Len(use.initial)
    /\ thr = [t \in Thread |-> NewThread]
    /\ sync_var = 0
    /\ barrier = 0
    /\ control = [t \in Thread |-> 0]
    /\ sigsys = [t \in Thread |-> FALSE]
    /\ frames = [t \in Thread |-> <<>>]
    /\ life = [t \in Thread |-> IF InList(t) THEN "alive" ELSE "unborn"]
    /\ continue_bp = FALSE
    /\ process = "up"

\* The steps of the library in thread t.
Library(t) ==
    \/ DeliverSuspend(t)
    \/ BlockAlone(t) \/ BlockUnknown(t) \/ WinControl(t)
    \/ SignalOthers(t) \/ Collect(t) \/ Collected(t) \/ LoseControl(t)
    \/ ReportBlocked(t) \/ NoteSuspend(t) \/ Released(t)
    \/ HandleSignal(t) \/ TransferControl(t) \/ Resumed(t)
    \/ ClearBarrier(t) \/ ReleaseNext(t) \/ ReleaseDone(t) \/ Unpark(t)
    \/ Spawn(t) \/ SpawnFailed(t) \/ LinkThread(t) \/ ReportCreated(t)
    \/ Begin(t) \/ Handshake(t) \/ Eintr(t)

\* What the program does in thread t.
Program(t) == RaiseEvent(t) \/ CallCreate(t) \/ CallExit(t)

\* The requests of the debugger, executed in thread t.
Debugger(t) ==
    \/ \E u \in Thread, suspended \in BOOLEAN : SetState(t, u, suspended)
    \/ Continue(t)
    \/ ContinueFailed(t)

Next == \E t \in Thread : Library(t) \/ Program(t) \/ Debugger(t)

Spec == Init /\ [][Next]_vars

\* The library does its work and the debugger continues a stopped process; a
\* thread need not raise events, create threads or end.
FairSpec ==
    /\ Spec
    /\ \A t \in Thread : WF_vars(Library(t)) /\ WF_vars(Continue(t))

-----------------------------------------------------------------------------
(* Properties.                                                             *)

\* Thread structures and activations have their types, and no pipe holds
\* more than MaxSentinel sentinels.
TypeOK ==
    /\ use \in Uses
    /\ threads \in Seq(Thread)
    /\ num_threads \in Nat
    /\ thr \in [Thread -> ThreadStruct]
    /\ sync_var \in {0, 1}
    /\ barrier \in 0 .. MaxSentinel
    /\ control \in [Thread -> 0 .. MaxSentinel]
    /\ sigsys \in [Thread -> BOOLEAN]
    /\ frames \in [Thread -> Seq(Frame)]
    /\ life \in [Thread -> {"unborn", "alive", "gone"}]
    /\ continue_bp \in BOOLEAN
    /\ process \in {"up", "aborted", "crashed"}

\* t reports an event, executes requests, or is about to release the others.
InControl(t) ==
    /\ frames[t] # <<>>
    /\ Top(t).at \in {"handle", "command", "release", "spawn", "handshake"}

\* The uses for which the library keeps its promises.  A thread created by a
\* creator that lost a race for control, or failing to be, a creator that an
\* exiting thread interrupts, the exit of the head of the thread list, and a
\* thread resumed before it has parked itself break them.
Supported ==
    /\ ~use.faults
    /\ Cardinality(use.creators) <= 1
    /\ use.creators = {} \/ use.leavers = {}
    /\ Head(use.initial) \notin use.leavers
    /\ use.resumable \cap (use.active \cup use.creators \cup use.leavers) = {}

\* When all threads execute the program again nothing of the last stop is
\* left behind: no sentinel in any pipe, and the barrier is free.
NothingLeft ==
    (Supported /\ \A t \in Thread : life[t] = "alive" => Executes(t)) =>
        /\ barrier = 0
        /\ \A t \in Thread : control[t] = 0
        /\ sync_var = 0

\* The thread list holds every thread from the time it links itself until the
\* debugger continues the process after its death, so that the library never
\* aborts the process, nor follows a null pointer, for a thread it does not
\* find.  Every use keeps the types.
AllKnown ==
    /\ TypeOK
    /\ Supported =>
         /\ process = "up"
         /\ \A t \in Thread : life[t] = "alive" /\ ~thr[t].dead
              => InList(t) \/ (frames[t] # <<>> /\ Top(t).at = "link")

\* A suspended thread executes nothing of the program, except alone to step
\* over a breakpoint.
SuspendedStays ==
    \A t \in Thread :
        Supported /\ thr[t].suspended /\ Executes(t) => continue_bp

\* Only one thread of the program has events, its own death included.
OneActive == Supported /\ Cardinality(use.active \cup use.leavers) = 1

\* A thread that collects the others' sentinels takes control in the end, and
\* the event of a thread is reported in the end, when only one thread has
\* events: another one may keep it waiting for ever.
StopCompletes ==
    /\ (OneActive /\ \E t \in Thread : frames[t] # <<>> /\ Top(t).at = "collect")
         ~> \E t \in Thread : InControl(t)
    /\ (OneActive /\ \E t \in Thread : HasEvent(t)) ~> ~(\E t \in Thread : HasEvent(t))

\* The threads as StopWorld sees them.
WorldState(t) ==
    IF life[t] # "alive" THEN "absent"
    ELSE IF Executes(t) THEN IF single_thread_executing THEN "steps" ELSE "runs"
    ELSE IF InControl(t) THEN "commands"
    ELSE IF HasEvent(t) THEN "event" ELSE "held"

WorldStates == [t \in Thread |-> WorldState(t)]

World == INSTANCE StopWorld WITH st <- WorldStates

\* The library stops the world as StopWorld describes: no thread takes command
\* while another one runs, none goes back to the program while one is in
\* command or steps over a breakpoint, and a thread's own event is not dropped.
StopsTheWorld ==
    /\ World!WorldInit
    /\ [][Supported => World!WorldNext]_WorldStates

=============================================================================
