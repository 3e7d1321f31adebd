----------------------------- MODULE Breakpoints -----------------------------
(***************************************************************************)
(* The breakpoint component of libudirt: the hash table of breakpoint      *)
(* structures (udirt.c), the instruction byte they patch (udirt-x86.c),    *)
(* the decoding of a trap into an event, the breakpoint and single step    *)
(* requests (udirt-msg.c), and the signal handler around them              *)
(* (udirt-posix.c).                                                        *)
(*                                                                         *)
(* All of this code runs in the thread that stopped the process, so one    *)
(* handler run, up to the point where it waits for a request, is one       *)
(* action.  How threads are stopped and released is abstracted here to     *)
(* "at most one thread is in control, the others do not execute";          *)
(* suspension of a thread is a thread that is not scheduled.               *)
(***************************************************************************)
EXTENDS Integers, Sequences, FiniteSets

CONSTANTS
    Thread,     \* the threads of the debuggee
    Addr,       \* byte addresses, natural numbers above 0
    Mapped,     \* the ones that can be read and written
    Insn,       \* the ones where an instruction starts
    Flow,       \* Flow[a]: where the CPU may go from the instruction at a
    Opaque,     \* instructions whose successor the library cannot determine
    Entry,      \* where the threads start
    ExitAddr,   \* the address of exit()
    Bp,         \* the breakpoint structures the allocator can provide
    exit_bp,    \* the one at exit(), allocated when the library starts
    HashSize,   \* BREAKPOINT_HASH_SIZE
    UserAddr,   \* the addresses the debugger names in requests
    Careful,    \* the debugger names only breakpoints it has created, and
                \* creates none while a single step breakpoint is set
    Steppers,   \* the threads the debugger single steps
    Signals,    \* TRUE when other signals are delivered to the debuggee
    NULL

ASSUME ConstantsAssumption ==
    /\ Addr \subseteq Nat \ {0}
    /\ Mapped \subseteq Addr
    /\ Insn \subseteq Mapped
    /\ \A a \in Insn : a + 1 \in Mapped
    /\ Flow \in [Insn -> SUBSET Insn]
    /\ \A a \in Insn : Flow[a] # {}
    /\ Opaque \subseteq Insn
    /\ Entry \in Insn
    /\ ExitAddr \in Insn
    /\ HashSize \in Nat \ {0}
    /\ UserAddr \subseteq Addr
    /\ Careful \in BOOLEAN
    /\ Steppers \subseteq Thread
    /\ Signals \in BOOLEAN
    /\ exit_bp \in Bp
    /\ NULL \notin Bp
    /\ NULL \notin Thread

VARIABLES
    m,               \* breakpoint structures, hash table, and program text
    continue_bp,     \* the breakpoint that ends the step over a breakpoint
    last_bp_address, \* the breakpoint being stepped over (0: none)
    single_step,     \* thr->single_step
    single_step_bp,  \* thr->single_step_bp
    pc,              \* the instruction a thread is at
    next,            \* the one the CPU goes to from there
    pending,         \* signal a thread has taken and not yet handled
    control,         \* the thread running the library, or stepping alone
    mode,            \* what the process is doing
    events,          \* events the last handler run wrote
    user,            \* addresses the debugger has a breakpoint at
    installed        \* the ones it has asked to be in memory

threadVars == <<single_step, single_step_bp, pc, next, pending>>
vars == <<m, continue_bp, last_bp_address, threadVars, control, mode, events,
          user, installed>>

Byte == {"insn", "int3"}
Bucket == 0 .. HashSize - 1

\* struct breakpoint_struct; a structure that is not live has been freed, or
\* never allocated.  next_breakpoint is the order of the bucket's sequence.
Breakpoint == [live: BOOLEAN, address: Addr, in_memory: BOOLEAN, saved: Byte,
               thread: Thread \cup {NULL}]

Memory == [heap: [Bp -> Breakpoint], breakpoints: [Bucket -> Seq(Bp)],
           text: [Addr -> Byte]]

\* A structure that is not allocated; what its memory holds is never read.
Unallocated == [live |-> FALSE, address |-> ExitAddr, in_memory |-> FALSE,
                saved |-> "insn", thread |-> NULL]

Event == [type: {"breakpoint", "single_step", "exit", "unknown", "error"},
          thr: Thread, addr: Addr]

-----------------------------------------------------------------------------
(* The table and the text.  Each operator maps a Memory to the Memory the  *)
(* C function leaves behind.                                               *)

breakpoint_hash(a) == a % HashSize

Chain(s, a) == s.breakpoints[breakpoint_hash(a)]

\* Positions in the bucket of a whose breakpoint has address a.
At(s, a) == {i \in DOMAIN Chain(s, a) : s.heap[Chain(s, a)[i]].address = a}

First(S) == CHOOSE i \in S : \A j \in S : i <= j

find_breakpoint(s, a) ==
    IF At(s, a) = {} THEN NULL ELSE Chain(s, a)[First(At(s, a))]

Free(s) == {b \in Bp : ~s.heap[b].live}

\* The chain without the structure at position i.
Without(chain, i) == SubSeq(chain, 1, i - 1) \o SubSeq(chain, i + 1, Len(chain))

\* What udi_malloc may return.
Alloc(s) == IF Free(s) = {} THEN {NULL} ELSE Free(s)

\* Mutant: the number of the bucket is stored for the address.
create_breakpoint_hashed(s, a, new) ==
    IF new = NULL \/ find_breakpoint(s, a) # NULL THEN s
    ELSE [s EXCEPT !.heap[new] = [live |-> TRUE, address |-> breakpoint_hash(a),
                                  in_memory |-> FALSE, saved |-> "insn",
                                  thread |-> NULL],
                   !.breakpoints[breakpoint_hash(a)] = Append(@, new)]

\* create_breakpoint(a) with udi_malloc returning new: the structure is
\* appended to its bucket, unless one with the same address is there.
create_breakpoint(s, a, new) ==
    IF new = NULL \/ find_breakpoint(s, a) # NULL THEN s
    ELSE [s EXCEPT !.heap[new] = [live |-> TRUE, address |-> a,
                                  in_memory |-> FALSE, saved |-> "insn",
                                  thread |-> NULL],
                   !.breakpoints[breakpoint_hash(a)] = Append(@, new)]

\* Mutant: the structure that was allocated, and freed, is returned.
created_stale(s, a, new) == new

\* The value create_breakpoint returns.
created(s, a, new) ==
    IF new # NULL /\ find_breakpoint(s, a) # NULL
    THEN find_breakpoint(s, a) ELSE new

\* Mutant: a breakpoint that is in memory is installed again.
install_breakpoint_again(s, b) ==
    LET a == s.heap[b].address
    IN  IF a \notin Mapped THEN s
        ELSE [s EXCEPT !.heap[b].saved = s.text[a],
                       !.heap[b].in_memory = TRUE,
                       !.text[a] = "int3"]

\* Saves the byte at the address and writes the trap instruction over it;
\* nothing changes when the address cannot be accessed.
install_breakpoint(s, b) ==
    LET a == s.heap[b].address
    IN  IF s.heap[b].in_memory \/ a \notin Mapped THEN s
        ELSE [s EXCEPT !.heap[b].saved = s.text[a],
                       !.heap[b].in_memory = TRUE,
                       !.text[a] = "int3"]

\* Restores the byte; in_memory is left alone.
remove_breakpoint_for_continue(s, b) ==
    IF s.heap[b].in_memory
    THEN [s EXCEPT !.text[s.heap[b].address] = s.heap[b].saved]
    ELSE s

remove_breakpoint(s, b) ==
    [remove_breakpoint_for_continue(s, b) EXCEPT !.heap[b].in_memory = FALSE]

\* Mutant: the structure at the head of a bucket is freed and stays linked.
delete_breakpoint_linked(s, b) ==
    LET r     == remove_breakpoint(s, b)
        a     == s.heap[b].address
        chain == Chain(r, a)
        i     == First(At(r, a))
    IN  IF At(r, a) = {} THEN r
        ELSE [r EXCEPT !.heap[chain[i]] = Unallocated,
                       !.breakpoints[breakpoint_hash(a)] =
                           IF i = 1 THEN chain
                           ELSE Without(chain, i)]

\* Removes from the text, unlinks the first structure with the address of b
\* and frees it.  When that structure heads its bucket the bucket is emptied.
delete_breakpoint(s, b) ==
    LET r     == remove_breakpoint(s, b)
        a     == s.heap[b].address
        chain == Chain(r, a)
        i     == First(At(r, a))
    IN  IF At(r, a) = {} THEN r
        ELSE [r EXCEPT !.heap[chain[i]] = Unallocated,
                       !.breakpoints[breakpoint_hash(a)] =
                           IF i = 1 THEN <<>>
                           ELSE Without(chain, i)]

\* Mutant: in_memory is not reset first, so install_breakpoint does nothing.
reinstall_flagged(s, a) ==
    LET b == find_breakpoint(s, a)
    IN  IF b # NULL /\ s.heap[b].in_memory
        THEN install_breakpoint(s, b)
        ELSE s

\* The breakpoint at a goes back into the text if it should be in memory.
reinstall(s, a) ==
    LET b == find_breakpoint(s, a)
    IN  IF b # NULL /\ s.heap[b].in_memory
        THEN install_breakpoint([s EXCEPT !.heap[b].in_memory = FALSE], b)
        ELSE s

\* delete_breakpoint returns 0.
deleted(s, b) == At(s, s.heap[b].address) # {}

-----------------------------------------------------------------------------
(* The debuggee's threads.                                                 *)

\* Threads execute when nothing is stopped; while continue_bp is set only
\* the thread that is stepping over a breakpoint does.
Executes(t) ==
    /\ mode = "run" \/ (mode = "step" /\ control = t)
    /\ pending[t] = "none"

\* An int3 written into the middle of the instruction the thread is at.
Torn(t) == pc[t] + 1 \notin Insn /\ m.text[pc[t] + 1] = "int3"

Run(t) ==
    /\ Executes(t)
    /\ m.text[pc[t]] = "insn"
    /\ ~Torn(t)
    /\ pc' = [pc EXCEPT ![t] = next[t]]
    /\ \E a \in Flow[next[t]] : next' = [next EXCEPT ![t] = a]
    /\ UNCHANGED <<m, continue_bp, last_bp_address, single_step,
                   single_step_bp, pending, control, mode, events, user,
                   installed>>

RunTorn(t) ==
    /\ Executes(t)
    /\ m.text[pc[t]] = "insn"
    /\ Torn(t)
    /\ mode' = "undefined"
    /\ UNCHANGED <<m, continue_bp, last_bp_address, threadVars, control,
                   events, user,
                   installed>>

\* SIGTRAP, or another signal, is delivered to the thread.
Deliver(t) ==
    /\ Executes(t)
    /\ \/ /\ m.text[pc[t]] = "int3"
          /\ pending' = [pending EXCEPT ![t] = "trap"]
       \/ /\ Signals
          /\ pending' = [pending EXCEPT ![t] = "signal"]
    /\ UNCHANGED <<m, continue_bp, last_bp_address, single_step,
                   single_step_bp, pc, next, control, mode, events, user,
                   installed>>

-----------------------------------------------------------------------------
(* The signal handler.                                                     *)

\* The handler runs in t: t stopped the process, was handed control by
\* release_other_threads, or is stepping alone.
Handles(t, signal) ==
    /\ pending[t] = signal
    /\ mode = "run" \/ (mode \in {"enter", "step"} /\ control = t)

\* Mutant: the instruction itself.
get_ctf_successor_self(s, t) == pc[t]

\* Mutant: the instruction after the next one.
get_ctf_successor_after(s, t) == CHOOSE a \in Flow[next[t]] : TRUE

\* get_ctf_successor at the program counter of t: 0 when it fails.  The
\* instruction is read from the text, where a breakpoint is an instruction
\* of one byte.
get_ctf_successor(s, t) ==
    IF s.text[pc[t]] = "int3" THEN pc[t] + 1
    ELSE IF pc[t] \in Opaque THEN 0
    ELSE next[t]

\* t leaves the library: it steps alone while a continue breakpoint is set,
\* otherwise the thread list is searched for another pending event, and
\* without one all threads are released.
Leave(t, cbp) ==
    LET waiting == {u \in Thread \ {t} : pending[u] # "none"}
    IN  \/ /\ cbp # NULL
           /\ mode' = "step"
           /\ control' = t
        \/ /\ cbp = NULL
           /\ waiting # {}
           /\ mode' = "enter"
           /\ control' \in waiting
        \/ /\ cbp = NULL
           /\ waiting = {}
           /\ mode' = "run"
           /\ control' = NULL

\* signal_entry_impl after the signal was decoded into s, the thread's single
\* step breakpoint sbp, and the events evts: the next single step breakpoint
\* is placed unless the successor has a breakpoint, a failure is reported,
\* and the handler waits for requests or returns.
Finish(t, s, sbp, failed, evts, wait, new) ==
    LET succ  == get_ctf_successor(s, t)
        step  == single_step[t]
        place == step /\ succ # 0 /\ find_breakpoint(s, succ) = NULL
        error == \/ failed
                 \/ step /\ succ = 0
                 \/ place /\ new = NULL
    IN  /\ m' = IF place /\ new # NULL
                THEN install_breakpoint(
                         [create_breakpoint(s, succ, new)
                             EXCEPT !.heap[new].thread = t], new)
                ELSE s
        /\ single_step_bp' = [single_step_bp EXCEPT
                                 ![t] = IF place THEN new ELSE sbp]
        /\ events' = IF error
                     THEN Append(evts, [type |-> "error", thr |-> t,
                                        addr |-> pc[t]])
                     ELSE evts
        /\ pending' = [pending EXCEPT ![t] = "none"]
        /\ IF wait THEN mode' = "stopped" /\ control' = t
                   ELSE Leave(t, continue_bp')
        /\ UNCHANGED <<single_step, pc, next, user, installed>>

HandleSignal(t) ==
    /\ Handles(t, "signal")
    /\ \E new \in Alloc(m) :
          Finish(t, m, single_step_bp[t], FALSE,
                 <<[type |-> "unknown", thr |-> t, addr |-> pc[t]]>>, TRUE, new)
    /\ UNCHANGED <<continue_bp, last_bp_address>>

\* decode_trap: no breakpoint is known at the address of the trap.
UnknownTrap(t) ==
    /\ Handles(t, "trap")
    /\ find_breakpoint(m, pc[t]) = NULL
    /\ mode' = "aborted"
    /\ control' = t
    /\ UNCHANGED <<m, continue_bp, last_bp_address, threadVars, events, user,
                   installed>>

\* decode_breakpoint, the thread's own single step breakpoint.
SingleStepHit(t) ==
    LET b == find_breakpoint(m, pc[t])
    IN  /\ Handles(t, "trap")
        /\ b # NULL
        /\ b = single_step_bp[t]
        /\ \E s \in {delete_breakpoint(m, b)} : \E new \in Alloc(s) :
              Finish(t, s, NULL, FALSE,
                     <<[type |-> "single_step", thr |-> t, addr |-> pc[t]]>>,
                     TRUE, new)
        /\ UNCHANGED <<continue_bp, last_bp_address>>

\* decode_breakpoint, the continue breakpoint: it is deleted, the breakpoint
\* that was stepped over goes back into the text, and the process goes on
\* unless the thread is single stepping.
ContinueHit(t) ==
    LET b == find_breakpoint(m, pc[t])
    IN  /\ Handles(t, "trap")
        /\ b # NULL
        /\ b # single_step_bp[t]
        /\ b = continue_bp
        /\ continue_bp' = NULL
        /\ \E s \in {delete_breakpoint(remove_breakpoint_for_continue(m, b), b)} :
           \E back \in {reinstall(s, last_bp_address)} :
           \E new \in Alloc(back) :
              /\ last_bp_address' = IF find_breakpoint(s, last_bp_address) # NULL
                                    THEN 0 ELSE last_bp_address
              /\ Finish(t, back, single_step_bp[t], FALSE,
                        IF single_step[t]
                        THEN <<[type |-> "single_step", thr |-> t,
                                addr |-> pc[t]]>>
                        ELSE <<>>,
                        single_step[t], new)

\* Mutant: no breakpoint is an event breakpoint.
is_event_breakpoint_never(b) == FALSE

\* The breakpoint the library reports as the exit of the process.
is_event_breakpoint(b) == b = exit_bp

\* Mutant: the thread of a breakpoint is not looked at.
hits_foreign_never(b, t) == FALSE

\* The breakpoint was set to step another thread than t.
hits_foreign(b, t) == m.heap[b].thread \notin {NULL, t}

\* decode_breakpoint, any other breakpoint: its byte is restored, a continue
\* breakpoint is created at the successor, and the hit is reported.  A
\* breakpoint of another thread is an error and does not wait.
BreakpointHit(t) ==
    LET b       == find_breakpoint(m, pc[t])
        foreign == hits_foreign(b, t) /\ ~is_event_breakpoint(b)
        report  == [type |-> IF is_event_breakpoint(b) THEN "exit"
                             ELSE "breakpoint",
                    thr |-> t, addr |-> pc[t]]
    IN  /\ Handles(t, "trap")
        /\ b # NULL
        /\ b \notin {single_step_bp[t], continue_bp}
        /\ \E s \in {remove_breakpoint_for_continue(m, b)} :
           \E succ \in {get_ctf_successor(s, t)}, new \in Alloc(s) :
              \/ /\ succ = 0
                 /\ UNCHANGED <<continue_bp, last_bp_address>>
                 /\ Finish(t, s, single_step_bp[t], TRUE, <<>>, TRUE, new)
              \/ /\ succ # 0
                 /\ new = NULL
                 /\ continue_bp' = NULL
                 /\ UNCHANGED last_bp_address
                 /\ Finish(t, s, single_step_bp[t], TRUE, <<>>, TRUE, new)
              \/ /\ succ # 0
                 /\ new # NULL
                 /\ continue_bp' = created(s, succ, new)
                 /\ last_bp_address' = pc[t]
                 /\ Finish(t, create_breakpoint(s, succ, new),
                           single_step_bp[t], foreign,
                           IF foreign THEN <<>> ELSE <<report>>, ~foreign, new)

-----------------------------------------------------------------------------
(* Requests, handled while the process is stopped.                         *)

CreateRequest(a) ==
    /\ mode = "stopped"
    /\ Careful => \A t \in Thread : single_step_bp[t] = NULL
    /\ find_breakpoint(m, a) = NULL
    /\ \E new \in Alloc(m) \ {NULL} : m' = create_breakpoint(m, a, new)
    /\ user' = user \cup {a}
    /\ UNCHANGED <<continue_bp, last_bp_address, threadVars, control, mode,
                   events, installed>>

Named(a) == mode = "stopped" /\ (Careful => a \in user)

\* read_breakpoint hands a null pointer to its caller when there is no
\* breakpoint at the address.
MissingRequest(a) ==
    /\ Named(a)
    /\ find_breakpoint(m, a) = NULL
    /\ mode' = "killed"
    /\ UNCHANGED <<m, continue_bp, last_bp_address, threadVars, control,
                   events, user,
                   installed>>

InstallRequest(a) ==
    LET b == find_breakpoint(m, a)
    IN  /\ Named(a)
        /\ b # NULL
        /\ m' = install_breakpoint(m, b)
        /\ installed' = IF a \in Mapped THEN installed \cup {a} ELSE installed
        /\ UNCHANGED <<continue_bp, last_bp_address, threadVars, control, mode,
                       events, user>>

RemoveRequest(a) ==
    LET b == find_breakpoint(m, a)
    IN  /\ Named(a)
        /\ b # NULL
        /\ m' = remove_breakpoint(m, b)
        /\ installed' = installed \ {a}
        /\ UNCHANGED <<continue_bp, last_bp_address, threadVars, control, mode,
                       events, user>>

DeleteRequest(a) ==
    LET b == find_breakpoint(m, a)
    IN  /\ Named(a)
        /\ b # NULL
        /\ m' = delete_breakpoint(m, b)
        /\ user' = user \ {a}
        /\ installed' = installed \ {a}
        /\ UNCHANGED <<continue_bp, last_bp_address, threadVars, control, mode,
                       events>>

\* single_step_handler: turning it off deletes the thread's breakpoint.
SingleStepRequest(t, setting) ==
    LET b == single_step_bp[t]
    IN  /\ mode = "stopped"
        /\ single_step' = [single_step EXCEPT ![t] = setting]
        /\ \/ /\ setting \/ b = NULL
              /\ UNCHANGED <<m, single_step_bp, mode>>
           \/ /\ ~setting /\ b # NULL
              /\ ~m.heap[b].live
              /\ mode' = "undefined"
              /\ UNCHANGED <<m, single_step_bp>>
           \/ /\ ~setting /\ b # NULL
              /\ m.heap[b].live
              /\ m' = delete_breakpoint(m, b)
              /\ single_step_bp' = IF deleted(m, b)
                                   THEN [single_step_bp EXCEPT ![t] = NULL]
                                   ELSE single_step_bp
              /\ UNCHANGED mode
        /\ UNCHANGED <<continue_bp, last_bp_address, pc, next, pending,
                       control, events, user, installed>>

\* continue_handler and the rest of the signal handler: the continue
\* breakpoint goes into the text, and the handler returns.
ContinueRequest ==
    /\ mode = "stopped"
    /\ \/ /\ continue_bp # NULL
          /\ ~m.heap[continue_bp].live
          /\ mode' = "undefined"
          /\ UNCHANGED <<m, control>>
       \/ /\ continue_bp # NULL => m.heap[continue_bp].live
          /\ m' = IF continue_bp = NULL THEN m
                  ELSE install_breakpoint(m, continue_bp)
          /\ Leave(control, continue_bp)
    /\ events' = <<>>
    /\ UNCHANGED <<continue_bp, last_bp_address, threadVars, user,
                   installed>>

-----------------------------------------------------------------------------

\* The process is stopped for the debugger with all its threads created and
\* the library's exit breakpoint in place.
Init ==
    /\ m = [heap |-> [b \in Bp |->
                        IF b = exit_bp
                        THEN [Unallocated EXCEPT !.live = TRUE,
                                                 !.in_memory = TRUE]
                        ELSE Unallocated],
            breakpoints |-> [h \in Bucket |->
                               IF h = breakpoint_hash(ExitAddr)
                               THEN <<exit_bp>> ELSE <<>>],
            text |-> [a \in Addr |-> IF a = ExitAddr THEN "int3" ELSE "insn"]]
    /\ continue_bp = NULL
    /\ last_bp_address = 0
    /\ single_step = [t \in Thread |-> FALSE]
    /\ single_step_bp = [t \in Thread |-> NULL]
    /\ pc = [t \in Thread |-> Entry]
    /\ next \in [Thread -> Flow[Entry]]
    /\ pending = [t \in Thread |-> "none"]
    /\ control \in Thread
    /\ mode = "stopped"
    /\ events = <<>>
    /\ user = {}
    /\ installed = {}

Step(t) ==
    \/ Run(t) \/ RunTorn(t) \/ Deliver(t)
    \/ HandleSignal(t) \/ UnknownTrap(t) \/ SingleStepHit(t)
    \/ ContinueHit(t) \/ BreakpointHit(t)

Request ==
    \/ \E a \in UserAddr :
          \/ CreateRequest(a) \/ MissingRequest(a) \/ InstallRequest(a)
          \/ RemoveRequest(a) \/ DeleteRequest(a)
    \/ \E t \in Steppers, setting \in BOOLEAN : SingleStepRequest(t, setting)
    \/ ContinueRequest

Next == (\E t \in Thread : Step(t)) \/ Request

Spec == Init /\ [][Next]_vars

\* Every thread keeps executing, and the debugger continues a stopped process.
FairSpec ==
    /\ Spec
    /\ \A t \in Thread : WF_vars(Step(t))
    /\ WF_vars(ContinueRequest)

-----------------------------------------------------------------------------
(* Properties.                                                             *)

\* Pointers are NULL or structures, the events are events, and the text is
\* made of the program's bytes and int3.
TypeOK ==
    /\ m \in Memory
    /\ continue_bp \in Bp \cup {NULL}
    /\ last_bp_address \in Addr \cup {0}
    /\ single_step \in [Thread -> BOOLEAN]
    /\ single_step_bp \in [Thread -> Bp \cup {NULL}]
    /\ pc \in [Thread -> Insn]
    /\ next \in [Thread -> Insn]
    /\ pending \in [Thread -> {"none", "trap", "signal"}]
    /\ control \in Thread \cup {NULL}
    /\ mode \in {"run", "enter", "stopped", "step", "killed", "undefined",
                 "aborted"}
    /\ events \in Seq(Event)
    /\ user \subseteq UserAddr
    /\ installed \subseteq UserAddr

\* Linked structures: what a walk of the table reaches.
Linked(s) == {b \in Bp : \E h \in Bucket : \E i \in DOMAIN s.breakpoints[h] :
                            s.breakpoints[h][i] = b}

SoundChains(s) ==
    \A h \in Bucket : \A i \in DOMAIN s.breakpoints[h] :
        /\ s.heap[s.breakpoints[h][i]].live
        /\ breakpoint_hash(s.heap[s.breakpoints[h][i]].address) = h
        /\ \A j \in DOMAIN s.breakpoints[h] :
              s.heap[s.breakpoints[h][j]].address =
                  s.heap[s.breakpoints[h][i]].address => i = j

\* A walk of the table never reaches a freed structure, reaches none twice,
\* and finds at most one structure for an address, in the bucket its address
\* hashes to: create_breakpoint and delete_breakpoint keep the chains sound
\* whatever the allocator reuses and however addresses collide.
TableSound == SoundChains(m)

\* A trap instruction in the text is always one the table accounts for, and no
\* program byte is ever lost: the breakpoint at its address is found by
\* find_breakpoint, so decode_trap finds it, is marked in_memory, so
\* remove_breakpoint takes it out, and holds the original in saved_bytes.
TrapExplained ==
    \A a \in Addr : m.text[a] # "insn" =>
        LET b == find_breakpoint(m, a)
        IN  b # NULL /\ m.heap[b].in_memory /\ m.heap[b].saved = "insn"

\* While all threads run, every breakpoint the debugger installed is in the
\* text, and while one steps over a breakpoint only that one is out: stepping
\* over a breakpoint (remove_breakpoint_for_continue, the continue breakpoint,
\* the re-installation in decode_breakpoint) never lets another thread run
\* past a breakpoint that is temporarily out.
ArmedWhenRunning ==
    LET out == IF mode = "step" THEN {last_bp_address} ELSE {}
    IN  mode \in {"run", "step"} => \A a \in installed \ out : m.text[a] = "int3"

\* The breakpoints the debugger has created and not deleted stay in the table,
\* whatever breakpoints of its own the library creates and deletes at the same
\* addresses: read_breakpoint finds one for every request that names them, and
\* no handler gets the null pointer it does not test for.
BreakpointsKept == \A a \in user : find_breakpoint(m, a) # NULL

\* t has handled the trap it had taken.
Handled(t) == pending[t] = "trap" /\ pending'[t] = "none"

Reported == \E i \in DOMAIN events' : events'[i].type = "breakpoint"

\* A thread that traps where the debugger has a breakpoint installed stops
\* the process with a breakpoint event, and such an event is reported only
\* where the debugger has a breakpoint: the breakpoints the library sets for
\* itself stay invisible.
HitsReported ==
    [][\A t \in Thread :
          /\ Handled(t) /\ pc[t] \in installed => Reported
          /\ Handled(t) /\ Reported => pc[t] \in user]_vars

\* A thread reports the end of a single step only while the debugger steps it,
\* and no hit of the breakpoint another thread is stepped with, whatever
\* signals, failures and collisions leave behind in the table.
StepsOwned ==
    [][\A t \in Thread : Handled(t) =>
          \A i \in DOMAIN events' :
             /\ events'[i].type = "single_step" => single_step[t]
             /\ events'[i].type = "breakpoint" =>
                   m.heap[find_breakpoint(m, pc[t])].thread \in {NULL, t}]_vars

\* decode_trap never meets a trap it cannot explain, and aborts, and the
\* library never follows a pointer to a freed breakpoint structure.
NoAbort == mode \notin {"aborted", "undefined"}

\* A stepping thread whose single step breakpoint is set executes one
\* instruction only, an intact one: the breakpoint is where the CPU goes, and
\* no int3 was written into the instruction.
StepGuarded ==
    [][\A t \in Thread :
          /\ ~(Executes(t) /\ Torn(t))
          /\ Run(t) /\ single_step_bp[t] # NULL => m.text[pc'[t]] = "int3"]_vars

\* A breakpoint taken out of the text to step over it goes back, unless it is
\* removed, as long as threads execute and the debugger continues.
Rearmed ==
    \A a \in UserAddr :
        a \in installed /\ m.text[a] = "insn" ~>
            a \notin installed \/ m.text[a] = "int3" \/ mode = "aborted"

=============================================================================
