---------------------------- MODULE SignalActions ----------------------------
(***************************************************************************)
(* Who handles a signal.  libudirt installs its own handler for every      *)
(* signal it can catch, keeps what the program asks for in a table         *)
(* (udirt-posix-sys.c), stops the program at a signal and hands it on when *)
(* the debugger continues with one (udirt-posix.c).  When the library      *)
(* gives up, it puts the program's actions back.                           *)
(*                                                                         *)
(* The process has one thread; ThreadSync models the stopping of several.  *)
(* The kernel (dispositions, pending and blocked signals) is external.     *)
(***************************************************************************)
EXTENDS Naturals, Sequences, FiniteSets

CONSTANTS
    signals,     \* the table, in its order; the first element is SIGHUP
    Others,      \* signals without an entry in it
    Inherited,   \* the signals its parent may have it ignore
    Actions,     \* what the program may ask for
    Masks,       \* the sets of signals it may block
    Bad,         \* numbers that are no signals, or cannot be caught
    Logging,     \* udi_debug_on
    MaxDepth     \* bound on handlers entered and signals pending

Table == {signals[i] : i \in 1 .. Len(signals)}
Sig == Table \cup Others

Default == [handler |-> "DFL", mask |-> {}]
Ignore == [handler |-> "IGN", mask |-> {}]

\* default_lib_action
Lib == [handler |-> "signal_entry_point", mask |-> Sig]

ASSUME SignalAssumption ==
    /\ signals \in Seq(STRING) /\ Len(signals) > 0
    /\ \A i, j \in 1 .. Len(signals) : signals[i] = signals[j] => i = j
    /\ {"ABRT", "PIPE"} \subseteq Table
    /\ Others \cap Table = {} /\ Bad \cap Sig = {} /\ "none" \notin Sig \cup Bad
    /\ Inherited \subseteq Sig
    /\ {Default, Ignore} \subseteq Actions
    /\ \A act \in Actions : act.mask \subseteq Sig /\ act # Lib
    /\ {} \in Masks /\ \A m \in Masks : m \subseteq Sig
    /\ Logging \in BOOLEAN /\ MaxDepth \in Nat \ {0}

VARIABLES
    kernel,       \* the action the kernel has for a signal
    pending,      \* signals sent and not yet delivered
    blocked,      \* the signal mask
    app_actions,  \* the program's actions, by position in signals
    enabled,      \* udi_enabled
    pass_signal,
    pipe_write_failure,
    at,           \* "program", or what the library is doing
    frames,       \* the handlers that have been entered, innermost last
    intended,     \* history: the last action the program has asked for
    own,          \* history: the mask the program has outside of handlers
    leaked,       \* history: a wrapper has returned with signals blocked
    ran           \* history: the last call of a handler by the library

appVars == <<intended, own, leaked, ran>>
vars == <<kernel, pending, blocked, app_actions, enabled, pass_signal,
          pipe_write_failure, at, frames, appVars>>

Index(sig) == CHOOSE i \in 1 .. Len(signals) : signals[i] = sig

\* No handler has been called.
Nothing == [sig |-> "none", act |-> Default]

\* What a handler has interrupted: the mask and the place it returns to, which
\* is the sigsuspend of handle_pipe_write_failure for "suspend"; logs when it
\* is a failing write of the log.
Frame == [kind: {"stop", "pass", "pipe", "suspend", "native", "abort"}, mask: SUBSET Sig,
          to: {"program", "failing", "failed", "dead"}, logs: BOOLEAN]

Entered(kind, to, logs) ==
    Append(frames, [kind |-> kind, mask |-> blocked, to |-> to, logs |-> logs])

Top == frames[Len(frames)]
Pop == SubSeq(frames, 1, Len(frames) - 1)

TypeOK ==
    /\ kernel \in [Sig -> Actions \cup {Lib}]
    /\ pending \subseteq Sig /\ blocked \subseteq Sig /\ own \subseteq Sig
    /\ app_actions \in [1 .. Len(signals) -> Actions]
    /\ intended \in [Sig -> Actions]
    /\ enabled \in BOOLEAN /\ pipe_write_failure \in BOOLEAN
    /\ leaked \in BOOLEAN
    /\ pass_signal \in Sig \cup Bad \cup {"none"}
    /\ at \in {"start", "stopped", "failing", "failed", "program", "wild", "dead"}
    /\ frames \in Seq(Frame)
    /\ ran \in {Nothing} \cup [sig: Sig, act: Actions]

\* A process starts with the dispositions and the mask of its parent.
Init ==
    /\ \E ignored \in SUBSET Inherited :
         kernel = [s \in Sig |-> IF s \in ignored THEN Ignore ELSE Default]
    /\ intended = kernel
    /\ pending = {}
    /\ blocked \in Masks /\ own = blocked
    /\ app_actions = [i \in 1 .. Len(signals) |-> Default]
    /\ enabled = FALSE
    /\ pass_signal = "none"
    /\ pipe_write_failure = FALSE
    /\ at = "start"
    /\ frames = <<>>
    /\ leaked = FALSE
    /\ ran = Nothing

\* The program runs on when no signal is left that could be delivered.
Runs == at = "program" /\ pending \subseteq blocked

Room == Len(frames) + Cardinality(pending) < MaxDepth

\* The history of a step of the library or the kernel.
Unseen ==
    /\ ran' = Nothing
    /\ UNCHANGED <<intended, own, leaked>>

-----------------------------------------------------------------------------
(* Start and end of the library.                                           *)

\* init_udirt: signals are blocked, setup_signal_handlers stores the actions
\* the process has inherited, and the first requests are awaited, or the rest
\* of the initialization fails.
Setup(ok) ==
    /\ at = "start"
    /\ app_actions' = [i \in 1 .. Len(signals) |-> kernel[signals[i]]]
    /\ kernel' = [s \in Sig |-> IF s \in Table THEN Lib ELSE kernel[s]]
    /\ frames' = Entered("stop", "program", FALSE)
    /\ blocked' = Sig
    /\ enabled' = ok
    /\ at' = IF ok THEN "stopped" ELSE "failed"
    /\ Unseen
    /\ UNCHANGED <<pending, pass_signal, pipe_write_failure>>

\* Mutant: SIGPIPE keeps the library's handler in any case.
uninstall_signal_handlers_pipe(k) == [s \in Sig |->
    IF s \in Table /\ s # "PIPE" THEN app_actions[Index(s)] ELSE k[s]]

uninstall_signal_handlers(k) == [s \in Sig |->
    IF s \in Table /\ ~(s = "PIPE" /\ pipe_write_failure)
    THEN app_actions[Index(s)] ELSE k[s]]

\* Pending signals that are ignored from now on are discarded.
Kept(k) == {s \in pending : k[s].handler # "IGN"}

\* udi_abort, after an error of a request or in the initialization: SIGABRT
\* gets its default action, then disable_debugging, then abort, which unblocks
\* SIGABRT and raises it.
udi_abort ==
    /\ at \in {"stopped", "failed"}
    /\ enabled' = FALSE
    /\ kernel' = uninstall_signal_handlers([kernel EXCEPT !["ABRT"] = Default])
    /\ pending' = Kept(kernel')
    /\ IF kernel'["ABRT"].handler \in {"DFL", "IGN"}
       THEN at' = "dead" /\ UNCHANGED frames
       ELSE /\ at' = "program"
            /\ frames' = Entered("abort", "dead", FALSE)
    /\ Unseen
    /\ UNCHANGED <<blocked, app_actions, pass_signal, pipe_write_failure>>

-----------------------------------------------------------------------------
(* The program.                                                            *)

\* Mutant: a query stores the action the kernel has returned.
Sigaction_query(sig, asks, act) ==
    /\ Runs
    /\ sig \in Table
    /\ kernel' = [kernel EXCEPT ![sig] = Lib]
    /\ pending' = IF asks /\ act.handler = "IGN" THEN pending \ {sig} ELSE pending
    /\ app_actions' = [app_actions EXCEPT ![Index(sig)] =
                          IF asks THEN act ELSE kernel[sig]]
    /\ intended' = IF asks THEN [intended EXCEPT ![sig] = act] ELSE intended
    /\ ran' = Nothing
    /\ UNCHANGED <<blocked, enabled, pass_signal, pipe_write_failure, at, frames,
                   own, leaked>>

\* Mutant: the mask is not restored.
Sigaction_blocked(sig, asks, act) ==
    /\ Runs
    /\ sig \in Table
    /\ kernel' = [kernel EXCEPT ![sig] = Lib]
    /\ pending' = IF asks /\ act.handler = "IGN" THEN pending \ {sig} ELSE pending
    /\ app_actions' = IF asks THEN [app_actions EXCEPT ![Index(sig)] = act]
                      ELSE app_actions
    /\ intended' = IF asks THEN [intended EXCEPT ![sig] = act] ELSE intended
    /\ blocked' = Sig
    /\ ran' = Nothing
    /\ UNCHANGED <<enabled, pass_signal, pipe_write_failure, at, frames, own,
                   leaked>>

\* The wrapper of sigaction; asks is FALSE when act is NULL.  All signals are
\* blocked during the call.  The first real_sigaction discards a pending
\* signal that is to be ignored.  For a signal that cannot be caught nothing
\* changes, and the wrapper returns 0, since its result is shadowed.  The
\* wrapper of signal calls it with a mask that is uninitialized: any act.
Sigaction(sig, asks, act) ==
    /\ Runs
    /\ sig \in Table
    /\ kernel' = [kernel EXCEPT ![sig] = Lib]
    /\ pending' = IF asks /\ act.handler = "IGN" THEN pending \ {sig} ELSE pending
    /\ app_actions' = IF asks THEN [app_actions EXCEPT ![Index(sig)] = act]
                      ELSE app_actions
    /\ intended' = IF asks THEN [intended EXCEPT ![sig] = act] ELSE intended
    /\ ran' = Nothing
    /\ UNCHANGED <<blocked, enabled, pass_signal, pipe_write_failure, at, frames,
                   own, leaked>>

\* A signal without an entry: the library's handler is installed already when
\* the wrapper notices, and it returns without restoring the mask.
SigactionUnknown(sig, asks, act) ==
    /\ Runs
    /\ sig \in Others
    /\ kernel' = [kernel EXCEPT ![sig] = Lib]
    /\ pending' = IF asks /\ act.handler = "IGN" THEN pending \ {sig} ELSE pending
    /\ blocked' = Sig
    /\ leaked' = (leaked \/ frames = <<>>)
    /\ ran' = Nothing
    /\ UNCHANGED <<app_actions, enabled, pass_signal, pipe_write_failure, at,
                   frames, intended, own>>

\* The program blocks signals; no wrapper sees it.
Block(mask) ==
    /\ Runs
    /\ blocked' = mask
    /\ own' = IF frames = <<>> THEN mask ELSE own
    /\ leaked' = (leaked /\ frames # <<>>)
    /\ ran' = Nothing
    /\ UNCHANGED <<kernel, pending, app_actions, enabled, pass_signal,
                   pipe_write_failure, at, frames, intended>>

\* Someone sends a signal.
Raise(sig) ==
    /\ at \in {"program", "stopped"}
    /\ Room
    /\ sig \notin pending
    /\ kernel[sig].handler # "IGN"
    /\ pending' = pending \cup {sig}
    /\ Unseen
    /\ UNCHANGED <<kernel, blocked, app_actions, enabled, pass_signal,
                   pipe_write_failure, at, frames>>

-----------------------------------------------------------------------------
(* Delivery.                                                               *)

\* What app_signal_handler does: nothing, a call of the handler in the first
\* element of the table, or a call of SIG_IGN when that is what it holds.
app_signal_handler(sig) ==
    IF sig \notin Table THEN "nothing"
    ELSE IF app_actions[Index(sig)].handler = "IGN" THEN "nothing"
    ELSE IF app_actions[1].handler = "DFL" THEN "nothing"
    ELSE IF app_actions[1].handler = "IGN" THEN "wild"
    ELSE "calls"

\* A call of app_signal_handler: the program's handler is entered with the
\* mask of the first element, or the library goes on.
Apply(sig, kind, to, logs) ==
    \/ /\ app_signal_handler(sig) = "calls"
       /\ frames' = Entered(kind, to, logs)
       /\ blocked' = app_actions[1].mask
       /\ ran' = [sig |-> sig, act |-> app_actions[1]]
       /\ at' = "program"
       /\ UNCHANGED <<intended, own, leaked>>
    \/ /\ app_signal_handler(sig) = "nothing"
       /\ at' = to
       /\ Unseen
       /\ UNCHANGED <<blocked, frames>>
    \/ /\ app_signal_handler(sig) = "wild"
       /\ at' = "wild"
       /\ Unseen
       /\ UNCHANGED <<blocked, frames>>

\* The end of handle_pipe_write_failure when SIGPIPE was not pending.
Logged(failure, logs) ==
    pipe_write_failure' = (failure \/ (logs /\ at' = "program" /\ frames' = frames))

\* SIGPIPE after a failed write of the library.
EntryPipe(sig, logs) ==
    /\ pipe_write_failure /\ sig = "PIPE"
    /\ Apply(sig, "pipe", "program", logs)
    /\ Logged(FALSE, logs)
    /\ UNCHANGED pass_signal

\* While pass_signal is set any signal is passed, and it is cleared when the
\* program's handler has returned.
EntryPass(sig, logs) ==
    /\ ~(pipe_write_failure /\ sig = "PIPE")
    /\ pass_signal # "none"
    /\ Apply(sig, "pass", "program", logs)
    /\ pass_signal' = IF frames' = frames THEN "none" ELSE pass_signal
    /\ Logged(pipe_write_failure, logs)

\* Otherwise the process stops, unless the library has been disabled.
EntryStop(sig, logs) ==
    /\ ~(pipe_write_failure /\ sig = "PIPE")
    /\ pass_signal = "none"
    /\ \/ /\ enabled
          /\ at' = "stopped"
          /\ frames' = Entered("stop", "program", logs)
          /\ blocked' = Sig
       \/ ~enabled /\ UNCHANGED <<at, frames, blocked>>
    /\ Unseen
    /\ Logged(pipe_write_failure, logs)
    /\ UNCHANGED pass_signal

\* signal_entry_impl
signal_entry_impl(sig, logs) ==
    /\ EntryPipe(sig, logs) \/ EntryPass(sig, logs) \/ EntryStop(sig, logs)
    /\ UNCHANGED enabled

\* An action of the program that is installed itself.
Native(sig) ==
    LET act == kernel[sig]
    IN /\ IF act.handler = "DFL"
          THEN at' = "dead" /\ UNCHANGED <<frames, blocked>>
          ELSE /\ frames' = Entered("native", "program", FALSE)
               /\ blocked' = blocked \cup act.mask \cup {sig}
               /\ UNCHANGED at
       /\ Unseen
       /\ UNCHANGED <<enabled, pass_signal, pipe_write_failure>>

Deliver(sig) ==
    /\ at = "program"
    /\ sig \in pending \ blocked
    /\ pending' = pending \ {sig}
    /\ IF kernel[sig] = Lib THEN signal_entry_impl(sig, FALSE) ELSE Native(sig)
    /\ UNCHANGED <<kernel, app_actions>>

\* Mutant: pass_signal is not cleared.
Return_passing ==
    /\ Runs
    /\ frames # <<>>
    /\ frames' = Pop
    /\ blocked' = Top.mask
    /\ at' = Top.to
    /\ pipe_write_failure' = (Top.kind # "suspend" /\ (pipe_write_failure \/ Top.logs))
    /\ Unseen
    /\ UNCHANGED <<kernel, pending, app_actions, enabled, pass_signal>>

\* The program's handler returns, into the library or from its own frame.
Return ==
    /\ Runs
    /\ frames # <<>>
    /\ frames' = Pop
    /\ blocked' = Top.mask
    /\ at' = Top.to
    /\ pass_signal' = IF Top.kind = "pass" THEN "none" ELSE pass_signal
    /\ pipe_write_failure' = (Top.kind # "suspend" /\ (pipe_write_failure \/ Top.logs))
    /\ Unseen
    /\ UNCHANGED <<kernel, pending, app_actions, enabled>>

\* The handler of SIGABRT jumps back into the program.
LongJump ==
    /\ Runs
    /\ frames # <<>> /\ Top.kind = "abort"
    /\ frames' = <<>>
    /\ blocked' = own
    /\ leaked' = FALSE
    /\ ran' = Nothing
    /\ UNCHANGED <<kernel, pending, app_actions, enabled, pass_signal,
                   pipe_write_failure, at, intended, own>>

-----------------------------------------------------------------------------
(* The library at a stop.                                                  *)

\* continue_handler, post_continue_hook and the return to the program: all
\* signals are blocked when kill sends the one to pass.
Continue(sig) ==
    /\ at = "stopped"
    /\ IF sig = "KILL" THEN at' = "dead" ELSE at' = Top.to
    /\ frames' = Pop
    /\ blocked' = Top.mask
    /\ pipe_write_failure' = (pipe_write_failure \/ Top.logs)
    /\ pass_signal' = sig
    /\ pending' = IF sig \in Sig /\ kernel[sig].handler # "IGN"
                  THEN pending \cup {sig} ELSE pending
    /\ Unseen
    /\ UNCHANGED <<kernel, app_actions, enabled>>

\* A response or an event cannot be written, once or with the error that
\* reports it: handle_pipe_write_failure lets the pending SIGPIPE in.
WriteFails(next) ==
    /\ \/ at = "stopped" /\ next \in {"failing", "failed"}
       \/ at = "failing" /\ next = "failed"
    /\ Room
    /\ pending' = pending \ {"PIPE"}
    /\ Apply("PIPE", "suspend", next, FALSE)
    /\ pipe_write_failure' = FALSE
    /\ UNCHANGED <<kernel, app_actions, enabled, pass_signal>>

\* The log cannot be written once, in a wrapper: SIGPIPE is blocked and let in, or
\* arrives before handle_pipe_write_failure looks for it.
LogFails ==
    /\ Logging
    /\ Runs /\ Room
    /\ kernel["PIPE"] = Lib
    /\ IF "PIPE" \in blocked
       THEN /\ pending' = pending \ {"PIPE"}
            /\ Apply("PIPE", "suspend", "program", FALSE)
            /\ pipe_write_failure' = FALSE
            /\ UNCHANGED <<pass_signal, enabled>>
       ELSE signal_entry_impl("PIPE", TRUE) /\ UNCHANGED pending
    /\ UNCHANGED <<kernel, app_actions>>

\* The log stays broken: signal_entry_impl logs the SIGPIPE it ignores before
\* it clears pipe_write_failure, which fails and lets the next one in, until
\* the stack is exhausted.
LogBreaks ==
    /\ Logging
    /\ Runs
    /\ kernel["PIPE"] = Lib
    /\ at' = "dead"
    /\ Unseen
    /\ UNCHANGED <<kernel, pending, blocked, app_actions, enabled, pass_signal,
                   pipe_write_failure, frames>>

-----------------------------------------------------------------------------

Next ==
    \/ \E ok \in BOOLEAN : Setup(ok)
    \/ udi_abort
    \/ \E sig \in Sig, act \in Actions :
         \/ \E asks \in BOOLEAN : Sigaction(sig, asks, act)
         \/ \E asks \in BOOLEAN : SigactionUnknown(sig, asks, act)
    \/ \E mask \in Masks : Block(mask)
    \/ \E sig \in Sig : Raise(sig) \/ Deliver(sig)
    \/ Return
    \/ LongJump
    \/ \E sig \in Sig \cup Bad \cup {"none"} : Continue(sig)
    \/ \E next \in {"failing", "failed"} : WriteFails(next)
    \/ LogFails
    \/ LogBreaks

Spec == Init /\ [][Next]_vars

\* Signals are delivered, every handler of the program returns, however often
\* it is interrupted, and the library goes on.
FairSpec ==
    /\ Spec
    /\ WF_vars(\E sig \in Sig : Deliver(sig))
    /\ \A d \in 1 .. MaxDepth + 1 : SF_vars(Len(frames) = d /\ Return)
    /\ WF_vars(\E next \in {"failing", "failed"} : WriteFails(next))
    /\ WF_vars(udi_abort)

-----------------------------------------------------------------------------
(* Properties.                                                             *)

\* The table holds what the program has asked for, whatever the order of its
\* calls, the stops and the handlers it makes them from, and as long as the
\* library is enabled it sees every signal of the table: no call of the
\* program takes a signal away from the debugger (udirt-posix-sys.c:303).
InControl ==
    /\ at # "start" => \A s \in Table : app_actions[Index(s)] = intended[s]
    /\ enabled => \A s \in Table : kernel[s] = Lib

\* Outside of handlers the program runs with the signal mask it has chosen:
\* stops, passed signals, failed writes and the wrappers leave no signal
\* blocked or open, but for the early return of sigaction for a signal that
\* has no entry (udirt-posix-sys.c:327, 332, 415).
MaskKept ==
    /\ TypeOK
    /\ at = "program" /\ frames = <<>> /\ ~leaked => blocked = own

\* When the library gives up, enabled or in its initialization, the kernel
\* gets the actions of the program, except that of SIGPIPE after a write to
\* the log has failed (udirt-posix-sys.c:462).  SIGABRT is left out: udi_abort
\* gives it SIG_DFL to "avoid any user handlers" (udirt-posix.c:101), and
\* disable_debugging puts the program's handler back before abort() raises it.
Restored ==
    [][(enabled /\ ~enabled') \/ (at = "failed" /\ at' # "failed") =>
         \A s \in Table \ {"ABRT"} :
            kernel'[s] = intended[s] \/ (s = "PIPE" /\ pipe_write_failure)]_vars

\* A signal that the debugger passes and the program does not block ends the
\* passing, even if others arrive before it or in its handler: the signals
\* after it are reported again.  A SIGPIPE that is taken for one of the
\* library is excepted (udirt-posix.c:435, 443).
PassEnds ==
    (/\ at = "program" /\ enabled
     /\ pass_signal \in pending \ blocked
     /\ ~(pipe_write_failure /\ pass_signal = "PIPE"))
    ~> (pass_signal = "none" \/ ~enabled \/ at \in {"dead", "wild"})

\* The handler called for a signal is the one the program has set for it.
PassedRight == ran.sig # "none" => ran.act = intended[ran.sig]

=============================================================================
