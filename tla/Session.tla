------------------------------ MODULE Session ------------------------------
(***************************************************************************)
(* A debugging session: libudi in the debugger (create.rs, process.rs,     *)
(* thread.rs, events.rs) and the command loop of the runtime library in    *)
(* the debuggee (udirt-posix.c, udirt-msg.c), joined by named pipes: a     *)
(* request, a response and an events pipe for the process, a request and a *)
(* response pipe for each thread.  Opening a named pipe blocks until the   *)
(* other side opens it too, so the order of the two handshakes matters.    *)
(* Messages are whole; Requests models their encoding.                     *)
(***************************************************************************)
EXTENDS Naturals, Sequences

CONSTANTS
    Thread,     \* thread ids
    First,      \* the initial thread
    Asks,       \* for each set of faults, the requests that the debugger
                \* makes in such a session, "continue" aside
    MaxQueue,   \* the most messages that may pile up in a pipe
    Faults      \* sets of faults; a session may have those of one set

VARIABLES
    fifos,      \* the named pipes that exist
    opened,     \* for each pipe, the sides that have called open on it
    requests,   \* for each channel, the requests in its pipe
    responses,  \* for each channel, the responses in its pipe
    events,     \* the events in the events pipe
    rt,         \* the debuggee: where it is, and the thread it handshakes with
    threads,    \* the debuggee's thread structures
    faults,     \* what may go wrong in this session
    exiting,    \* the debuggee has reported that it exits
    udi,        \* libudi: the call it is in
    process,    \* libudi's Process: running, terminating, connected
    known       \* libudi's Threads, in the order they were added

rtVars == <<rt, threads, faults, exiting>>
udiVars == <<udi, process, known>>
pipeVars == <<requests, responses, events>>
vars == <<fifos, opened, pipeVars, rtVars, udiVars>>

\* "late":     threads report events after the one for the exit
\* "silent":   the program raises a SIGSEGV or SIGBUS of its own
\* "unknown":  the program receives a signal the library cannot name
\* "step":     a single step breakpoint cannot be placed or deleted
\* "memory":   an allocation of the library fails
\* "killed":   the process dies without the library's help
\* "reckless": the debugger continues with every thread suspended
Fault == {"late", "silent", "unknown", "step", "memory", "killed", "reckless"}

ASSUME FirstAssumption == First \in Thread
ASSUME FaultsAssumption == Faults \subseteq SUBSET Fault
ASSUME ProcAssumption == "process" \notin Thread

-----------------------------------------------------------------------------
(* Pipes. *)

Proc == "process"
Chan == Thread \cup {Proc}
Side == {"udi", "rt"}

Request(c) == <<"request", c>>
Response(c) == <<"response", c>>
Events == <<"events", Proc>>
Pipe == {Request(c) : c \in Chan} \cup {Response(c) : c \in Chan} \cup {Events}

Alive == rt.at # "gone"

\* open() on pipe p has been called by this side, and returns.
Opened(side, p) == side \in opened[p] /\ opened[p] = Side
Opens(side, p) ==
    /\ side \notin opened[p]
    /\ opened' = [opened EXCEPT ![p] = @ \cup {side}]

Send(q, c, m) == [q EXCEPT ![c] = Append(@, m)]
Drop(q, c) == [q EXCEPT ![c] = Tail(@)]

\* Requests carry the new setting of a single_step; responses carry data only
\* for some requests, and the states of the threads for a state request.
Message(type, value) == [type |-> type, value |-> value]
Plain(type) == Message(type, FALSE)

\* Mutant: the handler of single_step writes no map.
SendsData_fewer == {"init", "read_mem", "state", "read_register", "next_instruction"}

\* The requests whose response libudi reads with response::read, and those
\* to which the debuggee's handlers write a map.
WantsData == {"init", "read_mem", "state", "read_register", "next_instruction", "single_step"}
SendsData == {"init", "read_mem", "state", "read_register", "next_instruction", "single_step"}

ProcessAsks == {"read_mem", "write_mem", "state", "create_breakpoint",
                "install_breakpoint", "remove_breakpoint", "delete_breakpoint"}
ThreadAsks == {"read_register", "write_register", "thread_suspend", "thread_resume",
               "next_instruction", "single_step"}

\* The handlers that answer some requests with an error.
Refusable == (ProcessAsks \ {"state"}) \cup {"read_register", "write_register", "next_instruction"}

Reply(type, ok, states) ==
    [to |-> type, ok |-> ok, data |-> ok /\ type \in SendsData, states |-> states]

-----------------------------------------------------------------------------
(* The debuggee's threads. *)

NewThread == [life |-> "live", suspended |-> FALSE, single_step |-> FALSE]
NoThread == [life |-> "none", suspended |-> FALSE, single_step |-> FALSE]

Live == {t \in Thread : threads[t].life = "live"}
Listed == {t \in Thread : threads[t].life \in {"live", "dead"}}
States == {<<t, threads[t].suspended>> : t \in Listed}

ThreadPipes(t) == {Request(t), Response(t)}

-----------------------------------------------------------------------------
(* The debuggee's side of the handshakes. *)

Goto(at) == rt' = [rt EXCEPT !.at = at]

\* create_udi_filesystem: the pipes are made one after the other, and the
\* debugger waits for the one that is made last.
Order == <<Request(Proc), Response(Proc), Events>>
create_udi_filesystem ==
    /\ rt.at = "start"
    /\ \E i \in DOMAIN Order :
          /\ Order[i] \notin fifos
          /\ \A j \in 1..(i - 1) : Order[j] \in fifos
          /\ fifos' = fifos \cup {Order[i]}
          /\ IF i = Len(Order) THEN Goto("open_request") ELSE UNCHANGED rt
    /\ UNCHANGED <<opened, pipeVars, threads, faults, exiting, udiVars>>

\* init_udirt gives up and aborts.
InitFails ==
    /\ rt.at = "start"
    /\ "memory" \in faults
    /\ Goto("gone")
    /\ UNCHANGED <<fifos, opened, pipeVars, threads, faults, exiting, udiVars>>

\* The pipe that the debuggee is about to open, or has begun to open.
RtOpening ==
    CASE rt.at = "open_request"      -> {Request(Proc)}
      [] rt.at = "open_response"     -> {Response(Proc)}
      [] rt.at = "open_events"       -> {Events}
      [] rt.at = "thr_open_request"  -> {Request(rt.thr)}
      [] rt.at = "thr_open_response" -> {Response(rt.thr)}
      [] OTHER -> {}

RtOpen ==
    /\ \E p \in RtOpening : Opens("rt", p)
    /\ UNCHANGED <<fifos, pipeVars, rtVars, udiVars>>

\* handshake_with_debugger and perform_init_handshake: the request pipe is
\* open, and the init request is read.
InitRequest ==
    /\ rt.at = "open_request"
    /\ Opened("rt", Request(Proc))
    /\ requests[Proc] # <<>>
    /\ requests' = Drop(requests, Proc)
    /\ Goto("open_response")
    /\ UNCHANGED <<fifos, opened, responses, events, threads, faults, exiting, udiVars>>

\* process_response_fd_callback: the response pipe is open, the structure and
\* the pipes of the initial thread are made, then the events pipe is opened.
process_response_fd_callback ==
    /\ rt.at = "open_response"
    /\ Opened("rt", Response(Proc))
    /\ threads' = [threads EXCEPT ![First] = NewThread]
    /\ fifos' = fifos \cup ThreadPipes(First)
    /\ Goto("open_events")
    /\ UNCHANGED <<opened, pipeVars, faults, exiting, udiVars>>

\* init_handler writes the response for the process, and the handshake with
\* the initial thread begins.
init_handler ==
    /\ rt.at = "open_events"
    /\ Opened("rt", Events)
    /\ responses' = Send(responses, Proc, Reply("init", TRUE, {}))
    /\ rt' = [rt EXCEPT !.at = "thr_open_request", !.thr = First]
    /\ UNCHANGED <<fifos, opened, requests, events, threads, faults, exiting, udiVars>>

\* thread_create_handshake, for the initial and for every later thread.
ThreadInitRequest ==
    /\ rt.at = "thr_open_request"
    /\ Opened("rt", Request(rt.thr))
    /\ requests[rt.thr] # <<>>
    /\ requests' = Drop(requests, rt.thr)
    /\ Goto("thr_open_response")
    /\ UNCHANGED <<fifos, opened, responses, events, threads, faults, exiting, udiVars>>

thread_create_response ==
    /\ rt.at = "thr_open_response"
    /\ Opened("rt", Response(rt.thr))
    /\ responses' = Send(responses, rt.thr, Reply("init", TRUE, {}))
    /\ Goto("command")
    /\ UNCHANGED <<fifos, opened, requests, events, threads, faults, exiting, udiVars>>

-----------------------------------------------------------------------------
(* The command loop: wait_and_execute_command. *)

\* Mutant: only the process pipe is looked at.
Selected_process(c) ==
    /\ rt.at = "command"
    /\ requests[c] # <<>>
    /\ c = Proc

\* block_for_request: the process pipe is looked at before those of the
\* threads, and those of dead threads not at all.
Selected(c) ==
    /\ rt.at = "command"
    /\ requests[c] # <<>>
    /\ c = Proc \/ (c \in Live /\ requests[Proc] = <<>>)

\* Mutant: single stepping cannot be switched off.
Handled_on(c, m) ==
    CASE m.type = "thread_suspend" -> [threads EXCEPT ![c].suspended = TRUE]
      [] m.type = "thread_resume"  -> [threads EXCEPT ![c].suspended = FALSE]
      [] m.type = "single_step"    -> [threads EXCEPT ![c].single_step = TRUE]
      [] OTHER                     -> threads

\* What a handler does to the thread whose pipe the request came from.
Handled(c, m) ==
    CASE m.type = "thread_suspend" -> [threads EXCEPT ![c].suspended = TRUE]
      [] m.type = "thread_resume"  -> [threads EXCEPT ![c].suspended = FALSE]
      [] m.type = "single_step"    -> [threads EXCEPT ![c].single_step = m.value]
      [] OTHER                     -> threads

\* handle_process_request and handle_thread_request: the handler succeeds ...
HandleRequest(c) ==
    /\ Selected(c)
    /\ LET m == Head(requests[c])
       IN  /\ m.type # "continue"
           /\ threads' = Handled(c, m)
           /\ responses' = Send(responses, c,
                                Reply(m.type, TRUE, IF m.type = "state" THEN States ELSE {}))
    /\ requests' = Drop(requests, c)
    /\ UNCHANGED <<fifos, opened, events, rt, faults, exiting, udiVars>>

\* ... or refuses, and the loop goes on ...
RefuseRequest(c) ==
    /\ Selected(c)
    /\ Head(requests[c]).type \in Refusable
    /\ responses' = Send(responses, c, Reply(Head(requests[c]).type, FALSE, {}))
    /\ requests' = Drop(requests, c)
    /\ UNCHANGED <<fifos, opened, events, rtVars, udiVars>>

\* ... or refuses to stop single stepping, having stored the new setting ...
RefuseSingleStep(c) ==
    /\ Selected(c)
    /\ "step" \in faults
    /\ LET m == Head(requests[c])
       IN  /\ m.type = "single_step" /\ ~m.value
           /\ threads' = Handled(c, m)
    /\ responses' = Send(responses, c, Reply("single_step", FALSE, {}))
    /\ requests' = Drop(requests, c)
    /\ UNCHANGED <<fifos, opened, events, rt, faults, exiting, udiVars>>

\* ... or fails, and the library aborts the process after its response.
FailRequest(c) ==
    /\ Selected(c)
    /\ "memory" \in faults
    /\ Head(requests[c]).type = "read_mem"
    /\ responses' = Send(responses, c, Reply("read_mem", FALSE, {}))
    /\ requests' = Drop(requests, c)
    /\ Goto("gone")
    /\ UNCHANGED <<fifos, opened, events, threads, faults, exiting, udiVars>>

\* continue_handler with at least one running thread: thread_death_handshake
\* removes the pipes of the dead ones, and the program runs.
Continue ==
    /\ Selected(Proc)
    /\ Head(requests[Proc]).type = "continue"
    /\ \E t \in Listed : ~threads[t].suspended
    /\ threads' = [t \in Thread |-> IF threads[t].life = "dead"
                                    THEN [threads[t] EXCEPT !.life = "gone"]
                                    ELSE threads[t]]
    /\ fifos' = fifos \ UNION {ThreadPipes(t) : t \in Listed \ Live}
    /\ responses' = Send(responses, Proc, Reply("continue", TRUE, {}))
    /\ requests' = Drop(requests, Proc)
    /\ rt' = [rt EXCEPT !.at = "run", !.initial = FALSE]
    /\ UNCHANGED <<opened, events, faults, exiting, udiVars>>

\* continue_handler with every thread suspended: an error response, but the
\* loop ends all the same.  The first time the library aborts; later the
\* program goes on.
ContinueRefused ==
    /\ Selected(Proc)
    /\ Head(requests[Proc]).type = "continue"
    /\ \A t \in Listed : threads[t].suspended
    /\ responses' = Send(responses, Proc, Reply("continue", FALSE, {}))
    /\ requests' = Drop(requests, Proc)
    /\ Goto(IF rt.initial THEN "gone" ELSE "run")
    /\ UNCHANGED <<fifos, opened, events, threads, faults, exiting, udiVars>>

-----------------------------------------------------------------------------
(* The program runs, and stops with an event.  ThreadSync models how the   *)
(* other threads are stopped.                                              *)

Event(type, t, data) == [type |-> type, tid |-> t, data |-> data]

Runs(t) ==
    /\ rt.at = "run"
    /\ t \in Live
    /\ ~threads[t].suspended
    /\ exiting => "late" \in faults
    /\ Len(events) < MaxQueue /\ Len(responses[Proc]) < MaxQueue

\* Mutants: an event is written twice, or not at all.
Reports_twice(t) == {<<Event("breakpoint", t, t), Event("breakpoint", t, t)>>}
Reports_none(t) == {<<>>}

\* signal_entry_impl: the event of a signal, if any, and that of a failure to
\* prepare the next step.
Reports(t) ==
    {<<Event("breakpoint", t, t)>>}
    \cup (IF "unknown" \in faults THEN {<<Event("unknown", t, t)>>} ELSE {})
    \cup (IF "silent" \in faults THEN {<<>>} ELSE {})
    \cup (IF "step" \in faults /\ threads[t].single_step
          THEN {<<Event("breakpoint", t, t), Event("error", t, t)>>} ELSE {})

Stop(t) ==
    /\ Runs(t)
    /\ \E report \in Reports(t) : events' = events \o report
    /\ Goto("command")
    /\ UNCHANGED <<fifos, opened, requests, responses, threads, faults, exiting, udiVars>>

\* handle_thread_create: the structure and the pipes of the new thread are
\* made, then the event is written, with the creator as its thread.
CreateThread(t, u) ==
    /\ Runs(t)
    /\ threads[u].life = "none"
    /\ threads' = [threads EXCEPT ![u] = NewThread]
    /\ fifos' = fifos \cup ThreadPipes(u)
    /\ rt' = [rt EXCEPT !.at = "report_create", !.thr = u, !.creator = t]
    /\ UNCHANGED <<opened, pipeVars, faults, exiting, udiVars>>

ReportCreate ==
    /\ rt.at = "report_create"
    /\ events' = Append(events, Event("create", rt.creator, rt.thr))
    /\ Goto("thr_open_request")
    /\ UNCHANGED <<fifos, opened, requests, responses, threads, faults, exiting, udiVars>>

\* handle_thread_death: the thread is marked dead before its event is written.
ThreadDeath(t) ==
    /\ Runs(t)
    /\ threads' = [threads EXCEPT ![t].life = "dead"]
    /\ events' = Append(events, Event("death", t, t))
    /\ Goto("command")
    /\ UNCHANGED <<fifos, opened, requests, responses, faults, exiting, udiVars>>

\* handle_exit_event: the program has called exit.
Exit(t) ==
    /\ Runs(t)
    /\ ~exiting
    /\ exiting' = TRUE
    /\ events' = Append(events, Event("exit", t, t))
    /\ Goto("command")
    /\ UNCHANGED <<fifos, opened, requests, responses, threads, faults, udiVars>>

\* The process is gone: it has exited, or something else killed it.
Terminate ==
    /\ rt.at = "run"
    /\ exiting \/ "killed" \in faults
    /\ Goto("gone")
    /\ UNCHANGED <<fifos, opened, pipeVars, threads, faults, exiting, udiVars>>

-----------------------------------------------------------------------------
(* libudi's side of the handshakes: process_handshake, initialize_thread.  *)

At(at) == udi' = [udi EXCEPT !.at = at]

\* process_handshake polls until the events pipe exists or the child has exited.
PollFilesystem ==
    /\ udi.at = "poll"
    /\ \/ Events \in fifos /\ At("open_request")
       \/ ~Alive /\ At("failed")
    /\ UNCHANGED <<fifos, opened, pipeVars, rtVars, process, known>>

UdiOpening ==
    CASE udi.at = "open_request"      -> {Request(Proc)}
      [] udi.at = "open_response"     -> {Response(Proc)}
      [] udi.at = "open_events"       -> {Events}
      [] udi.at = "thr_open_request"  -> {Request(udi.thr)}
      [] udi.at = "thr_open_response" -> {Response(udi.thr)}
      [] OTHER -> {}

\* Opening a pipe that does not exist is an error.
UdiOpen ==
    /\ \E p \in UdiOpening :
          /\ "udi" \notin opened[p]
          /\ IF p \in fifos THEN Opens("udi", p) /\ UNCHANGED udi
             ELSE At("failed") /\ UNCHANGED opened
    /\ UNCHANGED <<fifos, pipeVars, rtVars, process, known>>

\* Mutant: the events pipe is opened before the response pipe.
WriteInit_order ==
    /\ udi.at = "open_request"
    /\ Opened("udi", Request(Proc))
    /\ requests' = Send(requests, Proc, Plain("init"))
    /\ At("open_events")
    /\ UNCHANGED <<fifos, opened, responses, events, rtVars, process, known>>

\* The order matters because POSIX FIFOs block in open calls (create.rs).
WriteInit ==
    /\ udi.at = "open_request"
    /\ Opened("udi", Request(Proc))
    /\ requests' = Send(requests, Proc, Plain("init"))
    /\ At("open_response")
    /\ UNCHANGED <<fifos, opened, responses, events, rtVars, process, known>>

ResponseOpen ==
    /\ udi.at = "open_response"
    /\ Opened("udi", Response(Proc))
    /\ At("open_events")
    /\ UNCHANGED <<fifos, opened, pipeVars, rtVars, process, known>>

\* initialize_process: the init response is read and names the initial thread.
ReadInit ==
    /\ udi.at = "open_events"
    /\ Opened("udi", Events)
    /\ responses[Proc] # <<>>
    /\ responses' = Drop(responses, Proc)
    /\ process' = [process EXCEPT !.connected = TRUE]
    /\ udi' = [udi EXCEPT !.at = "thr_open_request", !.thr = First]
    /\ UNCHANGED <<fifos, opened, requests, events, rtVars, known>>

\* initialize_thread.
WriteThreadInit ==
    /\ udi.at = "thr_open_request"
    /\ Opened("udi", Request(udi.thr))
    /\ requests' = Send(requests, udi.thr, Plain("init"))
    /\ At("thr_open_response")
    /\ UNCHANGED <<fifos, opened, responses, events, rtVars, process, known>>

\* The debugger is told of the new process or thread.
ReadThreadInit ==
    /\ udi.at = "thr_open_response"
    /\ Opened("udi", Response(udi.thr))
    /\ responses[udi.thr] # <<>>
    /\ responses' = Drop(responses, udi.thr)
    /\ known' = Append(known, [tid |-> udi.thr, open |-> TRUE,
                              single_step |-> FALSE, suspended |-> FALSE])
    /\ udi' = [udi EXCEPT !.at = "idle", !.told = TRUE]
    /\ UNCHANGED <<fifos, opened, requests, events, rtVars, process>>

-----------------------------------------------------------------------------
(* libudi's requests.  The debugger makes them when it has been told that  *)
(* the process stopped, and has not continued it since.  Writing to a       *)
(* process that is gone fails and changes nothing.                         *)

Ready == udi.at = "idle" /\ udi.told /\ process.connected

\* send_request and send_request_no_data, of Process or of Thread.
Ask(c, m) ==
    /\ requests' = Send(requests, c, m)
    /\ udi' = [udi EXCEPT !.at = "await", !.chan = c, !.asked = m]
    /\ UNCHANGED <<fifos, opened, responses, events, rtVars, process, known>>

AskProcess ==
    /\ Ready /\ Alive
    /\ \E type \in Asks[faults] \cap ProcessAsks : Ask(Proc, Plain(type))

\* A Thread whose file context is gone refuses the request itself.
AskThread ==
    /\ Ready /\ Alive
    /\ \E i \in DOMAIN known :
          /\ known[i].open
          /\ \E type \in Asks[faults] \cap ThreadAsks :
                \E value \in IF type = "single_step" THEN BOOLEAN ELSE {FALSE} :
                   Ask(known[i].tid, Message(type, value))

Prudent == "reckless" \in faults \/ \E t \in Listed : ~threads[t].suspended

\* continue_process; no response is read from a terminating process.
continue_process ==
    /\ Ready /\ Alive
    /\ Prudent
    /\ IF process.terminating
       THEN /\ requests' = Send(requests, Proc, Plain("continue"))
            /\ process' = [process EXCEPT !.running = TRUE]
            /\ udi' = [udi EXCEPT !.told = FALSE]
            /\ UNCHANGED <<fifos, opened, responses, events, rtVars, known>>
       ELSE Ask(Proc, Plain("continue"))

\* What libudi records after a successful response.
Recorded(m, reply) ==
    [i \in DOMAIN known |->
        CASE m.type = "single_step" /\ known[i].tid = udi.chan /\ known[i].open ->
                [known[i] EXCEPT !.single_step = m.value]
          [] m.type = "state" /\ \E b \in BOOLEAN : <<known[i].tid, b>> \in reply.states ->
                [known[i] EXCEPT !.suspended = <<known[i].tid, TRUE>> \in reply.states]
          [] OTHER -> known[i]]

\* The response is the one that response::read or read_no_data parses for this
\* request: it has a map exactly if libudi reads one.
Fits(reply) ==
    /\ reply.to = udi.asked.type
    /\ reply.data = (reply.ok /\ udi.asked.type \in WantsData)

\* The next response in the pipe is taken for the one to this request; if it
\* is another, what libudi makes of it is unspecified.
ReadResponse ==
    /\ udi.at = "await"
    /\ responses[udi.chan] # <<>>
    /\ responses' = Drop(responses, udi.chan)
    /\ LET reply == Head(responses[udi.chan])
           continued == reply.ok /\ udi.asked.type = "continue"
       IN  /\ known' = IF reply.ok THEN Recorded(udi.asked, reply) ELSE known
           /\ process' = [process EXCEPT !.running = @ \/ continued]
           /\ udi' = [udi EXCEPT !.at = IF Fits(reply) THEN "idle" ELSE "lost",
                                  !.told = ~continued]
    /\ UNCHANGED <<fifos, opened, requests, events, rtVars>>

\* The debuggee is gone: the request fails.
ResponseEof ==
    /\ udi.at = "await"
    /\ responses[udi.chan] = <<>>
    /\ ~Alive
    /\ At("idle")
    /\ UNCHANGED <<fifos, opened, pipeVars, rtVars, process, known>>

-----------------------------------------------------------------------------
(* libudi's events: wait_for_events, with this process alone. *)

\* Mutant: a terminating process is not waited for.
Waiting_live == udi.at = "idle" /\ process.connected /\ process.running /\ ~process.terminating

\* The process that is not running is not polled.
Waiting == udi.at = "idle" /\ process.connected /\ process.running

\* handle_event_message: the first Thread with the id of the event's thread.
Located(e) == {i \in DOMAIN known :
                  known[i].tid = e.tid /\ \A j \in 1..(i - 1) : known[j].tid # e.tid}

\* read_event has no data for an unknown event and fails.
Parses(e) == e.type # "unknown"

ReadEvent ==
    /\ Waiting
    /\ events # <<>>
    /\ events' = Tail(events)
    /\ LET e == Head(events)
       IN  \/ /\ ~Parses(e)
              /\ udi' = [udi EXCEPT !.told = TRUE]
              /\ UNCHANGED <<process, known>>
           \/ /\ e.type = "create"
              /\ process' = [process EXCEPT !.running = FALSE]
              /\ udi' = [udi EXCEPT !.at = "thr_open_request", !.thr = e.data]
              /\ UNCHANGED known
           \/ /\ Parses(e) /\ e.type # "create"
              /\ process' = [process EXCEPT !.running = FALSE,
                                           !.terminating = @ \/ e.type = "exit"]
              /\ known' = [i \in DOMAIN known |->
                              IF e.type = "death" /\ i \in Located(e)
                              THEN [known[i] EXCEPT !.open = FALSE] ELSE known[i]]
              /\ udi' = [udi EXCEPT !.told = TRUE]
    /\ UNCHANGED <<fifos, opened, requests, responses, rtVars>>

\* The debuggee has closed the events pipe: ProcessCleanup.
Cleanup ==
    /\ Waiting
    /\ events = <<>>
    /\ ~Alive
    /\ process' = [process EXCEPT !.connected = FALSE]
    /\ UNCHANGED <<fifos, opened, pipeVars, rtVars, udi, known>>

-----------------------------------------------------------------------------
Init ==
    /\ fifos = {}
    /\ opened = [p \in Pipe |-> {}]
    /\ requests = [c \in Chan |-> <<>>]
    /\ responses = [c \in Chan |-> <<>>]
    /\ events = <<>>
    /\ rt = [at |-> "start", thr |-> First, creator |-> First, initial |-> TRUE]
    /\ threads = [t \in Thread |-> NoThread]
    /\ faults \in Faults
    /\ exiting = FALSE
    /\ udi = [at |-> "poll", thr |-> First, chan |-> Proc, asked |-> Plain("init"), told |-> FALSE]
    /\ process = [running |-> FALSE, terminating |-> FALSE, connected |-> FALSE]
    /\ known = <<>>

\* The steps of the library, which it takes by itself.
RtStep ==
    \/ create_udi_filesystem \/ InitFails \/ RtOpen \/ InitRequest \/ process_response_fd_callback
    \/ init_handler \/ ThreadInitRequest \/ thread_create_response \/ ReportCreate
    \/ \E c \in Chan : HandleRequest(c) \/ RefuseRequest(c) \/ RefuseSingleStep(c) \/ FailRequest(c)
    \/ Continue \/ ContinueRefused

\* The steps of the program.
Run ==
    \/ \E t \in Thread : Stop(t) \/ ThreadDeath(t) \/ Exit(t)
    \/ \E t, u \in Thread : CreateThread(t, u)
    \/ Terminate

\* The steps of libudi within a call.
UdiStep ==
    \/ PollFilesystem \/ UdiOpen \/ WriteInit \/ ResponseOpen \/ ReadInit
    \/ WriteThreadInit \/ ReadThreadInit \/ ReadResponse \/ ResponseEof \/ ReadEvent

Next == RtStep \/ Run \/ UdiStep \/ Cleanup \/ AskProcess \/ AskThread \/ continue_process

Spec == Init /\ [][Next]_vars

\* Each side goes on with what it does; a program that exits does end, and the
\* direct read of a terminating process sees the end of the events pipe.  How
\* long the program runs, and what the debugger asks for, is left open.
FairSpec ==
    /\ Spec
    /\ WF_vars(RtStep \/ (exiting /\ Terminate))
    /\ WF_vars(UdiStep \/ (process.terminating /\ Cleanup))

-----------------------------------------------------------------------------
(* Properties.  Each says which faults it does not survive. *)

Without(some) == faults \cap some = {}

Places == {"start", "open_request", "open_response", "open_events", "thr_open_request",
           "thr_open_response", "report_create", "command", "run", "gone"}
Calls == {"poll", "open_request", "open_response", "open_events", "thr_open_request",
          "thr_open_response", "idle", "await", "failed", "lost"}
RequestType == ProcessAsks \cup ThreadAsks \cup {"init", "continue"}
Request_ == [type : RequestType, value : BOOLEAN]
Response_ == [to : RequestType, ok : BOOLEAN, data : BOOLEAN, states : SUBSET (Thread \X BOOLEAN)]
Event_ == [type : {"breakpoint", "unknown", "error", "create", "death", "exit"},
           tid : Thread, data : Thread]

\* Type invariant.
TypeOK ==
    /\ fifos \subseteq Pipe
    /\ opened \in [Pipe -> SUBSET Side]
    /\ requests \in [Chan -> Seq(Request_)]
    /\ responses \in [Chan -> Seq(Response_)]
    /\ events \in Seq(Event_)
    /\ rt \in [at : Places, thr : Thread, creator : Thread, initial : BOOLEAN]
    /\ threads \in [Thread -> [life : {"none", "live", "dead", "gone"},
                               suspended : BOOLEAN, single_step : BOOLEAN]]
    /\ faults \in Faults
    /\ exiting \in BOOLEAN
    /\ udi \in [at : Calls, thr : Thread, chan : Chan, asked : Request_, told : BOOLEAN]
    /\ process \in [running : BOOLEAN, terminating : BOOLEAN, connected : BOOLEAN]
    /\ known \in Seq([tid : Thread, open : BOOLEAN, single_step : BOOLEAN, suspended : BOOLEAN])

\* A debugger that libudi tells the process is stopped has the debuggee's
\* library waiting for its requests, and no other event is on its way.
StopAgrees ==
    (Without({"step", "reckless", "memory"}) /\ Ready /\ ~process.running)
    => rt.at = "command" /\ events = <<>>

\* At a stop, libudi's open Threads are the debuggee's live ones, with the
\* same single step settings, and the thread of the next event is one that
\* libudi still has open, so that the debugger can make requests of it.  After
\* refresh_state it knows which threads are suspended.
ThreadsAgree ==
    /\ []((Waiting /\ events # <<>>) => \E i \in Located(Head(events)) : known[i].open)
    /\ []((Without({"step", "reckless", "memory"}) /\ Ready /\ ~process.running) =>
           /\ {known[i].tid : i \in {j \in DOMAIN known : known[j].open}} = Live
           /\ \A i \in DOMAIN known :
                 known[i].open => known[i].single_step = threads[known[i].tid].single_step)
    /\ [][ (/\ Without({"step", "reckless", "late"})
            /\ udi.at = "await" /\ udi.asked.type = "state" /\ ReadResponse)
           => \A i \in DOMAIN known' :
                 known'[i].open => known'[i].suspended = threads[known[i].tid].suspended ]_vars

\* Requests and responses alternate on each channel, and libudi never takes
\* one request's response for another's.
ResponseFits ==
    /\ TypeOK
    /\ Without({"late"}) => /\ udi.at # "lost"
                           /\ \A c \in Chan : Len(requests[c]) + Len(responses[c]) <= 1

\* create_process returns with a process: libudi opens no pipe before the
\* debuggee has made it, and the two sides never wait for each other.  The
\* handshake for a new thread ends in the same way.
Started ==
    ((Without({"memory"}) /\ udi.at = "poll") \/ udi.at = "thr_open_request")
    ~> (udi.at = "idle")

\* Every request is answered, or fails because the process is gone.
Answered == (Without({"step", "reckless", "late"}) /\ udi.at = "await") ~> (udi.at = "idle")

\* A stopped process does not wait for a debugger that waits for an event: the
\* debugger is told of the stop, unless it had already sent the continue.
Reported ==
    (Without({"silent", "step", "reckless", "late"}) /\ rt.at = "command")
    ~> (udi.told \/ rt.at # "command")

\* A process that was continued after its exit event is cleaned up.
CleanedUp ==
    (Without({"late"}) /\ process.terminating /\ process.running) ~> ~process.connected

=============================================================================
