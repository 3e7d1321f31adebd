------------------------- MODULE SessionInvariant --------------------------
(***************************************************************************)
(* The inductive invariant of Session, in conjuncts that say how the two   *)
(* sides of a session can be apart, and what each step does, in the terms of*)
(* the invariant.                                                          *)
(***************************************************************************)
EXTENDS Session

-----------------------------------------------------------------------------
(* The invariant. *)

\* libudi is in process_handshake.
Connecting == {"poll", "open_request", "open_response", "open_events"}

\* The threads that libudi has a Thread for, those whose file context is open,
\* and those that the program has not created.
Tids == {known[i].tid : i \in DOMAIN known}

OpenTids == {known[i].tid : i \in {j \in DOMAIN known : known[j].open}}

Distinct == \A i, j \in DOMAIN known : known[i].tid = known[j].tid => i = j

Unborn == {t \in Thread : threads[t].life = "none"}

\* The threads that have a request, or a response, in their pipes.
Asked == {t \in Thread : requests[t] # <<>>}

Replied == {t \in Thread : responses[t] # <<>>}

\* libudi, or the debuggee, is in the handshake for t.
Adding(t) == udi.at \in {"thr_open_request", "thr_open_response"} /\ udi.thr = t

Making(t) ==
    /\ rt.at \in {"open_events", "report_create", "thr_open_request", "thr_open_response"}
    /\ rt.thr = t

\* How far the two sides can be apart while the process is connected to, and
\* that libudi finds the pipes it opens.
Handshake ==
    /\ rt.at \in {"start", "open_request", "open_response"} =>
          /\ udi.at \in Connecting /\ rt.thr = First
          /\ Unborn = Thread
    /\ rt.at = "open_events" => udi.at \in Connecting /\ rt.thr = First
    /\ udi.at \in Connecting \cup {"failed"} =>
          /\ known = <<>> /\ events = <<>> /\ ~exiting
          /\ ~process.running /\ ~process.terminating
          /\ rt.at # "thr_open_request" => responses[Proc] = <<>>
    /\ udi.at = "poll" =>
          /\ rt.at \in {"start", "open_request", "gone"}
          /\ rt.at = "open_request" <=> Events \in fifos
          /\ requests[Proc] = <<>>
    /\ udi.at = "open_request" => rt.at = "open_request" /\ requests[Proc] = <<>>
    /\ udi.at = "open_response" =>
          /\ rt.at \in {"open_request", "open_response", "open_events"}
          /\ rt.at # "open_request" => requests[Proc] = <<>>
          /\ Len(requests[Proc]) <= 1
    /\ udi.at = "open_events" =>
          /\ rt.at \in {"open_response", "open_events", "thr_open_request"}
          /\ rt.at = "thr_open_request" => rt.thr = First
          /\ requests[Proc] = <<>>
    /\ udi.at = "failed" => rt.at = "gone" /\ requests[Proc] = <<>>
    /\ "udi" \in opened[Events] => udi.at \notin {"poll", "open_request", "open_response"}
    /\ "rt" \in opened[Response(Proc)] => rt.at \notin {"start", "open_request"}
    /\ Events \in fifos => Request(Proc) \in fifos /\ Response(Proc) \in fifos
    /\ udi.at \in Connecting \ {"poll"} => Events \in fifos
    /\ \A t \in Live : ThreadPipes(t) \subseteq fifos
    /\ (udi.at = "thr_open_response" /\ "udi" \notin opened[Response(udi.thr)]) => Making(udi.thr)

\* libudi has every live thread, or is about to have it, and the threads of
\* all the events on their way.
Books ==
    /\ Distinct
    /\ \A t \in Unborn : t \notin Tids /\ ~Adding(t)
    /\ \A t \in Live : t \in OpenTids \/ Adding(t) \/ Making(t)
    /\ \A t \in Tids : ~Adding(t)
    /\ \A t \in Thread : Making(t) => t \in Live /\ t \notin Tids /\ t \notin Replied
    /\ rt.at \in {"open_events", "report_create"} => ~Adding(rt.thr)
    /\ rt.at = "report_create" =>
          rt.creator \in Live /\ (rt.creator \in OpenTids \/ Adding(rt.creator))
    /\ rt.at = "thr_open_response" => udi.at = "thr_open_response" /\ udi.thr = rt.thr
    /\ udi.at = "thr_open_request" => rt.at = "thr_open_request" /\ rt.thr = udi.thr
    /\ \A t \in Asked \cup Replied :
          t \in Tids \/ (udi.at = "thr_open_response" /\ udi.thr = t)

\* The events on their way.
Queue ==
    /\ \A i \in DOMAIN events :
          /\ events[i].tid \in OpenTids \/ Adding(events[i].tid)
          /\ events[i].type = "create" =>
                /\ i = Len(events)
                /\ rt.at = "thr_open_request" /\ rt.thr = events[i].data
                /\ ~Adding(rt.thr)
          /\ events[i].type = "death" =>
                /\ events[i].tid \notin Live
                /\ \A j \in DOMAIN events : events[j].tid = events[i].tid => j <= i
    /\ \A t \in Thread : (t \in OpenTids \/ Adding(t)) =>
          t \in Live \/ \E i \in DOMAIN events : events[i].type = "death" /\ events[i].tid = t

\* Without late events the exit event is the last one.
Finale == process.terminating /\ process.running

Exits ==
    /\ (udi.at = "await" /\ udi.asked.type = "continue") => ~process.terminating
    /\ Without({"late"}) =>
       /\ exiting => rt.at \in {"command", "run", "gone"}
       /\ \A i \in DOMAIN events : events[i].type = "exit" => exiting /\ i = Len(events)
       /\ process.terminating => exiting /\ events = <<>>
       /\ Finale => udi.at = "idle" /\ ~udi.told

\* Without late events there is at most one message on a channel: a request
\* that libudi waits to have answered, or the response to it.
Owed(c, m) ==
    \/ udi.at = "await" /\ udi.chan = c /\ udi.asked = m
    \/ udi.at = "open_response" /\ c = Proc /\ rt.at = "open_request"
    \/ /\ udi.at = "thr_open_response" /\ c = udi.thr
       /\ rt.at = "thr_open_request" /\ rt.thr = c
    \/ Finale /\ c = Proc /\ m.type = "continue"
    \/ rt.at = "gone"

Due(c, r) ==
    \/ udi.at = "await" /\ udi.chan = c /\ Fits(r)
    \/ udi.at = "open_events" /\ c = Proc
    \/ udi.at = "thr_open_response" /\ c = udi.thr
    \/ Finale /\ c = Proc

Uncrowded == {c \in Chan : Len(requests[c]) + Len(responses[c]) <= 1}

Orderly ==
    /\ udi.at # "lost"
    /\ \A c \in Chan :
          /\ c \in Uncrowded
          /\ requests[c] # <<>> => Owed(c, Head(requests[c]))
          /\ responses[c] # <<>> => Due(c, Head(responses[c]))

Matched == Without({"late"}) => Orderly

\* Without failures to step, and reckless debuggers, the debuggee waits in its
\* command loop from the time the debugger is told of a stop to the time it
\* sends the continue.
Waits == rt.at = "command" \/ (rt.at = "gone" /\ "memory" \in faults)

Pending == {c \in Chan : requests[c] # <<>>}

Resumable == \E t \in Listed : ~threads[t].suspended

\* Nothing is on its way to the debuggee but the request that libudi awaits
\* the response to.
Answering ==
    /\ Waits /\ events = <<>>
    /\ Pending # {} => /\ rt.at = "command"
                       /\ Pending = {udi.chan} /\ requests[udi.chan] = <<udi.asked>>

\* The debuggee has continued, and libudi has still to read that it has.
Continued ==
    /\ udi.asked.type = "continue" /\ ~process.terminating
    /\ Pending = {}
    /\ Proc \in Uncrowded /\ responses[Proc] # <<>> /\ Head(responses[Proc]).ok

Controlled ==
    /\ events # <<>> =>
          /\ Len(events) = 1
          /\ rt.at \in {"command", "thr_open_request"}
          /\ rt.at = "thr_open_request" => events[1].type = "create"
          /\ Pending = {}
    /\ (udi.at = "idle" /\ udi.told) => Waits /\ events = <<>> /\ Pending = {}
    /\ (udi.at = "idle" /\ ~udi.told) =>
          \/ Pending = {}
          \/ /\ rt.at = "command" /\ events = <<>> /\ Resumable /\ process.terminating
             /\ Pending = {Proc} /\ requests[Proc] = <<Plain("continue")>>
    /\ udi.at = "await" =>
          \/ Continued
          \/ Answering /\ (udi.asked.type = "continue" =>
                              /\ Pending # {} /\ Resumable
                              /\ ~process.terminating /\ responses[Proc] = <<>>)
    /\ (udi.at = "await" /\ udi.asked.type = "continue") => udi.chan = Proc
    /\ udi.at = "lost" => Pending = {} \/ (Answering /\ udi.asked.type # "continue")
    /\ udi.at \in {"thr_open_request", "thr_open_response"} =>
          /\ events = <<>>
          /\ \/ rt.at = "thr_open_request" /\ rt.thr = udi.thr /\ Pending \subseteq {udi.thr}
             \/ rt.at \in {"command", "thr_open_response"} /\ Pending = {}

Control == Without({"step", "reckless"}) => Controlled

\* The response to the continue of a terminating process stays in the pipe, for
\* libudi to take for the response to a later request, if there is one.
Between == udi.at \in {"idle", "thr_open_request", "thr_open_response"}

Unread ==
    /\ udi.at = "open_events" => Proc \in Uncrowded
    /\ ((Between \/ (udi.at = "await" /\ udi.chan # Proc)) /\ ~process.terminating) =>
          responses[Proc] = <<>>
    /\ (Between /\ responses[Proc] # <<>>) => Head(responses[Proc]).to = "continue"
    /\ (udi.at = "await" /\ responses[Proc] # <<>>) =>
          \/ Head(responses[Proc]).to = "continue"
          \/ udi.chan = Proc /\ Pending = {} /\ Proc \in Uncrowded

Leftover == Without({"step", "reckless"}) => Unread

\* Nor is there more than one message on the channel of a thread.
Paired ==
    \A t \in Thread :
       /\ t \in Uncrowded
       /\ responses[t] # <<>> =>
             \/ udi.at = "await" /\ udi.chan = t
             \/ udi.at = "thr_open_response" /\ udi.thr = t

Private == (Without({"step", "reckless"}) /\ udi.at # "lost") => Paired

\* libudi and the debuggee agree on which threads step, except between the
\* handling of a single step request and the reading of its response.
StepHandled(t) ==
    /\ udi.at = "await" /\ udi.chan = t /\ udi.asked.type = "single_step"
    /\ requests[t] = <<>>

Synced ==
    /\ \A t \in Thread : (Making(t) \/ Adding(t)) => ~threads[t].single_step
    /\ \A i \in DOMAIN known : known[i].open =>
          IF StepHandled(known[i].tid)
          THEN /\ threads[known[i].tid].single_step = udi.asked.value
               /\ responses[udi.chan] # <<>> /\ Head(responses[udi.chan]).ok
          ELSE threads[known[i].tid].single_step = known[i].single_step

Settings == (Without({"step", "reckless"}) /\ udi.at # "lost") => Synced

\* A state response on its way tells the states that the threads still have.
Refreshed ==
    (Without({"step", "reckless", "late"}) /\ udi.at = "await" /\ udi.asked.type = "state") =>
       /\ udi.chan = Proc
       /\ responses[Proc] # <<>> =>
             Head(responses[Proc]).ok /\ Head(responses[Proc]).states = States

IInv ==
    /\ TypeOK /\ Handshake /\ Books /\ Queue /\ Exits /\ Matched
    /\ Control /\ Leftover /\ Private /\ Settings /\ Refreshed

-----------------------------------------------------------------------------
(* What the steps of the debuggee do: Did<action> is what the action does, as *)
(* far as the invariant can tell.  The sets that are derived from the state *)
(* are given their next values, so that a proof need not expand them.      *)

ThreadType == [life : {"none", "live", "dead", "gone"}, suspended : BOOLEAN, single_step : BOOLEAN]

\* The four outcomes of a request other than continue.
Served(c, m, r) ==
    /\ Selected(c)
    /\ requests' = Drop(requests, c)
    /\ responses' = Send(responses, c, r)
    /\ r.to = m.type /\ m.type # "continue"
    /\ r.data = (r.ok /\ m.type \in SendsData)
    /\ m.type = "state" => r.ok /\ r.states = States
    /\ (m.type = "single_step" /\ "step" \notin faults) => r.ok
    /\ threads' = threads \/ threads' = Handled(c, m)
    /\ m.type = "single_step" => threads' = Handled(c, m)
    /\ rt' = rt \/ (rt' = [rt EXCEPT !.at = "gone"] /\ "memory" \in faults)
    /\ UNCHANGED <<fifos, opened, events, faults, exiting, udiVars>>

Serves(c) ==
    HandleRequest(c) \/ RefuseRequest(c) \/ RefuseSingleStep(c) \/ FailRequest(c)

ContinueReply(ok) == Reply("continue", ok, {})

Continues == Continue \/ ContinueRefused

DidCreate ==
    /\ rt.at = "start" /\ rt'.at \in {"start", "open_request"}
    /\ rt'.thr = rt.thr /\ rt'.creator = rt.creator
    /\ UNCHANGED <<opened, requests, responses, events, threads, faults, exiting,
                   udi, process, known, Asked, Replied, Unborn, Live, Listed, States, Tids,
                   OpenTids>>
    /\ (Resumable' <=> Resumable) /\ (Distinct' <=> Distinct)
    /\ \E i \in 1..3 :
           /\ Order[i] \notin fifos /\ \A j \in 1..(i - 1) : Order[j] \in fifos
           /\ fifos' = fifos \cup {Order[i]}
           /\ IF i = 3 THEN rt'.at = "open_request" ELSE rt'.at = "start"

DidInitFails ==
    /\ rt.at = "start" /\ rt'.at = "gone" /\ "memory" \in faults
    /\ UNCHANGED <<fifos, opened, requests, responses, events, threads, faults,
                   exiting, udi, process, known, Asked, Replied, Unborn, Live, Listed, States,
                   Tids, OpenTids>>
    /\ (Resumable' <=> Resumable) /\ (Distinct' <=> Distinct)

DidRtOpen ==
    /\ UNCHANGED <<fifos, requests, responses, events, rt, threads, faults,
                   exiting, udi, process, known, Asked, Replied, Unborn, Live, Listed, States,
                   Tids, OpenTids>>
    /\ (Resumable' <=> Resumable) /\ (Distinct' <=> Distinct)
    /\ \E p \in RtOpening : opened' = [opened EXCEPT ![p] = @ \cup {"rt"}]

DidInitRequest ==
    /\ rt.at = "open_request" /\ requests[Proc] # <<>>
    /\ rt'.at = "open_response" /\ rt'.thr = rt.thr
    /\ requests' = Drop(requests, Proc) /\ Asked' \subseteq Asked
    /\ UNCHANGED <<fifos, opened, responses, events, threads, faults, exiting, udi,
                   process, known, Replied, Unborn, Live, Listed, States, Tids, OpenTids>>
    /\ (Resumable' <=> Resumable) /\ (Distinct' <=> Distinct)

DidFirst ==
    /\ rt.at = "open_response" /\ rt'.at = "open_events" /\ rt'.thr = rt.thr
    /\ fifos' = fifos \cup ThreadPipes(First)
    /\ Live' = Live \cup {First} /\ Unborn' = Unborn \ {First}
    /\ threads'[First] = NewThread
    /\ \A x \in Thread : x # First => threads'[x] = threads[x]
    /\ UNCHANGED <<opened, requests, responses, events, faults, exiting, udi,
                   process, known, Asked, Replied, Tids, OpenTids>>
    /\ (Distinct' <=> Distinct)

DidInitHandler ==
    /\ rt.at = "open_events" /\ "udi" \in opened[Events]
    /\ rt'.at = "thr_open_request" /\ rt'.thr = First
    /\ responses' = Send(responses, Proc, Reply("init", TRUE, {})) /\ Replied' = Replied
    /\ UNCHANGED <<fifos, opened, requests, events, threads, faults, exiting, udi,
                   process, known, Asked, Unborn, Live, Listed, States, Tids, OpenTids>>
    /\ (Resumable' <=> Resumable) /\ (Distinct' <=> Distinct)

DidThreadInitRequest ==
    /\ rt.at = "thr_open_request" /\ rt.thr \in Asked
    /\ rt'.at = "thr_open_response" /\ rt'.thr = rt.thr
    /\ requests' = Drop(requests, rt.thr) /\ Asked' \subseteq Asked
    /\ requests'[Proc] = requests[Proc]
    /\ UNCHANGED <<fifos, opened, responses, events, threads, faults, exiting, udi,
                   process, known, Replied, Unborn, Live, Listed, States, Tids, OpenTids>>
    /\ (Resumable' <=> Resumable) /\ (Distinct' <=> Distinct)

DidThreadResponse ==
    /\ rt.at = "thr_open_response" /\ "udi" \in opened[Response(rt.thr)]
    /\ rt'.at = "command" /\ rt'.thr = rt.thr
    /\ responses' = Send(responses, rt.thr, Reply("init", TRUE, {}))
    /\ Replied' = Replied \cup {rt.thr} /\ responses'[Proc] = responses[Proc]
    /\ UNCHANGED <<fifos, opened, requests, events, threads, faults, exiting, udi,
                   process, known, Asked, Unborn, Live, Listed, States, Tids, OpenTids>>
    /\ (Resumable' <=> Resumable) /\ (Distinct' <=> Distinct)

DidReportCreate ==
    /\ rt.at = "report_create" /\ rt'.at = "thr_open_request" /\ rt'.thr = rt.thr
    /\ events' = Append(events, Event("create", rt.creator, rt.thr))
    /\ UNCHANGED <<fifos, opened, requests, responses, threads, faults, exiting,
                   udi, process, known, Asked, Replied, Unborn, Live, Listed, States, Tids,
                   OpenTids>>
    /\ (Resumable' <=> Resumable) /\ (Distinct' <=> Distinct)

DidServe(c) ==
    /\ rt.at = "command" /\ requests[c] # <<>>
    /\ rt'.at = "command" \/ (rt'.at = "gone" /\ "memory" \in faults)
    /\ rt'.thr = rt.thr
    /\ Unborn' = Unborn /\ Live' = Live /\ Listed' = Listed
    /\ requests' = Drop(requests, c)
    /\ Asked' \subseteq Asked /\ (c \in Thread => c \in Asked)
    /\ Replied' = Replied \cup ({c} \cap Thread)
    /\ c # Proc => responses'[Proc] = responses[Proc] /\ requests'[Proc] = requests[Proc]
    /\ \A t \in Thread : t # c => threads'[t] = threads[t]
    /\ UNCHANGED <<fifos, opened, events, faults, exiting, udi, process, known,
                   Tids, OpenTids>>
    /\ (Distinct' <=> Distinct)
    /\ Head(requests[c]) \in Request_
    /\ \E r \in Response_ : Served(c, Head(requests[c]), r)

DidContinue ==
    /\ rt.at = "command" /\ requests[Proc] # <<>> /\ Head(requests[Proc]).type = "continue"
    /\ rt'.at \in {"run", "gone"} /\ rt'.thr = rt.thr
    /\ Resumable => rt'.at = "run"
    /\ Unborn' = Unborn /\ Live' = Live
    /\ requests' = Drop(requests, Proc) /\ Asked' \subseteq Asked
    /\ Replied' = Replied
    /\ \A t \in Thread : threads'[t].single_step = threads[t].single_step
    /\ UNCHANGED <<opened, events, faults, exiting, udi, process, known, Tids,
                   OpenTids>>
    /\ (Distinct' <=> Distinct)
    /\ \E ok \in BOOLEAN :
           responses' = Send(responses, Proc, ContinueReply(ok)) /\ (Resumable => ok)
    /\ fifos' = fifos \/ fifos' = fifos \ UNION {ThreadPipes(t) : t \in Listed \ Live}

DidStop(t) ==
    /\ rt.at = "run" /\ t \in Live /\ (exiting => "late" \in faults)
    /\ rt'.at = "command" /\ rt'.thr = rt.thr
    /\ UNCHANGED <<fifos, opened, requests, responses, threads, faults, exiting,
                   udi, process, known, Asked, Replied, Unborn, Live, Listed, States, Tids,
                   OpenTids>>
    /\ (Resumable' <=> Resumable) /\ (Distinct' <=> Distinct)
    /\ events' \in Seq(Event_)
    /\ \E k, n \in Nat :
           /\ k = Len(events) /\ n = Len(events')
           /\ k <= n /\ n <= k + 2 /\ ("step" \notin faults => n <= k + 1)
           /\ DOMAIN events = 1..k /\ DOMAIN events' = 1..n
           /\ \A i \in 1..k : events'[i] = events[i]
           /\ \A i \in 1..n : i > k => /\ events'[i].tid = t
                                       /\ events'[i].type \in {"breakpoint", "unknown", "error"}

DidThreadDeath(t) ==
    /\ rt.at = "run" /\ t \in Live /\ (exiting => "late" \in faults)
    /\ rt'.at = "command" /\ rt'.thr = rt.thr
    /\ events' = Append(events, Event("death", t, t))
    /\ Live' = Live \ {t} /\ Unborn' = Unborn
    /\ \A x \in Thread : threads'[x].single_step = threads[x].single_step
    /\ UNCHANGED <<fifos, opened, requests, responses, faults, exiting, udi,
                   process, known, Asked, Replied, Tids, OpenTids>>
    /\ (Distinct' <=> Distinct)

DidExit(t) ==
    /\ rt.at = "run" /\ t \in Live /\ ~exiting /\ exiting'
    /\ rt'.at = "command" /\ rt'.thr = rt.thr
    /\ events' = Append(events, Event("exit", t, t))
    /\ UNCHANGED <<fifos, opened, requests, responses, threads, faults, udi,
                   process, known, Asked, Replied, Unborn, Live, Listed, States, Tids,
                   OpenTids>>
    /\ (Resumable' <=> Resumable) /\ (Distinct' <=> Distinct)

DidCreateThread(t, u) ==
    /\ rt.at = "run" /\ t \in Live /\ (exiting => "late" \in faults) /\ u \in Unborn
    /\ rt'.at = "report_create" /\ rt'.thr = u /\ rt'.creator = t
    /\ fifos' = fifos \cup ThreadPipes(u)
    /\ Live' = Live \cup {u} /\ Unborn' = Unborn \ {u}
    /\ threads'[u] = NewThread
    /\ \A x \in Thread : x # u => threads'[x] = threads[x]
    /\ UNCHANGED <<opened, requests, responses, events, faults, exiting, udi,
                   process, known, Asked, Replied, Tids, OpenTids>>
    /\ (Distinct' <=> Distinct)

DidTerminate ==
    /\ rt.at = "run" /\ rt'.at = "gone"
    /\ UNCHANGED <<fifos, opened, requests, responses, events, threads, faults,
                   exiting, udi, process, known, Asked, Replied, Unborn, Live, Listed, States,
                   Tids, OpenTids>>
    /\ (Resumable' <=> Resumable) /\ (Distinct' <=> Distinct)

RtMoves ==
    /\ UNCHANGED faults
    /\ \/ DidCreate \/ DidInitFails \/ DidRtOpen \/ DidInitRequest \/ DidFirst
       \/ DidInitHandler \/ DidThreadInitRequest \/ DidThreadResponse \/ DidReportCreate
       \/ (\E c \in Chan : DidServe(c)) \/ DidContinue
       \/ (\E t \in Thread : DidStop(t)) \/ (\E t \in Thread : DidThreadDeath(t))
       \/ (\E t \in Thread : DidExit(t)) \/ (\E t, u \in Thread : DidCreateThread(t, u))
       \/ DidTerminate

\* The ones that leave the channels alone.
Starts == DidCreate \/ DidInitFails

Halts == DidReportCreate \/ DidTerminate \/ \E t \in Thread : DidStop(t) \/ DidExit(t)

Quiet == DidRtOpen \/ Starts \/ Halts

Aside ==
    \/ Quiet \/ DidFirst
    \/ \E t \in Thread : DidThreadDeath(t)
    \/ \E t, u \in Thread : DidCreateThread(t, u)

-----------------------------------------------------------------------------
(* What the steps of libudi do. *)

KnownType == [tid : Thread, open : BOOLEAN, single_step : BOOLEAN, suspended : BOOLEAN]

\* The requests that libudi waits to have answered.
Asking(c, m) ==
    /\ Ready /\ Alive
    /\ Ask(c, m)
    /\ c = Proc \/ c \in OpenTids
    /\ m.type = "continue" => c = Proc /\ Prudent /\ ~process.terminating
    /\ m.type = "state" => c = Proc

DidPoll ==
    /\ udi.at = "poll" /\ udi'.at \in {"open_request", "failed"}
    /\ udi'.at = "failed" => rt.at = "gone"
    /\ udi'.at = "open_request" => Events \in fifos
    /\ UNCHANGED <<fifos, opened, requests, responses, events, rt, threads, faults,
                   exiting, process, known, Asked, Replied, Unborn, Live, Listed, States, Tids,
                   OpenTids>>
    /\ (Resumable' <=> Resumable) /\ (Distinct' <=> Distinct)

DidUdiOpen ==
    /\ \E p \in UdiOpening : opened' = [opened EXCEPT ![p] = @ \cup {"udi"}]
    /\ UNCHANGED <<fifos, requests, responses, events, rt, threads, faults, exiting, udi, process,
                   known, Asked, Replied, Unborn, Live, Listed, States, Tids, OpenTids>>
    /\ (Resumable' <=> Resumable) /\ (Distinct' <=> Distinct)

DidWriteInit ==
    /\ udi.at = "open_request" /\ udi'.at = "open_response" /\ udi'.thr = udi.thr
    /\ requests' = Send(requests, Proc, Plain("init")) /\ Asked' = Asked
    /\ UNCHANGED <<fifos, opened, responses, events, rt, threads, faults, exiting,
                   process, known, Replied, Unborn, Live, Listed, States, Tids, OpenTids>>
    /\ (Resumable' <=> Resumable) /\ (Distinct' <=> Distinct)

DidResponseOpen ==
    /\ udi.at = "open_response" /\ udi'.at = "open_events" /\ udi'.thr = udi.thr
    /\ "rt" \in opened[Response(Proc)]
    /\ UNCHANGED <<fifos, opened, requests, responses, events, rt, threads, faults,
                   exiting, process, known, Asked, Replied, Unborn, Live, Listed, States, Tids,
                   OpenTids>>
    /\ (Resumable' <=> Resumable) /\ (Distinct' <=> Distinct)

DidReadInit ==
    /\ udi.at = "open_events" /\ responses[Proc] # <<>>
    /\ udi'.at = "thr_open_request" /\ udi'.thr = First
    /\ responses' = Drop(responses, Proc) /\ Replied' \subseteq Replied
    /\ process'.running = process.running /\ process'.terminating = process.terminating
    /\ UNCHANGED <<fifos, opened, requests, events, rt, threads, faults, exiting,
                   known, Asked, Unborn, Live, Listed, States, Tids, OpenTids>>
    /\ (Resumable' <=> Resumable) /\ (Distinct' <=> Distinct)

DidWriteThreadInit ==
    /\ udi.at = "thr_open_request" /\ udi'.at = "thr_open_response" /\ udi'.thr = udi.thr
    /\ requests' = Send(requests, udi.thr, Plain("init")) /\ Asked' = Asked \cup {udi.thr}
    /\ requests'[Proc] = requests[Proc]
    /\ UNCHANGED <<fifos, opened, responses, events, rt, threads, faults, exiting,
                   process, known, Replied, Unborn, Live, Listed, States, Tids, OpenTids>>
    /\ (Resumable' <=> Resumable) /\ (Distinct' <=> Distinct)

DidReadThreadInit ==
    /\ udi.at = "thr_open_response" /\ udi.thr \in Replied
    /\ udi'.at = "idle" /\ udi'.told /\ udi'.thr = udi.thr
    /\ responses' = Drop(responses, udi.thr) /\ Replied' \subseteq Replied
    /\ responses'[Proc] = responses[Proc]
    /\ known' = Append(known, [tid |-> udi.thr, open |-> TRUE,
                              single_step |-> FALSE, suspended |-> FALSE])
    /\ UNCHANGED <<fifos, opened, requests, events, rt, threads, faults, exiting,
                   process, Asked, Unborn, Live, Listed, States>>
    /\ (Resumable' <=> Resumable)

DidReadResponse ==
    LET reply == Head(responses[udi.chan])
        continued == reply.ok /\ udi.asked.type = "continue"
    IN  /\ udi.at = "await" /\ responses[udi.chan] # <<>> /\ reply \in Response_
        /\ udi'.at = IF Fits(reply) THEN "idle" ELSE "lost"
        /\ udi'.thr = udi.thr /\ udi'.chan = udi.chan /\ udi'.asked = udi.asked
        /\ udi'.told <=> ~continued
        /\ responses' = Drop(responses, udi.chan) /\ Replied' \subseteq Replied
        /\ process'.running <=> process.running \/ continued
        /\ process'.terminating = process.terminating
        /\ known' = IF reply.ok THEN Recorded(udi.asked, reply) ELSE known
        /\ Tids' = Tids /\ OpenTids' = OpenTids /\ (Distinct' <=> Distinct)
        /\ UNCHANGED <<fifos, opened, requests, events, rt, threads, faults, exiting,
                       Asked, Unborn, Live, Listed, States>>
        /\ (Resumable' <=> Resumable)

DidResponseEof ==
    /\ udi.at = "await" /\ rt.at = "gone" /\ responses[udi.chan] = <<>>
    /\ udi'.at = "idle" /\ udi'.told = udi.told /\ udi'.chan = udi.chan
    /\ UNCHANGED <<fifos, opened, requests, responses, events, rt, threads, faults,
                   exiting, process, known, Asked, Replied, Unborn, Live, Listed, States, Tids,
                   OpenTids>>
    /\ (Resumable' <=> Resumable) /\ (Distinct' <=> Distinct)

DidReadEvent ==
    LET e == Head(events)
    IN  /\ udi.at = "idle" /\ process.running /\ events # <<>> /\ e \in Event_
        /\ events' = Tail(events)
        /\ Tids' = Tids /\ Distinct'
        /\ OpenTids' = IF e.type = "death" THEN OpenTids \ {e.tid} ELSE OpenTids
        /\ DOMAIN known' = DOMAIN known
        /\ \A i \in DOMAIN known : /\ known'[i].tid = known[i].tid
                                   /\ known'[i].single_step = known[i].single_step
                                   /\ known'[i].open => known[i].open
        /\ e.type = "create" =>
              /\ udi'.at = "thr_open_request" /\ udi'.thr = e.data
              /\ ~process'.running /\ process'.terminating = process.terminating
        /\ e.type # "create" => udi'.at = "idle" /\ udi'.told
        /\ e.type = "unknown" => process' = process
        /\ e.type \notin {"create", "unknown"} =>
              /\ ~process'.running
              /\ process'.terminating <=> (process.terminating \/ e.type = "exit")
        /\ UNCHANGED <<fifos, opened, requests, responses, rt, threads, faults,
                       exiting, Asked, Replied, Unborn, Live, Listed, States>>
        /\ (Resumable' <=> Resumable)

DidCleanup ==
    /\ udi.at = "idle" /\ process.running /\ events = <<>> /\ rt.at = "gone"
    /\ process'.running = process.running /\ process'.terminating = process.terminating
    /\ UNCHANGED <<fifos, opened, requests, responses, events, rt, threads, faults,
                   exiting, udi, known, Asked, Replied, Unborn, Live, Listed, States, Tids,
                   OpenTids>>
    /\ (Resumable' <=> Resumable) /\ (Distinct' <=> Distinct)

DidAsking(c, m) ==
    /\ udi.at = "idle" /\ udi.told /\ rt.at # "gone"
    /\ udi'.at = "await" /\ udi'.thr = udi.thr /\ udi'.chan = c /\ udi'.asked = m
    /\ c = Proc \/ c \in OpenTids
    /\ m.type = "continue" => /\ c = Proc /\ ~process.terminating
                              /\ "reckless" \in faults \/ Resumable
    /\ m.type = "state" => c = Proc
    /\ requests' = Send(requests, c, m) /\ Asked' = Asked \cup ({c} \cap Thread)
    /\ UNCHANGED <<fifos, opened, responses, events, rt, threads, faults, exiting,
                   process, known, Replied, Unborn, Live, Listed, States, Tids, OpenTids>>
    /\ (Resumable' <=> Resumable) /\ (Distinct' <=> Distinct)

DidFinal ==
    /\ udi.at = "idle" /\ udi.told /\ process.terminating /\ rt.at # "gone"
    /\ udi'.at = "idle" /\ ~udi'.told /\ udi'.thr = udi.thr /\ udi'.chan = udi.chan
    /\ process'.running /\ process'.terminating
    /\ "reckless" \in faults \/ Resumable
    /\ requests' = Send(requests, Proc, Plain("continue")) /\ Asked' = Asked
    /\ UNCHANGED <<fifos, opened, responses, events, rt, threads, faults, exiting,
                   known, Replied, Unborn, Live, Listed, States, Tids, OpenTids>>
    /\ (Resumable' <=> Resumable) /\ (Distinct' <=> Distinct)

UdiMoves ==
    /\ UNCHANGED faults
    /\ \/ UNCHANGED vars \/ DidPoll \/ DidUdiOpen \/ DidWriteInit \/ DidResponseOpen
       \/ DidReadInit \/ DidWriteThreadInit \/ DidReadThreadInit \/ DidReadResponse
       \/ DidResponseEof \/ DidReadEvent \/ DidCleanup
       \/ (\E c \in Chan, m \in Request_ : DidAsking(c, m)) \/ DidFinal

\* The ones that leave the channels, and the state of libudi's call, alone.
Still == UNCHANGED vars \/ DidUdiOpen \/ DidCleanup

=============================================================================
