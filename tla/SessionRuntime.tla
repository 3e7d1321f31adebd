-------------------------- MODULE SessionRuntime ---------------------------
(***************************************************************************)
(* Every step of the debuggee keeps the invariant of Session: one lemma for*)
(* each conjunct, with one step for each action.                           *)
(***************************************************************************)
EXTENDS SessionPipes

\* An event is made of what it was made from.
LEMMA EventTypes ==
    \A type \in {"breakpoint", "unknown", "error", "create", "death", "exit"}, t, u \in Thread :
       /\ Event(type, t, u) \in Event_
       /\ Event(type, t, u).type = type /\ Event(type, t, u).tid = t /\ Event(type, t, u).data = u
  BY DEF Event, Event_

\* A handler changes the settings of the thread it is for, and of no other.
LEMMA HandledEffect ==
    ASSUME TypeOK, NEW c \in Chan, NEW m \in Request_
    PROVE  /\ Handled(c, m) \in [Thread -> ThreadType]
           /\ \A t \in Thread : Handled(c, m)[t].life = threads[t].life
           /\ \A t \in Thread : t # c => Handled(c, m)[t] = threads[t]
           /\ \A t \in Thread : (t = c /\ m.type = "single_step") => Handled(c, m)[t].single_step = m.value
           /\ \A t \in Thread : m.type # "single_step" => Handled(c, m)[t].single_step = threads[t].single_step
  <1>1. threads \in [Thread -> ThreadType] /\ m.value \in BOOLEAN
    BY MessageTypes DEF TypeOK, ThreadType
  <1>2. CASE m.type = "thread_suspend"
    BY <1>1, <1>2 DEF Handled, ThreadType
  <1>3. CASE m.type = "thread_resume"
    BY <1>1, <1>3 DEF Handled, ThreadType
  <1>4. CASE m.type = "single_step"
    BY <1>1, <1>4 DEF Handled, ThreadType
  <1>5. CASE m.type \notin {"thread_suspend", "thread_resume", "single_step"}
    BY <1>1, <1>5 DEF Handled, ThreadType
  <1> QED BY <1>2, <1>3, <1>4, <1>5

\* A channel is empty when its length is 0.
LEMMA Lengths ==
    ASSUME TypeOK, NEW c \in Chan
    PROVE  /\ Len(requests[c]) \in Nat /\ (requests[c] = <<>> <=> Len(requests[c]) = 0)
           /\ Len(responses[c]) \in Nat /\ (responses[c] = <<>> <=> Len(responses[c]) = 0)
  <1>1. requests[c] \in Seq(Request_) /\ responses[c] \in Seq(Response_)
    BY DEF TypeOK
  <1>2. Len(requests[c]) \in Nat /\ Len(responses[c]) \in Nat
    BY <1>1, LenProperties
  <1>3. requests[c] # <<>> => Len(requests[c]) # 0
    BY <1>1, EmptySeq
  <1>4. responses[c] # <<>> => Len(responses[c]) # 0
    BY <1>1, EmptySeq
  <1>5. Len(<<>>) = 0
    OBVIOUS
  <1> QED BY <1>2, <1>3, <1>4, <1>5

\* Writing a response in a handshake.
LEMMA InitReply == Reply("init", TRUE, {}) \in Response_ /\ Reply("init", TRUE, {}).to = "init"
  BY RequestTypes DEF Reply, Response_

\* A response to continue carries no data.
LEMMA ContinueReplies ==
    ASSUME NEW ok \in BOOLEAN
    PROVE  /\ ContinueReply(ok) \in Response_ /\ ContinueReply(ok).to = "continue"
           /\ ContinueReply(ok).ok = ok /\ ContinueReply(ok).data = FALSE
  BY RequestTypes DEF ContinueReply, Reply, Response_, SendsData

\* A new event comes after all the others.
LEMMA EventAdded ==
    ASSUME TypeOK, NEW e \in Event_, events' = Append(events, e)
    PROVE  \E k \in Nat :
              /\ k = Len(events) /\ Len(events') = k + 1
              /\ DOMAIN events = 1..k /\ DOMAIN events' = (1..k) \cup {k + 1}
              /\ events'[k + 1] = e /\ \A i \in 1..k : events'[i] = events[i]
  <1>1. events \in Seq(Event_)
    BY DEF TypeOK
  <1>2. Len(events) \in Nat /\ DOMAIN events = 1..Len(events)
    BY <1>1, LenProperties
  <1>3. /\ Len(events') = Len(events) + 1 /\ events'[Len(events) + 1] = e
        /\ \A i \in 1..Len(events) : events'[i] = events[i]
        /\ DOMAIN events' = 1..(Len(events) + 1)
    BY <1>1, <1>2, AppendProperties, LenProperties
  <1>4. PICK k \in Nat : k = Len(events)
    BY <1>2
  <1>5. 1..(k + 1) = (1..k) \cup {k + 1}
    OBVIOUS
  <1> QED BY <1>2, <1>3, <1>4, <1>5

\* A response sent does not overtake the first one.
LEMMA Behind ==
    ASSUME TypeOK, NEW c \in Chan, NEW r \in Response_, responses[c] # <<>>, responses' = Send(responses, c, r)
    PROVE  Head(responses'[c]) = Head(responses[c])
  <1>1. responses \in [Chan -> Seq(Response_)]
    BY DEF TypeOK
  <1> QED BY <1>1, SendEffect

\* What the steps that send and read no message leave alone.
LEMMA QuietKeeps ==
    ASSUME IInv, Quiet
    PROVE  /\ UNCHANGED <<requests, responses, udi, known, threads, States>>
           /\ process'.running = process.running /\ process'.terminating = process.terminating
           /\ UNCHANGED rt \/ rt.at \in {"start", "report_create", "run"}
           /\ \A t \in Thread : Making(t)' => Making(t)
  <1> USE DEF IInv
  <1>1. CASE DidRtOpen
    BY <1>1 DEF DidRtOpen, Making
  <1>2. CASE Starts \/ DidReportCreate \/ DidTerminate
    BY <1>2 DEF DidCreate, DidInitFails, DidReportCreate, DidTerminate, Starts, Making
  <1>3. ASSUME NEW t \in Thread, DidStop(t) \/ DidExit(t)
        PROVE  /\ UNCHANGED <<requests, responses, udi, process, known, threads, States>>
               /\ rt.at = "run" /\ rt'.at = "command"
    BY <1>3 DEF DidStop, DidExit
  <1>4. CASE \E t \in Thread : DidStop(t) \/ DidExit(t)
    BY <1>3, <1>4 DEF Making
  <1> QED BY <1>1, <1>2, <1>4 DEF Quiet, Halts

\* The same for the ones that start or end a thread.
LEMMA AsideKeeps ==
    ASSUME IInv, Aside
    PROVE  /\ UNCHANGED <<requests, responses, udi, Pending, Uncrowded>>
           /\ process'.running = process.running /\ process'.terminating = process.terminating
           /\ UNCHANGED rt \/ rt.at \in {"start", "open_response", "report_create", "run"}
  <1> USE DEF IInv
  <1>1. CASE Quiet
    BY <1>1, QuietKeeps, PendingNext, ProcChan
  <1>2. CASE DidFirst
    BY <1>2, PendingNext, ProcChan DEF DidFirst
  <1>3. ASSUME NEW t \in Thread, DidThreadDeath(t)
        PROVE  UNCHANGED <<requests, responses, udi, process>> /\ rt.at = "run"
    BY <1>3 DEF DidThreadDeath
  <1>4. ASSUME NEW t \in Thread, NEW u \in Thread, DidCreateThread(t, u)
        PROVE  UNCHANGED <<requests, responses, udi, process>> /\ rt.at = "run"
    BY <1>4 DEF DidCreateThread
  <1> QED BY <1>1, <1>2, <1>3, <1>4, PendingNext, ProcChan DEF Aside

\* A running debuggee stops, or ends, with one event at most unless a step fails.
LEMMA EventWritten ==
    ASSUME TypeOK, events = <<>>, "step" \notin faults,
           Halts \/ (\E t \in Thread : DidThreadDeath(t)) \/ (\E t, u \in Thread : DidCreateThread(t, u))
    PROVE  /\ rt.at \in {"run", "report_create"}
           /\ rt'.at \in {"command", "thr_open_request", "report_create", "gone"}
           /\ UNCHANGED process
           /\ events' # <<>> => /\ Len(events') = 1
                                /\ rt'.at \in {"command", "thr_open_request"}
                                /\ rt'.at = "thr_open_request" => events'[1].type = "create"
  <1>1. \A e : events' = Append(events, e) => Len(events') = 1 /\ events'[1] = e
    <2>1. \A e : Append(<<>>, e) = <<e>>
      OBVIOUS
    <2>2. \A e : Len(<<e>>) = 1 /\ <<e>>[1] = e
      OBVIOUS
    <2> QED BY <2>1, <2>2, Zenon
  <1>2. CASE DidReportCreate
    <2>1. events' = Append(events, Event("create", rt.creator, rt.thr))
      BY <1>2 DEF DidReportCreate
    <2>2. Event("create", rt.creator, rt.thr).type = "create"
      BY DEF Event
    <2> QED BY <1>1, <1>2, <2>1, <2>2 DEF DidReportCreate
  <1>3. CASE DidTerminate
    BY <1>3 DEF DidTerminate
  <1>4. ASSUME NEW t \in Thread, DidExit(t) \/ DidThreadDeath(t)
        PROVE  Len(events') = 1 /\ rt.at = "run" /\ rt'.at = "command" /\ UNCHANGED process
    BY <1>1, <1>4 DEF DidExit, DidThreadDeath
  <1>5. ASSUME NEW t \in Thread, NEW u \in Thread, DidCreateThread(t, u)
        PROVE  rt.at = "run" /\ rt'.at = "report_create" /\ UNCHANGED <<events, process>>
    BY <1>5 DEF DidCreateThread
  <1>6. ASSUME NEW t \in Thread, DidStop(t)
        PROVE  /\ rt.at = "run" /\ rt'.at = "command" /\ UNCHANGED process
               /\ events' # <<>> => Len(events') = 1
    <2>1. PICK k, n \in Nat : k = Len(events) /\ n = Len(events') /\ ("step" \notin faults => n <= k + 1)
      BY <1>6 DEF DidStop
    <2>2. Len(events') \in Nat /\ Len(events') <= 1
      BY <2>1
    <2>3. events' # <<>> => Len(events') # 0
      BY <1>6, EmptySeq DEF DidStop
    <2>4. \A x \in Nat : (x # 0 /\ x <= 1) => x = 1
      OBVIOUS
    <2>5. events' # <<>> => Len(events') = 1
      BY <2>2, <2>3, <2>4, Zenon
    <2> QED BY <1>6, <2>5 DEF DidStop
  <1> QED BY <1>2, <1>3, <1>4, <1>5, <1>6 DEF Halts

\* The debuggee that runs has nothing to answer, and the events pipe is empty.
LEMMA Running ==
    ASSUME IInv, Controlled, rt.at \in {"run", "report_create"}
    PROVE  /\ events = <<>> /\ Pending = {}
           /\ udi.at \in {"idle", "await", "lost"}
           /\ udi.at = "idle" => ~udi.told
           /\ udi.at = "await" => Continued
  <1>1. udi.at \in {"idle", "await", "lost"}
    BY Subsets DEF IInv, Handshake, Controlled, Connecting, TypeOK, Calls
  <1>2. udi.told \in BOOLEAN
    BY DEF IInv, TypeOK
  <1>3. events = <<>> /\ ~Waits /\ ~Answering
    BY DEF Controlled, Waits, Answering
  <1>4. (udi.at = "idle" => ~udi.told) /\ (udi.at = "await" => Continued)
    BY <1>2, <1>3 DEF Controlled
  <1>5. Pending = {}
    BY <1>1, <1>2, <1>3, <1>4 DEF Controlled, Continued
  <1> QED BY <1>1, <1>3, <1>4, <1>5

\* What the request that the command loop is about to read can be.
LEMMA Serving ==
    ASSUME IInv, Controlled, rt.at = "command", Pending # {}
    PROVE  /\ events = <<>>
           /\ \/ /\ udi.at \in {"await", "lost"} /\ Answering
                 /\ Pending = {udi.chan} /\ requests[udi.chan] = <<udi.asked>>
                 /\ udi.asked.type = "continue" =>
                       /\ udi.at = "await" /\ udi.chan = Proc /\ Resumable
                       /\ ~process.terminating /\ responses[Proc] = <<>>
              \/ /\ udi.at = "idle" /\ ~udi.told /\ Resumable /\ process.terminating
                 /\ Pending = {Proc} /\ requests[Proc] = <<Plain("continue")>>
  <1>1. udi.at \in {"idle", "await", "lost", "thr_open_request", "thr_open_response"}
    BY Subsets DEF IInv, Handshake, Controlled, Connecting, TypeOK, Calls
  <1>2. udi.told \in BOOLEAN
    BY DEF IInv, TypeOK
  <1> QED BY <1>1, <1>2 DEF Controlled, Continued, Answering

-----------------------------------------------------------------------------
(* The conjuncts of the invariant. *)

\* The leaves have many facts to check: they get more than the usual time.
USE SMTT(100), Untyped

\* The two sides keep in step while they connect, and while they connect a
\* thread.
LEMMA HandshakeRuntime == ASSUME IInv, RtMoves PROVE Handshake'
  <1> USE ProcChan, FirstAssumption, PipeFacts DEF IInv
  <1>1. CASE DidCreate
    <2>1. PICK i \in 1..3 :
             /\ Order[i] \notin fifos /\ \A j \in 1..(i - 1) : Order[j] \in fifos
             /\ fifos' = fifos \cup {Order[i]}
             /\ IF i = 3 THEN rt'.at = "open_request" ELSE rt'.at = "start"
      BY <1>1 DEF DidCreate
    <2>2. udi.at = "poll"
      BY <1>1 DEF DidCreate, Handshake, Connecting
    <2>3. Events \in fifos' <=> rt'.at = "open_request"
      BY <1>1, <2>1, <2>2 DEF DidCreate, Handshake, Events, Request, Response
    <2>4. Events \in fifos' => Request(Proc) \in fifos' /\ Response(Proc) \in fifos'
      BY <2>1, <2>3
    <2>5. \A x \in Live' : ThreadPipes(x) \subseteq fifos'
      BY <1>1, <2>1 DEF DidCreate, Handshake
    <2> QED BY <1>1, <2>1, <2>2, <2>3, <2>4, <2>5 DEF DidCreate, Handshake, Connecting,
               Making
  <1>2. CASE DidInitFails
    BY <1>2 DEF DidInitFails, Handshake, Connecting, Making
  <1>3. CASE DidRtOpen
    <2>1. PICK p \in RtOpening : opened' = [opened EXCEPT ![p] = @ \cup {"rt"}]
      BY <1>3, ZenonT(100) DEF DidRtOpen
    <2>2. p = Response(Proc) => rt.at = "open_response" \/ p = Response(rt.thr)
      BY <2>1 DEF RtOpening, Request, Response, Events
    <2>3. Response(rt.thr) # Response(Proc) /\ Response(udi.thr) \in Pipe
      BY Subsets DEF Response
    <2>4. \A q \in Pipe : opened'[q] = opened[q] \/ (q = p /\ opened'[q] = opened[q] \cup {"rt"})
      BY <2>1 DEF TypeOK
    <2>5. "rt" \in opened'[Response(Proc)] => rt.at \notin {"start", "open_request"}
      BY <2>2, <2>3, <2>4 DEF Handshake
    <2>6. \A q \in Pipe : "udi" \in opened'[q] <=> "udi" \in opened[q]
      BY <2>4
    <2> QED BY <1>3, <2>3, <2>5, <2>6 DEF DidRtOpen, Handshake, Connecting, Making
  <1>4. CASE DidInitRequest
    <2>1. udi.at = "open_response" /\ Len(requests[Proc]) <= 1
      BY <1>4 DEF DidInitRequest, Handshake, Connecting
    <2>2. Len(requests[Proc]) = 1
      <3>1. Len(requests[Proc]) \in Nat /\ Len(requests[Proc]) # 0
        BY <1>4, Lengths, ZenonT(100) DEF DidInitRequest
      <3>2. \A n \in Nat : (n # 0 /\ n <= 1) => n = 1
        OBVIOUS
      <3> QED BY <2>1, <3>1, <3>2, ZenonT(100)
    <2>3. requests' = Drop(requests, Proc) /\ requests \in [Chan -> Seq(Request_)] /\ requests[Proc] # <<>>
      BY <1>4 DEF DidInitRequest, TypeOK
    <2>4. requests'[Proc] = <<>> /\ Len(requests'[Proc]) = 0
      BY <2>2, <2>3, DropEffect
    <2>5. /\ rt.at = "open_request" /\ rt'.at = "open_response" /\ rt'.thr = rt.thr
          /\ UNCHANGED <<fifos, opened, responses, events, exiting, udi, process, known, Unborn, Live>>
      BY <1>4 DEF DidInitRequest
    <2> QED BY <2>1, <2>4, <2>5 DEF Handshake, Connecting, Making
  <1>5. CASE DidFirst
    <2>1. Events \in fifos' => Events \in fifos
      BY <1>5, PipesApart DEF DidFirst
    <2>2. \A x \in Live' : ThreadPipes(x) \subseteq fifos'
      BY <1>5 DEF DidFirst, Handshake
    <2> QED BY <1>5, <2>1, <2>2 DEF DidFirst, Handshake, Connecting, Making
  <1>6. CASE DidInitHandler
    <2>1. udi.at = "open_events"
      BY <1>6 DEF DidInitHandler, Handshake, Connecting
    <2>2. /\ rt.at = "open_events" /\ rt'.at = "thr_open_request" /\ rt'.thr = First
          /\ UNCHANGED <<fifos, opened, requests, events, exiting, udi, process, known, Unborn, Live>>
      BY <1>6 DEF DidInitHandler
    <2> QED BY <2>1, <2>2 DEF Handshake, Connecting, Making
  <1>7. CASE DidThreadInitRequest
    <2>1. rt.at = "thr_open_request" /\ udi.at = "thr_open_response" /\ udi.thr = rt.thr
      BY <1>7, Subsets DEF DidThreadInitRequest, Books, Making
    <2> QED BY <1>7, <2>1 DEF DidThreadInitRequest, Handshake, Connecting, Making
  <1>8. CASE DidThreadResponse
    <2>1. udi.at = "thr_open_response" /\ udi.thr = rt.thr
      BY <1>8 DEF DidThreadResponse, Books
    <2> QED BY <1>8, <2>1, ZenonT(100) DEF DidThreadResponse, Handshake, Connecting, Making
  <1>9. CASE DidReportCreate
    BY <1>9 DEF DidReportCreate, Handshake, Connecting, Making
  <1>10. ASSUME NEW c \in Chan, DidServe(c) PROVE Handshake'
    BY <1>10 DEF DidServe, Handshake, Connecting, Making
  <1>11. CASE DidContinue
    <2>1. fifos' = fifos \/ fifos' = fifos \ UNION {ThreadPipes(t) : t \in Listed \ Live}
      BY <1>11 DEF DidContinue
    <2>2. \A t, x \in Thread : t # x => ThreadPipes(t) \cap ThreadPipes(x) = {}
      BY PipesApart
    <2>3. \A t \in Thread : /\ Events \notin ThreadPipes(t)
                            /\ Request(Proc) \notin ThreadPipes(t)
                            /\ Response(Proc) \notin ThreadPipes(t)
      BY PipesApart, ZenonT(100)
    <2>4. \A x \in Live' : ThreadPipes(x) \subseteq fifos'
      BY <1>11, <2>1, <2>2 DEF DidContinue, Handshake, Live, Listed
    <2>5. \A p \in {Events, Request(Proc), Response(Proc)} : p \in fifos' <=> p \in fifos
      BY <2>1, <2>3 DEF Listed
    <2> QED BY <1>11, <2>4, <2>5 DEF DidContinue, Handshake, Connecting, Making
  <1>12. ASSUME NEW t \in Thread, DidStop(t) PROVE Handshake'
    BY <1>12 DEF DidStop, Handshake, Connecting, Making
  <1>13. ASSUME NEW t \in Thread, DidThreadDeath(t) PROVE Handshake'
    BY <1>13 DEF DidThreadDeath, Handshake, Connecting, Making
  <1>14. ASSUME NEW t \in Thread, DidExit(t) PROVE Handshake'
    BY <1>14 DEF DidExit, Handshake, Connecting, Making
  <1>15. ASSUME NEW t \in Thread, NEW u \in Thread, DidCreateThread(t, u) PROVE Handshake'
    <2>1. Events \in fifos' => Events \in fifos
      BY <1>15, PipesApart DEF DidCreateThread
    <2>2. \A x \in Live' : ThreadPipes(x) \subseteq fifos'
      BY <1>15 DEF DidCreateThread, Handshake
    <2> QED BY <1>15, <2>1, <2>2 DEF DidCreateThread, Handshake, Connecting, Making
  <1>16. CASE DidTerminate
    BY <1>16 DEF DidTerminate, Handshake, Connecting, Making
  <1> QED
    BY <1>1, <1>2, <1>3, <1>4, <1>5, <1>6, <1>7, <1>8, <1>9, <1>10, <1>11, <1>12, <1>13,
       <1>14, <1>15, <1>16 DEF RtMoves

\* Each live thread is open in libudi, or about to be.
LEMMA BooksRuntime == ASSUME IInv, RtMoves PROVE Books'
  <1> USE ProcChan, FirstAssumption, Subsets DEF IInv
  <1>1. CASE DidCreate
    BY <1>1 DEF DidCreate, Books, Adding, Making
  <1>2. CASE DidInitFails
    BY <1>2 DEF DidInitFails, Books, Adding, Making
  <1>3. CASE DidRtOpen
    BY <1>3 DEF DidRtOpen, Books, Adding, Making
  <1>4. CASE DidInitRequest
    BY <1>4 DEF DidInitRequest, Books, Adding, Making
  <1>5. CASE DidFirst
    <2>1. udi.at \in Connecting /\ rt.thr = First /\ Unborn = Thread
      BY <1>5 DEF DidFirst, Handshake
    <2>2. Tids = {} /\ Live = {} /\ Asked = {} /\ Replied = {}
      BY <2>1 DEF Books, Connecting
    <2> QED BY <1>5, <2>1, <2>2 DEF DidFirst, Books, Adding, Making, Connecting
  <1>6. CASE DidInitHandler
    <2>1. rt.thr = First
      BY <1>6 DEF DidInitHandler, Handshake
    <2> QED BY <1>6, <2>1 DEF DidInitHandler, Books, Adding, Making
  <1>7. CASE DidThreadInitRequest
    BY <1>7 DEF DidThreadInitRequest, Books, Adding, Making
  <1>8. CASE DidThreadResponse
    BY <1>8 DEF DidThreadResponse, Books, Adding, Making
  <1>9. CASE DidReportCreate
    BY <1>9 DEF DidReportCreate, Books, Adding, Making
  <1>10. ASSUME NEW c \in Chan, DidServe(c) PROVE Books'
    BY <1>10 DEF DidServe, Books, Adding, Making
  <1>11. CASE DidContinue
    BY <1>11 DEF DidContinue, Books, Adding, Making
  <1>12. ASSUME NEW t \in Thread, DidStop(t) PROVE Books'
    BY <1>12 DEF DidStop, Books, Adding, Making
  <1>13. ASSUME NEW t \in Thread, DidThreadDeath(t) PROVE Books'
    BY <1>13 DEF DidThreadDeath, Books, Adding, Making
  <1>14. ASSUME NEW t \in Thread, DidExit(t) PROVE Books'
    BY <1>14 DEF DidExit, Books, Adding, Making
  <1>15. ASSUME NEW t \in Thread, NEW u \in Thread, DidCreateThread(t, u) PROVE Books'
    BY <1>15 DEF DidCreateThread, Books, Adding, Making
  <1>16. CASE DidTerminate
    BY <1>16 DEF DidTerminate, Books, Adding, Making
  <1> QED
    BY <1>1, <1>2, <1>3, <1>4, <1>5, <1>6, <1>7, <1>8, <1>9, <1>10, <1>11, <1>12, <1>13,
       <1>14, <1>15, <1>16 DEF RtMoves

\* An event of the pipe is of a thread that libudi has open when it reads it.
LEMMA QueueRuntime == ASSUME IInv, RtMoves PROVE Queue'
  <1> USE ProcChan, FirstAssumption, Subsets DEF IInv
  <1>1. CASE DidCreate
    BY <1>1 DEF DidCreate, Queue, Adding
  <1>2. CASE DidInitFails
    BY <1>2 DEF DidInitFails, Queue, Adding
  <1>3. CASE DidRtOpen
    BY <1>3 DEF DidRtOpen, Queue, Adding
  <1>4. CASE DidInitRequest
    BY <1>4 DEF DidInitRequest, Queue, Adding
  <1>5. CASE DidFirst
    <2>1. events = <<>> /\ udi.at \in Connecting /\ rt.thr = First
      BY <1>5 DEF DidFirst, Handshake
    <2> QED BY <1>5, <2>1 DEF DidFirst, Queue, Adding, Connecting
  <1>6. CASE DidInitHandler
    <2>1. events = <<>>
      BY <1>6 DEF DidInitHandler, Handshake
    <2> QED BY <1>6, <2>1 DEF DidInitHandler, Queue, Adding
  <1>7. CASE DidThreadInitRequest
    <2>1. Adding(rt.thr)
      BY <1>7 DEF DidThreadInitRequest, Books, Making, Adding
    <2> QED BY <1>7, <2>1 DEF DidThreadInitRequest, Queue, Adding
  <1>8. CASE DidThreadResponse
    BY <1>8 DEF DidThreadResponse, Queue, Adding
  <1>9. CASE DidReportCreate
    <2>1. PICK e \in Event_ : e = Event("create", rt.creator, rt.thr)
      BY EventTypes
    <2>2. e.type = "create" /\ e.tid = rt.creator /\ e.data = rt.thr /\ events' = Append(events, e)
      BY <1>9, <2>1 DEF DidReportCreate, Event
    <2>3. PICK k \in Nat :
             /\ k = Len(events) /\ Len(events') = k + 1
             /\ DOMAIN events = 1..k /\ DOMAIN events' = (1..k) \cup {k + 1}
             /\ events'[k + 1] = e /\ \A i \in 1..k : events'[i] = events[i]
      BY <2>2, EventAdded
    <2>4. /\ rt.creator \in Live /\ (rt.creator \in OpenTids \/ Adding(rt.creator)) /\ ~Adding(rt.thr)
          /\ rt'.at = "thr_open_request" /\ rt'.thr = rt.thr
          /\ UNCHANGED <<udi, OpenTids, Live>>
      BY <1>9 DEF DidReportCreate, Books
    <2>6. \A i \in 1..k : events[i].type # "create"
      BY <1>9, <2>3 DEF DidReportCreate, Queue
    <2>7. \A i \in 1..k : events[i].type = "death" => events[i].tid # rt.creator
      BY <2>3, <2>4 DEF Queue
    <2> QED BY <2>2, <2>3, <2>4, <2>6, <2>7 DEF Queue, Adding
  <1>10. ASSUME NEW c \in Chan, DidServe(c) PROVE Queue'
    BY <1>10 DEF DidServe, Queue, Adding
  <1>11. CASE DidContinue
    BY <1>11 DEF DidContinue, Queue, Adding
  <1>12. ASSUME NEW t \in Thread, DidStop(t) PROVE Queue'
    <2>3. PICK k, n \in Nat :
             /\ k = Len(events) /\ n = Len(events') /\ k <= n
             /\ DOMAIN events = 1..k /\ DOMAIN events' = 1..n
             /\ \A i \in 1..k : events'[i] = events[i]
             /\ \A i \in 1..n : i > k => /\ events'[i].tid = t
                                         /\ events'[i].type \in {"breakpoint", "unknown", "error"}
      BY <1>12 DEF DidStop
    <2>5. t \in OpenTids \/ Adding(t)
      BY <1>12 DEF DidStop, Books, Making
    <2>6. \A i \in 1..k : events[i].type # "create"
      BY <1>12, <2>3 DEF DidStop, Queue
    <2>7. \A i \in 1..k : events[i].type = "death" => events[i].tid # t
      BY <1>12, <2>3 DEF DidStop, Queue
    <2>8. UNCHANGED <<udi, OpenTids, Live>>
      BY <1>12 DEF DidStop
    <2> QED BY <2>3, <2>5, <2>6, <2>7, <2>8 DEF Queue, Adding
  <1>13. ASSUME NEW t \in Thread, DidThreadDeath(t) PROVE Queue'
    <2>1. PICK e \in Event_ : e = Event("death", t, t)
      BY EventTypes
    <2>2. e.type = "death" /\ e.tid = t /\ e.data = t /\ events' = Append(events, e)
      BY <1>13, <2>1 DEF DidThreadDeath, Event
    <2>3. PICK k \in Nat :
             /\ k = Len(events) /\ Len(events') = k + 1
             /\ DOMAIN events = 1..k /\ DOMAIN events' = (1..k) \cup {k + 1}
             /\ events'[k + 1] = e /\ \A i \in 1..k : events'[i] = events[i]
      BY <2>2, EventAdded
    <2>5. t \in OpenTids \/ Adding(t)
      BY <1>13 DEF DidThreadDeath, Books, Making
    <2>6. \A i \in 1..k : events[i].type # "create"
      BY <1>13, <2>3 DEF DidThreadDeath, Queue
    <2>7. \A i \in 1..k : events[i].type = "death" => events[i].tid # t
      BY <1>13, <2>3 DEF DidThreadDeath, Queue
    <2>8. UNCHANGED <<udi, OpenTids>> /\ Live' = Live \ {t}
      BY <1>13 DEF DidThreadDeath
    <2> QED BY <2>2, <2>3, <2>5, <2>6, <2>7, <2>8 DEF Queue, Adding
  <1>14. ASSUME NEW t \in Thread, DidExit(t) PROVE Queue'
    <2>1. PICK e \in Event_ : e = Event("exit", t, t)
      BY EventTypes
    <2>2. e.type = "exit" /\ e.tid = t /\ e.data = t /\ events' = Append(events, e)
      BY <1>14, <2>1 DEF DidExit, Event
    <2>3. PICK k \in Nat :
             /\ k = Len(events) /\ Len(events') = k + 1
             /\ DOMAIN events = 1..k /\ DOMAIN events' = (1..k) \cup {k + 1}
             /\ events'[k + 1] = e /\ \A i \in 1..k : events'[i] = events[i]
      BY <2>2, EventAdded
    <2>5. t \in OpenTids \/ Adding(t)
      BY <1>14 DEF DidExit, Books, Making
    <2>6. \A i \in 1..k : events[i].type # "create"
      BY <1>14, <2>3 DEF DidExit, Queue
    <2>7. \A i \in 1..k : events[i].type = "death" => events[i].tid # t
      BY <1>14, <2>3 DEF DidExit, Queue
    <2>8. UNCHANGED <<udi, OpenTids, Live>>
      BY <1>14 DEF DidExit
    <2> QED BY <2>2, <2>3, <2>5, <2>6, <2>7, <2>8 DEF Queue, Adding
  <1>15. ASSUME NEW t \in Thread, NEW u \in Thread, DidCreateThread(t, u) PROVE Queue'
    <2>1. u \notin OpenTids /\ ~Adding(u)
      BY <1>15 DEF DidCreateThread, Books
    <2> QED BY <1>15, <2>1 DEF DidCreateThread, Queue, Adding
  <1>16. CASE DidTerminate
    BY <1>16 DEF DidTerminate, Queue, Adding
  <1> QED
    BY <1>1, <1>2, <1>3, <1>4, <1>5, <1>6, <1>7, <1>8, <1>9, <1>10, <1>11, <1>12, <1>13,
       <1>14, <1>15, <1>16 DEF RtMoves

\* The event of the exit is the last one, and process.terminating is set once it
\* was read.
LEMMA ExitsRuntime == ASSUME IInv, RtMoves PROVE Exits'
  <1> USE ProcChan, Subsets DEF IInv
  <1>1. CASE DidCreate
    BY <1>1 DEF DidCreate, Exits, Finale, Without
  <1>2. CASE DidInitFails
    BY <1>2 DEF DidInitFails, Exits, Finale, Without
  <1>3. CASE DidRtOpen
    BY <1>3 DEF DidRtOpen, Exits, Finale, Without
  <1>4. CASE DidInitRequest
    BY <1>4 DEF DidInitRequest, Exits, Finale, Without
  <1>5. CASE DidFirst
    BY <1>5 DEF DidFirst, Exits, Finale, Without
  <1>6. CASE DidInitHandler
    BY <1>6 DEF DidInitHandler, Exits, Finale, Without
  <1>7. CASE DidThreadInitRequest
    BY <1>7 DEF DidThreadInitRequest, Exits, Finale, Without
  <1>8. CASE DidThreadResponse
    BY <1>8 DEF DidThreadResponse, Exits, Finale, Without
  <1>9. CASE DidReportCreate
    <2>1. PICK e \in Event_ : e = Event("create", rt.creator, rt.thr)
      BY EventTypes
    <2>2. e.type = "create" /\ e.tid = rt.creator /\ e.data = rt.thr /\ events' = Append(events, e)
      BY <1>9, <2>1 DEF DidReportCreate, Event
    <2>3. PICK k \in Nat :
             /\ k = Len(events) /\ Len(events') = k + 1
             /\ DOMAIN events = 1..k /\ DOMAIN events' = (1..k) \cup {k + 1}
             /\ events'[k + 1] = e /\ \A i \in 1..k : events'[i] = events[i]
      BY <2>2, EventAdded
    <2>4. /\ UNCHANGED <<udi, process, faults>> /\ rt.at = "report_create" /\ rt'.at \in {"command", "thr_open_request"}
          /\ exiting' = exiting
      BY <1>9 DEF DidReportCreate
    <2> QED BY <2>2, <2>3, <2>4 DEF Exits, Finale, Without
  <1>10. ASSUME NEW c \in Chan, DidServe(c) PROVE Exits'
    BY <1>10 DEF DidServe, Exits, Finale, Without
  <1>11. CASE DidContinue
    BY <1>11 DEF DidContinue, Exits, Finale, Without
  <1>12. ASSUME NEW t \in Thread, DidStop(t) PROVE Exits'
    <2>3. PICK k, n \in Nat :
             /\ k = Len(events) /\ n = Len(events') /\ k <= n
             /\ DOMAIN events = 1..k /\ DOMAIN events' = 1..n
             /\ \A i \in 1..k : events'[i] = events[i]
             /\ \A i \in 1..n : i > k => /\ events'[i].tid = t
                                         /\ events'[i].type \in {"breakpoint", "unknown", "error"}
      BY <1>12 DEF DidStop
    <2>4. /\ UNCHANGED <<udi, process, faults, exiting>> /\ rt.at = "run" /\ rt'.at = "command"
          /\ exiting => "late" \in faults
      BY <1>12 DEF DidStop
    <2> QED BY <2>3, <2>4 DEF Exits, Finale, Without
  <1>13. ASSUME NEW t \in Thread, DidThreadDeath(t) PROVE Exits'
    <2>1. PICK e \in Event_ : e = Event("death", t, t)
      BY EventTypes
    <2>2. e.type = "death" /\ e.tid = t /\ e.data = t /\ events' = Append(events, e)
      BY <1>13, <2>1 DEF DidThreadDeath, Event
    <2>3. PICK k \in Nat :
             /\ k = Len(events) /\ Len(events') = k + 1
             /\ DOMAIN events = 1..k /\ DOMAIN events' = (1..k) \cup {k + 1}
             /\ events'[k + 1] = e /\ \A i \in 1..k : events'[i] = events[i]
      BY <2>2, EventAdded
    <2>4. /\ UNCHANGED <<udi, process, faults>> /\ rt.at = "run" /\ rt'.at \in {"command", "thr_open_request"}
          /\ exiting' = exiting /\ (exiting => "late" \in faults) /\ rt'.at = "command"
      BY <1>13 DEF DidThreadDeath
    <2> QED BY <2>2, <2>3, <2>4 DEF Exits, Finale, Without
  <1>14. ASSUME NEW t \in Thread, DidExit(t) PROVE Exits'
    <2>1. PICK e \in Event_ : e = Event("exit", t, t)
      BY EventTypes
    <2>2. e.type = "exit" /\ e.tid = t /\ e.data = t /\ events' = Append(events, e)
      BY <1>14, <2>1 DEF DidExit, Event
    <2>3. PICK k \in Nat :
             /\ k = Len(events) /\ Len(events') = k + 1
             /\ DOMAIN events = 1..k /\ DOMAIN events' = (1..k) \cup {k + 1}
             /\ events'[k + 1] = e /\ \A i \in 1..k : events'[i] = events[i]
      BY <2>2, EventAdded
    <2>4. /\ UNCHANGED <<udi, process, faults>> /\ rt.at = "run" /\ rt'.at \in {"command", "thr_open_request"}
          /\ ~exiting /\ exiting' /\ rt'.at = "command"
      BY <1>14 DEF DidExit
    <2> QED BY <2>2, <2>3, <2>4 DEF Exits, Finale, Without
  <1>15. ASSUME NEW t \in Thread, NEW u \in Thread, DidCreateThread(t, u) PROVE Exits'
    BY <1>15 DEF DidCreateThread, Exits, Finale, Without
  <1>16. CASE DidTerminate
    BY <1>16 DEF DidTerminate, Exits, Finale, Without
  <1> QED
    BY <1>1, <1>2, <1>3, <1>4, <1>5, <1>6, <1>7, <1>8, <1>9, <1>10, <1>11, <1>12, <1>13,
       <1>14, <1>15, <1>16 DEF RtMoves

\* There is at most one message on a channel: the request libudi waits to have
\* answered, or the response to it.
LEMMA MatchedRuntime == ASSUME IInv, RtMoves PROVE Matched'
  <1> USE ProcChan, Subsets DEF IInv
  <1> SUFFICES ASSUME Without({"late"}) PROVE Orderly'
    BY DEF RtMoves, Matched, Without
  <1>a. Orderly /\ (Finale => udi.at = "idle" /\ ~udi.told) /\ (process.terminating => events = <<>>)
    BY DEF Matched, Exits
  <1>1. CASE Aside
    <2>1. /\ UNCHANGED <<requests, responses, udi, Uncrowded>>
          /\ process'.running = process.running /\ process'.terminating = process.terminating
          /\ UNCHANGED rt \/ rt.at \in {"start", "open_response", "report_create", "run"}
      BY <1>1, AsideKeeps
    <2> QED BY <1>a, <2>1 DEF Orderly, Owed, Due, Finale, Fits
  <1>2. CASE DidInitRequest
    <2>1. /\ rt.at = "open_request" /\ rt'.at = "open_response"
          /\ requests[Proc] # <<>> /\ requests' = Drop(requests, Proc)
          /\ UNCHANGED <<responses, udi, process>>
      BY <1>2 DEF DidInitRequest
    <2>2. requests'[Proc] = <<>> /\ responses[Proc] = <<>> /\ \A d \in Chan : d # Proc => requests'[d] = requests[d]
      BY <1>a, <2>1, Taken DEF Orderly
    <2>u. \A d \in Chan : d \in Uncrowded'
      BY <1>a, <2>1, <2>2, UncrowdedNext, ZenonT(100) DEF Orderly
    <2>v. \A d \in Chan : requests'[d] # <<>> => Owed(d, Head(requests[d]))'
      BY <1>a, <2>1, <2>2 DEF Orderly, Owed, Finale
    <2>w. \A d \in Chan : responses'[d] # <<>> => Due(d, Head(responses[d]))'
      BY <1>a, <2>1 DEF Orderly, Due, Finale, Fits
    <2> QED BY <1>a, <2>1, <2>u, <2>v, <2>w DEF Orderly
  <1>3. CASE DidInitHandler
    <2>1. udi.at = "open_events" /\ requests[Proc] = <<>> /\ responses[Proc] = <<>>
      BY <1>3 DEF DidInitHandler, Handshake, Connecting
    <2>2. /\ responses' = Send(responses, Proc, Reply("init", TRUE, {})) /\ rt.at = "open_events"
          /\ UNCHANGED <<requests, udi, process>>
      BY <1>3 DEF DidInitHandler
    <2>3. Len(responses'[Proc]) = 1 /\ \A d \in Chan : d # Proc => responses'[d] = responses[d]
      BY <2>1, <2>2, InitReply, Sent, ZenonT(100)
    <2>u. \A d \in Chan : d \in Uncrowded'
      BY <1>a, <2>1, <2>2, <2>3, UncrowdedNext, ZenonT(100) DEF Orderly
    <2>v. \A d \in Chan : requests'[d] # <<>> => Owed(d, Head(requests[d]))'
      BY <1>a, <2>1, <2>2 DEF Orderly, Owed, Finale
    <2>w. \A d \in Chan : responses'[d] # <<>> => Due(d, Head(responses[d]))'
      BY <1>a, <2>1, <2>2, <2>3, ZenonT(100) DEF Orderly, Due, Finale, Fits
    <2> QED BY <1>a, <2>1, <2>2, <2>u, <2>v, <2>w, ZenonT(100) DEF Orderly
  <1>4. CASE DidThreadInitRequest
    <2>1. /\ rt.at = "thr_open_request" /\ rt'.at = "thr_open_response"
          /\ requests[rt.thr] # <<>> /\ requests' = Drop(requests, rt.thr)
          /\ UNCHANGED <<responses, udi, process>>
      BY <1>4 DEF DidThreadInitRequest, Asked
    <2>2. /\ requests'[rt.thr] = <<>> /\ responses[rt.thr] = <<>>
          /\ \A d \in Chan : d # rt.thr => requests'[d] = requests[d]
      BY <1>a, <2>1, Taken DEF Orderly
    <2>u. \A d \in Chan : d \in Uncrowded'
      BY <1>a, <2>1, <2>2, UncrowdedNext, ZenonT(100) DEF Orderly
    <2>v. \A d \in Chan : requests'[d] # <<>> => Owed(d, Head(requests[d]))'
      BY <1>a, <2>1, <2>2 DEF Orderly, Owed, Finale
    <2>w. \A d \in Chan : responses'[d] # <<>> => Due(d, Head(responses[d]))'
      BY <1>a, <2>1 DEF Orderly, Due, Finale, Fits
    <2> QED BY <1>a, <2>1, <2>u, <2>v, <2>w DEF Orderly
  <1>5. CASE DidThreadResponse
    <2>1. /\ udi.at = "thr_open_response" /\ udi.thr = rt.thr /\ rt.at = "thr_open_response"
          /\ responses' = Send(responses, rt.thr, Reply("init", TRUE, {}))
          /\ UNCHANGED <<requests, udi, process>>
      BY <1>5 DEF DidThreadResponse, Books
    <2>2. requests[rt.thr] = <<>> /\ responses[rt.thr] = <<>>
      BY <1>a, <2>1 DEF Books, Making, Replied, Orderly, Owed
    <2>3. Len(responses'[rt.thr]) = 1 /\ \A d \in Chan : d # rt.thr => responses'[d] = responses[d]
      BY <2>1, <2>2, InitReply, Sent, ZenonT(100)
    <2>u. \A d \in Chan : d \in Uncrowded'
      BY <1>a, <2>1, <2>2, <2>3, UncrowdedNext, ZenonT(100) DEF Orderly
    <2>v. \A d \in Chan : requests'[d] # <<>> => Owed(d, Head(requests[d]))'
      BY <1>a, <2>1, <2>2 DEF Orderly, Owed, Finale
    <2>w. \A d \in Chan : responses'[d] # <<>> => Due(d, Head(responses[d]))'
      BY <1>a, <2>1, <2>2, <2>3, ZenonT(100) DEF Orderly, Due, Finale, Fits
    <2> QED BY <1>a, <2>1, <2>u, <2>v, <2>w, ZenonT(100) DEF Orderly
  <1>6. ASSUME NEW c \in Chan, DidServe(c) PROVE Orderly'
    <2>1. PICK r \in Response_ : Served(c, Head(requests[c]), r)
      BY <1>6 DEF DidServe
    <2>2. /\ rt.at = "command" /\ requests[c] # <<>> /\ requests' = Drop(requests, c)
          /\ responses' = Send(responses, c, r)
          /\ r.to = Head(requests[c]).type /\ r.data = (r.ok /\ r.to \in SendsData) /\ r.to # "continue"
          /\ UNCHANGED <<udi, process>>
      BY <1>6, <2>1 DEF DidServe, Served
    <2>3. udi.at = "await" /\ udi.chan = c /\ udi.asked.type = r.to
      BY <1>a, <2>2 DEF Orderly, Owed
    <2>4. Fits(r)
      BY <2>2, <2>3 DEF Fits, SendsData, WantsData
    <2>5. requests'[c] = <<>> /\ responses[c] = <<>> /\ \A d \in Chan : d # c => requests'[d] = requests[d]
      BY <1>a, <2>2, Taken DEF Orderly
    <2>6. Len(responses'[c]) = 1 /\ Head(responses'[c]) = r /\ \A d \in Chan : d # c => responses'[d] = responses[d]
      BY <2>2, <2>5, Sent
    <2>8. ASSUME NEW d \in Chan, d # c PROVE requests'[d] = <<>> /\ responses'[d] = <<>>
      BY <1>a, <2>2, <2>3, <2>5, <2>6, <2>8 DEF Orderly, Owed, Due
    <2>9. udi'.at # "lost" /\ Due(c, r)'
      BY <2>2, <2>3, <2>4 DEF Due, Fits
    <2>u. \A d \in Chan : d \in Uncrowded'
      BY <2>5, <2>6, <2>8, UncrowdedNext, ZenonT(100)
    <2> QED BY <2>5, <2>6, <2>8, <2>9, <2>u DEF Orderly
  <1>7. CASE DidContinue
    <2>1. /\ rt.at = "command" /\ requests[Proc] # <<>> /\ requests' = Drop(requests, Proc)
          /\ Head(requests[Proc]).type = "continue"
          /\ UNCHANGED <<udi, process>>
      BY <1>7 DEF DidContinue
    <2>2. PICK ok \in BOOLEAN : responses' = Send(responses, Proc, ContinueReply(ok)) /\ (Resumable => ok)
      BY <1>7 DEF DidContinue
    <2>3. /\ ContinueReply(ok) \in Response_ /\ ContinueReply(ok).to = "continue"
          /\ ContinueReply(ok).data = FALSE
      BY ContinueReplies, ZenonT(100)
    <2>4. \/ udi.at = "await" /\ udi.chan = Proc /\ udi.asked.type = "continue"
          \/ Finale
      BY <1>a, <2>1 DEF Orderly, Owed
    <2>5. /\ requests'[Proc] = <<>> /\ responses[Proc] = <<>>
          /\ \A d \in Chan : d # Proc => requests'[d] = requests[d]
      BY <1>a, <2>1, Taken DEF Orderly
    <2>6. /\ Len(responses'[Proc]) = 1 /\ Head(responses'[Proc]) = ContinueReply(ok)
          /\ \A d \in Chan : d # Proc => responses'[d] = responses[d]
      BY <2>2, <2>3, <2>5, Sent
    <2>8. ASSUME NEW d \in Chan, d # Proc PROVE requests'[d] = <<>> /\ responses'[d] = <<>>
      BY <1>a, <2>1, <2>4, <2>5, <2>6, <2>8 DEF Orderly, Owed, Due
    <2>9. udi'.at # "lost" /\ Due(Proc, ContinueReply(ok))'
      BY <1>a, <2>1, <2>3, <2>4, ZenonT(100) DEF Due, Fits, WantsData, Finale, Orderly
    <2>u. \A d \in Chan : d \in Uncrowded'
      BY <2>5, <2>6, <2>8, UncrowdedNext, ZenonT(100)
    <2> QED BY <2>5, <2>6, <2>8, <2>9, <2>u DEF Orderly
  <1> QED
    BY <1>1, <1>2, <1>3, <1>4, <1>5, <1>6, <1>7 DEF RtMoves, Aside, Quiet, Starts, Halts

\* The debuggee waits in its command loop from the time the debugger is told of
\* a stop to its continue.
LEMMA ControlRuntime == ASSUME IInv, RtMoves PROVE Control'
  <1> USE ProcChan, Subsets DEF IInv
  <1> SUFFICES ASSUME Without({"step", "reckless"}) PROVE Controlled'
    BY DEF RtMoves, Control, Without
  <1>a. Controlled
    BY DEF Control
  <1>b. UNCHANGED faults /\ "step" \notin faults /\ "reckless" \notin faults
    BY DEF RtMoves, Without
  <1>1. CASE DidRtOpen
    <2>1. /\ UNCHANGED <<requests, responses, events, rt, udi>> /\ (Resumable' <=> Resumable)
          /\ process'.terminating = process.terminating
      BY <1>1 DEF DidRtOpen
    <2>2. UNCHANGED <<Pending, Uncrowded>>
      BY <2>1, PendingNext
    <2> QED BY <1>a, <1>b, <2>1, <2>2 DEF Controlled, Answering, Continued, Waits
  <1>2. CASE Starts \/ DidFirst
    <2>1. rt.at \in {"start", "open_response"} /\ UNCHANGED <<requests, responses, events, udi, process>>
      BY <1>2 DEF DidCreate, DidInitFails, DidFirst, Starts
    <2>2. events = <<>> /\ udi.at \in Connecting
      BY <2>1 DEF Handshake, Connecting
    <2> QED BY <2>1, <2>2 DEF Controlled, Connecting
  <1>3. CASE \/ Halts \/ \E t \in Thread : DidThreadDeath(t)
            \/ \E t, u \in Thread : DidCreateThread(t, u)
    <2>1. rt.at \in {"run", "report_create"}
      <3>1. DidReportCreate => rt.at = "report_create"
        BY Zenon DEF DidReportCreate
      <3>2. DidTerminate => rt.at = "run"
        BY Zenon DEF DidTerminate
      <3>3. ASSUME NEW t \in Thread PROVE DidStop(t) \/ DidExit(t) => rt.at = "run"
        BY Zenon DEF DidStop, DidExit
      <3>4. ASSUME NEW t \in Thread PROVE DidThreadDeath(t) => rt.at = "run"
        BY Zenon DEF DidThreadDeath
      <3>5. ASSUME NEW t \in Thread, NEW u \in Thread
            PROVE DidCreateThread(t, u) => rt.at = "run"
        BY Zenon DEF DidCreateThread
      <3> QED BY <1>3, <3>1, <3>2, <3>3, <3>4, <3>5, Zenon DEF Halts
    <2>2. /\ events = <<>> /\ Pending = {}
          /\ udi.at \in {"idle", "await", "lost"}
          /\ udi.at = "idle" => ~udi.told
          /\ udi.at = "await" => Continued
      BY <1>a, <2>1, Running
    <2>3. /\ UNCHANGED <<responses, udi, Uncrowded>> /\ Pending' = {}
      BY <1>3, <2>2, AsideKeeps DEF Aside, Quiet
    <2>4. /\ UNCHANGED process
          /\ events' # <<>> => /\ Len(events') = 1
                               /\ rt'.at \in {"command", "thr_open_request"}
                               /\ rt'.at = "thr_open_request" => events'[1].type = "create"
      BY <1>b, <1>3, <2>2, EventWritten
    <2>5. Continued' <=> Continued
      BY <2>2, <2>3, <2>4 DEF Continued
    <2> QED BY <1>a, <2>2, <2>3, <2>4, <2>5 DEF Controlled
  <1>4. CASE DidInitRequest
    <2>1. rt.at = "open_request" /\ UNCHANGED <<events, udi>>
      BY <1>4 DEF DidInitRequest
    <2>2. events = <<>> /\ udi.at \in Connecting \cup {"failed"}
      BY <2>1 DEF Handshake, Connecting
    <2> QED BY <2>1, <2>2 DEF Controlled, Connecting
  <1>5. CASE DidInitHandler
    <2>1. rt.at = "open_events" /\ UNCHANGED <<events, udi>>
      BY <1>5 DEF DidInitHandler
    <2>2. events = <<>> /\ udi.at \in Connecting \cup {"failed"}
      BY <2>1 DEF Handshake, Connecting
    <2> QED BY <2>1, <2>2 DEF Controlled, Connecting
  <1>6. CASE DidThreadInitRequest
    <2>1. /\ rt.at = "thr_open_request" /\ rt'.at = "thr_open_response" /\ rt'.thr = rt.thr
          /\ requests[rt.thr] # <<>> /\ requests' = Drop(requests, rt.thr)
          /\ UNCHANGED <<events, udi>>
      BY <1>6 DEF DidThreadInitRequest, Asked
    <2>2. udi.at = "thr_open_response" /\ udi.thr = rt.thr
      BY <1>6 DEF DidThreadInitRequest, Books, Making
    <2>3. rt.thr \in Uncrowded
      BY <2>2 DEF Private, Paired
    <2>4. Pending \subseteq {rt.thr} /\ events = <<>>
      BY <1>a, <2>1, <2>2 DEF Controlled
    <2>5. Pending' = {}
      BY <2>1, <2>3, <2>4, PendingNext
    <2> QED BY <2>1, <2>2, <2>4, <2>5 DEF Controlled
  <1>7. CASE DidThreadResponse
    <2>1. /\ rt.at = "thr_open_response" /\ rt'.at = "command"
          /\ udi.at = "thr_open_response" /\ udi.thr = rt.thr
          /\ UNCHANGED <<requests, events, udi>>
      BY <1>7 DEF DidThreadResponse, Books
    <2>2. Pending = {} /\ events = <<>>
      BY <1>a, <2>1 DEF Controlled
    <2>3. Pending' = {}
      BY <2>1, <2>2, PendingNext
    <2> QED BY <2>1, <2>2, <2>3 DEF Controlled
  <1>8. ASSUME NEW c \in Chan, DidServe(c) PROVE Controlled'
    <2>1. PICK r \in Response_ : Served(c, Head(requests[c]), r)
      BY <1>8 DEF DidServe
    <2>2. /\ rt.at = "command" /\ requests[c] # <<>> /\ requests' = Drop(requests, c)
          /\ rt'.at = "command" \/ (rt'.at = "gone" /\ "memory" \in faults)
          /\ Head(requests[c]).type # "continue"
          /\ UNCHANGED <<events, udi, process>>
      BY <1>8, <2>1 DEF DidServe, Served
    <2>3. c \in Pending /\ \A m : Head(<<m>>) = m
      BY <2>2 DEF Pending
    <2>4. /\ events = <<>> /\ udi.at \in {"await", "lost"} /\ Answering
          /\ c = udi.chan /\ Pending = {c} /\ requests[c] = <<udi.asked>>
          /\ udi.asked.type # "continue"
      <3>1. Plain("continue").type = "continue"
        BY MessageTypes, RequestTypes
      <3> QED BY <1>a, <2>2, <2>3, <3>1, Serving
    <2>5. Pending' = {}
      BY <2>2, <2>4, PendingNext
    <2>6. Answering'
      BY <1>b, <2>2, <2>4, <2>5 DEF Answering, Waits
    <2> QED BY <2>2, <2>4, <2>5, <2>6 DEF Controlled
  <1>9. CASE DidContinue
    <2>1. /\ rt.at = "command" /\ requests[Proc] # <<>> /\ requests' = Drop(requests, Proc)
          /\ Head(requests[Proc]).type = "continue" /\ (Resumable => rt'.at = "run")
          /\ UNCHANGED <<events, udi, process>>
      BY <1>9 DEF DidContinue
    <2>2. PICK ok \in BOOLEAN : responses' = Send(responses, Proc, ContinueReply(ok)) /\ (Resumable => ok)
      BY <1>9 DEF DidContinue
    <2>3. Proc \in Pending /\ \A m : Head(<<m>>) = m
      BY <2>1 DEF Pending
    <2>4. /\ events = <<>> /\ Resumable /\ Pending = {Proc}
          /\ \/ /\ udi.at = "await" /\ udi.chan = Proc /\ udi.asked.type = "continue"
                /\ ~process.terminating /\ responses[Proc] = <<>> /\ requests[Proc] = <<udi.asked>>
             \/ udi.at = "idle" /\ ~udi.told /\ requests[Proc] = <<Plain("continue")>>
      BY <1>a, <2>1, <2>3, Serving
    <2>5. Pending' = {} /\ requests'[Proc] = <<>>
      <3>1. Pending' = {}
        BY <2>1, <2>4, PendingNext
      <3> QED BY <3>1 DEF Pending
    <2>6. CASE udi.at = "idle"
      BY <2>1, <2>4, <2>5, <2>6 DEF Controlled
    <2>7. CASE udi.at = "await"
      <3>1. ContinueReply(ok) \in Response_ /\ ContinueReply(ok).ok = ok /\ ok
        BY <2>2, <2>4, ContinueReplies, ZenonT(100)
      <3>2. Len(responses'[Proc]) = 1 /\ responses'[Proc] # <<>> /\ Head(responses'[Proc]) = ContinueReply(ok)
        <4>1. responses[Proc] = <<>>
          BY <2>4, <2>7
        <4>2. Len(responses'[Proc]) = 1 /\ Head(responses'[Proc]) = ContinueReply(ok)
          BY <2>2, <3>1, <4>1, Sent, ZenonT(100)
        <4>3. Len(<<>>) # 1
          OBVIOUS
        <4> QED BY <4>2, <4>3
      <3>3. Proc \in Uncrowded'
        BY <2>5, <3>2, UncrowdedNext, ZenonT(100)
      <3>4. Continued'
        BY <2>1, <2>4, <2>5, <2>7, <3>1, <3>2, <3>3, ZenonT(100) DEF Continued
      <3> QED BY <2>1, <2>4, <2>5, <2>7, <3>4 DEF Controlled
    <2> QED BY <2>4, <2>6, <2>7
  <1> QED
    BY <1>1, <1>2, <1>3, <1>4, <1>5, <1>6, <1>7, <1>8, <1>9 DEF RtMoves, Starts, Halts

\* The one response that may be left in the pipe of the process is that of the
\* last continue.
LEMMA LeftoverRuntime == ASSUME IInv, RtMoves PROVE Leftover'
  <1> USE ProcChan, Subsets DEF IInv
  <1> SUFFICES ASSUME Without({"step", "reckless"}) PROVE Unread'
    BY DEF RtMoves, Leftover, Without
  <1>a. Controlled /\ Unread
    BY DEF Control, Leftover
  <1>1. CASE Aside
    <2>1. /\ UNCHANGED <<responses, udi, Pending, Uncrowded>>
          /\ process'.terminating = process.terminating
      BY <1>1, AsideKeeps
    <2> QED BY <1>a, <2>1 DEF Unread, Between
  <1>2. CASE DidInitRequest
    <2>1. rt.at = "open_request" /\ UNCHANGED udi
      BY <1>2 DEF DidInitRequest
    <2>2. udi.at \in Connecting \ {"open_events"}
      BY <2>1 DEF Handshake, Connecting
    <2> QED BY <2>1, <2>2 DEF Unread, Between, Connecting
  <1>3. CASE DidInitHandler
    <2>1. udi.at = "open_events" /\ requests[Proc] = <<>> /\ responses[Proc] = <<>>
      BY <1>3 DEF DidInitHandler, Handshake, Connecting
    <2>2. responses' = Send(responses, Proc, Reply("init", TRUE, {})) /\ UNCHANGED <<requests, udi>>
      BY <1>3 DEF DidInitHandler
    <2>3. Len(responses'[Proc]) = 1
      BY <2>1, <2>2, InitReply, Sent, ZenonT(100)
    <2>4. Proc \in Uncrowded'
      BY <2>1, <2>2, <2>3, UncrowdedNext, ZenonT(100)
    <2> QED BY <2>1, <2>2, <2>4, ZenonT(100) DEF Unread, Between
  <1>4. CASE DidThreadInitRequest
    <2>1. UNCHANGED <<responses, udi, process>> /\ udi.at = "thr_open_response"
      BY <1>4 DEF DidThreadInitRequest, Books, Making
    <2> QED BY <1>a, <2>1 DEF Unread, Between
  <1>5. CASE DidThreadResponse
    <2>1. UNCHANGED <<udi, process>> /\ responses'[Proc] = responses[Proc] /\ udi.at = "thr_open_response"
      BY <1>5, ZenonT(100) DEF DidThreadResponse, Books
    <2> QED BY <1>a, <2>1 DEF Unread, Between
  <1>6. ASSUME NEW c \in Chan, DidServe(c) PROVE Unread'
    <2>1. PICK r \in Response_ : Served(c, Head(requests[c]), r)
      BY <1>6 DEF DidServe
    <2>2. /\ rt.at = "command" /\ requests[c] # <<>> /\ requests' = Drop(requests, c)
          /\ responses' = Send(responses, c, r)
          /\ Head(requests[c]).type # "continue"
          /\ c # Proc => responses'[Proc] = responses[Proc]
          /\ UNCHANGED <<udi, process>>
      BY <1>6, <2>1 DEF DidServe, Served
    <2>3. c \in Pending /\ \A m : Head(<<m>>) = m
      BY <2>2 DEF Pending
    <2>4. /\ udi.at \in {"await", "lost"} /\ c = udi.chan /\ Pending = {c} /\ requests[c] = <<udi.asked>>
      <3>1. Plain("continue").type = "continue"
        BY MessageTypes, RequestTypes
      <3> QED BY <1>a, <2>2, <2>3, <3>1, Serving
    <2>5. CASE c # Proc
      BY <1>a, <2>2, <2>4, <2>5 DEF Unread, Between
    <2>6. CASE c = Proc /\ responses[Proc] = <<>>
      <3>1. Pending' = {}
        BY <2>2, <2>4, PendingNext, ZenonT(100)
      <3>2. requests'[Proc] = <<>>
        BY <3>1 DEF Pending
      <3>3. Len(responses'[Proc]) = 1
        BY <2>2, <2>6, Sent
      <3>4. Proc \in Uncrowded'
        BY <3>2, <3>3, UncrowdedNext, ZenonT(100)
      <3> QED BY <2>2, <2>4, <2>6, <3>1, <3>4 DEF Unread, Between
    <2>7. CASE c = Proc /\ responses[Proc] # <<>>
      <3>2. Head(responses'[Proc]) = Head(responses[Proc])
        BY <2>2, <2>7, Behind
      <3> QED BY <1>a, <2>2, <2>4, <2>7, <3>2 DEF Unread, Between
    <2> QED BY <2>5, <2>6, <2>7
  <1>7. CASE DidContinue
    <2>1. /\ rt.at = "command" /\ requests[Proc] # <<>> /\ requests' = Drop(requests, Proc)
          /\ Head(requests[Proc]).type = "continue"
          /\ UNCHANGED <<udi, process>>
      BY <1>7 DEF DidContinue
    <2>2. PICK ok \in BOOLEAN : responses' = Send(responses, Proc, ContinueReply(ok)) /\ (Resumable => ok)
      BY <1>7 DEF DidContinue
    <2>3. Proc \in Pending /\ \A m : Head(<<m>>) = m
      BY <2>1 DEF Pending
    <2>4. \/ udi.at = "await" /\ udi.chan = Proc /\ responses[Proc] = <<>>
          \/ udi.at = "idle" /\ process.terminating
      BY <1>a, <2>1, <2>3, Serving
    <2>5. ContinueReply(ok) \in Response_ /\ ContinueReply(ok).to = "continue"
      BY ContinueReplies, ZenonT(100)
    <2>6. Head(responses'[Proc]).to = "continue"
      <3>2. CASE responses[Proc] = <<>>
        BY <2>2, <2>5, <3>2, Sent
      <3>3. CASE responses[Proc] # <<>>
        <4>1. Head(responses'[Proc]) = Head(responses[Proc])
          BY <2>2, <2>5, <3>3, Behind
        <4> QED BY <1>a, <2>4, <3>3, <4>1 DEF Unread, Between
      <3> QED BY <3>2, <3>3
    <2> QED BY <2>1, <2>4, <2>6 DEF Unread, Between
  <1> QED
    BY <1>1, <1>2, <1>3, <1>4, <1>5, <1>6, <1>7 DEF RtMoves, Aside, Quiet, Starts, Halts

\* There is at most one message on the channel of a thread, and libudi waits for
\* the response.
LEMMA PrivateRuntime == ASSUME IInv, RtMoves PROVE Private'
  <1> USE ProcChan, Subsets DEF IInv
  <1> SUFFICES ASSUME Without({"step", "reckless"}), udi'.at # "lost" PROVE Paired'
    BY DEF RtMoves, Private, Without
  <1>a. Controlled /\ (udi.at # "lost" => Paired)
    BY DEF Control, Private
  <1>1. CASE Aside
    <2>1. UNCHANGED <<responses, udi, Uncrowded>>
      BY <1>1, AsideKeeps
    <2> QED BY <1>a, <2>1 DEF Paired
  <1>2. CASE DidInitRequest
    <2>1. /\ UNCHANGED udi
          /\ requests[Proc] # <<>> /\ requests' = Drop(requests, Proc)
          /\ UNCHANGED responses
      BY <1>2 DEF DidInitRequest
    <2>2. \A t \in Thread : responses'[t] = responses[t] /\ (t \in Uncrowded' <=> t \in Uncrowded)
      BY <2>1, Elsewhere
    <2> QED BY <1>a, <2>1, <2>2 DEF Paired
  <1>3. CASE DidInitHandler
    <2>1. /\ UNCHANGED udi
          /\ UNCHANGED requests
          /\ responses' = Send(responses, Proc, Reply("init", TRUE, {}))
      BY <1>3 DEF DidInitHandler
    <2>2. \A t \in Thread : responses'[t] = responses[t] /\ (t \in Uncrowded' <=> t \in Uncrowded)
      BY <2>1, Elsewhere, InitReply, ZenonT(100)
    <2> QED BY <1>a, <2>1, <2>2, ZenonT(100) DEF Paired
  <1>4. CASE DidThreadInitRequest
    <2>1. /\ requests[rt.thr] # <<>> /\ requests' = Drop(requests, rt.thr) /\ UNCHANGED <<responses, udi>>
          /\ udi.at = "thr_open_response" /\ udi.thr = rt.thr
      BY <1>4 DEF DidThreadInitRequest, Books, Making, Asked
    <2>8. \A d \in Chan : d # rt.thr => responses'[d] = responses[d] /\ (d \in Uncrowded' <=> d \in Uncrowded)
      BY <2>1, Elsewhere
    <2>9. \A d \in Thread : d \in Uncrowded /\ (d # rt.thr => responses[d] = <<>>)
      BY <1>a, <2>1 DEF Paired
    <2>2. requests'[rt.thr] = <<>> /\ responses'[rt.thr] = <<>>
      BY <2>1, <2>9, Taken
    <2>3. rt.thr \in Uncrowded'
      BY <2>2, UncrowdedNext, ZenonT(100)
    <2> QED
      <3> SUFFICES ASSUME NEW x \in Thread
                   PROVE  /\ x \in Uncrowded'
                          /\ responses'[x] # <<>> =>
                                \/ udi'.at = "await" /\ udi'.chan = x
                                \/ udi'.at = "thr_open_response" /\ udi'.thr = x
        BY DEF Paired
      <3>1. CASE x = rt.thr
        BY <3>1, <2>2, <2>3
      <3>2. CASE x # rt.thr
        BY <3>2, <2>1, <2>8, <2>9
      <3> QED BY <3>1, <3>2
  <1>5. CASE DidThreadResponse
    <2>1. /\ rt.at = "thr_open_response"
          /\ responses' = Send(responses, rt.thr, Reply("init", TRUE, {})) /\ UNCHANGED <<requests, udi>>
          /\ udi.at = "thr_open_response" /\ udi.thr = rt.thr
      BY <1>5 DEF DidThreadResponse, Books
    <2>8. \A d \in Chan : d # rt.thr => responses'[d] = responses[d] /\ (d \in Uncrowded' <=> d \in Uncrowded)
      BY <2>1, InitReply, Elsewhere, ZenonT(100)
    <2>9. \A d \in Thread : d \in Uncrowded /\ (d # rt.thr => responses[d] = <<>>)
      BY <1>a, <2>1 DEF Paired
    <2>2. requests[rt.thr] = <<>> /\ responses[rt.thr] = <<>>
      <3>1. Making(rt.thr)
        BY <2>1 DEF Making
      <3>2. rt.thr \notin Replied /\ Pending = {}
        BY <1>a, <2>1, <3>1 DEF Books, Controlled
      <3> QED BY <3>2 DEF Replied, Pending
    <2>3. requests'[rt.thr] = <<>> /\ Len(responses'[rt.thr]) = 1
      BY <2>1, <2>2, InitReply, Sent, ZenonT(100)
    <2>4. rt.thr \in Uncrowded'
      BY <2>3, UncrowdedNext, ZenonT(100)
    <2> QED
      <3> SUFFICES ASSUME NEW x \in Thread
                   PROVE  /\ x \in Uncrowded'
                          /\ responses'[x] # <<>> =>
                                \/ udi'.at = "await" /\ udi'.chan = x
                                \/ udi'.at = "thr_open_response" /\ udi'.thr = x
        BY DEF Paired
      <3>1. CASE x = rt.thr
        BY <3>1, <2>1, <2>4
      <3>2. CASE x # rt.thr
        BY <3>2, <2>1, <2>8, <2>9, ZenonT(100)
      <3> QED BY <3>1, <3>2
  <1>6. ASSUME NEW c \in Chan, DidServe(c) PROVE Paired'
    <2>0. PICK r \in Response_ : Served(c, Head(requests[c]), r)
      BY <1>6 DEF DidServe
    <2>a. /\ rt.at = "command" /\ requests[c] # <<>> /\ requests' = Drop(requests, c)
          /\ responses' = Send(responses, c, r) /\ Head(requests[c]).type # "continue"
          /\ UNCHANGED udi
      BY <1>6, <2>0 DEF DidServe, Served
    <2>b. c \in Pending /\ (\A m : Head(<<m>>) = m) /\ Plain("continue").type = "continue"
      BY <2>a, MessageTypes, RequestTypes DEF Pending
    <2>1. /\ udi.at = "await" /\ c = udi.chan
          /\ requests[c] # <<>> /\ requests' = Drop(requests, c)
          /\ responses' = Send(responses, c, r) /\ UNCHANGED udi
      BY <1>a, <2>a, <2>b, Serving
    <2>8. \A d \in Chan : d # c => responses'[d] = responses[d] /\ (d \in Uncrowded' <=> d \in Uncrowded)
      BY <2>1, Elsewhere
    <2>9. \A d \in Thread : d \in Uncrowded /\ (d # c => responses[d] = <<>>)
      BY <1>a, <2>1 DEF Paired
    <2>2. c \in Thread => requests'[c] = <<>> /\ responses[c] = <<>>
      BY <2>1, <2>9, Taken
    <2>3. c \in Thread => Len(responses'[c]) = 1
      BY <2>1, <2>2, Sent
    <2>4. c \in Thread => c \in Uncrowded'
      BY <2>2, <2>3, UncrowdedNext, ZenonT(100)
    <2> QED
      <3> SUFFICES ASSUME NEW x \in Thread
                   PROVE  /\ x \in Uncrowded'
                          /\ responses'[x] # <<>> =>
                                \/ udi'.at = "await" /\ udi'.chan = x
                                \/ udi'.at = "thr_open_response" /\ udi'.thr = x
        BY DEF Paired
      <3>1. CASE x = c
        BY <3>1, <2>1, <2>4
      <3>2. CASE x # c
        BY <3>2, <2>1, <2>8, <2>9
      <3> QED BY <3>1, <3>2
  <1>7. CASE DidContinue
    <2>1. requests[Proc] # <<>> /\ requests' = Drop(requests, Proc) /\ UNCHANGED udi
      BY <1>7 DEF DidContinue
    <2>2. PICK ok \in BOOLEAN : responses' = Send(responses, Proc, ContinueReply(ok)) /\ (Resumable => ok)
      BY <1>7 DEF DidContinue
    <2>3. ContinueReply(ok) \in Response_
      BY ContinueReplies, ZenonT(100)
    <2>4. \A t \in Thread : responses'[t] = responses[t] /\ (t \in Uncrowded' <=> t \in Uncrowded)
      BY <2>1, <2>2, <2>3, Elsewhere
    <2> QED BY <1>a, <2>1, <2>4 DEF Paired
  <1> QED
    BY <1>1, <1>2, <1>3, <1>4, <1>5, <1>6, <1>7 DEF RtMoves, Aside, Quiet, Starts, Halts

\* Each Thread has the single step setting of its thread, but for the request
\* that is on its way.
LEMMA SettingsRuntime == ASSUME IInv, RtMoves PROVE Settings'
  <1> USE ProcChan, Subsets DEF IInv
  <1> SUFFICES ASSUME Without({"step", "reckless"}), udi'.at # "lost" PROVE Synced'
    BY DEF RtMoves, Settings, Without
  <1>a. Controlled /\ (udi.at # "lost" => Synced /\ Paired) /\ "step" \notin faults
    BY DEF Control, Private, Settings, Without
  <1>b. \A i \in DOMAIN known : known[i].tid \in Thread
    BY KnownTypes
  <1>1. CASE Quiet
    <2>1. /\ UNCHANGED <<requests, responses, udi, known, threads>>
          /\ \A t \in Thread : Making(t)' => Making(t)
      BY <1>1, QuietKeeps
    <2> QED BY <1>a, <2>1 DEF Synced, StepHandled, Adding
  <1>2. CASE DidFirst
    <2>1. /\ rt'.at = "open_events" /\ rt'.thr = First /\ udi.at \in Connecting /\ known = <<>>
          /\ threads'[First] = NewThread /\ UNCHANGED <<udi, known>>
      BY <1>2 DEF DidFirst, Handshake, Connecting
    <2>2. NewThread.single_step = FALSE /\ DOMAIN known' = {}
      BY <2>1 DEF NewThread
    <2> QED BY <2>1, <2>2 DEF Synced, Making, Adding, Connecting
  <1>3. ASSUME NEW t \in Thread, DidThreadDeath(t) PROVE Synced'
    <2>1. rt'.at = "command" /\ UNCHANGED <<requests, responses, udi, known>>
      BY <1>3 DEF DidThreadDeath
    <2>2. \A x \in Thread : threads'[x].single_step = threads[x].single_step
      BY <1>3 DEF DidThreadDeath
    <2> QED BY <1>a, <1>b, <2>1, <2>2 DEF Synced, StepHandled, Making, Adding
  <1>4. ASSUME NEW t \in Thread, NEW u \in Thread, DidCreateThread(t, u) PROVE Synced'
    <2>1. /\ rt'.at = "report_create" /\ rt'.thr = u /\ u \in Unborn
          /\ UNCHANGED <<requests, responses, udi, known>>
      BY <1>4 DEF DidCreateThread
    <2>2. /\ threads'[u].single_step = FALSE
          /\ \A x \in Thread : x # u => threads'[x].single_step = threads[x].single_step
      BY <1>4 DEF DidCreateThread, NewThread
    <2>3. \A i \in DOMAIN known : known[i].tid # u
      BY <2>1 DEF Books, Tids
    <2>4. \A i \in DOMAIN known : threads'[known[i].tid].single_step = threads[known[i].tid].single_step
      BY <1>b, <2>2, <2>3
    <2>5. \A x \in Thread : (StepHandled(x)' <=> StepHandled(x)) /\ (Adding(x)' <=> Adding(x)) /\ (Making(x)' <=> x = u)
      BY <2>1 DEF StepHandled, Making, Adding
    <2>6. \A x \in Thread : Making(x)' \/ Adding(x)' => ~threads'[x].single_step
      BY <1>a, <2>1, <2>2, <2>5 DEF Synced
    <2> QED BY <1>a, <1>b, <2>1, <2>4, <2>5, <2>6 DEF Synced
  <1>5. CASE DidInitRequest
    <2>1. /\ udi.at \in Connecting /\ rt'.at = "open_response"
          /\ UNCHANGED <<threads, known, udi>>
      BY <1>5 DEF DidInitRequest, Handshake
    <2> QED BY <1>a, <2>1 DEF Synced, StepHandled, Making, Adding, Connecting
  <1>6. CASE DidInitHandler
    <2>1. /\ udi.at \in Connecting /\ rt.at = "open_events"
          /\ rt.thr = First /\ rt'.thr = First /\ rt'.at = "thr_open_request"
          /\ UNCHANGED <<threads, known, udi>>
      BY <1>6 DEF DidInitHandler, Handshake
    <2> QED BY <1>a, <2>1 DEF Synced, StepHandled, Making, Adding, Connecting
  <1>7. CASE DidThreadInitRequest
    <2>1. /\ udi.at = "thr_open_response" /\ rt.at = "thr_open_request"
          /\ rt'.at = "thr_open_response" /\ rt'.thr = rt.thr
          /\ UNCHANGED <<threads, known, udi>>
      BY <1>7 DEF DidThreadInitRequest, Books, Making
    <2> QED BY <1>a, <2>1 DEF Synced, StepHandled, Making, Adding
  <1>8. CASE DidThreadResponse
    <2>1. /\ udi.at = "thr_open_response" /\ rt'.at = "command"
          /\ UNCHANGED <<threads, known, udi>>
      BY <1>8 DEF DidThreadResponse, Books
    <2> QED BY <1>a, <2>1 DEF Synced, StepHandled, Making, Adding
  <1>9. ASSUME NEW c \in Chan, DidServe(c) PROVE Synced'
    <2> DEFINE m == Head(requests[c])
    <2>1. PICK r \in Response_ : Served(c, m, r)
      BY <1>9 DEF DidServe
    <2>2. /\ rt.at = "command" /\ rt'.at \in {"command", "gone"}
          /\ requests[c] # <<>> /\ requests' = Drop(requests, c)
          /\ UNCHANGED <<udi, known>>
      BY <1>9 DEF DidServe
    <2>3. /\ m.type # "continue" /\ responses' = Send(responses, c, r)
          /\ threads' = threads \/ threads' = Handled(c, m)
          /\ m.type = "single_step" => r.ok /\ threads' = Handled(c, m)
      BY <1>a, <2>1 DEF Served
    <2>4. c \in Pending /\ (\A x : Head(<<x>>) = x) /\ Plain("continue").type = "continue"
      BY <2>2, MessageTypes, RequestTypes DEF Pending
    <2>5. udi.at = "await" /\ c = udi.chan /\ m = udi.asked
      BY <1>a, <2>2, <2>3, <2>4, Serving
    <2>6. m \in Request_
      BY <1>9 DEF DidServe
    <2>7. \A t \in Thread : threads'[t].single_step =
             IF t = c /\ m.type = "single_step" THEN m.value ELSE threads[t].single_step
      <3> HIDE DEF m
      <3>1. \A t \in Thread : Handled(c, m)[t].single_step =
               IF t = c /\ m.type = "single_step" THEN m.value ELSE threads[t].single_step
        BY <2>6, HandledEffect
      <3> QED BY <2>3, <3>1
    <2>8. c \in Thread => requests'[c] = <<>> /\ responses'[c] # <<>> /\ Head(responses'[c]) = r
      <3>1. c \in Thread => requests'[c] = <<>> /\ responses[c] = <<>>
        BY <1>a, <2>2, <2>5, Taken DEF Paired
      <3>2. c \in Thread => Len(responses'[c]) = 1 /\ Head(responses'[c]) = r
        BY <2>3, <3>1, Sent
      <3>3. Len(<<>>) # 1
        OBVIOUS
      <3> QED BY <3>1, <3>2, <3>3
    <2>9. \A t \in Thread : StepHandled(t)' <=> (t = c /\ m.type = "single_step")
      BY <2>2, <2>5, <2>8 DEF StepHandled
    <2>10. \A t \in Thread : ~StepHandled(t)
      BY <2>2, <2>5 DEF StepHandled
    <2> HIDE DEF m
    <2>11. ASSUME NEW i \in DOMAIN known, known[i].open
           PROVE  IF StepHandled(known[i].tid)'
                  THEN /\ threads'[known[i].tid].single_step = udi'.asked.value
                       /\ responses'[udi'.chan] # <<>> /\ Head(responses'[udi'.chan]).ok
                  ELSE threads'[known[i].tid].single_step = known[i].single_step
      <3>1. CASE known[i].tid = c /\ m.type = "single_step"
        BY <1>b, <2>2, <2>3, <2>5, <2>7, <2>8, <2>9, <3>1
      <3>2. CASE ~(known[i].tid = c /\ m.type = "single_step")
        <4>1. threads[known[i].tid].single_step = known[i].single_step
          BY <1>a, <1>b, <2>5, <2>10, <2>11 DEF Synced
        <4> QED BY <1>b, <2>2, <2>7, <2>9, <3>2, <4>1
      <3> QED BY <3>1, <3>2
    <2>12. \A t \in Thread : ~Making(t)' /\ ~Adding(t)'
      BY <2>2, <2>5 DEF Making, Adding
    <2>13. UNCHANGED known
      BY <2>2
    <2> QED BY <2>11, <2>12, <2>13 DEF Synced
  <1>10. CASE DidContinue
    <2>1. /\ rt.at = "command" /\ rt'.at \in {"run", "gone"} /\ requests[Proc] # <<>>
          /\ Head(requests[Proc]).type = "continue"
          /\ UNCHANGED <<udi, known>>
      BY <1>10 DEF DidContinue
    <2>2. \A t \in Thread : threads'[t].single_step = threads[t].single_step
      BY <1>10 DEF DidContinue
    <2>3. Proc \in Pending /\ \A m : Head(<<m>>) = m
      BY <2>1 DEF Pending
    <2>4. udi.at = "idle" \/ (udi.at = "await" /\ udi.chan = Proc)
      BY <1>a, <2>1, <2>3, Serving
    <2>5. \A t \in Thread : ~StepHandled(t) /\ ~StepHandled(t)' /\ ~Making(t)' /\ ~Adding(t)'
      BY <2>1, <2>4 DEF StepHandled, Making, Adding
    <2> QED BY <1>a, <1>b, <2>1, <2>2, <2>4, <2>5 DEF Synced
  <1> QED
    BY <1>1, <1>2, <1>3, <1>4, <1>5, <1>6, <1>7, <1>8, <1>9, <1>10 DEF RtMoves, Quiet,
       Starts, Halts

\* The response to a state request holds the states that the threads have.
LEMMA RefreshedRuntime == ASSUME IInv, RtMoves PROVE Refreshed'
  <1> USE ProcChan, Subsets DEF IInv
  <1> DEFINE Told == /\ udi.chan = Proc
                     /\ responses[Proc] # <<>> =>
                           Head(responses[Proc]).ok /\ Head(responses[Proc]).states = States
  <1> SUFFICES ASSUME Without({"step", "reckless", "late"}), udi'.at = "await", udi'.asked.type = "state"
               PROVE  Told'
    BY DEF RtMoves, Refreshed, Without
  <1>a. /\ Controlled /\ Orderly
        /\ (udi.at = "await" /\ udi.asked.type = "state") => Told
    BY DEF Control, Matched, Refreshed, Without
  <1>1. CASE Quiet
    <2>1. UNCHANGED <<responses, udi, States>>
      BY <1>1, QuietKeeps
    <2> QED BY <1>a, <2>1
  <1>2. CASE DidFirst
    <2> QED BY <1>2 DEF DidFirst, Handshake, Connecting
  <1>3. ASSUME NEW t \in Thread, DidThreadDeath(t) PROVE Told'
    <2>1. rt.at = "run" /\ UNCHANGED udi
      BY <1>3 DEF DidThreadDeath
    <2>2. udi.at = "await" => Continued
      BY <1>a, <2>1, Running
    <2> QED BY <2>1, <2>2 DEF Continued
  <1>4. ASSUME NEW t \in Thread, NEW u \in Thread, DidCreateThread(t, u) PROVE Told'
    <2>1. rt.at = "run" /\ UNCHANGED udi
      BY <1>4 DEF DidCreateThread
    <2>2. udi.at = "await" => Continued
      BY <1>a, <2>1, Running
    <2> QED BY <2>1, <2>2 DEF Continued
  <1>5. CASE DidInitRequest
    <2>1. UNCHANGED <<responses, udi, States>>
      BY <1>5 DEF DidInitRequest
    <2> QED BY <1>a, <2>1
  <1>6. CASE DidInitHandler
    <2> QED BY <1>6 DEF DidInitHandler, Handshake, Connecting
  <1>7. CASE DidThreadInitRequest
    <2>1. UNCHANGED <<responses, udi, States>>
      BY <1>7 DEF DidThreadInitRequest
    <2> QED BY <1>a, <2>1
  <1>8. CASE DidThreadResponse
    <2> QED BY <1>8 DEF DidThreadResponse, Books
  <1>9. ASSUME NEW c \in Chan, DidServe(c) PROVE Told'
    <2> DEFINE m == Head(requests[c])
    <2>1. PICK r \in Response_ : Served(c, m, r)
      BY <1>9 DEF DidServe
    <2>2. rt.at = "command" /\ requests[c] # <<>> /\ requests' = Drop(requests, c) /\ UNCHANGED udi
      BY <1>9 DEF DidServe
    <2>3. /\ responses' = Send(responses, c, r) /\ m.type # "continue"
          /\ m.type = "state" => r.ok /\ r.states = States
          /\ threads' = threads \/ threads' = Handled(c, m)
      BY <2>1 DEF Served
    <2>4. c \in Pending /\ (\A x : Head(<<x>>) = x) /\ Plain("continue").type = "continue"
      BY <2>2, MessageTypes, RequestTypes DEF Pending
    <2>5. udi.at = "await" /\ c = udi.chan /\ m = udi.asked
      BY <1>a, <2>2, <2>3, <2>4, Serving
    <2>6. udi.chan = Proc /\ m.type = "state"
      BY <1>a, <2>2, <2>5
    <2> HIDE DEF m
    <2>7. Handled(c, m) = threads
      BY <2>6 DEF Handled
    <2>8. UNCHANGED States
      BY <2>3, <2>7, Frames
    <2>9. responses[Proc] = <<>>
      BY <1>a, <2>2, <2>5, <2>6, Single DEF Orderly
    <2>10. Head(responses'[Proc]) = r
      BY <2>3, <2>5, <2>6, <2>9, Sent
    <2> QED BY <2>2, <2>3, <2>6, <2>8, <2>10
  <1>10. CASE DidContinue
    <2>1. rt.at = "command" /\ requests[Proc] # <<>> /\ Head(requests[Proc]).type = "continue" /\ UNCHANGED udi
      BY <1>10 DEF DidContinue
    <2>2. Proc \in Pending /\ \A m : Head(<<m>>) = m
      BY <2>1 DEF Pending
    <2>3. udi.at = "await" => udi.asked.type = "continue"
      BY <1>a, <2>1, <2>2, Serving
    <2> QED BY <2>1, <2>3
  <1> QED
    BY <1>1, <1>2, <1>3, <1>4, <1>5, <1>6, <1>7, <1>8, <1>9, <1>10, ZenonT(100) DEF RtMoves,
       Quiet, Starts, Halts

=============================================================================
