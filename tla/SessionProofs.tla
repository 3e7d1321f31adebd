--------------------------- MODULE SessionProofs ---------------------------
(***************************************************************************)
(* The invariant of Session is inductive: its steps do what the proofs about*)
(* the two sides take them to do.  The theorems say that both sides of a   *)
(* session agree, for any set of threads, requests of the debugger, bound on*)
(* the pipes and set of faults.                                            *)
(***************************************************************************)
EXTENDS SessionRuntime, SessionLibrary

\* A function on the domain of a sequence is a sequence.
LEMMA MapSeq ==
    ASSUME NEW S, NEW T, NEW q \in Seq(S), NEW f, f \in [DOMAIN q -> T]
    PROVE  f \in Seq(T) /\ Len(f) = Len(q) /\ DOMAIN f = DOMAIN q
  <1>1. Len(q) \in Nat /\ DOMAIN q = 1..Len(q)
    BY LenProperties
  <1>2. f \in [1..Len(q) -> T]
    BY <1>1
  <1> QED BY <1>1, <1>2, SeqDef

\* The states of the threads pair each with a Boolean.
LEMMA StatesType == TypeOK => States \in SUBSET (Thread \X BOOLEAN) /\ {} \in SUBSET (Thread \X BOOLEAN)
  BY DEF TypeOK, States, Listed

\* A request is taken off its pipe and answered, whatever its outcome.
LEMMA ServesEffect ==
    ASSUME TypeOK, NEW c \in Chan, Serves(c)
    PROVE  /\ requests[c] # <<>> /\ Head(requests[c]) \in Request_
           /\ \E r \in Response_ : Served(c, Head(requests[c]), r)
  <1> DEFINE m == Head(requests[c])
  <1>1. requests[c] # <<>>
    BY DEF Serves, HandleRequest, RefuseRequest, RefuseSingleStep, FailRequest, Selected
  <1>2. m \in Request_
    BY <1>1, DropEffect DEF TypeOK
  <1>3. m.type \in RequestType /\ m.value \in BOOLEAN
    BY <1>2, MessageTypes
  <1>4. CASE HandleRequest(c)
    <2> DEFINE st == IF m.type = "state" THEN States ELSE {}
               r == Reply(m.type, TRUE, st)
    <2>1. st \in SUBSET (Thread \X BOOLEAN)
      BY StatesType
    <2>2. r \in Response_ /\ r.to = m.type /\ r.ok = TRUE /\ r.states = st
          /\ r.data = (TRUE /\ m.type \in SendsData)
      BY <2>1, <1>3 DEF Reply, Response_
    <2>3. Served(c, m, r)
      BY <1>4, <2>2 DEF HandleRequest, Served
    <2> QED BY <1>1, <1>2, <2>2, <2>3
  <1>5. CASE RefuseRequest(c)
    <2> DEFINE r == Reply(m.type, FALSE, {})
    <2>1. r \in Response_ /\ r.to = m.type /\ r.ok = FALSE /\ r.data = (FALSE /\ m.type \in SendsData)
      BY <1>3, StatesType DEF Reply, Response_
    <2>2. m.type \notin {"init", "continue", "state", "single_step"}
      BY <1>5, RequestTypes DEF RefuseRequest
    <2>3. Served(c, m, r)
      BY <1>5, <2>1, <2>2 DEF RefuseRequest, Served, rtVars
    <2> QED BY <1>1, <1>2, <2>1, <2>3
  <1>6. CASE RefuseSingleStep(c)
    <2> DEFINE r == Reply("single_step", FALSE, {})
    <2>1. m.type = "single_step" /\ "step" \in faults
      BY <1>6 DEF RefuseSingleStep
    <2>2. r \in Response_ /\ r.to = m.type /\ r.ok = FALSE /\ r.data = (FALSE /\ m.type \in SendsData)
      BY <2>1, <1>3, StatesType DEF Reply, Response_
    <2>3. Served(c, m, r)
      BY <1>6, <2>1, <2>2 DEF RefuseSingleStep, Served
    <2> QED BY <1>1, <1>2, <2>2, <2>3
  <1>7. CASE FailRequest(c)
    <2> DEFINE r == Reply("read_mem", FALSE, {})
    <2>1. m.type = "read_mem" /\ "memory" \in faults
      BY <1>7 DEF FailRequest
    <2>2. r \in Response_ /\ r.to = m.type /\ r.ok = FALSE /\ r.data = (FALSE /\ m.type \in SendsData)
      BY <2>1, <1>3, StatesType DEF Reply, Response_
    <2>3. Served(c, m, r)
      BY <1>7, <2>1, <2>2 DEF FailRequest, Served, Goto
    <2> QED BY <1>1, <1>2, <2>2, <2>3
  <1> QED BY <1>4, <1>5, <1>6, <1>7 DEF Serves

\* Sending on a channel, and reading from it.
LEMMA SendSets ==
    ASSUME TypeOK, NEW c \in Chan
    PROVE  /\ \A m \in Request_ : requests' = Send(requests, c, m) =>
                 /\ Asked' = Asked \cup ({c} \cap Thread)
                 /\ c # Proc => requests'[Proc] = requests[Proc]
           /\ \A r \in Response_ : responses' = Send(responses, c, r) =>
                 /\ Replied' = Replied \cup ({c} \cap Thread)
                 /\ c # Proc => responses'[Proc] = responses[Proc]
  <1>1. ASSUME NEW m \in Request_, requests' = Send(requests, c, m)
        PROVE  Asked' = Asked \cup ({c} \cap Thread) /\ (c # Proc => requests'[Proc] = requests[Proc])
    <2>1. requests \in [Chan -> Seq(Request_)]
      BY DEF TypeOK
    <2>2. requests'[c] # <<>> /\ \A d \in Chan : d # c => requests'[d] = requests[d]
      BY <1>1, <2>1, SendEffect
    <2> QED BY <2>2, ProcChan DEF Asked
  <1>2. ASSUME NEW r \in Response_, responses' = Send(responses, c, r)
        PROVE  Replied' = Replied \cup ({c} \cap Thread) /\ (c # Proc => responses'[Proc] = responses[Proc])
    <2>1. responses \in [Chan -> Seq(Response_)]
      BY DEF TypeOK
    <2>2. responses'[c] # <<>> /\ \A d \in Chan : d # c => responses'[d] = responses[d]
      BY <1>2, <2>1, SendEffect
    <2> QED BY <2>2, ProcChan DEF Replied
  <1> QED BY <1>1, <1>2

\* signal_entry_impl reports at most two events, and one unless a step fails.
LEMMA EventsReported ==
    ASSUME TypeOK, NEW t \in Thread, Stop(t)
    PROVE  events' \in Seq(Event_) /\ \E k, n \in Nat :
              /\ k = Len(events) /\ n = Len(events')
              /\ k <= n /\ n <= k + 2 /\ ("step" \notin faults => n <= k + 1)
              /\ DOMAIN events = 1..k /\ DOMAIN events' = 1..n
              /\ \A i \in 1..k : events'[i] = events[i]
              /\ \A i \in 1..n : i > k => /\ events'[i].tid = t
                                          /\ events'[i].type \in {"breakpoint", "unknown", "error"}
  <1>1. PICK report \in Reports(t) : events' = events \o report
    BY DEF Stop
  <1> DEFINE plain == {"breakpoint", "unknown", "error"}
  <1>2. ASSUME NEW type \in plain
        PROVE  Event(type, t, t) \in Event_ /\ Event(type, t, t).tid = t /\ Event(type, t, t).type \in plain
    BY EventTypes
  <1>3. /\ report \in Seq(Event_) /\ Len(report) <= 2 /\ ("step" \notin faults => Len(report) <= 1)
        /\ \A i \in 1..Len(report) : report[i].tid = t /\ report[i].type \in plain
    <2>1. CASE report = <<>>
      BY <2>1
    <2>2. CASE report = <<Event("breakpoint", t, t)>>
      BY <1>2, <2>2
    <2>3. CASE report = <<Event("unknown", t, t)>>
      BY <1>2, <2>3
    <2>4. CASE report = <<Event("breakpoint", t, t), Event("error", t, t)>> /\ "step" \in faults
      BY <1>2, <2>4
    <2> QED BY <1>1, <2>1, <2>2, <2>3, <2>4 DEF Reports
  <1>4. events \in Seq(Event_)
    BY DEF TypeOK
  <1>5. /\ Len(events) \in Nat /\ Len(report) \in Nat
        /\ Len(events') = Len(events) + Len(report)
        /\ DOMAIN events = 1..Len(events) /\ events' \in Seq(Event_)
    BY <1>1, <1>3, <1>4, ConcatProperties, LenProperties
  <1>6. DOMAIN events' = 1..Len(events')
    BY <1>5, LenProperties
  <1>7. \A i \in 1..(Len(events) + Len(report)) :
           events'[i] = IF i <= Len(events) THEN events[i] ELSE report[i - Len(events)]
    BY <1>1, <1>3, <1>4, ConcatProperties
  <1>8. PICK k, n \in Nat : k = Len(events) /\ n = Len(events')
    <2>1. Len(events') \in Nat
      BY <1>5, LenProperties
    <2> QED BY <1>5, <2>1
  <1>9. \A i \in 1..n : i > k => i - k \in 1..Len(report) /\ events'[i] = report[i - k]
    BY <1>5, <1>7, <1>8
  <1>10. \A i \in 1..k : events'[i] = events[i]
    BY <1>5, <1>7, <1>8
  <1>11. k <= n /\ n <= k + 2 /\ ("step" \notin faults => n <= k + 1)
    BY <1>3, <1>5, <1>8
  <1>12. \A i \in 1..n : i > k => events'[i].tid = t /\ events'[i].type \in plain
    BY <1>3, <1>9
  <1> QED BY <1>5, <1>6, <1>8, <1>10, <1>11, <1>12

\* The faults of a session do not change.
LEMMA FaultsKept == [Next]_vars => UNCHANGED faults
  BY DEF Next, RtStep, Run, UdiStep, vars, rtVars, create_udi_filesystem, InitFails, RtOpen,
         InitRequest, process_response_fd_callback, init_handler, ThreadInitRequest,
         thread_create_response, ReportCreate, HandleRequest, RefuseRequest, RefuseSingleStep,
         FailRequest, Continue, ContinueRefused, Stop, ThreadDeath, Exit, CreateThread, Terminate,
         PollFilesystem, UdiOpen, WriteInit, ResponseOpen, ReadInit, WriteThreadInit,
         ReadThreadInit, ReadResponse, ResponseEof, ReadEvent, Cleanup, AskProcess, AskThread,
         Ask, continue_process

\* Every step keeps the types.
LEMMA NextType == TypeOK /\ [Next]_vars => TypeOK'
  <1> SUFFICES ASSUME TypeOK, [Next]_vars PROVE TypeOK'
    OBVIOUS
  <1> USE ProcChan, FirstAssumption, RequestTypes
  <1>1. CASE UNCHANGED vars
    BY <1>1 DEF TypeOK, vars, pipeVars, rtVars, udiVars
  <1>2. CASE create_udi_filesystem
    <2>1. fifos' \subseteq Pipe
      BY <1>2, PipeFacts DEF create_udi_filesystem, TypeOK
    <2> QED BY <1>2, <2>1 DEF create_udi_filesystem, Goto, TypeOK, Places, pipeVars, udiVars
  <1>3. CASE InitFails
    BY <1>3 DEF InitFails, Goto, TypeOK, Places, pipeVars, udiVars
  <1>4. CASE RtOpen
    <2>1. opened' \in [Pipe -> SUBSET Side]
      <3>1. PICK p : p \in RtOpening /\ Opens("rt", p)
        BY <1>4 DEF RtOpen
      <3>2. p \in Pipe
        BY <3>1, PipeFacts DEF RtOpening, TypeOK
      <3> QED BY <3>1, <3>2 DEF Opens, TypeOK, Side
    <2> QED BY <1>4, <2>1 DEF RtOpen, TypeOK, pipeVars, rtVars, udiVars
  <1>5. CASE InitRequest
    <2>1. requests' \in [Chan -> Seq(Request_)]
      BY <1>5, DropEffect DEF InitRequest, TypeOK
    <2> QED BY <1>5, <2>1 DEF InitRequest, Goto, TypeOK, Places, udiVars
  <1>6. CASE process_response_fd_callback
    <2>1. threads' \in [Thread -> ThreadType] /\ fifos' \subseteq Pipe
      BY <1>6 DEF process_response_fd_callback, TypeOK, NewThread, ThreadPipes, Pipe, ThreadType, Request, Response
    <2> QED BY <1>6, <2>1 DEF process_response_fd_callback, Goto, TypeOK, Places, ThreadType, pipeVars, udiVars
  <1>7. CASE init_handler
    <2>1. Reply("init", TRUE, {}) \in Response_
      BY DEF Reply, Response_
    <2>2. responses' \in [Chan -> Seq(Response_)]
      BY <1>7, <2>1, SendEffect DEF init_handler, TypeOK
    <2> QED BY <1>7, <2>2 DEF init_handler, TypeOK, Places, udiVars
  <1>8. CASE ThreadInitRequest
    <2>1. requests' \in [Chan -> Seq(Request_)]
      BY <1>8, DropEffect DEF ThreadInitRequest, TypeOK
    <2> QED BY <1>8, <2>1 DEF ThreadInitRequest, Goto, TypeOK, Places, udiVars
  <1>9. CASE thread_create_response
    <2>1. Reply("init", TRUE, {}) \in Response_
      BY DEF Reply, Response_
    <2>2. responses' \in [Chan -> Seq(Response_)]
      BY <1>9, <2>1, SendEffect DEF thread_create_response, TypeOK
    <2> QED BY <1>9, <2>2 DEF thread_create_response, Goto, TypeOK, Places, udiVars
  <1>10. CASE ReportCreate
    <2>1. Event("create", rt.creator, rt.thr) \in Event_
      BY EventTypes DEF TypeOK
    <2>2. events' \in Seq(Event_)
      BY <1>10, <2>1, AppendProperties DEF ReportCreate, TypeOK
    <2> QED BY <1>10, <2>2 DEF ReportCreate, Goto, TypeOK, Places, udiVars
  <1>11. CASE \E c \in Chan : Serves(c)
    <2>1. PICK c \in Chan : Serves(c)
      BY <1>11
    <2>2. PICK r \in Response_ : Served(c, Head(requests[c]), r)
      BY <2>1, ServesEffect
    <2>3. requests' \in [Chan -> Seq(Request_)] /\ responses' \in [Chan -> Seq(Response_)]
      BY <2>1, <2>2, ServesEffect, SendEffect, DropEffect DEF Served, TypeOK
    <2>4. threads' \in [Thread -> ThreadType]
      <3>1. threads \in [Thread -> ThreadType]
        BY DEF TypeOK, ThreadType
      <3>2. Handled(c, Head(requests[c])) \in [Thread -> ThreadType]
        BY <2>1, ServesEffect, HandledEffect
      <3> QED BY <2>2, <3>1, <3>2 DEF Served
    <2>5. rt' \in [at : Places, thr : Thread, creator : Thread, initial : BOOLEAN]
      BY <2>2 DEF Served, TypeOK, Places
    <2> QED BY <2>2, <2>3, <2>4, <2>5 DEF Served, TypeOK, ThreadType, udiVars
  <1>12. CASE Continue
    <2>1. Reply("continue", TRUE, {}) \in Response_
      BY DEF Reply, Response_
    <2>2. requests' \in [Chan -> Seq(Request_)] /\ responses' \in [Chan -> Seq(Response_)]
      BY <1>12, <2>1, SendEffect, DropEffect DEF Continue, Selected, TypeOK
    <2>3. threads' \in [Thread -> ThreadType]
      <3> DEFINE kept(t) == IF threads[t].life = "dead" THEN [threads[t] EXCEPT !.life = "gone"]
                                                        ELSE threads[t]
      <3>1. threads' = [t \in Thread |-> kept(t)]
        BY <1>12 DEF Continue
      <3>2. ASSUME NEW t \in Thread PROVE kept(t) \in ThreadType
        <4>1. threads[t] \in ThreadType
          BY DEF TypeOK, ThreadType
        <4>2. [threads[t] EXCEPT !.life = "gone"] \in ThreadType
          BY <4>1 DEF ThreadType
        <4> QED BY <4>1, <4>2
      <3> HIDE DEF kept
      <3> QED BY <3>1, <3>2
    <2> QED BY <1>12, <2>2, <2>3 DEF Continue, TypeOK, Places, ThreadType, udiVars
  <1>13. CASE ContinueRefused
    <2>1. Reply("continue", FALSE, {}) \in Response_
      BY DEF Reply, Response_
    <2>2. requests' \in [Chan -> Seq(Request_)] /\ responses' \in [Chan -> Seq(Response_)]
      BY <1>13, <2>1, SendEffect, DropEffect DEF ContinueRefused, Selected, TypeOK
    <2> QED BY <1>13, <2>2 DEF ContinueRefused, Goto, TypeOK, Places, udiVars
  <1>14. ASSUME NEW t \in Thread, Stop(t) PROVE TypeOK'
    <2>1. \A report \in Reports(t) : report \in Seq(Event_)
      <3> DEFINE bp == Event("breakpoint", t, t)
                 un == Event("unknown", t, t)
                 er == Event("error", t, t)
      <3>1. bp \in Event_ /\ un \in Event_ /\ er \in Event_
        BY EventTypes
      <3>2. \A report \in Reports(t) : report \in {<<bp>>, <<un>>, <<>>, <<bp, er>>}
        BY DEF Reports
      <3> HIDE DEF bp, un, er
      <3>3. <<bp>> \in Seq(Event_) /\ <<un>> \in Seq(Event_)
        BY <3>1
      <3>4. <<bp, er>> \in Seq(Event_)
        BY <3>1
      <3>5. <<>> \in Seq(Event_)
        OBVIOUS
      <3> QED BY <3>2, <3>3, <3>4, <3>5
    <2>2. events' \in Seq(Event_)
      BY <1>14, <2>1, ConcatProperties DEF Stop, TypeOK
    <2> QED BY <1>14, <2>2 DEF Stop, Goto, TypeOK, Places, udiVars
  <1>15. ASSUME NEW t \in Thread, ThreadDeath(t) PROVE TypeOK'
    <2>1. events' \in Seq(Event_)
      BY <1>15, EventTypes, AppendProperties DEF ThreadDeath, TypeOK
    <2>2. threads' \in [Thread -> ThreadType]
      BY <1>15 DEF ThreadDeath, TypeOK, ThreadType
    <2> QED BY <1>15, <2>1, <2>2 DEF ThreadDeath, Goto, TypeOK, Places, ThreadType, udiVars
  <1>16. ASSUME NEW t \in Thread, Exit(t) PROVE TypeOK'
    <2>1. events' \in Seq(Event_)
      BY <1>16, EventTypes, AppendProperties DEF Exit, TypeOK
    <2> QED BY <1>16, <2>1 DEF Exit, Goto, TypeOK, Places, udiVars
  <1>17. ASSUME NEW t \in Thread, NEW u \in Thread, CreateThread(t, u) PROVE TypeOK'
    <2>1. threads' \in [Thread -> ThreadType] /\ fifos' \subseteq Pipe
      BY <1>17 DEF CreateThread, TypeOK, NewThread, ThreadPipes, Pipe, ThreadType, Request, Response
    <2> QED BY <1>17, <2>1 DEF CreateThread, TypeOK, Places, ThreadType, pipeVars, udiVars
  <1>18. CASE Terminate
    BY <1>18 DEF Terminate, Goto, TypeOK, Places, pipeVars, udiVars
  <1>19. CASE PollFilesystem
    BY <1>19 DEF PollFilesystem, At, TypeOK, Calls, pipeVars, rtVars
  <1>20. CASE UdiOpen
    <2>1. opened' \in [Pipe -> SUBSET Side]
      <3>1. PICK p : p \in UdiOpening /\ (Opens("udi", p) \/ UNCHANGED opened)
        BY <1>20 DEF UdiOpen
      <3>2. p \in Pipe
        BY <3>1, PipeFacts DEF UdiOpening, TypeOK
      <3>3. CASE Opens("udi", p)
        BY <3>2, <3>3 DEF Opens, TypeOK, Side
      <3> QED BY <3>1, <3>3 DEF TypeOK
    <2> QED BY <1>20, <2>1 DEF UdiOpen, At, TypeOK, Calls, pipeVars, rtVars
  <1>21. CASE WriteInit
    <2>1. requests' \in [Chan -> Seq(Request_)]
      BY <1>21, SendEffect, MessageTypes DEF WriteInit, TypeOK
    <2> QED BY <1>21, <2>1 DEF WriteInit, At, TypeOK, Calls, rtVars
  <1>22. CASE ResponseOpen
    BY <1>22 DEF ResponseOpen, At, TypeOK, Calls, pipeVars, rtVars
  <1>23. CASE ReadInit
    <2>1. responses' \in [Chan -> Seq(Response_)]
      BY <1>23, DropEffect DEF ReadInit, TypeOK
    <2> QED BY <1>23, <2>1 DEF ReadInit, TypeOK, Calls, rtVars
  <1>24. CASE WriteThreadInit
    <2>1. requests' \in [Chan -> Seq(Request_)]
      BY <1>24, SendEffect, MessageTypes DEF WriteThreadInit, TypeOK
    <2> QED BY <1>24, <2>1 DEF WriteThreadInit, At, TypeOK, Calls, rtVars
  <1>25. CASE ReadThreadInit
    <2>1. responses' \in [Chan -> Seq(Response_)]
      BY <1>25, DropEffect DEF ReadThreadInit, TypeOK
    <2>2. known' \in Seq([tid : Thread, open : BOOLEAN, single_step : BOOLEAN, suspended : BOOLEAN])
      BY <1>25, AppendProperties DEF ReadThreadInit, TypeOK
    <2> QED BY <1>25, <2>1, <2>2 DEF ReadThreadInit, TypeOK, Calls, rtVars
  <1>26. CASE ReadResponse
    <2>1. responses' \in [Chan -> Seq(Response_)]
      BY <1>26, DropEffect DEF ReadResponse, TypeOK
    <2>2. \A reply : Recorded(udi.asked, reply)
                     \in Seq([tid : Thread, open : BOOLEAN, single_step : BOOLEAN, suspended : BOOLEAN])
      <3> TAKE reply
      <3>1. udi.asked.value \in BOOLEAN
        BY MessageTypes DEF TypeOK
      <3>2. Recorded(udi.asked, reply) \in [DOMAIN known -> KnownType]
        <4> DEFINE f == Recorded(udi.asked, reply)
        <4>1. ASSUME NEW i \in DOMAIN known PROVE f[i] \in KnownType
          <5>1. [known[i] EXCEPT !.single_step = udi.asked.value] \in KnownType
            BY <3>1, KnownTypes DEF KnownType
          <5> DEFINE b == <<known[i].tid, TRUE>> \in reply.states
          <5>2. b \in BOOLEAN
            OBVIOUS
          <5> HIDE DEF b
          <5>3. [known[i] EXCEPT !.suspended = b] \in KnownType
            BY <5>2, KnownTypes DEF KnownType
          <5>4. f[i] \in {[known[i] EXCEPT !.single_step = udi.asked.value],
                         [known[i] EXCEPT !.suspended = b], known[i]}
            BY ZenonT(100) DEF Recorded, b
          <5> QED BY <5>1, <5>3, <5>4, KnownTypes
        <4>2. f = [i \in DOMAIN known |-> f[i]]
          BY DEF Recorded
        <4> QED BY <4>1, <4>2
      <3>3. Recorded(udi.asked, reply) \in Seq(KnownType)
        BY <3>2, KnownTypes, MapSeq
      <3> QED BY <3>3 DEF KnownType
    <2> QED BY <1>26, <2>1, <2>2 DEF ReadResponse, TypeOK, Calls, rtVars
  <1>27. CASE ResponseEof
    BY <1>27 DEF ResponseEof, At, TypeOK, Calls, pipeVars, rtVars
  <1>28. CASE ReadEvent
    <2>1. events' \in Seq(Event_) /\ Head(events).data \in Thread
      <3>1. events' \in Seq(Event_) /\ Head(events) \in Event_
        BY <1>28, HeadTailProperties DEF ReadEvent, TypeOK
      <3> QED BY <3>1 DEF Event_
    <2>2. known' \in Seq([tid : Thread, open : BOOLEAN, single_step : BOOLEAN, suspended : BOOLEAN])
      <3> DEFINE e == Head(events)
                 f == [i \in DOMAIN known |-> IF e.type = "death" /\ i \in Located(e)
                                              THEN [known[i] EXCEPT !.open = FALSE] ELSE known[i]]
      <3>1. f \in [DOMAIN known -> KnownType]
        BY KnownTypes DEF KnownType
      <3>2. known' = known \/ known' = f
        BY <1>28 DEF ReadEvent
      <3> HIDE DEF f
      <3>3. f \in Seq(KnownType)
        BY <3>1, KnownTypes, MapSeq
      <3>4. known' \in Seq(KnownType)
        BY <3>2, <3>3, KnownTypes
      <3> QED BY <3>4 DEF KnownType
    <2> QED BY <1>28, <2>1, <2>2 DEF ReadEvent, TypeOK, Calls, rtVars
  <1>29. CASE Cleanup
    BY <1>29 DEF Cleanup, TypeOK, pipeVars, rtVars
  <1>30. ASSUME NEW c \in Chan, NEW m \in Request_, Ask(c, m) PROVE TypeOK'
    <2>1. requests' \in [Chan -> Seq(Request_)]
      BY <1>30, SendEffect DEF Ask, TypeOK
    <2> QED BY <1>30, <2>1 DEF Ask, TypeOK, Calls, rtVars
  <1>31. CASE AskProcess
    BY <1>31, <1>30, MessageTypes DEF AskProcess
  <1>32. CASE AskThread
    <2>1. PICK i \in DOMAIN known, type \in Asks[faults] \cap ThreadAsks, value \in BOOLEAN :
             Ask(known[i].tid, Message(type, value))
      BY <1>32 DEF AskThread
    <2>2. known[i].tid \in Chan
      BY KnownTypes
    <2>3. Message(type, value) \in Request_
      BY MessageTypes
    <2> QED BY <1>30, <2>1, <2>2, <2>3
  <1>33. CASE continue_process
    <2>1. CASE ~process.terminating
      BY <1>33, <1>30, <2>1, MessageTypes DEF continue_process
    <2>2. CASE process.terminating
      <3>1. requests' \in [Chan -> Seq(Request_)]
        <4>1. requests' = Send(requests, Proc, Plain("continue"))
          BY <1>33, <2>2 DEF continue_process
        <4>2. Plain("continue") \in Request_
          BY MessageTypes
        <4> QED BY <4>1, <4>2, SendEffect DEF TypeOK
      <3> QED BY <1>33, <2>2, <3>1 DEF continue_process, TypeOK, Calls, rtVars
    <2> QED BY <2>1, <2>2
  <1> QED
    BY <1>1, <1>2, <1>3, <1>4, <1>5, <1>6, <1>7, <1>8, <1>9, <1>10, <1>11, <1>12, <1>13, <1>14,
       <1>15, <1>16, <1>17, <1>18, <1>19, <1>20, <1>21, <1>22, <1>23, <1>24, <1>25, <1>26, <1>27,
       <1>28, <1>29, <1>31, <1>32, <1>33
    DEF Next, RtStep, Run, UdiStep, Serves

\* A continue request is refused only while every thread is suspended.
LEMMA EffContinueReply ==
    ASSUME Continues
    PROVE  \E ok \in BOOLEAN : responses' = Send(responses, Proc, ContinueReply(ok)) /\ (Resumable => ok)
  BY ZenonT(100) DEF Continues, Continue, ContinueRefused, ContinueReply, Resumable

\* A call of the debugger sends one request on one channel.
LEMMA AskingCases ==
    ASSUME TypeOK, AskProcess \/ AskThread \/ (continue_process /\ ~process.terminating)
    PROVE  \E c \in Chan, m \in Request_ : Asking(c, m)
  <1>1. CASE AskProcess
    <2>1. PICK type \in Asks[faults] \cap ProcessAsks : Ask(Proc, Plain(type))
      BY <1>1 DEF AskProcess
    <2>2. Plain(type) \in Request_ /\ Plain(type).type = type /\ type # "continue"
      BY MessageTypes, RequestTypes DEF ProcessAsks
    <2>3. Asking(Proc, Plain(type))
      BY <1>1, <2>1, <2>2 DEF AskProcess, Asking
    <2> QED BY <2>2, <2>3, ProcChan
  <1>2. CASE AskThread
    <2>1. PICK i \in DOMAIN known, type \in Asks[faults] \cap ThreadAsks, value \in BOOLEAN :
             known[i].open /\ Ask(known[i].tid, Message(type, value))
      BY <1>2 DEF AskThread
    <2>2. known[i].tid \in Chan /\ known[i].tid \in OpenTids
      BY <2>1, KnownTypes DEF OpenTids
    <2>3. Message(type, value) \in Request_ /\ Message(type, value).type = type
      BY MessageTypes, RequestTypes
    <2>4. type \notin {"continue", "state"}
      BY DEF ThreadAsks
    <2>5. Asking(known[i].tid, Message(type, value))
      BY <1>2, <2>1, <2>2, <2>3, <2>4 DEF AskThread, Asking
    <2> QED BY <2>2, <2>3, <2>5
  <1>3. CASE continue_process /\ ~process.terminating
    <2>1. Plain("continue") \in Request_ /\ Plain("continue").type = "continue"
      BY MessageTypes, RequestTypes
    <2>2. Asking(Proc, Plain("continue"))
      BY <1>3, <2>1 DEF continue_process, Asking
    <2> QED BY <2>1, <2>2, ProcChan
  <1> QED BY <1>1, <1>2, <1>3

-----------------------------------------------------------------------------
(* What each step does: one lemma for each action, Eff<action>, shows that *)
(* the action does Did<action>.                                            *)

USE Untyped

\* The steps that only move one side.
LEMMA EffCreate ==
    ASSUME TypeOK, create_udi_filesystem
    PROVE  DidCreate
  <1>1. /\ rt.at = "start" /\ rt'.at \in {"start", "open_request"}
        /\ rt'.thr = rt.thr /\ rt'.creator = rt.creator
        /\ UNCHANGED <<opened, requests, responses, events, threads, faults, exiting,
                       udi, process, known, Asked, Replied, Unborn, Live, Listed, States, Tids,
                       OpenTids>>
        /\ (Resumable' <=> Resumable) /\ (Distinct' <=> Distinct)
    BY Frames DEF TypeOK, create_udi_filesystem, Goto, pipeVars, udiVars
  <1>2. \E i \in 1..3 :
               /\ Order[i] \notin fifos /\ \A j \in 1..(i - 1) : Order[j] \in fifos
               /\ fifos' = fifos \cup {Order[i]}
               /\ IF i = 3 THEN rt'.at = "open_request" ELSE rt'.at = "start"
    <2>1. [rt EXCEPT !.at = "open_request"].at = "open_request"
      BY DEF TypeOK
    <2> QED BY <2>1, PipeFacts, ZenonT(100) DEF create_udi_filesystem, Goto
  <1> QED BY <1>1, <1>2 DEF DidCreate

\* DidInitFails is what the step does.
LEMMA EffInitFails ==
    ASSUME TypeOK, InitFails
    PROVE  DidInitFails
  BY Frames DEF DidInitFails, TypeOK, InitFails, Goto, pipeVars, udiVars

\* DidRtOpen is what the step does.
LEMMA EffRtOpen ==
    ASSUME TypeOK, RtOpen
    PROVE  DidRtOpen
  <1>1. /\ UNCHANGED <<fifos, requests, responses, events, rt, threads, faults,
                       exiting, udi, process, known, Asked, Replied, Unborn, Live, Listed, States,
                       Tids, OpenTids>>
        /\ (Resumable' <=> Resumable) /\ (Distinct' <=> Distinct)
    BY Frames DEF TypeOK, RtOpen, pipeVars, rtVars, udiVars
  <1>2. \E p \in RtOpening : opened' = [opened EXCEPT ![p] = @ \cup {"rt"}]
    BY ZenonT(100) DEF RtOpen, Opens
  <1> QED BY <1>1, <1>2, ZenonT(100) DEF DidRtOpen

\* Reading a request in a handshake.
LEMMA EffInitRequest ==
    ASSUME TypeOK, InitRequest
    PROVE  DidInitRequest
  <1>1. Asked' \subseteq Asked
    BY DropSets, ProcChan DEF InitRequest
  <1> QED BY <1>1, Frames DEF DidInitRequest, TypeOK, InitRequest, Goto, udiVars

\* The structure of a thread is made, or marked.
LEMMA EffFirst ==
    ASSUME TypeOK, process_response_fd_callback
    PROVE  DidFirst
  <1>1. /\ threads'[First] = NewThread
        /\ \A x \in Thread : x # First => threads'[x] = threads[x]
    BY FirstAssumption DEF process_response_fd_callback, TypeOK
  <1>2. Live' = Live \cup {First} /\ Unborn' = Unborn \ {First}
    BY <1>1, FirstAssumption DEF NewThread, Live, Unborn
  <1> QED BY <1>1, <1>2, Frames DEF DidFirst, TypeOK, process_response_fd_callback, Goto, pipeVars, udiVars

\* DidInitHandler is what the step does.
LEMMA EffInitHandler ==
    ASSUME TypeOK, init_handler
    PROVE  DidInitHandler
  <1>1. Replied' = Replied
    BY SendSets, InitReply, ProcChan DEF init_handler
  <1> QED BY <1>1, Frames DEF DidInitHandler, TypeOK, init_handler, Opened, Side, udiVars

\* DidThreadInitRequest is what the step does.
LEMMA EffThreadInitRequest ==
    ASSUME TypeOK, ThreadInitRequest
    PROVE  DidThreadInitRequest
  <1>1. Asked' \subseteq Asked /\ rt.thr \in Asked /\ requests'[Proc] = requests[Proc]
    BY DropSets, ProcChan, Subsets DEF ThreadInitRequest
  <1> QED BY <1>1, Frames DEF DidThreadInitRequest, TypeOK, ThreadInitRequest, Goto, udiVars

\* DidThreadResponse is what the step does.
LEMMA EffThreadResponse ==
    ASSUME TypeOK, thread_create_response
    PROVE  DidThreadResponse
  <1>1. rt.thr \in Thread /\ rt.thr \in Chan /\ rt.thr # Proc
    BY ProcChan, Subsets
  <1>2. responses' = Send(responses, rt.thr, Reply("init", TRUE, {}))
    BY DEF thread_create_response
  <1>3. Replied' = Replied \cup ({rt.thr} \cap Thread) /\ responses'[Proc] = responses[Proc]
    BY <1>1, <1>2, SendSets, InitReply
  <1>4. Replied' = Replied \cup {rt.thr} /\ responses'[Proc] = responses[Proc]
    BY <1>1, <1>3
  <1> QED BY <1>2, <1>4, Frames DEF DidThreadResponse, TypeOK, thread_create_response, Opened, Side, Goto, udiVars

\* Events are written.
LEMMA EffReportCreate ==
    ASSUME TypeOK, ReportCreate
    PROVE  DidReportCreate
  BY Frames DEF DidReportCreate, TypeOK, ReportCreate, Goto, udiVars

\* The command loop.
LEMMA EffServe ==
    ASSUME TypeOK, NEW c \in Chan, Serves(c)
    PROVE  DidServe(c)
  <1>1. PICK r \in Response_ : Served(c, Head(requests[c]), r)
    BY ServesEffect
  <1>2. requests[c] # <<>> /\ Head(requests[c]) \in Request_
    BY ServesEffect
  <1>3. \A t \in Thread : threads'[t].life = threads[t].life /\ (t # c => threads'[t] = threads[t])
    BY <1>1, <1>2, HandledEffect DEF Served
  <1>4. Unborn' = Unborn /\ Live' = Live /\ Listed' = Listed
    BY <1>3 DEF Unborn, Live, Listed
  <1>5. requests' = Drop(requests, c) /\ responses' = Send(responses, c, r)
    BY <1>1 DEF Served
  <1>6. Asked' \subseteq Asked /\ (c \in Thread => c \in Asked) /\ (c # Proc => requests'[Proc] = requests[Proc])
    BY <1>2, <1>5, DropSets
  <1>7. Replied' = Replied \cup ({c} \cap Thread) /\ (c # Proc => responses'[Proc] = responses[Proc])
    BY <1>5, SendSets
  <1>8. /\ rt.at = "command" /\ rt'.thr = rt.thr
        /\ rt'.at = "command" \/ (rt'.at = "gone" /\ "memory" \in faults)
        /\ UNCHANGED <<fifos, opened, events, faults, exiting, udi, process, known>>
    BY <1>1 DEF Served, Selected, TypeOK, udiVars
  <1>9. \E r_ \in Response_ : Served(c, Head(requests[c]), r_)
    BY <1>1
  <1> QED BY <1>2, <1>3, <1>4, <1>5, <1>6, <1>7, <1>8, <1>9, Frames DEF DidServe

\* DidContinue is what the step does.
LEMMA EffContinue ==
    ASSUME TypeOK, Continues
    PROVE  DidContinue
  <1>1. rt.at = "command" /\ requests[Proc] # <<>> /\ Head(requests[Proc]).type = "continue"
    BY DEF Continues, Continue, ContinueRefused, Selected
  <1>2. requests' = Drop(requests, Proc)
    BY DEF Continues, Continue, ContinueRefused
  <1>3. PICK ok \in BOOLEAN : responses' = Send(responses, Proc, ContinueReply(ok)) /\ (Resumable => ok)
    BY EffContinueReply
  <1>4. Asked' \subseteq Asked
    BY <1>1, <1>2, DropSets, ProcChan
  <1>5. Replied' = Replied
    BY <1>3, SendSets, ContinueReplies, ProcChan
  <1>6. \A t \in Thread : /\ threads'[t].single_step = threads[t].single_step
                          /\ (threads'[t].life = "live" <=> threads[t].life = "live")
                          /\ (threads'[t].life = "none" <=> threads[t].life = "none")
    <2>1. CASE Continue
      <3> SUFFICES ASSUME NEW t \in Thread
                   PROVE  /\ threads'[t].single_step = threads[t].single_step
                          /\ (threads'[t].life = "live" <=> threads[t].life = "live")
                          /\ (threads'[t].life = "none" <=> threads[t].life = "none")
        OBVIOUS
      <3>1. threads'[t] = IF threads[t].life = "dead" THEN [threads[t] EXCEPT !.life = "gone"] ELSE threads[t]
        BY <2>1 DEF Continue
      <3> QED BY <3>1 DEF TypeOK
    <2>2. CASE ContinueRefused
      BY <2>2 DEF ContinueRefused
    <2> QED BY <2>1, <2>2 DEF Continues
  <1>7. Unborn' = Unborn /\ Live' = Live
    BY <1>6 DEF Unborn, Live
  <1>8. /\ rt'.at \in {"run", "gone"} /\ rt'.thr = rt.thr
        /\ Resumable => rt'.at = "run"
        /\ UNCHANGED <<opened, events, faults, exiting, udi, process, known>>
    BY DEF Continues, Continue, ContinueRefused, Goto, Resumable, TypeOK, udiVars
  <1>9. \E b \in BOOLEAN : responses' = Send(responses, Proc, ContinueReply(b)) /\ (Resumable => b)
    BY EffContinueReply
  <1>10. fifos' = fifos \/ fifos' = fifos \ UNION {ThreadPipes(t) : t \in Listed \ Live}
    BY ZenonT(100) DEF Continues, Continue, ContinueRefused
  <1> QED BY <1>1, <1>2, <1>4, <1>5, <1>6, <1>7, <1>8, <1>9, <1>10, Frames DEF DidContinue

\* DidStop is what the step does.
LEMMA EffStop ==
    ASSUME TypeOK, NEW t \in Thread, Stop(t)
    PROVE  DidStop(t)
  <1>1. /\ rt.at = "run" /\ t \in Live /\ (exiting => "late" \in faults)
        /\ rt'.at = "command" /\ rt'.thr = rt.thr
        /\ UNCHANGED <<fifos, opened, requests, responses, threads, faults, exiting,
                       udi, process, known, Asked, Replied, Unborn, Live, Listed, States, Tids,
                       OpenTids>>
        /\ (Resumable' <=> Resumable) /\ (Distinct' <=> Distinct)
    BY Frames DEF TypeOK, Stop, Runs, Goto, udiVars
  <1> QED BY <1>1, EventsReported DEF DidStop

\* DidThreadDeath is what the step does.
LEMMA EffThreadDeath ==
    ASSUME TypeOK, NEW t \in Thread, ThreadDeath(t)
    PROVE  DidThreadDeath(t)
  <1>1. /\ threads'[t].life = "dead" /\ threads'[t].single_step = threads[t].single_step
        /\ t \in Live
        /\ \A x \in Thread : x # t => threads'[x] = threads[x]
    BY DEF ThreadDeath, Runs, TypeOK
  <1>2. Live' = Live \ {t} /\ Unborn' = Unborn
    BY <1>1 DEF Live, Unborn
  <1>3. \A x \in Thread : threads'[x].single_step = threads[x].single_step
    BY <1>1
  <1> QED BY <1>1, <1>2, <1>3, Frames DEF DidThreadDeath, TypeOK, ThreadDeath, Runs, Goto, udiVars

\* DidExit is what the step does.
LEMMA EffExit ==
    ASSUME TypeOK, NEW t \in Thread, Exit(t)
    PROVE  DidExit(t)
  BY Frames DEF DidExit, TypeOK, Exit, Runs, Goto, udiVars

\* DidCreateThread is what the step does.
LEMMA EffCreateThread ==
    ASSUME TypeOK, NEW t \in Thread, NEW u \in Thread, CreateThread(t, u)
    PROVE  DidCreateThread(t, u)
  <1>1. /\ threads'[u] = NewThread /\ u \in Unborn
        /\ \A x \in Thread : x # u => threads'[x] = threads[x]
    BY DEF CreateThread, TypeOK, Unborn
  <1>2. Live' = Live \cup {u} /\ Unborn' = Unborn \ {u}
    BY <1>1 DEF NewThread, Live, Unborn
  <1> QED BY <1>1, <1>2, Frames DEF DidCreateThread, TypeOK, CreateThread, Runs, pipeVars, udiVars

\* DidTerminate is what the step does.
LEMMA EffTerminate ==
    ASSUME TypeOK, Terminate
    PROVE  DidTerminate
  BY Frames DEF DidTerminate, TypeOK, Terminate, Goto, pipeVars, udiVars

\* DidPoll is what the step does.
LEMMA EffPoll ==
    ASSUME TypeOK, PollFilesystem
    PROVE  DidPoll
  BY Frames DEF DidPoll, TypeOK, PollFilesystem, At, Alive, pipeVars, rtVars

\* libudi finds the pipe that it opens.
LEMMA EffUdiOpen ==
    ASSUME IInv, UdiOpen
    PROVE  DidUdiOpen
  <1> USE ProcChan, PipeFacts DEF IInv
  <1>1. PICK p \in UdiOpening :
           /\ "udi" \notin opened[p]
           /\ \/ opened' = [opened EXCEPT ![p] = @ \cup {"udi"}] /\ UNCHANGED udi
              \/ p \notin fifos
    BY DEF UdiOpen, Opens
  <1>2. UNCHANGED <<fifos, requests, responses, events, rt, threads, faults, exiting, process, known>>
    BY DEF UdiOpen, pipeVars, rtVars
  <1>3. p \in fifos
    <2>1. CASE udi.at \in Connecting
      BY <1>1, <2>1 DEF UdiOpening, Handshake, Connecting
    <2>2. CASE udi.at = "thr_open_request"
      <3>1. p \in ThreadPipes(udi.thr)
        BY <1>1, <2>2 DEF UdiOpening, ThreadPipes
      <3>2. udi.thr \in Live
        BY <2>2, Subsets DEF Books, Making
      <3> QED BY <3>1, <3>2 DEF Handshake
    <2>3. CASE udi.at = "thr_open_response"
      <3>1. p = Response(udi.thr) /\ p \in ThreadPipes(udi.thr)
        BY <1>1, <2>3 DEF UdiOpening, ThreadPipes
      <3>2. udi.thr \in Live
        BY <1>1, <2>3, <3>1, Subsets DEF Handshake, Books
      <3> QED BY <3>1, <3>2 DEF Handshake
    <2>4. CASE udi.at \in {"idle", "await", "failed", "lost"}
      BY <1>1, <2>4 DEF UdiOpening
    <2> QED BY <2>1, <2>2, <2>3, <2>4 DEF TypeOK, Calls, Connecting
  <1> QED BY <1>1, <1>2, <1>3, Frames DEF DidUdiOpen

\* libudi's side of the handshakes.
LEMMA EffWriteInit ==
    ASSUME TypeOK, WriteInit
    PROVE  DidWriteInit
  <1>1. Plain("init") \in Request_
    BY MessageTypes, RequestTypes
  <1>2. Asked' = Asked
    BY <1>1, SendSets, ProcChan DEF WriteInit
  <1> QED BY <1>2, Frames DEF DidWriteInit, TypeOK, WriteInit, At, rtVars

\* DidResponseOpen is what the step does.
LEMMA EffResponseOpen ==
    ASSUME TypeOK, ResponseOpen
    PROVE  DidResponseOpen
  BY Frames DEF DidResponseOpen, TypeOK, ResponseOpen, At, Opened, Side, pipeVars, rtVars

\* DidReadInit is what the step does.
LEMMA EffReadInit ==
    ASSUME TypeOK, ReadInit
    PROVE  DidReadInit
  <1>1. Replied' \subseteq Replied
    BY DropSets, ProcChan DEF ReadInit
  <1> QED BY <1>1, Frames DEF DidReadInit, TypeOK, ReadInit, rtVars

\* DidWriteThreadInit is what the step does.
LEMMA EffWriteThreadInit ==
    ASSUME TypeOK, WriteThreadInit
    PROVE  DidWriteThreadInit
  <1>1. Plain("init") \in Request_
    BY MessageTypes, RequestTypes
  <1>2. udi.thr \in Thread /\ udi.thr \in Chan /\ udi.thr # Proc
    BY ProcChan, Subsets
  <1>3. requests' = Send(requests, udi.thr, Plain("init"))
    BY DEF WriteThreadInit
  <1>4. Asked' = Asked \cup ({udi.thr} \cap Thread) /\ requests'[Proc] = requests[Proc]
    BY <1>1, <1>2, <1>3, SendSets
  <1>5. Asked' = Asked \cup {udi.thr} /\ requests'[Proc] = requests[Proc]
    BY <1>2, <1>4
  <1> QED BY <1>3, <1>5, Frames DEF DidWriteThreadInit, TypeOK, WriteThreadInit, At, rtVars

\* DidReadThreadInit is what the step does.
LEMMA EffReadThreadInit ==
    ASSUME TypeOK, ReadThreadInit
    PROVE  DidReadThreadInit
  <1>1. Replied' \subseteq Replied /\ udi.thr \in Replied /\ responses'[Proc] = responses[Proc]
    BY DropSets, ProcChan, Subsets DEF ReadThreadInit
  <1> QED BY <1>1, Frames DEF DidReadThreadInit, TypeOK, ReadThreadInit, rtVars

\* DidReadResponse is what the step does.
LEMMA EffReadResponse ==
    ASSUME TypeOK, ReadResponse
    PROVE  DidReadResponse
  <1> DEFINE reply == Head(responses[udi.chan])
             continued == reply.ok /\ udi.asked.type = "continue"
  <1>1. udi.at = "await" /\ responses[udi.chan] # <<>> /\ responses' = Drop(responses, udi.chan)
        /\ udi.chan \in Chan
    BY DEF ReadResponse, TypeOK
  <1>2. Replied' \subseteq Replied /\ reply \in Response_
    BY <1>1, DropSets, DropEffect DEF TypeOK
  <1>3. known' = IF reply.ok THEN Recorded(udi.asked, reply) ELSE known
    BY ZenonT(100) DEF ReadResponse
  <1>4. /\ DOMAIN known' = DOMAIN known
        /\ \A i \in DOMAIN known : known'[i].tid = known[i].tid /\ known'[i].open = known[i].open
    BY <1>3, EffRecorded
  <1>5. Tids' = Tids /\ OpenTids' = OpenTids /\ (Distinct' <=> Distinct)
    BY <1>4 DEF Tids, OpenTids, Distinct
  <1>6. continued \in BOOLEAN /\ process.running \in BOOLEAN
    BY <1>2 DEF Response_, TypeOK
  <1>7. /\ udi' = [udi EXCEPT !.at = IF Fits(reply) THEN "idle" ELSE "lost", !.told = ~continued]
        /\ process' = [process EXCEPT !.running = @ \/ continued]
        /\ UNCHANGED <<fifos, opened, requests, events, rt, threads, faults, exiting>>
    BY DEF ReadResponse, rtVars
  <1> HIDE DEF continued, reply
  <1>8. /\ udi'.at = IF Fits(reply) THEN "idle" ELSE "lost"
        /\ udi'.thr = udi.thr /\ udi'.chan = udi.chan /\ udi'.asked = udi.asked /\ udi'.told = ~continued
        /\ process'.running = (process.running \/ continued) /\ process'.terminating = process.terminating
    BY <1>7 DEF TypeOK
  <1>9. (udi'.told <=> ~continued) /\ (process'.running <=> process.running \/ continued)
    BY <1>6, <1>8
  <1>10. UNCHANGED <<fifos, opened, requests, events, rt, threads, faults, exiting>>
    BY <1>7
  <1> QED BY <1>1, <1>2, <1>3, <1>5, <1>8, <1>9, <1>10, Frames DEF DidReadResponse, continued, reply

\* DidResponseEof is what the step does.
LEMMA EffResponseEof ==
    ASSUME TypeOK, ResponseEof
    PROVE  DidResponseEof
  BY Frames DEF DidResponseEof, TypeOK, ResponseEof, At, Alive, pipeVars, rtVars

\* DidReadEvent is what the step does.
LEMMA EffReadEvent ==
    ASSUME TypeOK, Distinct, ReadEvent
    PROVE  DidReadEvent
  <1> DEFINE e == Head(events)
             k(i) == IF e.type = "death" /\ i \in Located(e) THEN [known[i] EXCEPT !.open = FALSE] ELSE known[i]
  <1>1. udi.at = "idle" /\ process.running /\ events # <<>> /\ events' = Tail(events)
    BY DEF ReadEvent, Waiting
  <1>2. e \in Event_
    BY <1>1, HeadTailProperties DEF TypeOK
  <1>3. UNCHANGED <<fifos, opened, requests, responses, rt, threads, faults, exiting>>
    BY DEF ReadEvent, rtVars
  <1>4. \A i \in DOMAIN known : i \in Located(e) <=> known[i].tid = e.tid
    <2>1. \A i \in DOMAIN known : i \in Nat /\ 1..(i - 1) \subseteq DOMAIN known /\ i \notin 1..(i - 1)
      BY KnownTypes, LenProperties
    <2>2. ASSUME NEW i \in DOMAIN known, known[i].tid = e.tid, NEW j \in 1..(i - 1) PROVE known[j].tid # e.tid
      <3>1. j \in DOMAIN known /\ j # i
        BY <2>1
      <3> QED BY <2>2, <3>1 DEF Distinct
    <2> QED BY <2>2 DEF Located
  <1>5. ASSUME NEW i \in DOMAIN known
        PROVE  /\ k(i).tid = known[i].tid /\ k(i).single_step = known[i].single_step
               /\ k(i).open <=> (known[i].open /\ ~(e.type = "death" /\ known[i].tid = e.tid))
    <2>1. known[i] \in KnownType
      BY KnownTypes
    <2>2. CASE e.type = "death" /\ i \in Located(e)
      BY <1>4, <2>1, <2>2 DEF KnownType
    <2>3. CASE ~(e.type = "death" /\ i \in Located(e))
      BY <1>4, <2>1, <2>3 DEF KnownType
    <2> QED BY <2>2, <2>3
  <1>6. (known' = known /\ e.type # "death") \/ known' = [i \in DOMAIN known |-> k(i)]
    BY DEF ReadEvent, Parses
  <1>7. /\ DOMAIN known' = DOMAIN known
        /\ \A i \in DOMAIN known :
              /\ known'[i].tid = known[i].tid /\ known'[i].single_step = known[i].single_step
              /\ known'[i].open <=> (known[i].open /\ ~(e.type = "death" /\ known[i].tid = e.tid))
    <2>1. CASE known' = known /\ e.type # "death"
      BY <2>1
    <2> HIDE DEF k
    <2>2. CASE known' = [i \in DOMAIN known |-> k(i)]
      BY <1>5, <2>2
    <2> QED BY <1>6, <2>1, <2>2
  <1> HIDE DEF e, k
  <1>8. Tids' = Tids /\ Distinct'
    BY <1>7 DEF Tids, Distinct
  <1>9. OpenTids' = IF e.type = "death" THEN OpenTids \ {e.tid} ELSE OpenTids
    BY <1>7 DEF OpenTids
  <1>10. /\ e.type = "create" =>
               /\ udi'.at = "thr_open_request" /\ udi'.thr = e.data
               /\ ~process'.running /\ process'.terminating = process.terminating
         /\ e.type # "create" => udi'.at = "idle" /\ udi'.told
    BY DEF ReadEvent, Waiting, Parses, TypeOK, e
  <1>11. e.type = "unknown" => process' = process
    BY DEF ReadEvent, Parses, e
  <1>12. ASSUME e.type \notin {"create", "unknown"}
         PROVE  ~process'.running /\ (process'.terminating <=> (process.terminating \/ e.type = "exit"))
    <2>1. process' = [process EXCEPT !.running = FALSE, !.terminating = @ \/ e.type = "exit"]
      BY <1>12 DEF ReadEvent, Parses, e
    <2>2. process'.running = FALSE /\ process'.terminating = (process.terminating \/ e.type = "exit")
      BY <2>1 DEF TypeOK
    <2> QED BY <2>2 DEF TypeOK
  <1> QED BY <1>1, <1>2, <1>3, <1>7, <1>8, <1>9, <1>10, <1>11, <1>12, Frames DEF DidReadEvent, e

\* DidCleanup is what the step does.
LEMMA EffCleanup ==
    ASSUME TypeOK, Cleanup
    PROVE  DidCleanup
  BY Frames DEF DidCleanup, TypeOK, Cleanup, Waiting, Alive, pipeVars, rtVars

\* DidAsking is what the step does.
LEMMA EffAsking ==
    ASSUME TypeOK, NEW c \in Chan, NEW m \in Request_, Asking(c, m)
    PROVE  DidAsking(c, m)
  <1>1. requests' = Send(requests, c, m)
    BY DEF Asking, Ask
  <1>2. Asked' = Asked \cup ({c} \cap Thread)
    BY <1>1, SendSets
  <1> QED BY <1>1, <1>2, Frames DEF DidAsking, Asking, Ask, Ready, Alive, Prudent, Resumable, TypeOK, rtVars

\* DidFinal is what the step does.
LEMMA EffFinal ==
    ASSUME TypeOK, continue_process, process.terminating
    PROVE  DidFinal
  <1>1. requests' = Send(requests, Proc, Plain("continue"))
    BY DEF continue_process
  <1>2. Plain("continue") \in Request_
    BY MessageTypes, RequestTypes
  <1>3. Asked' = Asked
    BY <1>1, <1>2, SendSets, ProcChan
  <1> QED BY <1>1, <1>3, Frames DEF DidFinal, continue_process, Ready, Alive, Prudent, Resumable, TypeOK, rtVars

Library == UdiStep \/ Cleanup \/ AskProcess \/ AskThread \/ continue_process

\* Every step of the debuggee does one of the things listed.
LEMMA RuntimeMoves == ASSUME TypeOK, RtStep \/ Run PROVE RtMoves
  <1>1. UNCHANGED faults
    BY FaultsKept DEF Next
  <1>2. \/ create_udi_filesystem \/ InitFails \/ RtOpen \/ InitRequest
        \/ process_response_fd_callback \/ init_handler \/ ThreadInitRequest
        \/ thread_create_response \/ ReportCreate
        \/ (\E c \in Chan : Serves(c)) \/ Continues
        \/ (\E t \in Thread : Stop(t)) \/ (\E t \in Thread : ThreadDeath(t))
        \/ (\E t \in Thread : Exit(t)) \/ (\E t, u \in Thread : CreateThread(t, u))
        \/ Terminate
    BY DEF RtStep, Run, Serves, Continues
  <1> QED
    BY <1>1, <1>2, EffCreate, EffInitFails, EffRtOpen, EffInitRequest, EffFirst, EffInitHandler,
       EffThreadInitRequest, EffThreadResponse, EffReportCreate, EffServe, EffContinue, EffStop,
       EffThreadDeath, EffExit, EffCreateThread, EffTerminate DEF RtMoves

\* Every step of libudi does one of the things listed.
LEMMA LibraryMoves == ASSUME IInv, Library \/ UNCHANGED vars PROVE UdiMoves
  <1>1. UNCHANGED faults
    BY FaultsKept DEF Next, Library
  <1>2. TypeOK /\ Distinct
    BY DEF IInv, Books
  <1>3. \/ UNCHANGED vars \/ PollFilesystem \/ UdiOpen \/ WriteInit \/ ResponseOpen
        \/ ReadInit \/ WriteThreadInit \/ ReadThreadInit \/ ReadResponse \/ ResponseEof
        \/ ReadEvent \/ Cleanup
        \/ (\E c \in Chan, m \in Request_ : Asking(c, m))
        \/ continue_process /\ process.terminating
    BY <1>2, AskingCases DEF Library, UdiStep
  <1> QED
    BY <1>1, <1>2, <1>3, EffPoll, EffUdiOpen, EffWriteInit, EffResponseOpen, EffReadInit,
       EffWriteThreadInit, EffReadThreadInit, EffReadResponse, EffResponseEof, EffReadEvent,
       EffCleanup, EffAsking, EffFinal DEF UdiMoves

-----------------------------------------------------------------------------
(* The invariant. *)

\* The invariant holds initially.
LEMMA InitIInv == Init => IInv
  <1> SUFFICES ASSUME Init PROVE IInv
    OBVIOUS
  <1> USE ProcChan, FirstAssumption
  <1>1. TypeOK
    <2>1. Plain("init") \in Request_
      BY MessageTypes, RequestTypes
    <2>2. <<>> \in Seq(Request_) /\ <<>> \in Seq(Response_) /\ <<>> \in Seq(Event_)
          /\ <<>> \in Seq([tid : Thread, open : BOOLEAN, single_step : BOOLEAN, suspended : BOOLEAN])
      OBVIOUS
    <2>3. threads \in [Thread -> [life : {"none", "live", "dead", "gone"},
                                  suspended : BOOLEAN, single_step : BOOLEAN]]
      BY DEF Init, NoThread
    <2> QED BY <2>1, <2>2, <2>3 DEF Init, TypeOK, Places, Calls, Side
  <1>2. /\ Live = {} /\ Unborn = Thread /\ Tids = {} /\ OpenTids = {} /\ Asked = {} /\ Replied = {}
        /\ Pending = {} /\ Distinct
    BY DEF Init, Live, Unborn, Tids, OpenTids, Asked, Replied, Pending, Distinct, NoThread
  <1>3. /\ rt.at = "start" /\ rt.thr = First /\ udi.at = "poll"
        /\ ~process.running /\ ~process.terminating /\ ~exiting
        /\ known = <<>> /\ events = <<>> /\ fifos = {}
    BY DEF Init
  <1>4. /\ \A c \in Chan : requests[c] = <<>> /\ responses[c] = <<>>
        /\ \A p \in Pipe : opened[p] = {}
    BY DEF Init
  <1>5. \A c \in Chan : c \in Uncrowded
    <2>1. Len(<<>>) + Len(<<>>) <= 1
      OBVIOUS
    <2> QED BY <1>4, <2>1 DEF Uncrowded
  <1>6. DOMAIN events = {} /\ DOMAIN known = {}
    BY <1>3
  <1>7. Handshake
    BY <1>2, <1>3, <1>4, PipeFacts DEF Handshake, Connecting
  <1>8. Books /\ Queue /\ Exits
    BY <1>2, <1>3, <1>6 DEF Books, Queue, Exits, Finale, Adding, Making
  <1>9. Matched
    BY <1>3, <1>4, <1>5 DEF Matched, Orderly
  <1>10. Control /\ Leftover
    BY <1>3 DEF Control, Controlled, Leftover, Unread, Between
  <1>11. Private /\ Settings /\ Refreshed
    BY <1>3, <1>4, <1>5, <1>6 DEF Private, Paired, Settings, Synced, Making, Adding, Refreshed
  <1> QED BY <1>1, <1>7, <1>8, <1>9, <1>10, <1>11 DEF IInv

\* Every step keeps the invariant.
LEMMA Inductive == IInv /\ [Next]_vars => IInv'
  <1> SUFFICES ASSUME IInv, [Next]_vars PROVE IInv'
    OBVIOUS
  <1>1. TypeOK'
    BY NextType DEF IInv
  <1>2. CASE RtStep \/ Run
    <2>1. RtMoves
      BY <1>2, RuntimeMoves DEF IInv
    <2> QED
      BY <1>1, <2>1, HandshakeRuntime, BooksRuntime, QueueRuntime, ExitsRuntime, MatchedRuntime,
         ControlRuntime, LeftoverRuntime, PrivateRuntime, SettingsRuntime, RefreshedRuntime DEF IInv
  <1>3. CASE Library \/ UNCHANGED vars
    <2>1. UdiMoves
      BY <1>3, LibraryMoves
    <2> QED
      BY <1>1, <2>1, HandshakeLibrary, BooksLibrary, QueueLibrary, ExitsLibrary, MatchedLibrary,
         ControlLibrary, LeftoverLibrary, PrivateLibrary, SettingsLibrary, RefreshedLibrary DEF IInv
  <1> QED BY <1>2, <1>3 DEF Next, Library

-----------------------------------------------------------------------------
(* The theorems. *)

\* On every channel requests and responses alternate, and libudi takes no
\* response for that of another request, unless events come after the one for
\* the exit.
THEOREM ResponsesFit == Spec => []ResponseFits
  <1>1. IInv => ResponseFits
    BY UncrowdedNext DEF IInv, ResponseFits, Matched, Orderly
  <1> QED BY <1>1, InitIInv, Inductive, PTL DEF Spec

\* Whatever the threads do, a debugger that libudi tells that the process is
\* stopped has the library in its command loop, and has read all of the events.
THEOREM StopsAgree == Spec => []StopAgrees
  <1>1. IInv => StopAgrees
    <2> SUFFICES ASSUME IInv, Without({"step", "reckless", "memory"}), Ready
                 PROVE  rt.at = "command" /\ events = <<>>
      BY DEF StopAgrees
    <2>1. Controlled /\ "memory" \notin faults
      BY DEF IInv, Control, Without
    <2> QED BY <2>1 DEF Controlled, Waits, Ready
  <1> QED BY <1>1, InitIInv, Inductive, PTL DEF Spec

\* The thread of the next event is one that libudi has open.
LEMMA NextLocated ==
    ASSUME IInv, Waiting, events # <<>>
    PROVE  \E i \in Located(Head(events)) : known[i].open
  <1> DEFINE e == Head(events)
  <1>1. e = events[1] /\ 1 \in DOMAIN events
    BY FirstEvent DEF IInv
  <1> HIDE DEF e
  <1>2. e.tid \in OpenTids
    BY <1>1 DEF IInv, Queue, Adding, Waiting
  <1>3. PICK i \in DOMAIN known : known[i].open /\ known[i].tid = e.tid
    BY <1>2 DEF OpenTids
  <1>4. i \in Nat /\ 1..(i - 1) \subseteq DOMAIN known /\ i \notin 1..(i - 1)
    BY KnownTypes, LenProperties DEF IInv
  <1>5. \A j \in 1..(i - 1) : known[j].tid # e.tid
    BY <1>3, <1>4 DEF IInv, Books, Distinct
  <1> QED BY <1>3, <1>5 DEF Located, e

\* At a stop the open Threads are the live threads, and step alike.
LEMMA StoppedThreads ==
    ASSUME IInv, Without({"step", "reckless", "memory"}), Ready
    PROVE  /\ OpenTids = Live
           /\ \A i \in DOMAIN known :
                 known[i].open => known[i].single_step = threads[known[i].tid].single_step
  <1>1. rt.at = "command" /\ events = <<>> /\ udi.at = "idle"
    BY DEF IInv, Control, Controlled, Waits, Ready, Without
  <1>2. \A t \in Thread : ~Adding(t) /\ ~Making(t) /\ ~StepHandled(t)
    BY <1>1 DEF Adding, Making, StepHandled
  <1>3. DOMAIN events = {}
    BY <1>1
  <1>4. OpenTids \subseteq Thread /\ Live \subseteq Thread
    BY Subsets DEF IInv
  <1>5. Live \subseteq OpenTids
    BY <1>2, <1>4 DEF IInv, Books
  <1>6. OpenTids \subseteq Live
    BY <1>3, <1>4 DEF IInv, Queue
  <1>7. Synced
    BY <1>1 DEF IInv, Settings, Without
  <1>8. \A i \in DOMAIN known : known[i].tid \in Thread
    BY KnownTypes DEF IInv
  <1> QED BY <1>2, <1>5, <1>6, <1>7, <1>8 DEF Synced

\* refresh_state leaves each open Thread with the state its thread has.
LEMMA StateRead ==
    ASSUME IInv, Without({"step", "reckless", "late"}),
           udi.at = "await", udi.asked.type = "state", ReadResponse
    PROVE  \A i \in DOMAIN known' :
              known'[i].open => known'[i].suspended = threads[known[i].tid].suspended
  <1> DEFINE reply == Head(responses[udi.chan])
  <1>1. reply.ok /\ reply.states = States
    BY DEF IInv, Refreshed, ReadResponse
  <1>2. known' = Recorded(udi.asked, reply)
    BY <1>1 DEF ReadResponse
  <1> HIDE DEF reply
  <1>3. DOMAIN known' = DOMAIN known /\ \A i \in DOMAIN known : known'[i].open = known[i].open
    BY <1>2, EffRecorded DEF IInv
  <1>4. events = <<>>
    BY DEF IInv, Control, Controlled, Continued, Answering, Without
  <1>5. OpenTids \subseteq Live
    <2>1. DOMAIN events = {} /\ \A t \in Thread : ~Adding(t)
      BY <1>4 DEF Adding
    <2> QED BY <2>1, Subsets DEF IInv, Queue
  <1> SUFFICES ASSUME NEW i \in DOMAIN known, known[i].open
               PROVE  known'[i].suspended = threads[known[i].tid].suspended
    BY <1>3
  <1> DEFINE t == known[i].tid
             b == <<t, TRUE>> \in States
  <1>6. t \in Thread /\ t \in Listed /\ known[i] \in KnownType
    BY <1>5, KnownTypes DEF IInv, OpenTids, Live, Listed
  <1>7. threads[t].suspended \in BOOLEAN
    BY <1>6 DEF IInv, TypeOK
  <1>8. <<t, threads[t].suspended>> \in States
    BY <1>6 DEF States
  <1>9. b <=> threads[t].suspended
    BY <1>6, <1>7 DEF States
  <1>10. \E x \in BOOLEAN : <<t, x>> \in reply.states
    BY <1>1, <1>7, <1>8
  <1>11. known'[i] = [known[i] EXCEPT !.suspended = <<t, TRUE>> \in reply.states]
    BY <1>2, <1>10, ZenonT(100) DEF Recorded
  <1>12. b \in BOOLEAN
    OBVIOUS
  <1>13. known'[i] = [known[i] EXCEPT !.suspended = b]
    BY <1>1, <1>11
  <1> HIDE DEF b
  <1>14. known'[i].suspended = b
    BY <1>6, <1>13 DEF KnownType
  <1> QED BY <1>7, <1>9, <1>12, <1>14

\* At a stop the open Threads of libudi are the live threads of the debuggee,
\* with the same single step settings; the thread of the next event is open;
\* and refresh_state leaves each open Thread with its thread's state.
THEOREM ThreadsAlwaysAgree == Spec => ThreadsAgree
  <1>1. IInv => ((Waiting /\ events # <<>>) => \E i \in Located(Head(events)) : known[i].open)
    BY NextLocated
  <1>2. IInv => ((Without({"step", "reckless", "memory"}) /\ Ready /\ ~process.running) =>
           /\ {known[i].tid : i \in {j \in DOMAIN known : known[j].open}} = Live
           /\ \A i \in DOMAIN known :
                 known[i].open => known[i].single_step = threads[known[i].tid].single_step)
    BY StoppedThreads DEF OpenTids
  <1>3. IInv /\ [Next]_vars =>
          [ (/\ Without({"step", "reckless", "late"})
             /\ udi.at = "await" /\ udi.asked.type = "state" /\ ReadResponse)
            => \A i \in DOMAIN known' :
                  known'[i].open => known'[i].suspended = threads[known[i].tid].suspended ]_vars
    BY StateRead
  <1> QED BY <1>1, <1>2, <1>3, InitIInv, Inductive, PTL DEF Spec, ThreadsAgree

=============================================================================
