-------------------------- MODULE SessionLibrary ---------------------------
(***************************************************************************)
(* Every step of libudi keeps the invariant of Session: one lemma for each *)
(* conjunct, with one step for each action.                                *)
(***************************************************************************)
EXTENDS SessionPipes

\* A new Thread.
LEMMA EffKnown ==
    ASSUME TypeOK, NEW u \in Thread, u \notin Tids, Distinct,
           known' = Append(known, [tid |-> u, open |-> TRUE, single_step |-> FALSE, suspended |-> FALSE])
    PROVE  Tids' = Tids \cup {u} /\ OpenTids' = OpenTids \cup {u} /\ Distinct'
  <1> DEFINE n == [tid |-> u, open |-> TRUE, single_step |-> FALSE, suspended |-> FALSE]
  <1>1. n \in KnownType /\ n.tid = u /\ n.open
    BY DEF KnownType
  <1>2. known \in Seq(KnownType) /\ known' = Append(known, n)
    BY KnownTypes
  <1> HIDE DEF n
  <1>3. /\ Len(known) \in Nat /\ DOMAIN known = 1..Len(known)
        /\ DOMAIN known' = 1..(Len(known) + 1) /\ known'[Len(known) + 1] = n
        /\ \A i \in 1..Len(known) : known'[i] = known[i]
    BY <1>1, <1>2, AppendProperties, LenProperties
  <1>4. PICK k \in Nat : k = Len(known)
    BY <1>3
  <1>5. /\ DOMAIN known = 1..k /\ DOMAIN known' = (1..k) \cup {k + 1} /\ k + 1 \notin 1..k
        /\ known'[k + 1] = n /\ \A i \in 1..k : known'[i] = known[i]
    BY <1>3, <1>4
  <1>6. Tids' = Tids \cup {u}
    BY <1>1, <1>5 DEF Tids
  <1>7. OpenTids' = OpenTids \cup {u}
    BY <1>1, <1>5 DEF OpenTids
  <1>8. \A i \in 1..k : known[i].tid # u
    BY <1>5 DEF Tids
  <1>9. Distinct'
    BY <1>1, <1>5, <1>8 DEF Distinct
  <1> QED BY <1>6, <1>7, <1>9

\* What a response does to the Threads.
LEMMA EffRecorded ==
    ASSUME TypeOK, NEW m, NEW reply
    PROVE  /\ DOMAIN Recorded(m, reply) = DOMAIN known
           /\ \A i \in DOMAIN known : /\ Recorded(m, reply)[i].tid = known[i].tid
                                      /\ Recorded(m, reply)[i].open = known[i].open
                                      /\ Recorded(m, reply)[i].single_step =
                                            IF m.type = "single_step" /\ known[i].tid = udi.chan /\ known[i].open
                                            THEN m.value ELSE known[i].single_step
  <1>1. DOMAIN Recorded(m, reply) = DOMAIN known
    BY DEF Recorded
  <1>2. ASSUME NEW i \in DOMAIN known
        PROVE  /\ Recorded(m, reply)[i].tid = known[i].tid /\ Recorded(m, reply)[i].open = known[i].open
               /\ Recorded(m, reply)[i].single_step =
                     IF m.type = "single_step" /\ known[i].tid = udi.chan /\ known[i].open
                     THEN m.value ELSE known[i].single_step
    <2> DEFINE b == <<known[i].tid, TRUE>> \in reply.states
               x == [known[i] EXCEPT !.single_step = m.value]
               y == [known[i] EXCEPT !.suspended = b]
    <2>1. CASE m.type = "single_step" /\ known[i].tid = udi.chan /\ known[i].open
      <3>1. Recorded(m, reply)[i] = x
        BY <2>1, Zenon DEF Recorded
      <3>2. known[i] \in KnownType
        BY KnownTypes
      <3>3. x.tid = known[i].tid /\ x.open = known[i].open /\ x.single_step = m.value
        BY <3>2 DEF KnownType
      <3> QED BY <2>1, <3>1, <3>3
    <2>2. CASE ~(m.type = "single_step" /\ known[i].tid = udi.chan /\ known[i].open)
      <3>1. Recorded(m, reply)[i] \in {y, known[i]}
        BY <2>2, Zenon DEF Recorded
      <3>2. known[i] \in KnownType
        BY KnownTypes
      <3> HIDE DEF b
      <3>3. y.tid = known[i].tid /\ y.open = known[i].open /\ y.single_step = known[i].single_step
        BY <3>2 DEF KnownType
      <3> HIDE DEF y
      <3> QED BY <2>2, <3>1, <3>3
    <2> QED BY <2>1, <2>2
  <1> QED BY <1>1, <1>2

\* The first event of the pipe is one of its events.
LEMMA FirstEvent ==
    ASSUME TypeOK, events # <<>>
    PROVE  Head(events) = events[1] /\ 1 \in DOMAIN events /\ Head(events) \in Event_
  BY HeadTailProperties, LenProperties, EmptySeq DEF TypeOK

\* Reading an event moves the others forward by one.
LEMMA EventRead ==
    ASSUME TypeOK, events # <<>>, events' = Tail(events)
    PROVE  /\ Len(events) \in Nat \ {0} /\ Len(events') = Len(events) - 1
           /\ DOMAIN events = 1..Len(events) /\ DOMAIN events' = 1..(Len(events) - 1)
           /\ \A i \in DOMAIN events' : i + 1 \in DOMAIN events /\ events'[i] = events[i + 1]
           /\ \A i \in DOMAIN events : i # 1 => i - 1 \in DOMAIN events' /\ events'[i - 1] = events[i]
  <1>1. events \in Seq(Event_)
    BY DEF TypeOK
  <1>2. Len(events) \in Nat /\ DOMAIN events = 1..Len(events) /\ Len(events) # 0
    BY <1>1, LenProperties, EmptySeq
  <1>3. Tail(events) \in Seq(Event_) /\ Len(events') = Len(events) - 1
    BY <1>1, HeadTailProperties
  <1>4. DOMAIN events' = 1..(Len(events) - 1)
    BY <1>3, LenProperties
  <1>5. \A i \in 1..(Len(events) - 1) : events'[i] = events[i + 1]
    BY <1>1, <1>2, HeadTailProperties
  <1> QED BY <1>2, <1>3, <1>4, <1>5

\* What the steps that do not move libudi leave alone.
LEMMA StillKeeps ==
    ASSUME IInv, Still
    PROVE  /\ UNCHANGED <<requests, responses, events, rt, udi, known, threads, States,
                          Pending, Uncrowded>>
           /\ process'.running = process.running /\ process'.terminating = process.terminating
           /\ (Resumable' <=> Resumable)
           /\ \A t \in Thread : Making(t)' => Making(t)
  <1> USE DEF IInv
  <1> SUFFICES /\ UNCHANGED <<requests, responses, events, rt, udi, known, threads, States>>
               /\ process'.running = process.running /\ process'.terminating = process.terminating
               /\ (Resumable' <=> Resumable)
    BY PendingNext, ProcChan DEF Making
  <1>1. CASE UNCHANGED vars
    BY <1>1, Frames DEF vars, pipeVars, rtVars, udiVars
  <1>2. CASE DidUdiOpen
    BY <1>2 DEF DidUdiOpen
  <1>3. CASE DidCleanup
    BY <1>3 DEF DidCleanup
  <1> QED BY <1>1, <1>2, <1>3 DEF Still

-----------------------------------------------------------------------------
(* The conjuncts of the invariant. *)

\* The leaves have many facts to check: they get more than the usual time.
USE SMTT(100), Untyped

\* The two sides keep in step while they connect, and while they connect a
\* thread.
LEMMA HandshakeLibrary == ASSUME IInv, UdiMoves PROVE Handshake'
  <1> USE ProcChan, FirstAssumption, PipeFacts DEF IInv
  <1>1. CASE UNCHANGED vars
    BY <1>1, Frames DEF Handshake, Connecting, Making, vars, pipeVars, rtVars, udiVars
  <1>2. CASE DidPoll
    BY <1>2 DEF DidPoll, Handshake, Connecting, Making
  <1>3. CASE DidUdiOpen
    <2>1. PICK p \in UdiOpening : opened' = [opened EXCEPT ![p] = @ \cup {"udi"}]
      BY <1>3, ZenonT(100) DEF DidUdiOpen
    <2>2. p = Events => udi.at = "open_events"
      BY <2>1 DEF UdiOpening, Request, Response, Events
    <2>3. \A q \in Pipe : opened'[q] = opened[q] \/ (q = p /\ opened'[q] = opened[q] \cup {"udi"})
      BY <2>1 DEF TypeOK
    <2>4. "rt" \in opened'[Response(Proc)] => "rt" \in opened[Response(Proc)]
      BY <2>3
    <2>5. "udi" \in opened'[Events] => udi.at \notin {"poll", "open_request", "open_response"}
      BY <2>2, <2>3 DEF Handshake
    <2>6. "udi" \notin opened'[Response(udi.thr)] => "udi" \notin opened[Response(udi.thr)]
      BY <2>3, Subsets
    <2>7. UNCHANGED <<fifos, requests, responses, events, rt, exiting, udi, process, known, Unborn, Live>>
      BY <1>3 DEF DidUdiOpen
    <2> QED BY <2>4, <2>5, <2>6, <2>7 DEF Handshake, Connecting, Making
  <1>4. CASE DidWriteInit
    <2>1. rt.at = "open_request" /\ requests[Proc] = <<>>
      BY <1>4 DEF DidWriteInit, Handshake
    <2>2. requests' = Send(requests, Proc, Plain("init")) /\ requests \in [Chan -> Seq(Request_)]
      BY <1>4 DEF DidWriteInit, TypeOK
    <2>3. Len(requests'[Proc]) = 1
      <3>1. Plain("init") \in Request_
        BY MessageTypes, RequestTypes
      <3>2. Len(requests'[Proc]) = Len(requests[Proc]) + 1
        BY <2>2, <3>1, SendEffect
      <3>3. Len(requests[Proc]) = 0
        BY <2>1
      <3> QED BY <3>2, <3>3
    <2>4. /\ udi.at = "open_request" /\ udi'.at = "open_response"
          /\ UNCHANGED <<fifos, opened, responses, events, rt, exiting, process, known, Unborn, Live>>
      BY <1>4 DEF DidWriteInit
    <2> QED BY <2>1, <2>3, <2>4 DEF Handshake, Connecting, Making
  <1>5. CASE DidResponseOpen
    BY <1>5 DEF DidResponseOpen, Handshake, Connecting, Making
  <1>6. CASE DidReadInit
    BY <1>6 DEF DidReadInit, Handshake, Connecting, Making
  <1>7. CASE DidWriteThreadInit
    <2>1. rt.at = "thr_open_request" /\ rt.thr = udi.thr
      BY <1>7, ZenonT(100) DEF DidWriteThreadInit, Books
    <2> QED BY <1>7, <2>1 DEF DidWriteThreadInit, Handshake, Connecting, Making
  <1>8. CASE DidReadThreadInit
    BY <1>8 DEF DidReadThreadInit, Handshake, Connecting, Making
  <1>9. CASE DidReadResponse
    BY <1>9, ZenonT(100) DEF DidReadResponse, Handshake, Connecting, Making
  <1>10. CASE DidResponseEof
    BY <1>10 DEF DidResponseEof, Handshake, Connecting, Making
  <1>11. CASE DidReadEvent
    <2>1. /\ udi.at = "idle" /\ udi'.at \in {"idle", "thr_open_request"}
          /\ UNCHANGED <<fifos, opened, requests, responses, rt, Live, Unborn, exiting>>
      BY <1>11 DEF DidReadEvent, Books
    <2> QED BY <2>1 DEF Handshake, Connecting, Making
  <1>12. CASE DidCleanup
    BY <1>12 DEF DidCleanup, Handshake, Connecting, Making
  <1>13. ASSUME NEW c \in Chan, NEW m \in Request_, DidAsking(c, m) PROVE Handshake'
    BY <1>13, ZenonT(100) DEF DidAsking, Handshake, Connecting, Making
  <1>14. CASE DidFinal
    BY <1>14, ZenonT(100) DEF DidFinal, Handshake, Connecting, Making
  <1> QED
    BY <1>1, <1>2, <1>3, <1>4, <1>5, <1>6, <1>7, <1>8, <1>9, <1>10, <1>11, <1>12, <1>13,
       <1>14 DEF UdiMoves

\* Each live thread is open in libudi, or about to be.
LEMMA BooksLibrary == ASSUME IInv, UdiMoves PROVE Books'
  <1> USE ProcChan, FirstAssumption, Subsets DEF IInv
  <1>1. CASE UNCHANGED vars
    <2>1. UNCHANGED <<rt, udi, Tids, OpenTids, Live, Unborn, Asked, Replied>> /\ (Distinct' <=> Distinct)
      BY <1>1, Frames DEF vars, pipeVars, rtVars, udiVars
    <2> QED BY <2>1 DEF Books, Adding, Making
  <1>2. CASE DidPoll
    BY <1>2 DEF DidPoll, Books, Adding, Making
  <1>3. CASE DidUdiOpen
    BY <1>3 DEF DidUdiOpen, Books, Adding, Making
  <1>4. CASE DidWriteInit
    BY <1>4 DEF DidWriteInit, Books, Adding, Making
  <1>5. CASE DidResponseOpen
    BY <1>5 DEF DidResponseOpen, Books, Adding, Making
  <1>6. CASE DidReadInit
    <2>1. rt.at = "thr_open_request" /\ rt.thr = First
      BY <1>6 DEF DidReadInit, Handshake, Connecting
    <2> QED BY <1>6, <2>1 DEF DidReadInit, Books, Adding, Making
  <1>7. CASE DidWriteThreadInit
    BY <1>7 DEF DidWriteThreadInit, Books, Adding, Making
  <1>8. CASE DidReadThreadInit
    <2>1. udi.thr \notin Tids /\ Distinct /\ udi.thr \in Replied
      BY <1>8 DEF DidReadThreadInit, Books, Adding
    <2>2. Tids' = Tids \cup {udi.thr} /\ OpenTids' = OpenTids \cup {udi.thr} /\ Distinct'
      BY <1>8, <2>1, EffKnown DEF DidReadThreadInit
    <2> QED BY <1>8, <2>1, <2>2 DEF DidReadThreadInit, Books, Adding, Making
  <1>9. CASE DidReadResponse
    BY <1>9 DEF DidReadResponse, Books, Adding, Making
  <1>10. CASE DidResponseEof
    BY <1>10 DEF DidResponseEof, Books, Adding, Making
  <1>11. CASE DidReadEvent
    <2> DEFINE e == Head(events)
    <2>1. e = events[1] /\ 1 \in DOMAIN events /\ Distinct
      BY <1>11, FirstEvent DEF DidReadEvent, Books
    <2>2. /\ udi.at = "idle" /\ Tids' = Tids /\ Distinct'
          /\ OpenTids' = IF e.type = "death" THEN OpenTids \ {e.tid} ELSE OpenTids
          /\ e.type = "create" => udi'.at = "thr_open_request" /\ udi'.thr = e.data
          /\ e.type # "create" => udi'.at = "idle"
          /\ UNCHANGED <<rt, Asked, Replied, Live, Unborn>>
      BY <1>11, <2>1 DEF DidReadEvent
    <2>3. /\ e.type = "create" => rt.at = "thr_open_request" /\ rt.thr = e.data
          /\ e.type = "death" => e.tid \notin Live
      BY <2>1 DEF Queue
    <2> HIDE DEF e
    <2> QED BY <2>2, <2>3 DEF Books, Adding, Making
  <1>12. CASE DidCleanup
    BY <1>12 DEF DidCleanup, Books, Adding, Making
  <1>13. ASSUME NEW c \in Chan, NEW m \in Request_, DidAsking(c, m) PROVE Books'
    BY <1>13 DEF DidAsking, Books, Adding, Making
  <1>14. CASE DidFinal
    BY <1>14 DEF DidFinal, Books, Adding, Making
  <1> QED
    BY <1>1, <1>2, <1>3, <1>4, <1>5, <1>6, <1>7, <1>8, <1>9, <1>10, <1>11, <1>12, <1>13,
       <1>14 DEF UdiMoves

\* An event of the pipe is of a thread that libudi has open when it reads it.
LEMMA QueueLibrary == ASSUME IInv, UdiMoves PROVE Queue'
  <1> USE ProcChan, FirstAssumption, Subsets DEF IInv
  <1>1. CASE UNCHANGED vars
    <2>1. UNCHANGED <<events, rt, udi, OpenTids, Live>>
      BY <1>1, Frames DEF vars, pipeVars, rtVars, udiVars
    <2> QED BY <2>1 DEF Queue, Adding
  <1>2. CASE DidPoll
    BY <1>2 DEF DidPoll, Queue, Adding
  <1>3. CASE DidUdiOpen
    BY <1>3 DEF DidUdiOpen, Queue, Adding
  <1>4. CASE DidWriteInit
    BY <1>4 DEF DidWriteInit, Queue, Adding
  <1>5. CASE DidResponseOpen
    BY <1>5 DEF DidResponseOpen, Queue, Adding
  <1>6. CASE DidReadInit
    <2>1. rt.at = "thr_open_request" /\ rt.thr = First /\ events = <<>>
      BY <1>6 DEF DidReadInit, Handshake, Connecting
    <2>2. First \in Live
      BY <2>1 DEF Books, Making
    <2> QED BY <1>6, <2>1, <2>2 DEF DidReadInit, Queue, Adding
  <1>7. CASE DidWriteThreadInit
    BY <1>7 DEF DidWriteThreadInit, Queue, Adding
  <1>8. CASE DidReadThreadInit
    <2>1. udi.thr \notin Tids /\ Distinct
      BY <1>8 DEF DidReadThreadInit, Books, Adding
    <2>2. OpenTids' = OpenTids \cup {udi.thr}
      BY <1>8, <2>1, EffKnown DEF DidReadThreadInit
    <2> QED BY <1>8, <2>2 DEF DidReadThreadInit, Queue, Adding
  <1>9. CASE DidReadResponse
    BY <1>9 DEF DidReadResponse, Queue, Adding
  <1>10. CASE DidResponseEof
    BY <1>10 DEF DidResponseEof, Queue, Adding
  <1>11. CASE DidReadEvent
    <2> DEFINE e == Head(events)
    <2>1. e = events[1] /\ 1 \in DOMAIN events /\ Distinct
      BY <1>11, FirstEvent DEF DidReadEvent, Books
    <2>2. /\ udi.at = "idle"
          /\ OpenTids' = IF e.type = "death" THEN OpenTids \ {e.tid} ELSE OpenTids
          /\ e.type = "create" => udi'.at = "thr_open_request" /\ udi'.thr = e.data
          /\ e.type # "create" => udi'.at = "idle"
          /\ events # <<>> /\ events' = Tail(events)
          /\ UNCHANGED <<rt, Live>>
      BY <1>11, <2>1 DEF DidReadEvent
    <2>3. /\ e.type = "create" => Len(events) = 1 /\ rt.at = "thr_open_request" /\ rt.thr = e.data
          /\ e.type = "death" => \A j \in DOMAIN events : events[j].tid = e.tid => j <= 1
      <3> HIDE DEF e
      <3>1. e.type = "create" => 1 = Len(events) /\ rt.at = "thr_open_request" /\ rt.thr = e.data
        BY <2>1, ZenonT(100) DEF Queue
      <3>2. e.type = "death" => \A j \in DOMAIN events : events[j].tid = e.tid => j <= 1
        BY <2>1 DEF Queue
      <3> QED BY <3>1, <3>2
    <2> HIDE DEF e
    <2>4. PICK k \in Nat : k = Len(events)
      BY <2>2, EventRead, ZenonT(100)
    <2>5. /\ Len(events') = k - 1
          /\ DOMAIN events = 1..k /\ DOMAIN events' = 1..(k - 1)
          /\ \A i \in 1..(k - 1) : i + 1 \in 1..k /\ events'[i] = events[i + 1]
          /\ \A i \in 1..k : i # 1 => i - 1 \in 1..(k - 1) /\ events'[i - 1] = events[i]
      BY <2>2, <2>4, EventRead
    <2>6. e.type = "create" => k = 1 /\ rt.thr \in Live
      BY <2>3, <2>4 DEF Books, Making
    <2>7. ASSUME NEW i \in DOMAIN events'
          PROVE  /\ events'[i].tid \in OpenTids'
                 /\ events'[i].type = "create" => i = Len(events') /\ rt'.at = "thr_open_request"
                                                  /\ rt'.thr = events'[i].data /\ ~Adding(rt.thr)'
                 /\ events'[i].type = "death" =>
                       /\ events'[i].tid \notin Live'
                       /\ \A j \in DOMAIN events' : events'[j].tid = events'[i].tid => j <= i
      <3>1. i + 1 \in 1..k /\ events'[i] = events[i + 1] /\ i \in 1..(k - 1)
        BY <2>5
      <3>2. e.type # "create" /\ ~Adding(rt.thr)'
        BY <2>2, <2>6, <3>1 DEF Adding
      <3>3. events[i + 1].tid \in OpenTids /\ ~(e.type = "death" /\ events[i + 1].tid = e.tid)
        BY <2>2, <2>3, <2>5, <3>1 DEF Queue, Adding
      <3>4. /\ events[i + 1].type = "create" => i + 1 = k /\ rt.at = "thr_open_request"
                                                /\ rt.thr = events[i + 1].data
            /\ events[i + 1].type = "death" =>
                  /\ events[i + 1].tid \notin Live
                  /\ \A j \in 1..k : events[j].tid = events[i + 1].tid => j <= i + 1
        BY <2>4, <2>5, <3>1, ZenonT(100) DEF Queue
      <3> QED BY <2>2, <2>5, <3>1, <3>2, <3>3, <3>4
    <2>8. ASSUME NEW x \in Thread, x \in OpenTids' \/ Adding(x)'
          PROVE  x \in Live' \/ \E i \in DOMAIN events' : events'[i].type = "death" /\ events'[i].tid = x
      <3>1. CASE e.type = "create"
        BY <2>1, <2>2, <2>3, <2>5, <2>6, <2>8, <3>1 DEF Queue, Adding
      <3>2. CASE e.type # "create"
        <4>1. x \in OpenTids /\ ~(e.type = "death" /\ e.tid = x)
          BY <2>2, <2>8, <3>2 DEF Adding
        <4>2. CASE x \in Live
          BY <2>2, <4>2
        <4>3. CASE x \notin Live
          <5>1. PICK i \in 1..k : events[i].type = "death" /\ events[i].tid = x
            BY <2>5, <4>1, <4>3 DEF Queue
          <5>2. i # 1
            BY <2>1, <4>1, <5>1
          <5> QED BY <2>5, <5>1, <5>2, ZenonT(100)
        <4> QED BY <4>2, <4>3
      <3> QED BY <3>1, <3>2
    <2> QED BY <2>7, <2>8 DEF Queue
  <1>12. CASE DidCleanup
    BY <1>12 DEF DidCleanup, Queue, Adding
  <1>13. ASSUME NEW c \in Chan, NEW m \in Request_, DidAsking(c, m) PROVE Queue'
    BY <1>13 DEF DidAsking, Queue, Adding
  <1>14. CASE DidFinal
    BY <1>14 DEF DidFinal, Queue, Adding
  <1> QED
    BY <1>1, <1>2, <1>3, <1>4, <1>5, <1>6, <1>7, <1>8, <1>9, <1>10, <1>11, <1>12, <1>13,
       <1>14 DEF UdiMoves

\* The event of the exit is the last one, and process.terminating is set once it
\* was read.
LEMMA ExitsLibrary == ASSUME IInv, UdiMoves PROVE Exits'
  <1> USE ProcChan, Subsets DEF IInv
  <1>1. CASE UNCHANGED vars
    <2>1. UNCHANGED <<events, rt, udi, process, faults, exiting>>
      BY <1>1 DEF vars, pipeVars, rtVars, udiVars
    <2> QED BY <2>1 DEF Exits, Finale, Without
  <1>2. CASE DidPoll
    BY <1>2 DEF DidPoll, Exits, Finale, Without
  <1>3. CASE DidUdiOpen
    BY <1>3 DEF DidUdiOpen, Exits, Finale, Without
  <1>4. CASE DidWriteInit
    BY <1>4 DEF DidWriteInit, Exits, Finale, Without
  <1>5. CASE DidResponseOpen
    BY <1>5 DEF DidResponseOpen, Exits, Finale, Without
  <1>6. CASE DidReadInit
    BY <1>6 DEF DidReadInit, Exits, Finale, Without
  <1>7. CASE DidWriteThreadInit
    BY <1>7 DEF DidWriteThreadInit, Exits, Finale, Without
  <1>8. CASE DidReadThreadInit
    BY <1>8 DEF DidReadThreadInit, Exits, Finale, Without
  <1>9. CASE DidReadResponse
    BY <1>9 DEF DidReadResponse, Exits, Finale, Without
  <1>10. CASE DidResponseEof
    BY <1>10 DEF DidResponseEof, Exits, Finale, Without
  <1>11. CASE DidReadEvent
    <2> DEFINE e == Head(events)
    <2>1. e = events[1] /\ 1 \in DOMAIN events /\ Distinct
      BY <1>11, FirstEvent DEF DidReadEvent, Books
    <2>2. /\ udi.at = "idle" /\ udi'.at # "await"
          /\ e.type = "create" => ~process'.running /\ process'.terminating = process.terminating
          /\ e.type = "unknown" => process' = process
          /\ e.type \notin {"create", "unknown"} =>
                ~process'.running /\ (process'.terminating <=> (process.terminating \/ e.type = "exit"))
          /\ events # <<>> /\ events' = Tail(events)
          /\ UNCHANGED <<rt, faults, exiting>>
      BY <1>11, <2>1 DEF DidReadEvent
    <2> HIDE DEF e
    <2>4. PICK k \in Nat : k = Len(events)
      BY <2>2, EventRead, ZenonT(100)
    <2>5. /\ Len(events') = k - 1
          /\ DOMAIN events = 1..k /\ DOMAIN events' = 1..(k - 1)
          /\ \A i \in 1..(k - 1) : i + 1 \in 1..k /\ events'[i] = events[i + 1]
      BY <2>2, <2>4, EventRead
    <2>6. k = 1 => events' = <<>>
      BY <2>2, <2>5, EmptySeq, HeadTailProperties DEF TypeOK
    <2> QED BY <2>1, <2>2, <2>4, <2>5, <2>6 DEF Exits, Finale, Without
  <1>12. CASE DidCleanup
    BY <1>12 DEF DidCleanup, Exits, Finale, Without
  <1>13. ASSUME NEW c \in Chan, NEW m \in Request_, DidAsking(c, m) PROVE Exits'
    <2>1. /\ udi.at = "idle" /\ udi.told /\ udi'.at = "await" /\ udi'.asked = m
          /\ m.type = "continue" => ~process.terminating
          /\ UNCHANGED <<events, rt, faults, exiting, process>>
      BY <1>13 DEF DidAsking
    <2> QED BY <2>1 DEF Exits, Finale, Without
  <1>14. CASE DidFinal
    BY <1>14 DEF DidFinal, Exits, Finale, Without
  <1> QED
    BY <1>1, <1>2, <1>3, <1>4, <1>5, <1>6, <1>7, <1>8, <1>9, <1>10, <1>11, <1>12, <1>13,
       <1>14 DEF UdiMoves

\* There is at most one message on a channel: the request libudi waits to have
\* answered, or the response to it.
LEMMA MatchedLibrary == ASSUME IInv, UdiMoves PROVE Matched'
  <1> USE ProcChan, Subsets DEF IInv
  <1> SUFFICES ASSUME Without({"late"}) PROVE Orderly'
    BY DEF UdiMoves, Matched, Without
  <1>a. Orderly /\ (Finale => udi.at = "idle" /\ ~udi.told) /\ (process.terminating => events = <<>>)
    BY DEF Matched, Exits
  <1>1. CASE Still
    <2>1. /\ UNCHANGED <<requests, responses, udi, Uncrowded>>
          /\ process'.running = process.running /\ process'.terminating = process.terminating
          /\ UNCHANGED rt \/ rt.at \in {"start", "open_response", "report_create", "run"}
      BY <1>1, StillKeeps
    <2> QED BY <1>a, <2>1 DEF Orderly, Owed, Due, Finale, Fits
  <1>2. CASE DidPoll
    <2>1. /\ udi.at = "poll" /\ udi'.at \in {"open_request", "failed"}
          /\ UNCHANGED <<requests, responses, rt, process>>
      BY <1>2 DEF DidPoll
    <2>2. Uncrowded' = Uncrowded
      BY <2>1 DEF Uncrowded
    <2> QED BY <1>a, <2>1, <2>2 DEF Orderly, Owed, Due, Finale, Fits
  <1>3. CASE DidWriteInit
    <2>1. /\ udi.at = "open_request" /\ udi'.at = "open_response" /\ rt.at = "open_request"
          /\ requests[Proc] = <<>> /\ responses[Proc] = <<>>
          /\ requests' = Send(requests, Proc, Plain("init"))
          /\ UNCHANGED <<responses, rt, process>>
      BY <1>3 DEF DidWriteInit, Handshake, Connecting
    <2>2. Len(requests'[Proc]) = 1 /\ \A d \in Chan : d # Proc => requests'[d] = requests[d]
      <3>1. Plain("init") \in Request_
        BY MessageTypes, RequestTypes
      <3> QED BY <2>1, <3>1, Sent
    <2>u. \A d \in Chan : d \in Uncrowded'
      BY <1>a, <2>1, <2>2, UncrowdedNext, ZenonT(100) DEF Orderly
    <2>v. \A d \in Chan : requests'[d] # <<>> => Owed(d, Head(requests[d]))'
      BY <1>a, <2>1, <2>2 DEF Orderly, Owed, Finale
    <2>w. \A d \in Chan : responses'[d] # <<>> => Due(d, Head(responses[d]))'
      BY <1>a, <2>1 DEF Orderly, Due, Finale, Fits
    <2> QED BY <1>a, <2>1, <2>u, <2>v, <2>w DEF Orderly
  <1>4. CASE DidResponseOpen
    <2>1. /\ udi.at = "open_response" /\ udi'.at = "open_events"
          /\ rt.at # "gone" /\ requests[Proc] = <<>>
          /\ UNCHANGED <<requests, responses, rt, process>>
      BY <1>4 DEF DidResponseOpen, Handshake
    <2>2. Uncrowded' = Uncrowded
      BY <2>1 DEF Uncrowded
    <2> QED BY <1>a, <2>1, <2>2 DEF Orderly, Owed, Due, Finale
  <1>5. CASE DidReadInit
    <2>1. /\ udi.at = "open_events" /\ udi'.at = "thr_open_request" /\ rt.at # "gone"
          /\ responses[Proc] # <<>> /\ responses' = Drop(responses, Proc)
          /\ UNCHANGED <<requests, rt>>
      BY <1>5 DEF DidReadInit, Handshake
    <2>2. /\ responses'[Proc] = <<>>
          /\ \A d \in Chan : d # Proc => responses'[d] = responses[d]
      BY <1>a, <2>1, Taken DEF Orderly
    <2>4. \A d \in Chan : requests'[d] = <<>> /\ responses'[d] = <<>>
      BY <1>a, <2>1, <2>2 DEF Orderly, Owed, Due
    <2>u. \A d \in Chan : d \in Uncrowded'
      BY <1>a, <2>1, <2>4, UncrowdedNext, ZenonT(100) DEF Orderly
    <2>v. \A d \in Chan : requests'[d] # <<>> => Owed(d, Head(requests[d]))'
      BY <2>4 DEF Orderly, Owed, Finale
    <2>w. \A d \in Chan : responses'[d] # <<>> => Due(d, Head(responses[d]))'
      BY <2>4 DEF Orderly, Due, Finale, Fits
    <2> QED BY <1>a, <2>1, <2>u, <2>v, <2>w DEF Orderly
  <1>6. CASE DidWriteThreadInit
    <2>1. /\ udi.at = "thr_open_request" /\ udi'.at = "thr_open_response" /\ udi'.thr = udi.thr
          /\ rt.at = "thr_open_request" /\ rt.thr = udi.thr
          /\ requests' = Send(requests, udi.thr, Plain("init"))
          /\ UNCHANGED <<responses, rt, process>>
      BY <1>6 DEF DidWriteThreadInit, Books
    <2>4. \A d \in Chan : requests[d] = <<>> /\ responses[d] = <<>>
      BY <1>a, <2>1 DEF Orderly, Owed, Due
    <2>2. Len(requests'[udi.thr]) = 1 /\ \A d \in Chan : d # udi.thr => requests'[d] = requests[d]
      <3>1. Plain("init") \in Request_
        BY MessageTypes, RequestTypes
      <3> QED BY <2>1, <2>4, <3>1, Sent
    <2>u. \A d \in Chan : d \in Uncrowded'
      BY <1>a, <2>1, <2>2, <2>4, UncrowdedNext, ZenonT(100) DEF Orderly
    <2>v. \A d \in Chan : requests'[d] # <<>> => Owed(d, Head(requests[d]))'
      BY <2>1, <2>2, <2>4 DEF Orderly, Owed, Finale
    <2>w. \A d \in Chan : responses'[d] # <<>> => Due(d, Head(responses[d]))'
      BY <2>1, <2>4 DEF Orderly, Due, Finale, Fits
    <2> QED BY <1>a, <2>1, <2>u, <2>v, <2>w DEF Orderly
  <1>7. CASE DidReadThreadInit
    <2>1. /\ udi.at = "thr_open_response" /\ udi'.at = "idle"
          /\ responses[udi.thr] # <<>> /\ responses' = Drop(responses, udi.thr)
          /\ UNCHANGED <<requests, rt, process>>
      BY <1>7 DEF DidReadThreadInit, Replied
    <2>2. /\ responses'[udi.thr] = <<>> /\ requests[udi.thr] = <<>>
          /\ \A d \in Chan : d # udi.thr => responses'[d] = responses[d]
      BY <1>a, <2>1, Taken DEF Orderly
    <2>4. \A d \in Chan : responses'[d] = <<>>
      BY <1>a, <2>1, <2>2 DEF Orderly, Due
    <2>u. \A d \in Chan : d \in Uncrowded'
      BY <1>a, <2>1, <2>2, <2>4, UncrowdedNext, ZenonT(100) DEF Orderly
    <2>v. \A d \in Chan : requests'[d] # <<>> => Owed(d, Head(requests[d]))'
      BY <1>a, <2>1, <2>2 DEF Orderly, Owed, Finale
    <2>w. \A d \in Chan : responses'[d] # <<>> => Due(d, Head(responses[d]))'
      BY <2>4 DEF Orderly, Due, Finale, Fits
    <2> QED BY <1>a, <2>1, <2>u, <2>v, <2>w DEF Orderly
  <1>8. CASE DidReadResponse
    <2> DEFINE r == Head(responses[udi.chan])
    <2>1. /\ udi.at = "await" /\ udi'.at = IF Fits(r) THEN "idle" ELSE "lost"
          /\ responses[udi.chan] # <<>> /\ responses' = Drop(responses, udi.chan)
          /\ UNCHANGED <<requests, rt>>
      BY <1>8 DEF DidReadResponse
    <2>2. /\ responses'[udi.chan] = <<>> /\ requests[udi.chan] = <<>>
          /\ \A d \in Chan : d # udi.chan => responses'[d] = responses[d]
      BY <1>a, <2>1, Taken DEF Orderly
    <2>4. \A d \in Chan : responses'[d] = <<>>
      BY <1>a, <2>1, <2>2 DEF Orderly, Due
    <2>5. Fits(r)
      BY <1>a, <2>1 DEF Orderly, Due
    <2>u. \A d \in Chan : d \in Uncrowded'
      BY <1>a, <2>1, <2>2, <2>4, UncrowdedNext, ZenonT(100) DEF Orderly
    <2>v. \A d \in Chan : requests'[d] # <<>> => Owed(d, Head(requests[d]))'
      BY <1>a, <2>1, <2>2 DEF Orderly, Owed, Finale
    <2>w. \A d \in Chan : responses'[d] # <<>> => Due(d, Head(responses[d]))'
      BY <2>4 DEF Orderly, Due, Finale, Fits
    <2> QED BY <1>a, <2>1, <2>5, <2>u, <2>v, <2>w DEF Orderly
  <1>9. CASE DidResponseEof
    <2>1. /\ udi.at = "await" /\ udi'.at = "idle" /\ rt.at = "gone" /\ responses[udi.chan] = <<>>
          /\ UNCHANGED <<requests, responses, rt, process>>
      BY <1>9 DEF DidResponseEof
    <2>2. Uncrowded' = Uncrowded
      BY <2>1 DEF Uncrowded
    <2> QED BY <1>a, <2>1, <2>2 DEF Orderly, Owed, Due, Finale
  <1>10. CASE DidReadEvent
    <2>1. /\ udi.at = "idle" /\ udi'.at \in {"idle", "thr_open_request"} /\ events # <<>>
          /\ UNCHANGED <<requests, responses, rt>>
      BY <1>10 DEF DidReadEvent, Books
    <2>2. ~Finale
      BY <1>a, <2>1 DEF Finale
    <2>3. Uncrowded' = Uncrowded
      BY <2>1 DEF Uncrowded
    <2> QED BY <1>a, <2>1, <2>2, <2>3 DEF Orderly, Owed, Due
  <1>11. ASSUME NEW c \in Chan, NEW m \in Request_, DidAsking(c, m) PROVE Orderly'
    <2>1. /\ udi.at = "idle" /\ udi.told /\ rt.at # "gone"
          /\ udi'.at = "await" /\ udi'.chan = c /\ udi'.asked = m
          /\ requests' = Send(requests, c, m)
          /\ UNCHANGED <<responses, rt, process>>
      BY <1>11 DEF DidAsking
    <2>2. \A d \in Chan : requests[d] = <<>> /\ responses[d] = <<>>
      BY <1>a, <2>1 DEF Orderly, Owed, Due
    <2>3. Len(requests'[c]) = 1 /\ Head(requests'[c]) = m /\ \A d \in Chan : d # c => requests'[d] = requests[d]
      BY <2>1, <2>2, Sent
    <2>u. \A d \in Chan : d \in Uncrowded'
      BY <1>a, <2>1, <2>2, <2>3, UncrowdedNext, ZenonT(100) DEF Orderly
    <2>v. \A d \in Chan : requests'[d] # <<>> => Owed(d, Head(requests[d]))'
      BY <2>1, <2>2, <2>3 DEF Orderly, Owed, Finale
    <2>w. \A d \in Chan : responses'[d] # <<>> => Due(d, Head(responses[d]))'
      BY <2>1, <2>2 DEF Orderly, Due, Finale, Fits
    <2> QED BY <1>a, <2>1, <2>u, <2>v, <2>w DEF Orderly
  <1>12. CASE DidFinal
    <2>1. /\ udi.at = "idle" /\ udi.told /\ rt.at # "gone"
          /\ udi'.at = "idle" /\ process'.running /\ process'.terminating
          /\ requests' = Send(requests, Proc, Plain("continue"))
          /\ UNCHANGED <<responses, rt>>
      BY <1>12 DEF DidFinal
    <2>2. \A d \in Chan : requests[d] = <<>> /\ responses[d] = <<>>
      BY <1>a, <2>1 DEF Orderly, Owed, Due
    <2>3. /\ Len(requests'[Proc]) = 1 /\ Head(requests'[Proc]).type = "continue"
          /\ \A d \in Chan : d # Proc => requests'[d] = requests[d]
      <3>1. Plain("continue") \in Request_ /\ Plain("continue").type = "continue"
        BY MessageTypes, RequestTypes
      <3> QED BY <2>1, <2>2, <3>1, Sent
    <2>u. \A d \in Chan : d \in Uncrowded'
      BY <1>a, <2>1, <2>2, <2>3, UncrowdedNext, ZenonT(100) DEF Orderly
    <2>v. \A d \in Chan : requests'[d] # <<>> => Owed(d, Head(requests[d]))'
      BY <2>1, <2>2, <2>3 DEF Orderly, Owed, Finale
    <2>w. \A d \in Chan : responses'[d] # <<>> => Due(d, Head(responses[d]))'
      BY <2>1, <2>2 DEF Orderly, Due, Finale, Fits
    <2> QED BY <1>a, <2>1, <2>u, <2>v, <2>w DEF Orderly
  <1> QED
    BY <1>1, <1>2, <1>3, <1>4, <1>5, <1>6, <1>7, <1>8, <1>9, <1>10, <1>11, <1>12
       DEF UdiMoves, Still

\* The debuggee waits in its command loop from the time the debugger is told of
\* a stop to its continue.
LEMMA ControlLibrary == ASSUME IInv, UdiMoves PROVE Control'
  <1> USE ProcChan, Subsets DEF IInv
  <1> SUFFICES ASSUME Without({"step", "reckless"}) PROVE Controlled'
    BY DEF UdiMoves, Control, Without
  <1>a. Controlled
    BY DEF Control
  <1>b. UNCHANGED faults /\ "step" \notin faults /\ "reckless" \notin faults
    BY DEF UdiMoves, Without
  <1>1. CASE Still
    <2>1. /\ UNCHANGED <<requests, responses, events, rt, udi>> /\ (Resumable' <=> Resumable)
          /\ process'.terminating = process.terminating
      BY <1>1, StillKeeps
    <2>2. UNCHANGED <<Pending, Uncrowded>>
      BY <2>1, PendingNext
    <2> QED BY <1>a, <1>b, <2>1, <2>2 DEF Controlled, Answering, Continued, Waits
  <1>2. CASE DidPoll
    <2>1. /\ udi.at = "poll" /\ udi'.at \in {"open_request", "failed"}
          /\ UNCHANGED <<requests, responses, events, rt, process>>
      BY <1>2 DEF DidPoll
    <2>2. UNCHANGED <<Pending, Uncrowded>>
      BY <2>1, PendingNext
    <2>3. events = <<>> /\ udi.at \in Connecting \cup {"failed"}
      BY <2>1 DEF Handshake, Connecting
    <2> QED BY <1>a, <1>b, <2>1, <2>2, <2>3 DEF Controlled, Answering, Continued, Waits,
               Connecting
  <1>3. CASE DidWriteInit
    <2>1. udi.at = "open_request" /\ udi'.at = "open_response" /\ UNCHANGED events
      BY <1>3 DEF DidWriteInit
    <2>2. events = <<>> /\ udi.at \in Connecting \cup {"failed"}
      BY <2>1 DEF Handshake, Connecting
    <2> QED BY <2>1, <2>2 DEF Controlled, Connecting
  <1>4. CASE DidResponseOpen
    <2>1. /\ udi.at = "open_response" /\ udi'.at = "open_events"
          /\ UNCHANGED <<requests, responses, events, rt, process>>
      BY <1>4 DEF DidResponseOpen
    <2>2. UNCHANGED <<Pending, Uncrowded>>
      BY <2>1, PendingNext
    <2>3. events = <<>> /\ udi.at \in Connecting \cup {"failed"}
      BY <2>1 DEF Handshake, Connecting
    <2> QED BY <1>a, <1>b, <2>1, <2>2, <2>3 DEF Controlled, Answering, Continued, Waits,
               Connecting
  <1>5. CASE DidReadInit
    <2>1. /\ udi.at = "open_events" /\ udi'.at = "thr_open_request" /\ udi'.thr = First
          /\ UNCHANGED <<events, rt, requests>>
      BY <1>5 DEF DidReadInit
    <2>2. rt.at = "thr_open_request" /\ rt.thr = First /\ events = <<>> /\ known = <<>> /\ requests[Proc] = <<>>
      BY <1>5 DEF DidReadInit, Handshake, Connecting
    <2>3. Tids = {}
      BY <2>2 DEF Tids
    <2>4. Asked = {}
      BY <2>1, <2>3 DEF Books
    <2>5. Pending = {}
      BY <2>2, <2>4 DEF Pending, Asked, Chan
    <2>6. Pending' = {}
      BY <2>1, <2>5, PendingNext
    <2> QED BY <2>1, <2>2, <2>6 DEF Controlled
  <1>6. CASE DidWriteThreadInit
    <2>1. /\ udi.at = "thr_open_request" /\ udi'.at = "thr_open_response" /\ udi'.thr = udi.thr
          /\ rt.at = "thr_open_request" /\ rt.thr = udi.thr
          /\ requests' = Send(requests, udi.thr, Plain("init"))
          /\ UNCHANGED <<events, rt>>
      BY <1>6 DEF DidWriteThreadInit, Books
    <2>2. Plain("init") \in Request_
      BY MessageTypes, RequestTypes
    <2>3. Pending' = Pending \cup {udi.thr}
      BY <2>1, <2>2, PendingNext
    <2> QED BY <1>a, <2>1, <2>3 DEF Controlled
  <1>7. CASE DidReadThreadInit
    <2>1. /\ udi.at = "thr_open_response" /\ udi'.at = "idle" /\ udi'.told /\ udi.thr \in Replied
          /\ UNCHANGED <<requests, events, rt>>
      BY <1>7 DEF DidReadThreadInit
    <2>2. ~Making(udi.thr)
      BY <2>1 DEF Books
    <2>3. rt.at = "command" /\ events = <<>> /\ Pending = {}
      BY <1>a, <2>1, <2>2 DEF Controlled, Books, Making
    <2>4. Pending' = {}
      BY <2>1, <2>3, PendingNext
    <2> QED BY <2>1, <2>3, <2>4 DEF Controlled, Waits
  <1>8. CASE DidReadResponse
    <2> DEFINE r == Head(responses[udi.chan])
    <2>1. /\ udi.at = "await" /\ udi'.at = IF Fits(r) THEN "idle" ELSE "lost"
          /\ udi'.chan = udi.chan /\ udi'.asked = udi.asked
          /\ udi'.told <=> ~(r.ok /\ udi.asked.type = "continue")
          /\ responses[udi.chan] # <<>>
          /\ UNCHANGED <<requests, events, rt>>
      BY <1>8 DEF DidReadResponse
    <2>2. Pending' = Pending
      BY <2>1, PendingNext
    <2>3. Fits(r) => r.to = udi.asked.type
      BY DEF Fits
    <2>4. CASE Continued
      <3>1. r.ok /\ udi.asked.type = "continue" /\ Pending = {}
        BY <1>a, <2>1, <2>4 DEF Controlled, Continued
      <3> HIDE DEF r
      <3> QED BY <1>a, <2>1, <2>2, <3>1 DEF Controlled
    <2>5. CASE Answering /\ udi.asked.type # "continue"
      <3>1. Fits(r) => Pending = {}
        <4>1. CASE udi.chan = Proc
          BY <1>b, <2>1, <2>3, <2>5, <4>1 DEF Leftover, Unread, Without
        <4>2. CASE udi.chan # Proc
          <5>1. udi.chan \in Thread
            BY <4>2 DEF Chan
          <5>2. requests[udi.chan] = <<>>
            BY <2>1, <5>1, Single DEF Private, Paired
          <5>3. udi.chan \notin Pending
            BY <5>2 DEF Pending
          <5> QED BY <2>5, <5>3 DEF Answering
        <4> QED BY <4>1, <4>2
      <3>2. Waits' /\ events' = <<>> /\ Answering'
        BY <1>b, <2>1, <2>2, <2>5 DEF Answering, Waits
      <3> HIDE DEF r
      <3> QED BY <2>1, <2>2, <2>5, <3>1, <3>2 DEF Controlled
    <2>6. Continued \/ (Answering /\ udi.asked.type # "continue")
      BY <1>a, <2>1 DEF Controlled
    <2> QED BY <2>4, <2>5, <2>6
  <1>9. CASE DidResponseEof
    <2>1. /\ udi.at = "await" /\ udi'.at = "idle" /\ rt.at = "gone" /\ responses[udi.chan] = <<>>
          /\ UNCHANGED <<requests, events, rt>>
      BY <1>9 DEF DidResponseEof
    <2>2. Pending' = Pending
      BY <2>1, PendingNext
    <2>3. Answering
      BY <1>a, <2>1 DEF Controlled, Continued
    <2>4. Waits' /\ events = <<>> /\ Pending = {}
      BY <1>b, <2>1, <2>3 DEF Answering, Waits
    <2> QED BY <2>1, <2>2, <2>4 DEF Controlled
  <1>10. CASE DidReadEvent
    <2> DEFINE e == Head(events)
    <2>1. e = events[1] /\ 1 \in DOMAIN events /\ Distinct
      BY <1>10, FirstEvent DEF DidReadEvent, Books
    <2>2. /\ udi.at = "idle" /\ events # <<>> /\ events' = Tail(events)
          /\ e.type = "create" => udi'.at = "thr_open_request" /\ udi'.thr = e.data
          /\ e.type # "create" => udi'.at = "idle" /\ udi'.told
          /\ UNCHANGED <<requests, rt>>
      BY <1>10, <2>1 DEF DidReadEvent
    <2>3. e.type = "create" => rt.at = "thr_open_request" /\ rt.thr = e.data
      <3> HIDE DEF e
      <3> QED BY <2>1 DEF Queue
    <2>4. /\ Len(events) = 1 /\ rt.at \in {"command", "thr_open_request"} /\ Pending = {}
          /\ rt.at = "thr_open_request" => e.type = "create"
      <3> HIDE DEF e
      <3> QED BY <1>a, <2>1, <2>2 DEF Controlled
    <2>5. events' = <<>>
      <3>1. events \in Seq(Event_)
        BY DEF TypeOK
      <3>2. Tail(events) \in Seq(Event_) /\ Len(Tail(events)) = Len(events) - 1
        BY <2>2, <3>1, HeadTailProperties
      <3>3. Len(Tail(events)) = 0
        BY <2>4, <3>2
      <3> QED BY <2>2, <3>2, <3>3, EmptySeq
    <2>6. Pending' = {}
      BY <2>2, <2>4, PendingNext
    <2> HIDE DEF e
    <2> QED BY <2>2, <2>3, <2>4, <2>5, <2>6 DEF Controlled, Waits
  <1>11. ASSUME NEW c \in Chan, NEW m \in Request_, DidAsking(c, m) PROVE Controlled'
    <2>1. /\ udi.at = "idle" /\ udi.told /\ rt.at # "gone"
          /\ udi'.at = "await" /\ udi'.chan = c /\ udi'.asked = m
          /\ m.type = "continue" => c = Proc /\ ~process.terminating /\ Resumable
          /\ requests' = Send(requests, c, m) /\ (Resumable' <=> Resumable)
          /\ UNCHANGED <<responses, events, rt, process>>
      BY <1>b, <1>11 DEF DidAsking
    <2>2. rt.at = "command" /\ events = <<>> /\ Pending = {}
      BY <1>a, <2>1 DEF Controlled, Waits
    <2>3. requests[c] = <<>>
      BY <2>2 DEF Pending
    <2>4. requests'[c] = <<m>>
      BY <2>1, <2>3, Sent
    <2>5. Pending' = {c}
      BY <2>1, <2>2, PendingNext
    <2>6. m.type = "continue" => responses[Proc] = <<>>
      BY <1>b, <2>1 DEF Leftover, Unread, Between, Without
    <2>7. Answering'
      BY <2>1, <2>2, <2>4, <2>5 DEF Answering, Waits
    <2> QED BY <2>1, <2>2, <2>5, <2>6, <2>7 DEF Controlled
  <1>12. CASE DidFinal
    <2>1. /\ udi.at = "idle" /\ udi.told /\ rt.at # "gone"
          /\ udi'.at = "idle" /\ ~udi'.told /\ process'.terminating /\ Resumable
          /\ requests' = Send(requests, Proc, Plain("continue")) /\ (Resumable' <=> Resumable)
          /\ UNCHANGED <<events, rt>>
      BY <1>b, <1>12 DEF DidFinal
    <2>2. rt.at = "command" /\ events = <<>> /\ Pending = {}
      BY <1>a, <2>1 DEF Controlled, Waits
    <2>3. requests[Proc] = <<>> /\ Plain("continue") \in Request_
      BY <2>2, MessageTypes, RequestTypes DEF Pending
    <2>4. requests'[Proc] = <<Plain("continue")>>
      BY <2>1, <2>3, Sent
    <2>5. Pending' = {Proc}
      BY <2>1, <2>2, <2>3, PendingNext
    <2> QED BY <2>1, <2>2, <2>4, <2>5 DEF Controlled
  <1> QED
    BY <1>1, <1>2, <1>3, <1>4, <1>5, <1>6, <1>7, <1>8, <1>9, <1>10, <1>11, <1>12
       DEF UdiMoves, Still

\* The one response that may be left in the pipe of the process is that of the
\* last continue.
LEMMA LeftoverLibrary == ASSUME IInv, UdiMoves PROVE Leftover'
  <1> USE ProcChan, Subsets DEF IInv
  <1> SUFFICES ASSUME Without({"step", "reckless"}) PROVE Unread'
    BY DEF UdiMoves, Leftover, Without
  <1>a. Controlled /\ Unread
    BY DEF Control, Leftover
  <1>1. CASE Still
    <2>1. /\ UNCHANGED <<responses, udi, Pending, Uncrowded>>
          /\ process'.terminating = process.terminating
      BY <1>1, StillKeeps
    <2> QED BY <1>a, <2>1 DEF Unread, Between
  <1>2. CASE DidPoll
    <2> QED BY <1>2 DEF DidPoll, Unread, Between
  <1>3. CASE DidWriteInit
    <2> QED BY <1>3 DEF DidWriteInit, Unread, Between
  <1>4. CASE DidResponseOpen
    <2>1. udi.at = "open_response" /\ udi'.at = "open_events" /\ UNCHANGED <<requests, responses, rt>>
      BY <1>4 DEF DidResponseOpen
    <2>2. requests[Proc] = <<>> /\ responses[Proc] = <<>>
      BY <1>4 DEF DidResponseOpen, Handshake, Connecting
    <2>3. Proc \in Uncrowded'
      BY <2>1, <2>2, UncrowdedNext, ZenonT(100)
    <2> QED BY <2>1, <2>3 DEF Unread, Between
  <1>5. CASE DidReadInit
    <2>1. /\ udi.at = "open_events" /\ udi'.at = "thr_open_request"
          /\ responses[Proc] # <<>> /\ responses' = Drop(responses, Proc)
      BY <1>5 DEF DidReadInit
    <2>2. responses'[Proc] = <<>>
      BY <1>a, <2>1, Taken DEF Unread
    <2> QED BY <2>1, <2>2 DEF Unread, Between
  <1>6. CASE DidWriteThreadInit
    <2>1. /\ udi.at = "thr_open_request" /\ udi'.at = "thr_open_response"
          /\ UNCHANGED <<responses, process>>
      BY <1>6 DEF DidWriteThreadInit
    <2> QED BY <1>a, <2>1 DEF Unread, Between
  <1>7. CASE DidReadThreadInit
    <2>1. /\ udi.at = "thr_open_response" /\ udi'.at = "idle" /\ responses'[Proc] = responses[Proc]
          /\ UNCHANGED process
      BY <1>7 DEF DidReadThreadInit
    <2> QED BY <1>a, <2>1 DEF Unread, Between
  <1>8. CASE DidReadResponse
    <2> DEFINE r == Head(responses[udi.chan])
    <2>1. /\ udi.at = "await" /\ udi'.at = IF Fits(r) THEN "idle" ELSE "lost"
          /\ responses[udi.chan] # <<>> /\ responses' = Drop(responses, udi.chan)
          /\ process'.terminating = process.terminating
      BY <1>8 DEF DidReadResponse
    <2>2. Fits(r) => r.to = udi.asked.type
      BY DEF Fits
    <2>3. udi.chan # Proc => responses'[Proc] = responses[Proc]
      BY <2>1, DropSets
    <2>4. CASE udi.chan # Proc
      BY <1>a, <2>1, <2>3, <2>4 DEF Unread, Between
    <2>5. CASE udi.chan = Proc /\ Fits(r)
      <3>1. Proc \in Uncrowded
        BY <1>a, <2>1, <2>2, <2>5 DEF Unread, Controlled, Continued
      <3>2. responses'[Proc] = <<>>
        BY <2>1, <2>5, <3>1, Taken
      <3> QED BY <2>1, <2>5, <3>2 DEF Unread, Between
    <2>6. CASE ~Fits(r)
      BY <2>1, <2>6 DEF Unread, Between
    <2> QED BY <2>4, <2>5, <2>6
  <1>9. CASE DidResponseEof
    <2>1. /\ udi.at = "await" /\ udi'.at = "idle" /\ responses[udi.chan] = <<>>
          /\ UNCHANGED <<responses, process>>
      BY <1>9 DEF DidResponseEof
    <2> QED BY <1>a, <2>1 DEF Unread, Between
  <1>10. CASE DidReadEvent
    <2> DEFINE e == Head(events)
    <2>1. /\ udi.at = "idle" /\ udi'.at \in {"idle", "thr_open_request"}
          /\ process.terminating => process'.terminating
          /\ UNCHANGED responses
      BY <1>10 DEF DidReadEvent, Books, TypeOK
    <2> QED BY <1>a, <2>1 DEF Unread, Between
  <1>11. ASSUME NEW c \in Chan, NEW m \in Request_, DidAsking(c, m) PROVE Unread'
    <2>1. /\ udi.at = "idle" /\ udi'.at = "await" /\ UNCHANGED <<responses, process>>
      BY <1>11 DEF DidAsking
    <2> QED BY <1>a, <2>1 DEF Unread, Between
  <1>12. CASE DidFinal
    <2>1. udi.at = "idle" /\ udi'.at = "idle" /\ process'.terminating /\ UNCHANGED responses
      BY <1>12 DEF DidFinal
    <2> QED BY <1>a, <2>1 DEF Unread, Between
  <1> QED
    BY <1>1, <1>2, <1>3, <1>4, <1>5, <1>6, <1>7, <1>8, <1>9, <1>10, <1>11, <1>12
       DEF UdiMoves, Still

\* There is at most one message on the channel of a thread, and libudi waits for
\* the response.
LEMMA PrivateLibrary == ASSUME IInv, UdiMoves PROVE Private'
  <1> USE ProcChan, Subsets DEF IInv
  <1> SUFFICES ASSUME Without({"step", "reckless"}), udi'.at # "lost" PROVE Paired'
    BY DEF UdiMoves, Private, Without
  <1>a. Controlled /\ (udi.at # "lost" => Paired)
    BY DEF Control, Private
  <1>1. CASE Still
    <2>1. UNCHANGED <<responses, udi, Uncrowded>>
      BY <1>1, StillKeeps
    <2> QED BY <1>a, <2>1 DEF Paired
  <1>2. CASE DidPoll
    <2>1. udi.at = "poll" /\ UNCHANGED <<requests, responses>>
      BY <1>2 DEF DidPoll
    <2>2. UNCHANGED Uncrowded
      BY <2>1, PendingNext
    <2> QED BY <1>a, <2>1, <2>2 DEF Paired
  <1>3. CASE DidWriteInit
    <2>1. /\ udi.at = "open_request"
          /\ requests' = Send(requests, Proc, Plain("init"))
          /\ UNCHANGED responses
      BY <1>3 DEF DidWriteInit
    <2>2. \A t \in Thread : responses'[t] = responses[t] /\ (t \in Uncrowded' <=> t \in Uncrowded)
      BY <2>1, Elsewhere, MessageTypes, RequestTypes
    <2> QED BY <1>a, <2>1, <2>2 DEF Paired
  <1>4. CASE DidResponseOpen
    <2>1. udi.at = "open_response" /\ UNCHANGED <<requests, responses>>
      BY <1>4 DEF DidResponseOpen
    <2>2. UNCHANGED Uncrowded
      BY <2>1, PendingNext
    <2> QED BY <1>a, <2>1, <2>2 DEF Paired
  <1>5. CASE DidReadInit
    <2>1. /\ udi.at = "open_events"
          /\ UNCHANGED requests
          /\ responses[Proc] # <<>> /\ responses' = Drop(responses, Proc)
      BY <1>5 DEF DidReadInit
    <2>2. \A t \in Thread : responses'[t] = responses[t] /\ (t \in Uncrowded' <=> t \in Uncrowded)
      BY <2>1, Elsewhere
    <2> QED BY <1>a, <2>1, <2>2 DEF Paired
  <1>6. CASE DidWriteThreadInit
    <2>1. /\ udi.at = "thr_open_request" /\ udi'.at = "thr_open_response" /\ udi'.thr = udi.thr
          /\ requests' = Send(requests, udi.thr, Plain("init")) /\ UNCHANGED responses
      BY <1>6 DEF DidWriteThreadInit
    <2>8. \A d \in Chan : d # udi.thr => responses'[d] = responses[d] /\ (d \in Uncrowded' <=> d \in Uncrowded)
      BY <2>1, MessageTypes, RequestTypes, Elsewhere
    <2>9. \A d \in Thread : d \in Uncrowded /\ (d # udi.thr => responses[d] = <<>>)
      BY <1>a, <2>1 DEF Paired
    <2>2. requests[udi.thr] = <<>> /\ responses[udi.thr] = <<>>
      <3>1. Adding(udi.thr)
        BY <2>1 DEF Adding
      <3>2. udi.thr \notin Asked \cup Replied
        BY <2>1, <3>1 DEF Books
      <3> QED BY <3>2 DEF Asked, Replied
    <2>3. Len(requests'[udi.thr]) = 1 /\ responses'[udi.thr] = <<>>
      BY <2>1, <2>2, MessageTypes, RequestTypes, Sent
    <2>4. udi.thr \in Uncrowded'
      BY <2>3, UncrowdedNext, ZenonT(100)
    <2> QED
      <3> SUFFICES ASSUME NEW x \in Thread
                   PROVE  /\ x \in Uncrowded'
                          /\ responses'[x] # <<>> =>
                                \/ udi'.at = "await" /\ udi'.chan = x
                                \/ udi'.at = "thr_open_response" /\ udi'.thr = x
        BY DEF Paired
      <3>1. CASE x = udi.thr
        BY <3>1, <2>3, <2>4
      <3>2. CASE x # udi.thr
        BY <3>2, <2>1, <2>8, <2>9
      <3> QED BY <3>1, <3>2
  <1>7. CASE DidReadThreadInit
    <2>1. /\ udi.at = "thr_open_response"
          /\ responses[udi.thr] # <<>> /\ responses' = Drop(responses, udi.thr) /\ UNCHANGED requests
      BY <1>7 DEF DidReadThreadInit, Replied
    <2>8. \A d \in Chan : d # udi.thr => responses'[d] = responses[d] /\ (d \in Uncrowded' <=> d \in Uncrowded)
      BY <2>1, Elsewhere
    <2>9. \A d \in Thread : d \in Uncrowded /\ (d # udi.thr => responses[d] = <<>>)
      BY <1>a, <2>1 DEF Paired
    <2>2. requests'[udi.thr] = <<>> /\ responses'[udi.thr] = <<>>
      BY <2>1, <2>9, Taken
    <2>3. udi.thr \in Uncrowded'
      BY <2>2, UncrowdedNext, ZenonT(100)
    <2> QED
      <3> SUFFICES ASSUME NEW x \in Thread
                   PROVE  /\ x \in Uncrowded'
                          /\ responses'[x] # <<>> =>
                                \/ udi'.at = "await" /\ udi'.chan = x
                                \/ udi'.at = "thr_open_response" /\ udi'.thr = x
        BY DEF Paired
      <3>1. CASE x = udi.thr
        BY <3>1, <2>2, <2>3
      <3>2. CASE x # udi.thr
        BY <3>2, <2>1, <2>8, <2>9
      <3> QED BY <3>1, <3>2
  <1>8. CASE DidReadResponse
    <2>1. /\ udi.at = "await"
          /\ responses[udi.chan] # <<>> /\ responses' = Drop(responses, udi.chan) /\ UNCHANGED requests
      BY <1>8 DEF DidReadResponse
    <2>8. \A d \in Chan : d # udi.chan => responses'[d] = responses[d] /\ (d \in Uncrowded' <=> d \in Uncrowded)
      BY <2>1, Elsewhere
    <2>9. \A d \in Thread : d \in Uncrowded /\ (d # udi.chan => responses[d] = <<>>)
      BY <1>a, <2>1 DEF Paired
    <2>2. udi.chan \in Thread => requests'[udi.chan] = <<>> /\ responses'[udi.chan] = <<>>
      BY <2>1, <2>9, Taken
    <2>3. udi.chan \in Thread => udi.chan \in Uncrowded'
      BY <2>2, UncrowdedNext, ZenonT(100)
    <2> QED
      <3> SUFFICES ASSUME NEW x \in Thread
                   PROVE  /\ x \in Uncrowded'
                          /\ responses'[x] # <<>> =>
                                \/ udi'.at = "await" /\ udi'.chan = x
                                \/ udi'.at = "thr_open_response" /\ udi'.thr = x
        BY DEF Paired
      <3>1. CASE x = udi.chan
        BY <3>1, <2>2, <2>3
      <3>2. CASE x # udi.chan
        BY <3>2, <2>1, <2>8, <2>9
      <3> QED BY <3>1, <3>2
  <1>9. CASE DidResponseEof
    <2>1. udi.at = "await" /\ responses[udi.chan] = <<>> /\ UNCHANGED <<requests, responses>>
      BY <1>9 DEF DidResponseEof
    <2>2. UNCHANGED Uncrowded
      BY <2>1, PendingNext
    <2> QED BY <1>a, <2>1, <2>2 DEF Paired
  <1>10. CASE DidReadEvent
    <2>1. udi.at = "idle" /\ UNCHANGED <<requests, responses>>
      BY <1>10 DEF DidReadEvent, Books
    <2>2. UNCHANGED Uncrowded
      BY <2>1, PendingNext
    <2> QED BY <1>a, <2>1, <2>2 DEF Paired
  <1>11. ASSUME NEW c \in Chan, NEW m \in Request_, DidAsking(c, m) PROVE Paired'
    <2>1. /\ udi.at = "idle" /\ udi.told /\ udi'.at = "await" /\ udi'.chan = c
          /\ requests' = Send(requests, c, m) /\ UNCHANGED responses
      BY <1>11 DEF DidAsking
    <2>8. \A d \in Chan : d # c => responses'[d] = responses[d] /\ (d \in Uncrowded' <=> d \in Uncrowded)
      BY <2>1, Elsewhere
    <2>9. \A d \in Thread : d \in Uncrowded /\ (d # c => responses[d] = <<>>)
      BY <1>a, <2>1 DEF Paired
    <2>2. requests[c] = <<>> /\ (c \in Thread => responses[c] = <<>>)
      <3>1. Pending = {}
        BY <1>a, <2>1 DEF Controlled
      <3> QED BY <1>a, <2>1, <3>1 DEF Pending, Paired
    <2>3. Len(requests'[c]) = 1 /\ responses'[c] = responses[c]
      BY <2>1, <2>2, Sent
    <2>4. c \in Thread => c \in Uncrowded' /\ responses'[c] = <<>>
      BY <2>2, <2>3, UncrowdedNext, ZenonT(100)
    <2> QED
      <3> SUFFICES ASSUME NEW x \in Thread
                   PROVE  /\ x \in Uncrowded'
                          /\ responses'[x] # <<>> =>
                                \/ udi'.at = "await" /\ udi'.chan = x
                                \/ udi'.at = "thr_open_response" /\ udi'.thr = x
        BY DEF Paired
      <3>1. CASE x = c
        BY <3>1, <2>4
      <3>2. CASE x # c
        BY <3>2, <2>1, <2>8, <2>9
      <3> QED BY <3>1, <3>2
  <1>12. CASE DidFinal
    <2>1. /\ udi.at = "idle"
          /\ requests' = Send(requests, Proc, Plain("continue"))
          /\ UNCHANGED responses
      BY <1>12 DEF DidFinal
    <2>2. \A t \in Thread : responses'[t] = responses[t] /\ (t \in Uncrowded' <=> t \in Uncrowded)
      BY <2>1, Elsewhere, MessageTypes, RequestTypes
    <2> QED BY <1>a, <2>1, <2>2 DEF Paired
  <1> QED
    BY <1>1, <1>2, <1>3, <1>4, <1>5, <1>6, <1>7, <1>8, <1>9, <1>10, <1>11, <1>12
       DEF UdiMoves, Still

\* Each Thread has the single step setting of its thread, but for the request
\* that is on its way.
LEMMA SettingsLibrary == ASSUME IInv, UdiMoves PROVE Settings'
  <1> USE ProcChan, Subsets DEF IInv
  <1> SUFFICES ASSUME Without({"step", "reckless"}), udi'.at # "lost" PROVE Synced'
    BY DEF UdiMoves, Settings, Without
  <1>a. Controlled /\ (udi.at # "lost" => Synced /\ Paired) /\ "step" \notin faults
    BY DEF Control, Private, Settings, Without
  <1>b. \A i \in DOMAIN known : known[i].tid \in Thread
    BY KnownTypes
  <1>1. CASE Still
    <2>1. /\ UNCHANGED <<requests, responses, udi, known, threads>>
          /\ \A t \in Thread : Making(t)' => Making(t)
      BY <1>1, StillKeeps
    <2> QED BY <1>a, <2>1 DEF Synced, StepHandled, Adding
  <1>2. CASE DidPoll
    <2>1. /\ udi.at = "poll" /\ udi'.at \in {"open_request", "failed"}
          /\ UNCHANGED <<threads, known, rt>>
      BY <1>2 DEF DidPoll
    <2> QED BY <1>a, <2>1 DEF Synced, StepHandled, Making, Adding
  <1>3. CASE DidWriteInit
    <2>1. /\ udi.at = "open_request" /\ udi'.at = "open_response"
          /\ UNCHANGED <<threads, known, rt>>
      BY <1>3 DEF DidWriteInit
    <2> QED BY <1>a, <2>1 DEF Synced, StepHandled, Making, Adding
  <1>4. CASE DidResponseOpen
    <2>1. /\ udi.at = "open_response" /\ udi'.at = "open_events"
          /\ UNCHANGED <<threads, known, rt>>
      BY <1>4 DEF DidResponseOpen
    <2> QED BY <1>a, <2>1 DEF Synced, StepHandled, Making, Adding
  <1>5. CASE DidReadInit
    <2>1. /\ udi.at = "open_events" /\ udi'.at = "thr_open_request" /\ udi'.thr = First
          /\ rt.at = "thr_open_request" /\ rt.thr = First
          /\ UNCHANGED <<threads, known, rt>>
      BY <1>5 DEF DidReadInit, Handshake, Connecting
    <2> QED BY <1>a, <2>1 DEF Synced, StepHandled, Making, Adding
  <1>6. CASE DidWriteThreadInit
    <2>1. /\ udi.at = "thr_open_request" /\ udi'.at = "thr_open_response" /\ udi'.thr = udi.thr
          /\ UNCHANGED <<threads, known, rt>>
      BY <1>6 DEF DidWriteThreadInit
    <2> QED BY <1>a, <2>1 DEF Synced, StepHandled, Making, Adding
  <1>7. CASE DidReadThreadInit
    <2> DEFINE n == [tid |-> udi.thr, open |-> TRUE, single_step |-> FALSE, suspended |-> FALSE]
    <2>1. /\ udi.at = "thr_open_response" /\ udi'.at = "idle" /\ known' = Append(known, n)
          /\ UNCHANGED <<threads, rt>>
      BY <1>7 DEF DidReadThreadInit
    <2>2. n \in KnownType /\ n.tid = udi.thr /\ n.single_step = FALSE
      BY DEF KnownType
    <2>3. ~threads[udi.thr].single_step /\ threads[udi.thr].single_step \in BOOLEAN
      BY <1>a, <2>1 DEF Synced, Adding, TypeOK
    <2> HIDE DEF n
    <2>4. \A i \in DOMAIN known' : known'[i] = n \/ (i \in DOMAIN known /\ known'[i] = known[i])
      <3>1. /\ Len(known) \in Nat /\ DOMAIN known = 1..Len(known)
            /\ DOMAIN known' = 1..(Len(known) + 1) /\ known'[Len(known) + 1] = n
            /\ \A i \in 1..Len(known) : known'[i] = known[i]
        BY <2>1, <2>2, KnownTypes, AppendProperties, LenProperties
      <3> QED BY <3>1
    <2>5. \A i \in DOMAIN known : known[i].open => threads[known[i].tid].single_step = known[i].single_step
      BY <1>a, <2>1 DEF Synced, StepHandled
    <2>6. \A i \in DOMAIN known' : known'[i].open => threads[known'[i].tid].single_step = known'[i].single_step
      BY <2>2, <2>3, <2>4, <2>5, ZenonT(100)
    <2> QED BY <1>a, <2>1, <2>6 DEF Synced, StepHandled, Making, Adding
  <1>8. CASE DidReadResponse
    <2> DEFINE r == Head(responses[udi.chan])
    <2>1. /\ udi.at = "await" /\ udi'.at = "idle" /\ responses[udi.chan] # <<>>
          /\ UNCHANGED <<threads, rt>>
      BY <1>8 DEF DidReadResponse
    <2>2. known' = IF r.ok THEN Recorded(udi.asked, r) ELSE known
      BY <1>8 DEF DidReadResponse
    <2>3. udi.chan \in Thread => requests[udi.chan] = <<>>
      BY <1>a, <2>1, Single DEF Paired
    <2> HIDE DEF r
    <2>4. /\ DOMAIN known' = DOMAIN known
          /\ \A i \in DOMAIN known :
                /\ known'[i].tid = known[i].tid /\ known'[i].open = known[i].open
                /\ known'[i].single_step =
                      IF r.ok /\ udi.asked.type = "single_step" /\ known[i].tid = udi.chan /\ known[i].open
                      THEN udi.asked.value ELSE known[i].single_step
      BY <2>2, EffRecorded
    <2>5. ASSUME NEW i \in DOMAIN known, known[i].open
          PROVE  threads[known[i].tid].single_step = known'[i].single_step
      <3>1. CASE udi.asked.type = "single_step" /\ known[i].tid = udi.chan
        <4>1. StepHandled(known[i].tid)
          BY <1>b, <2>1, <2>3, <3>1 DEF StepHandled
        <4>2. threads[known[i].tid].single_step = udi.asked.value /\ r.ok
          BY <1>a, <2>1, <2>5, <4>1 DEF Synced, r
        <4> QED BY <2>4, <2>5, <3>1, <4>2
      <3>2. CASE ~(udi.asked.type = "single_step" /\ known[i].tid = udi.chan)
        <4>1. ~StepHandled(known[i].tid)
          BY <3>2 DEF StepHandled
        <4>2. threads[known[i].tid].single_step = known[i].single_step
          BY <1>a, <2>1, <2>5, <4>1 DEF Synced
        <4> QED BY <2>4, <3>2, <4>2
      <3> QED BY <3>1, <3>2
    <2> QED BY <1>a, <2>1, <2>4, <2>5 DEF Synced, StepHandled, Making, Adding
  <1>9. CASE DidResponseEof
    <2>1. /\ udi.at = "await" /\ udi'.at = "idle" /\ responses[udi.chan] = <<>>
          /\ UNCHANGED <<threads, known, rt>>
      BY <1>9 DEF DidResponseEof
    <2> QED BY <1>a, <2>1 DEF Synced, StepHandled, Making, Adding
  <1>10. CASE DidReadEvent
    <2> DEFINE e == Head(events)
    <2>1. e = events[1] /\ 1 \in DOMAIN events
      BY <1>10, FirstEvent DEF DidReadEvent
    <2>2. /\ udi.at = "idle" /\ udi'.at # "await"
          /\ e.type # "create" => udi'.at = "idle"
          /\ e.type = "create" => udi'.thr = e.data
          /\ UNCHANGED <<threads, rt>>
      BY <1>10 DEF DidReadEvent, Books
    <2>3. /\ DOMAIN known' = DOMAIN known
          /\ \A i \in DOMAIN known : /\ known'[i].tid = known[i].tid
                                     /\ known'[i].single_step = known[i].single_step
                                     /\ known'[i].open => known[i].open
      BY <1>10 DEF DidReadEvent, Books
    <2> HIDE DEF e
    <2>4. e.type = "create" => Making(e.data)
      BY <2>1 DEF Queue, Making
    <2>5. \A t \in Thread : ~StepHandled(t) /\ ~StepHandled(t)' /\ (Making(t)' <=> Making(t))
      BY <2>2 DEF StepHandled, Making
    <2>6. \A t \in Thread : Adding(t)' => Making(t)
      BY <2>2, <2>4 DEF Adding
    <2> QED BY <1>a, <1>b, <2>2, <2>3, <2>5, <2>6 DEF Synced
  <1>11. ASSUME NEW c \in Chan, NEW m \in Request_, DidAsking(c, m) PROVE Synced'
    <2>1. /\ udi.at = "idle" /\ udi'.at = "await" /\ udi'.chan = c
          /\ requests' = Send(requests, c, m)
          /\ UNCHANGED <<threads, rt, known>>
      BY <1>11 DEF DidAsking
    <2>2. requests'[c] # <<>>
      <3>1. requests \in [Chan -> Seq(Request_)]
        BY DEF TypeOK
      <3> QED BY <2>1, <3>1, SendEffect
    <2> QED BY <1>a, <2>1, <2>2 DEF Synced, StepHandled, Making, Adding
  <1>12. CASE DidFinal
    <2>1. /\ udi.at = "idle" /\ udi'.at = "idle"
          /\ UNCHANGED <<threads, known, rt>>
      BY <1>12 DEF DidFinal
    <2> QED BY <1>a, <2>1 DEF Synced, StepHandled, Making, Adding
  <1> QED
    BY <1>1, <1>2, <1>3, <1>4, <1>5, <1>6, <1>7, <1>8, <1>9, <1>10, <1>11, <1>12
       DEF UdiMoves, Still

\* The response to a state request holds the states that the threads have.
LEMMA RefreshedLibrary == ASSUME IInv, UdiMoves PROVE Refreshed'
  <1> USE ProcChan, Subsets DEF IInv
  <1> DEFINE Told == /\ udi.chan = Proc
                     /\ responses[Proc] # <<>> =>
                           Head(responses[Proc]).ok /\ Head(responses[Proc]).states = States
  <1> SUFFICES ASSUME Without({"step", "reckless", "late"}), udi'.at = "await", udi'.asked.type = "state"
               PROVE  Told'
    BY DEF UdiMoves, Refreshed, Without
  <1>a. /\ Controlled /\ Orderly
        /\ (udi.at = "await" /\ udi.asked.type = "state") => Told
    BY DEF Control, Matched, Refreshed, Without
  <1>1. CASE Still
    <2>1. UNCHANGED <<responses, udi, States>>
      BY <1>1, StillKeeps
    <2> QED BY <1>a, <2>1
  <1>2. CASE DidPoll
    <2> QED BY <1>2 DEF DidPoll
  <1>3. CASE DidWriteInit
    <2> QED BY <1>3 DEF DidWriteInit
  <1>4. CASE DidResponseOpen
    <2> QED BY <1>4 DEF DidResponseOpen
  <1>5. CASE DidReadInit
    <2> QED BY <1>5 DEF DidReadInit
  <1>6. CASE DidWriteThreadInit
    <2> QED BY <1>6 DEF DidWriteThreadInit
  <1>7. CASE DidReadThreadInit
    <2> QED BY <1>7 DEF DidReadThreadInit
  <1>8. CASE DidReadResponse
    <2> QED BY <1>8 DEF DidReadResponse
  <1>9. CASE DidResponseEof
    <2> QED BY <1>9 DEF DidResponseEof
  <1>10. CASE DidReadEvent
    <2> QED BY <1>10 DEF DidReadEvent, Books
  <1>11. ASSUME NEW c \in Chan, NEW m \in Request_, DidAsking(c, m) PROVE Told'
    <2>1. /\ udi.at = "idle" /\ udi.told /\ udi'.chan = c /\ udi'.asked = m
          /\ m.type = "state" => c = Proc
          /\ UNCHANGED responses
      BY <1>11 DEF DidAsking
    <2>2. ~Finale
      BY <2>1 DEF Exits, Without
    <2>3. responses[Proc] = <<>>
      BY <1>a, <2>1, <2>2 DEF Orderly, Due
    <2> QED BY <2>1, <2>3
  <1>12. CASE DidFinal
    <2> QED BY <1>12 DEF DidFinal
  <1> QED
    BY <1>1, <1>2, <1>3, <1>4, <1>5, <1>6, <1>7, <1>8, <1>9, <1>10, <1>11, <1>12, ZenonT(100)
       DEF UdiMoves, Still

=============================================================================
