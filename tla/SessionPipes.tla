--------------------------- MODULE SessionPipes ----------------------------
(***************************************************************************)
(* Facts about the pipes of Session, and about the types of what is sent   *)
(* over them, that the proofs about both sides need.                       *)
(***************************************************************************)
EXTENDS SessionInvariant, SequenceTheorems, TLAPS

-----------------------------------------------------------------------------
(* Pipes. *)

\* A message sent is the last on its channel, and on no other.
LEMMA SendEffect ==
    ASSUME NEW S, NEW q \in [Chan -> Seq(S)], NEW c \in Chan, NEW m \in S
    PROVE  /\ Send(q, c, m) \in [Chan -> Seq(S)]
           /\ Send(q, c, m)[c] # <<>>
           /\ Len(Send(q, c, m)[c]) = Len(q[c]) + 1
           /\ q[c] = <<>> => Send(q, c, m)[c] = <<m>> /\ Head(Send(q, c, m)[c]) = m
           /\ q[c] # <<>> => Head(Send(q, c, m)[c]) = Head(q[c])
           /\ \A d \in Chan : d # c => Send(q, c, m)[d] = q[d]
  <1>1. q[c] \in Seq(S) /\ Send(q, c, m)[c] = Append(q[c], m)
    BY DEF Send
  <1>2. Append(q[c], m) \in Seq(S) /\ Len(Append(q[c], m)) = Len(q[c]) + 1 /\ Append(q[c], m) # <<>>
    BY <1>1, AppendProperties
  <1>3. q[c] = <<>> => Append(q[c], m) = <<m>> /\ Head(Append(q[c], m)) = m
    BY <1>1
  <1>4. q[c] # <<>> => Head(Append(q[c], m)) = Head(q[c])
    BY <1>1, AppendProperties
  <1> QED BY <1>1, <1>2, <1>3, <1>4 DEF Send

\* A message read is the first of its channel, and of no other.
LEMMA DropEffect ==
    ASSUME NEW S, NEW q \in [Chan -> Seq(S)], NEW c \in Chan, q[c] # <<>>
    PROVE  /\ Drop(q, c) \in [Chan -> Seq(S)]
           /\ Len(Drop(q, c)[c]) = Len(q[c]) - 1
           /\ Len(q[c]) = 1 => Drop(q, c)[c] = <<>>
           /\ Head(q[c]) \in S
           /\ \A d \in Chan : d # c => Drop(q, c)[d] = q[d]
  <1>1. q[c] \in Seq(S) /\ Drop(q, c)[c] = Tail(q[c])
    BY DEF Drop
  <1>2. Tail(q[c]) \in Seq(S) /\ Len(Tail(q[c])) = Len(q[c]) - 1 /\ Head(q[c]) \in S
    BY <1>1, HeadTailProperties
  <1>3. Len(q[c]) = 1 => Len(Tail(q[c])) = 0
    BY <1>2
  <1>4. Len(q[c]) = 1 => Tail(q[c]) = <<>>
    BY <1>2, <1>3, EmptySeq
  <1> QED BY <1>1, <1>2, <1>4 DEF Drop

\* The pipes of the process, in the order in which they are created.
LEMMA PipeFacts ==
    /\ Request(Proc) \in Pipe /\ Response(Proc) \in Pipe /\ Events \in Pipe
    /\ \A t \in Thread : Request(t) \in Pipe /\ Response(t) \in Pipe
    /\ DOMAIN Order = 1..3 /\ Len(Order) = 3
    /\ Order[1] = Request(Proc) /\ Order[2] = Response(Proc) /\ Order[3] = Events
  BY DEF Pipe, Chan, Order

\* The channel of the process is that of no thread.
LEMMA ProcChan == Proc \in Chan /\ Proc \notin Thread /\ \A t \in Thread : t \in Chan /\ t # Proc
  BY ProcAssumption DEF Proc, Chan

\* No two threads, and no thread and the process, share a pipe.
LEMMA PipesApart ==
    /\ \A t, x \in Thread : t # x => ThreadPipes(t) \cap ThreadPipes(x) = {}
    /\ \A t \in Thread : /\ Events \notin ThreadPipes(t)
                         /\ Request(Proc) \notin ThreadPipes(t)
                         /\ Response(Proc) \notin ThreadPipes(t)
  BY ProcChan DEF ThreadPipes, Events, Request, Response

-----------------------------------------------------------------------------
(* Types. *)

\* A request and a response are made of what they were made from.
LEMMA MessageTypes ==
    /\ \A type \in RequestType, ok \in BOOLEAN : \A states \in SUBSET (Thread \X BOOLEAN) :
          /\ Reply(type, ok, states) \in Response_
          /\ Reply(type, ok, states).to = type
          /\ Reply(type, ok, states).ok = ok
          /\ Reply(type, ok, states).data = (ok /\ type \in SendsData)
          /\ Reply(type, ok, states).states = states
    /\ \A type \in RequestType, value \in BOOLEAN :
          /\ Message(type, value) \in Request_
          /\ Message(type, value).type = type
          /\ Message(type, value).value = value
    /\ \A type \in RequestType : Plain(type) \in Request_ /\ Plain(type).type = type
    /\ \A m \in Request_ : m.type \in RequestType /\ m.value \in BOOLEAN
  BY DEF Reply, Response_, Message, Plain, Request_

\* The kinds of request that each side may send or refuse.
LEMMA RequestTypes ==
    /\ ProcessAsks \subseteq RequestType /\ ThreadAsks \subseteq RequestType
    /\ "init" \in RequestType /\ "continue" \in RequestType
    /\ Refusable \subseteq RequestType \ {"init", "continue", "state", "single_step"}
  BY DEF RequestType, Refusable, ProcessAsks, ThreadAsks

\* The threads that libudi knows of.
LEMMA KnownTypes ==
    ASSUME TypeOK
    PROVE  /\ known \in Seq(KnownType)
           /\ \A i \in DOMAIN known : /\ known[i] \in KnownType
                                      /\ known[i].tid \in Thread /\ known[i].tid \in Chan
  <1>1. known \in Seq(KnownType)
    BY DEF TypeOK, KnownType
  <1>2. \A i \in DOMAIN known : known[i] \in KnownType
    BY <1>1, ElementOfSeq, LenProperties
  <1> QED BY <1>1, <1>2, ProcChan DEF KnownType

-----------------------------------------------------------------------------
(* The terms of the invariant. *)

\* What depends on one variable stays while that variable stays.
LEMMA Frames ==
    /\ UNCHANGED known => UNCHANGED <<Tids, OpenTids>> /\ (Distinct' <=> Distinct)
    /\ UNCHANGED threads => UNCHANGED <<Unborn, Live, Listed, States>> /\ (Resumable' <=> Resumable)
    /\ UNCHANGED requests => UNCHANGED Asked
    /\ UNCHANGED responses => UNCHANGED Replied
  BY DEF Tids, OpenTids, Distinct, Unborn, Live, Listed, States, Resumable, Asked, Replied

\* The sets derived from the state are sets of threads.
LEMMA Subsets ==
    ASSUME TypeOK
    PROVE  /\ OpenTids \subseteq Tids /\ Tids \subseteq Thread
           /\ Live \subseteq Thread /\ Unborn \subseteq Thread /\ Live \cap Unborn = {}
           /\ Asked \subseteq Thread /\ Replied \subseteq Thread
           /\ rt.thr \in Thread /\ rt.creator \in Thread /\ udi.thr \in Thread /\ udi.chan \in Chan
  BY KnownTypes DEF TypeOK, OpenTids, Tids, Live, Unborn, Asked, Replied

\* Reading a message adds no thread to those that asked or were replied to.
LEMMA DropSets ==
    ASSUME TypeOK, NEW c \in Chan
    PROVE  /\ (requests[c] # <<>> /\ requests' = Drop(requests, c)) =>
                 /\ Asked' \subseteq Asked
                 /\ c \in Thread => c \in Asked
                 /\ c # Proc => requests'[Proc] = requests[Proc]
           /\ (responses[c] # <<>> /\ responses' = Drop(responses, c)) =>
                 /\ Replied' \subseteq Replied
                 /\ c \in Thread => c \in Replied
                 /\ c # Proc => responses'[Proc] = responses[Proc]
  <1>1. ASSUME requests[c] # <<>>, requests' = Drop(requests, c)
        PROVE  \A d \in Chan : d # c => requests'[d] = requests[d]
    <2>1. requests \in [Chan -> Seq(Request_)]
      BY DEF TypeOK
    <2> QED BY <1>1, <2>1, DropEffect
  <1>2. ASSUME responses[c] # <<>>, responses' = Drop(responses, c)
        PROVE  \A d \in Chan : d # c => responses'[d] = responses[d]
    <2>1. responses \in [Chan -> Seq(Response_)]
      BY DEF TypeOK
    <2> QED BY <1>2, <2>1, DropEffect
  <1> QED BY <1>1, <1>2, ProcChan DEF Asked, Replied

-----------------------------------------------------------------------------
(* Channels. *)

\* A channel with one message at most.
LEMMA Single ==
    ASSUME TypeOK, NEW c \in Chan, c \in Uncrowded
    PROVE  /\ requests[c] # <<>> => responses[c] = <<>> /\ Len(requests[c]) = 1
           /\ responses[c] # <<>> => requests[c] = <<>> /\ Len(responses[c]) = 1
  <1>1. requests[c] \in Seq(Request_) /\ responses[c] \in Seq(Response_)
    BY DEF TypeOK
  <1>2. /\ Len(requests[c]) \in Nat /\ Len(responses[c]) \in Nat
        /\ Len(requests[c]) = 0 <=> requests[c] = <<>>
        /\ Len(responses[c]) = 0 <=> responses[c] = <<>>
    BY <1>1, LenProperties, EmptySeq
  <1>3. PICK m, n \in Nat : m = Len(requests[c]) /\ n = Len(responses[c])
    BY <1>2
  <1>4. m + n <= 1
    BY <1>3 DEF Uncrowded
  <1>5. (m # 0 => n = 0 /\ m = 1) /\ (n # 0 => m = 0 /\ n = 1)
    BY <1>4
  <1> QED BY <1>2, <1>3, <1>5

\* What is left on a channel by a message that is read.
LEMMA Taken ==
    ASSUME TypeOK, NEW c \in Chan, c \in Uncrowded
    PROVE  /\ (requests[c] # <<>> /\ requests' = Drop(requests, c)) =>
                 /\ requests'[c] = <<>> /\ responses[c] = <<>> /\ Head(requests[c]) \in Request_
                 /\ \A d \in Chan : d # c => requests'[d] = requests[d]
           /\ (responses[c] # <<>> /\ responses' = Drop(responses, c)) =>
                 /\ responses'[c] = <<>> /\ requests[c] = <<>> /\ Head(responses[c]) \in Response_
                 /\ \A d \in Chan : d # c => responses'[d] = responses[d]
  <1>1. requests \in [Chan -> Seq(Request_)] /\ responses \in [Chan -> Seq(Response_)]
    BY DEF TypeOK
  <1>2. ASSUME requests[c] # <<>>, requests' = Drop(requests, c)
        PROVE  /\ requests'[c] = <<>> /\ responses[c] = <<>> /\ Head(requests[c]) \in Request_
               /\ \A d \in Chan : d # c => requests'[d] = requests[d]
    BY <1>1, <1>2, Single, DropEffect
  <1>3. ASSUME responses[c] # <<>>, responses' = Drop(responses, c)
        PROVE  /\ responses'[c] = <<>> /\ requests[c] = <<>> /\ Head(responses[c]) \in Response_
               /\ \A d \in Chan : d # c => responses'[d] = responses[d]
    BY <1>1, <1>3, Single, DropEffect
  <1> QED BY <1>2, <1>3

\* What is on an empty channel after a message is sent.
LEMMA Sent ==
    ASSUME TypeOK, NEW c \in Chan
    PROVE  /\ \A m \in Request_ : (requests[c] = <<>> /\ requests' = Send(requests, c, m)) =>
                 /\ requests'[c] = <<m>> /\ Len(requests'[c]) = 1 /\ Head(requests'[c]) = m
                 /\ \A d \in Chan : d # c => requests'[d] = requests[d]
           /\ \A r \in Response_ : (responses[c] = <<>> /\ responses' = Send(responses, c, r)) =>
                 /\ responses'[c] = <<r>> /\ Len(responses'[c]) = 1 /\ Head(responses'[c]) = r
                 /\ \A d \in Chan : d # c => responses'[d] = responses[d]
  <1>2. ASSUME NEW m \in Request_, requests[c] = <<>>, requests' = Send(requests, c, m)
        PROVE  /\ requests'[c] = <<m>> /\ Len(requests'[c]) = 1 /\ Head(requests'[c]) = m
               /\ \A d \in Chan : d # c => requests'[d] = requests[d]
    <2>1. requests \in [Chan -> Seq(Request_)]
      BY DEF TypeOK
    <2>2. Send(requests, c, m)[c] = <<m>> /\ \A d \in Chan : d # c => Send(requests, c, m)[d] = requests[d]
      BY <1>2, <2>1, SendEffect
    <2>3. Len(<<m>>) = 1 /\ Head(<<m>>) = m
      OBVIOUS
    <2> QED BY <1>2, <2>2, <2>3
  <1>3. ASSUME NEW r \in Response_, responses[c] = <<>>, responses' = Send(responses, c, r)
        PROVE  /\ responses'[c] = <<r>> /\ Len(responses'[c]) = 1 /\ Head(responses'[c]) = r
               /\ \A d \in Chan : d # c => responses'[d] = responses[d]
    <2>1. responses \in [Chan -> Seq(Response_)]
      BY DEF TypeOK
    <2>2. Send(responses, c, r)[c] = <<r>> /\ \A d \in Chan : d # c => Send(responses, c, r)[d] = responses[d]
      BY <1>3, <2>1, SendEffect
    <2>3. Len(<<r>>) = 1 /\ Head(<<r>>) = r
      OBVIOUS
    <2> QED BY <1>3, <2>2, <2>3
  <1> QED BY <1>2, <1>3

\* A channel is uncrowded when it carries one message at most.
LEMMA UncrowdedNext ==
    ASSUME NEW c \in Chan
    PROVE  /\ (requests'[c] = <<>> /\ responses'[c] = <<>>) => c \in Uncrowded'
           /\ (requests'[c] = <<>> /\ Len(responses'[c]) = 1) => c \in Uncrowded'
           /\ (Len(requests'[c]) = 1 /\ responses'[c] = <<>>) => c \in Uncrowded'
           /\ (requests'[c] = requests[c] /\ responses'[c] = responses[c]) =>
                 (c \in Uncrowded' <=> c \in Uncrowded)
           /\ c \in Uncrowded <=> Len(requests[c]) + Len(responses[c]) <= 1
  <1>1. Len(<<>>) = 0 /\ 0 + 0 <= 1 /\ 0 + 1 <= 1 /\ 1 + 0 <= 1
    OBVIOUS
  <1>2. /\ c \in Uncrowded <=> Len(requests[c]) + Len(responses[c]) <= 1
        /\ c \in Uncrowded' <=> Len(requests'[c]) + Len(responses'[c]) <= 1
    BY DEF Uncrowded
  <1> QED BY <1>1, <1>2, ZenonT(100)

\* How sending and reading move the channels between pending and not.
LEMMA PendingNext ==
    ASSUME TypeOK, NEW c \in Chan
    PROVE  /\ UNCHANGED requests => UNCHANGED Pending
           /\ UNCHANGED <<requests, responses>> => UNCHANGED Uncrowded
           /\ \A m \in Request_ : requests' = Send(requests, c, m) => Pending' = Pending \cup {c}
           /\ (requests[c] # <<>> /\ requests' = Drop(requests, c)) =>
                 /\ c \in Pending /\ Pending' \subseteq Pending
                 /\ \A m : requests[c] = <<m>> => Pending' = Pending \ {c}
                 /\ c \in Uncrowded => Pending' = Pending \ {c}
  <1>1. requests \in [Chan -> Seq(Request_)]
    BY DEF TypeOK
  <1>2. ASSUME NEW m \in Request_, requests' = Send(requests, c, m) PROVE Pending' = Pending \cup {c}
    <2>1. requests'[c] # <<>> /\ \A d \in Chan : d # c => requests'[d] = requests[d]
      BY <1>1, <1>2, SendEffect
    <2> QED BY <2>1 DEF Pending
  <1>3. ASSUME requests[c] # <<>>, requests' = Drop(requests, c)
        PROVE  /\ c \in Pending /\ Pending' \subseteq Pending
               /\ \A m : requests[c] = <<m>> => Pending' = Pending \ {c}
               /\ c \in Uncrowded => Pending' = Pending \ {c}
    <2>1. \A d \in Chan : d # c => requests'[d] = requests[d]
      BY <1>1, <1>3, DropEffect
    <2>2. Len(requests[c]) = 1 => requests'[c] = <<>>
      BY <1>1, <1>3, DropEffect
    <2>3. \A m : Len(<<m>>) = 1
      OBVIOUS
    <2>4. c \in Uncrowded => Len(requests[c]) = 1
      BY <1>3, Single
    <2> QED BY <1>3, <2>1, <2>2, <2>3, <2>4 DEF Pending
  <1> QED BY <1>2, <1>3 DEF Pending, Uncrowded

\* The channels that a step does not touch.
LEMMA Elsewhere ==
    ASSUME TypeOK, NEW c \in Chan,
           \/ UNCHANGED requests
           \/ requests[c] # <<>> /\ requests' = Drop(requests, c)
           \/ \E m \in Request_ : requests' = Send(requests, c, m),
           \/ UNCHANGED responses
           \/ responses[c] # <<>> /\ responses' = Drop(responses, c)
           \/ \E r \in Response_ : responses' = Send(responses, c, r)
    PROVE  \A d \in Chan : d # c => /\ requests'[d] = requests[d] /\ responses'[d] = responses[d]
                                    /\ d \in Uncrowded' <=> d \in Uncrowded
  <1>1. requests \in [Chan -> Seq(Request_)] /\ responses \in [Chan -> Seq(Response_)]
    BY DEF TypeOK
  <1>2. \A d \in Chan : d # c => requests'[d] = requests[d]
    <2>1. CASE requests[c] # <<>> /\ requests' = Drop(requests, c)
      BY <1>1, <2>1, DropEffect
    <2>2. ASSUME NEW m \in Request_, requests' = Send(requests, c, m)
          PROVE  \A d \in Chan : d # c => requests'[d] = requests[d]
      BY <1>1, <2>2 DEF Send
    <2> QED BY <2>1, <2>2
  <1>3. \A d \in Chan : d # c => responses'[d] = responses[d]
    <2>1. CASE responses[c] # <<>> /\ responses' = Drop(responses, c)
      BY <1>1, <2>1, DropEffect
    <2>2. ASSUME NEW r \in Response_, responses' = Send(responses, c, r)
          PROVE  \A d \in Chan : d # c => responses'[d] = responses[d]
      BY <1>1, <2>2 DEF Send
    <2> QED BY <2>1, <2>2
  <1> QED BY <1>2, <1>3, UncrowdedNext

\* The SMT backend infers types for the terms of an obligation before it encodes
\* it, which takes long where there are many.  It does not for one with CASE among
\* its facts: where the types are of no use, this one is cited.
LEMMA Untyped == \A x : CASE x = TRUE -> TRUE [] OTHER -> TRUE
  BY ZenonT(100)

=============================================================================
