---------------------------- MODULE SignalProofs -----------------------------
(***************************************************************************)
(* For every table of signals, every program and every failing write: the  *)
(* library's table holds the actions of the program, the library sees its  *)
(* signals as long as it is enabled, and gives the actions back.           *)
(***************************************************************************)
EXTENDS SignalActions, SequenceTheorems, TLAPS

\* The inductive invariant.  Before init_udirt the kernel has the actions of
\* the program; a stop has a frame to return from.
IInv ==
    /\ TypeOK
    /\ InControl
    /\ at = "start" => kernel = intended /\ ~enabled
    /\ at = "stopped" => frames # <<>>

-----------------------------------------------------------------------------
(* The table and the stack of handlers.                                    *)

\* A signal of the table has one place in it.
LEMMA IndexFact ==
    /\ Table \subseteq Sig
    /\ \A s \in Table : Index(s) \in 1 .. Len(signals) /\ signals[Index(s)] = s
    /\ \A s, r \in Table : Index(s) = Index(r) => s = r
<1>1. ASSUME NEW s \in Table
      PROVE  Index(s) \in 1 .. Len(signals) /\ signals[Index(s)] = s
  BY DEF Table, Index
<1>. QED  BY <1>1 DEF Sig

\* A handler that is entered adds a frame.
LEMMA PushFact ==
    ASSUME TypeOK,
           NEW kind \in {"stop", "pass", "pipe", "suspend", "native", "abort"},
           NEW to \in {"program", "failing", "failed", "dead"}, NEW logs \in BOOLEAN
    PROVE  Entered(kind, to, logs) \in Seq(Frame) /\ Entered(kind, to, logs) # <<>>
<1>. DEFINE f == [kind |-> kind, mask |-> blocked, to |-> to, logs |-> logs]
<1>1. f \in Frame  BY DEF Frame, TypeOK
<1>2. frames \in Seq(Frame)  BY DEF TypeOK
<1>. HIDE DEF f
<1>3. Append(frames, f) \in Seq(Frame) /\ Append(frames, f) # <<>>
  BY <1>1, <1>2, AppendProperties
<1>. QED  BY <1>3 DEF Entered, f

\* A handler that returns takes a frame off.
LEMMA PopFact ==
    ASSUME TypeOK, frames # <<>>
    PROVE  Top \in Frame /\ Pop \in Seq(Frame)
<1>1. frames \in Seq(Frame)  BY DEF TypeOK
<1>2. Len(frames) \in Nat \ {0}  BY <1>1, EmptySeq, LenProperties
<1>3. Top \in Frame  BY <1>1, <1>2, ElementOfSeq DEF Top
<1>4. \A i \in 1 .. Len(frames) - 1 : frames[i] \in Frame
  BY <1>1, <1>2, ElementOfSeq
<1>5. Pop \in Seq(Frame)  BY <1>1, <1>2, <1>4, SubSeqProperties DEF Pop
<1>. QED  BY <1>3, <1>5

\* The invariant holds initially.
LEMMA InitIInv == Init => IInv
<1>. SUFFICES ASSUME Init PROVE IInv
  OBVIOUS
<1>1. kernel \in [Sig -> Actions]
  BY SignalAssumption DEF Init
<1>2. kernel \in [Sig -> Actions \cup {Lib}] /\ intended \in [Sig -> Actions]
  BY <1>1 DEF Init
<1>3. blocked \subseteq Sig /\ own \subseteq Sig /\ pending \subseteq Sig
  BY SignalAssumption DEF Init
<1>4. app_actions \in [1 .. Len(signals) -> Actions]
  BY SignalAssumption DEF Init
<1>5. frames \in Seq(Frame) /\ ran \in {Nothing} \cup [sig: Sig, act: Actions]
  BY DEF Init
<1>6. TypeOK
  BY <1>2, <1>3, <1>4, <1>5 DEF Init, TypeOK
<1>. QED  BY <1>6 DEF Init, IInv, InControl

-----------------------------------------------------------------------------
(* Start and end of the library.                                           *)

\* Installing the handlers keeps the invariant, whether it succeeds or not.
LEMMA SetupIInv == ASSUME IInv, NEW ok \in BOOLEAN, Setup(ok) PROVE IInv'
<1>1. TypeOK /\ at = "start" /\ kernel = intended
  BY DEF IInv, Setup
<1>2. \A i \in 1 .. Len(signals) : signals[i] \in Sig
  BY DEF Table, Sig
<1>3. /\ app_actions' = [i \in 1 .. Len(signals) |-> kernel[signals[i]]]
      /\ kernel' = [s \in Sig |-> IF s \in Table THEN Lib ELSE kernel[s]]
      /\ frames' = Entered("stop", "program", FALSE) /\ blocked' = Sig
      /\ enabled' = ok /\ at' = IF ok THEN "stopped" ELSE "failed"
      /\ ran' = Nothing /\ UNCHANGED <<intended, own, leaked, pending, pass_signal,
                                       pipe_write_failure>>
  BY DEF Setup, Unseen
<1>4. app_actions' \in [1 .. Len(signals) -> Actions]
  BY <1>1, <1>2, <1>3 DEF TypeOK
<1>5. kernel' \in [Sig -> Actions \cup {Lib}]
  BY <1>1, <1>3 DEF TypeOK
<1>6. frames' \in Seq(Frame) /\ frames' # <<>>
  BY <1>1, <1>3, PushFact
<1>7. TypeOK'
  BY <1>1, <1>3, <1>4, <1>5, <1>6 DEF TypeOK
<1>8. InControl'
  BY <1>1, <1>3, IndexFact DEF InControl
<1>. QED  BY <1>3, <1>6, <1>7, <1>8 DEF IInv

\* What the kernel has when the library has given up.
LEMMA UninstallFact ==
    ASSUME TypeOK, NEW k \in [Sig -> Actions \cup {Lib}]
    PROVE  /\ uninstall_signal_handlers(k) \in [Sig -> Actions \cup {Lib}]
           /\ \A s \in Table : ~(s = "PIPE" /\ pipe_write_failure) =>
                uninstall_signal_handlers(k)[s] = app_actions[Index(s)]
  BY IndexFact DEF TypeOK, uninstall_signal_handlers

\* udi_abort keeps the invariant.
LEMMA AbortIInv == ASSUME IInv, udi_abort PROVE IInv'
<1>1. TypeOK /\ InControl /\ at \in {"stopped", "failed"}
  BY DEF IInv, udi_abort
<1>2. /\ kernel' = uninstall_signal_handlers([kernel EXCEPT !["ABRT"] = Default])
      /\ enabled' = FALSE /\ pending' = Kept(kernel')
      /\ ran' = Nothing /\ UNCHANGED <<intended, own, leaked, blocked, app_actions,
                                       pass_signal, pipe_write_failure>>
      /\ \/ at' = "dead" /\ UNCHANGED frames
         \/ at' = "program" /\ frames' = Entered("abort", "dead", FALSE)
  BY DEF udi_abort, Unseen
<1>3. [kernel EXCEPT !["ABRT"] = Default] \in [Sig -> Actions \cup {Lib}]
  BY <1>1, SignalAssumption DEF TypeOK
<1>4. kernel' \in [Sig -> Actions \cup {Lib}]
  BY <1>1, <1>2, <1>3, UninstallFact
<1>5. pending' \subseteq Sig
  BY <1>1, <1>2 DEF TypeOK, Kept
<1>6. frames' \in Seq(Frame)
  BY <1>1, <1>2, PushFact DEF TypeOK
<1>7. TypeOK'
  BY <1>1, <1>2, <1>4, <1>5, <1>6 DEF TypeOK
<1>8. InControl'
  BY <1>1, <1>2 DEF InControl
<1>. QED  BY <1>2, <1>7, <1>8 DEF IInv

-----------------------------------------------------------------------------
(* The program.                                                            *)

\* The wrapper of sigaction keeps the invariant.
LEMMA SigactionIInv ==
    ASSUME IInv, NEW sig \in Sig, NEW asks \in BOOLEAN, NEW act \in Actions,
           Sigaction(sig, asks, act)
    PROVE  IInv'
<1>1. TypeOK /\ InControl /\ at = "program" /\ sig \in Table
  BY DEF IInv, Sigaction, Runs
<1>2. /\ kernel' = [kernel EXCEPT ![sig] = Lib]
      /\ pending' \subseteq pending
      /\ app_actions' = IF asks THEN [app_actions EXCEPT ![Index(sig)] = act]
                        ELSE app_actions
      /\ intended' = IF asks THEN [intended EXCEPT ![sig] = act] ELSE intended
      /\ ran' = Nothing
      /\ UNCHANGED <<blocked, enabled, pass_signal, pipe_write_failure, at, frames,
                     own, leaked>>
  BY DEF Sigaction
<1>3. TypeOK'
  BY <1>1, <1>2, IndexFact DEF TypeOK
<1>4. \A s \in Table : app_actions'[Index(s)] = intended'[s]
  BY <1>1, <1>2, IndexFact DEF TypeOK, InControl
<1>5. enabled => \A s \in Table : kernel'[s] = Lib
  BY <1>1, <1>2, IndexFact DEF TypeOK, InControl
<1>. QED  BY <1>1, <1>2, <1>3, <1>4, <1>5 DEF IInv, InControl

\* So does the wrapper for a signal that is not in the table.
LEMMA SigactionUnknownIInv ==
    ASSUME IInv, NEW sig \in Sig, NEW asks \in BOOLEAN, NEW act \in Actions,
           SigactionUnknown(sig, asks, act)
    PROVE  IInv'
<1>1. TypeOK /\ InControl /\ at = "program" /\ sig \in Others
  BY DEF IInv, SigactionUnknown, Runs
<1>2. /\ kernel' = [kernel EXCEPT ![sig] = Lib]
      /\ pending' \subseteq pending
      /\ blocked' = Sig /\ leaked' = (leaked \/ frames = <<>>) /\ ran' = Nothing
      /\ UNCHANGED <<app_actions, enabled, pass_signal, pipe_write_failure, at,
                     frames, intended, own>>
  BY DEF SigactionUnknown
<1>3. leaked' \in BOOLEAN
  BY <1>1, <1>2 DEF TypeOK
<1>4. TypeOK'
  BY <1>1, <1>2, <1>3 DEF TypeOK
<1>5. enabled => \A s \in Table : kernel'[s] = Lib
  BY <1>1, <1>2, IndexFact DEF TypeOK, InControl
<1>. QED  BY <1>1, <1>2, <1>4, <1>5 DEF IInv, InControl

\* What changes neither actions nor table nor the state of the library, and
\* does not go back to the start.
LEMMA OtherIInv ==
    ASSUME IInv, TypeOK', UNCHANGED <<kernel, app_actions, enabled, intended>>,
           at # "start", at' # "start", at' = "stopped" => frames' # <<>>
    PROVE  IInv'
  BY DEF IInv, InControl

\* The program may change its mask.
LEMMA BlockIInv == ASSUME IInv, NEW mask \in Masks, Block(mask) PROVE IInv'
<1>1. TypeOK /\ at = "program"  BY DEF IInv, Block, Runs
<1>2. mask \subseteq Sig  BY SignalAssumption
<1>3. leaked' \in BOOLEAN  BY <1>1 DEF TypeOK, Block
<1>4. TypeOK'  BY <1>1, <1>2, <1>3 DEF TypeOK, Block
<1>. QED  BY <1>1, <1>4, OtherIInv DEF Block

\* A signal may become pending.
LEMMA RaiseIInv == ASSUME IInv, NEW sig \in Sig, Raise(sig) PROVE IInv'
<1>1. TypeOK /\ at \in {"program", "stopped"} /\ (at = "stopped" => frames # <<>>)
  BY DEF IInv, Raise
<1>2. TypeOK'  BY <1>1 DEF TypeOK, Raise, Unseen
<1>. QED  BY <1>1, <1>2, OtherIInv DEF Raise, Unseen

-----------------------------------------------------------------------------
(* Delivery.                                                               *)

\* Passing a signal to the program's action leaves the actions alone but for a reset.
LEMMA ApplyFact ==
    ASSUME IInv, NEW sig \in Sig, NEW kind \in {"pass", "pipe", "suspend"},
           NEW to \in {"program", "failing", "failed"}, NEW logs \in BOOLEAN,
           Apply(sig, kind, to, logs)
    PROVE  /\ frames' \in Seq(Frame) /\ blocked' \subseteq Sig
           /\ ran' \in {Nothing} \cup [sig: Sig, act: Actions]
           /\ at' \in {"program", "failing", "failed", "wild"}
           /\ UNCHANGED <<intended, own, leaked>>
<1>1. TypeOK  BY DEF IInv
<1>2. Entered(kind, to, logs) \in Seq(Frame)
  BY <1>1, PushFact
<1>3. app_actions[1] \in Actions /\ app_actions[1].mask \subseteq Sig
  <2>1. Len(signals) \in Nat /\ Len(signals) > 0
    BY SignalAssumption, LenProperties
  <2>2. 1 \in 1 .. Len(signals)  BY <2>1
  <2>3. app_actions[1] \in Actions  BY <1>1, <2>2 DEF TypeOK
  <2>. QED  BY <2>3, SignalAssumption
<1>4. [sig |-> sig, act |-> app_actions[1]] \in [sig: Sig, act: Actions]
  BY <1>3
<1>5. /\ UNCHANGED <<intended, own, leaked>>
      /\ \/ /\ frames' = Entered(kind, to, logs) /\ blocked' = app_actions[1].mask
            /\ ran' = [sig |-> sig, act |-> app_actions[1]] /\ at' = "program"
         \/ ran' = Nothing /\ at' \in {to, "wild"} /\ UNCHANGED <<blocked, frames>>
  BY DEF Apply, Unseen
<1>6. frames \in Seq(Frame) /\ blocked \subseteq Sig
  BY <1>1 DEF TypeOK
<1>. QED  BY <1>2, <1>3, <1>4, <1>5, <1>6, Zenon

\* The entry of the library keeps the invariant.
LEMMA EntryIInv ==
    ASSUME IInv, NEW sig \in Sig, NEW logs \in BOOLEAN, at = "program",
           signal_entry_impl(sig, logs), pending' \subseteq pending,
           UNCHANGED <<kernel, app_actions>>
    PROVE  IInv'
<1>1. TypeOK  BY DEF IInv
<1>2. CASE EntryPipe(sig, logs)
  <2>1. Apply(sig, "pipe", "program", logs) /\ UNCHANGED <<pass_signal, enabled>>
    BY <1>2 DEF EntryPipe, signal_entry_impl
  <2>2. pipe_write_failure' \in BOOLEAN
    BY <1>2, Zenon DEF EntryPipe, Logged
  <2>3. /\ frames' \in Seq(Frame) /\ blocked' \subseteq Sig
        /\ ran' \in {Nothing} \cup [sig: Sig, act: Actions]
        /\ at' \in {"program", "failing", "failed", "wild"}
        /\ UNCHANGED <<intended, own, leaked>>
    BY <2>1, ApplyFact
  <2>4. TypeOK'
    BY <1>1, <2>1, <2>2, <2>3 DEF TypeOK
  <2>. QED  BY <2>1, <2>3, <2>4, OtherIInv
<1>3. CASE EntryPass(sig, logs)
  <2>1. /\ Apply(sig, "pass", "program", logs) /\ UNCHANGED enabled
        /\ pass_signal' \in {"none", pass_signal}
    BY <1>3 DEF EntryPass, signal_entry_impl
  <2>2. pipe_write_failure' \in BOOLEAN
    BY <1>3, Zenon DEF EntryPass, Logged
  <2>3. /\ frames' \in Seq(Frame) /\ blocked' \subseteq Sig
        /\ ran' \in {Nothing} \cup [sig: Sig, act: Actions]
        /\ at' \in {"program", "failing", "failed", "wild"}
        /\ UNCHANGED <<intended, own, leaked>>
    BY <2>1, ApplyFact
  <2>4. TypeOK'
    BY <1>1, <2>1, <2>2, <2>3 DEF TypeOK
  <2>. QED  BY <2>1, <2>3, <2>4, OtherIInv
<1>4. CASE EntryStop(sig, logs)
  <2>1. /\ \/ at' = "stopped" /\ frames' = Entered("stop", "program", logs) /\ blocked' = Sig
           \/ UNCHANGED <<at, frames, blocked>>
        /\ ran' = Nothing /\ UNCHANGED <<intended, own, leaked, pass_signal, enabled>>
    BY <1>4 DEF EntryStop, Unseen, signal_entry_impl
  <2>2. pipe_write_failure' \in BOOLEAN
    BY <1>4, Zenon DEF EntryStop, Logged
  <2>3. frames' \in Seq(Frame) /\ (at' = "stopped" => frames' # <<>>)
    BY <1>1, <2>1, PushFact DEF TypeOK
  <2>4. TypeOK'
    BY <1>1, <2>1, <2>2, <2>3 DEF TypeOK
  <2>. QED  BY <2>1, <2>3, <2>4, OtherIInv
<1>. QED  BY <1>2, <1>3, <1>4 DEF signal_entry_impl

\* Delivering a signal keeps the invariant.
LEMMA DeliverIInv == ASSUME IInv, NEW sig \in Sig, Deliver(sig) PROVE IInv'
<1>1. /\ TypeOK /\ at = "program" /\ pending' = pending \ {sig}
      /\ UNCHANGED <<kernel, app_actions>>
  BY DEF IInv, Deliver
<1>2. CASE signal_entry_impl(sig, FALSE)
  BY <1>1, <1>2, EntryIInv
<1>3. CASE Native(sig) /\ kernel[sig] # Lib
  <2>1. /\ \/ at' = "dead" /\ UNCHANGED <<frames, blocked>>
           \/ /\ frames' = Entered("native", "program", FALSE) /\ UNCHANGED at
              /\ blocked' = blocked \cup kernel[sig].mask \cup {sig}
        /\ ran' = Nothing
        /\ UNCHANGED <<intended, own, leaked, enabled, pass_signal, pipe_write_failure>>
    BY <1>3 DEF Native, Unseen
  <2>2. kernel[sig].mask \subseteq Sig
    BY <1>1, <1>3, SignalAssumption DEF TypeOK
  <2>3. frames' \in Seq(Frame)
    BY <1>1, <2>1, PushFact DEF TypeOK
  <2>4. TypeOK'
    BY <1>1, <2>1, <2>2, <2>3 DEF TypeOK
  <2>. QED  BY <1>1, <2>1, <2>4, OtherIInv
<1>. QED  BY <1>2, <1>3 DEF Deliver

\* Returning from a handler keeps the invariant.
LEMMA ReturnIInv == ASSUME IInv, Return PROVE IInv'
<1>1. TypeOK /\ at = "program" /\ frames # <<>>
  BY DEF IInv, Return, Runs
<1>2. Top \in Frame /\ Pop \in Seq(Frame)
  BY <1>1, PopFact
<1>3. /\ frames' = Pop /\ blocked' = Top.mask /\ at' = Top.to
      /\ pass_signal' \in {"none", pass_signal}
      /\ ran' = Nothing
      /\ UNCHANGED <<kernel, pending, app_actions, enabled, intended, own, leaked>>
  BY DEF Return, Unseen
<1>4. pipe_write_failure' \in BOOLEAN
  BY Zenon DEF Return
<1>5. Top.mask \subseteq Sig /\ Top.to \in {"program", "failing", "failed", "dead"}
  BY <1>2 DEF Frame
<1>6. TypeOK'
  BY <1>1, <1>2, <1>3, <1>4, <1>5 DEF TypeOK
<1>. QED  BY <1>1, <1>3, <1>5, <1>6, OtherIInv

\* Leaving the handlers by a jump keeps the invariant.
LEMMA LongJumpIInv == ASSUME IInv, LongJump PROVE IInv'
<1>1. TypeOK /\ at = "program" /\ <<>> \in Seq(Frame)
  BY EmptySeq DEF IInv, LongJump, Runs
<1>2. TypeOK'  BY <1>1 DEF TypeOK, LongJump
<1>. QED  BY <1>1, <1>2, OtherIInv DEF LongJump

-----------------------------------------------------------------------------
(* The library at a stop.                                                  *)

\* A continue request keeps the invariant, whatever signal it passes.
LEMMA ContinueIInv ==
    ASSUME IInv, NEW sig \in Sig \cup Bad \cup {"none"}, Continue(sig)
    PROVE  IInv'
<1>1. TypeOK /\ at = "stopped" /\ frames # <<>>
  BY DEF IInv, Continue
<1>2. Top \in Frame /\ Pop \in Seq(Frame)
  BY <1>1, PopFact
<1>3. /\ frames' = Pop /\ blocked' = Top.mask /\ at' \in {"dead", Top.to}
      /\ pass_signal' = sig /\ ran' = Nothing
      /\ pending' \subseteq pending \cup Sig
      /\ UNCHANGED <<kernel, app_actions, enabled, intended, own, leaked>>
  BY DEF Continue, Unseen
<1>4. pipe_write_failure' \in BOOLEAN
  BY Zenon DEF Continue
<1>5. Top.mask \subseteq Sig /\ Top.to \in {"program", "failing", "failed", "dead"}
  BY <1>2 DEF Frame
<1>6. TypeOK'
  BY <1>1, <1>2, <1>3, <1>4, <1>5 DEF TypeOK
<1>. QED  BY <1>1, <1>3, <1>5, <1>6, OtherIInv

\* Passing on a SIGPIPE of the library keeps the invariant.
LEMMA ApplyIInv ==
    ASSUME IInv, at # "start", NEW to \in {"program", "failing", "failed"},
           Apply("PIPE", "suspend", to, FALSE), pending' \subseteq pending,
           pipe_write_failure' = FALSE,
           UNCHANGED <<kernel, app_actions, enabled, pass_signal>>
    PROVE  IInv'
<1>1. "PIPE" \in Sig  BY SignalAssumption, IndexFact
<1>2. /\ frames' \in Seq(Frame) /\ blocked' \subseteq Sig
      /\ ran' \in {Nothing} \cup [sig: Sig, act: Actions]
      /\ at' \in {"program", "failing", "failed", "wild"}
      /\ UNCHANGED <<intended, own, leaked>>
  BY <1>1, ApplyFact
<1>3. TypeOK'
  BY <1>2 DEF IInv, TypeOK
<1>. QED  BY <1>2, <1>3, OtherIInv

\* A write that fails keeps the invariant.
LEMMA WriteFailsIInv ==
    ASSUME IInv, NEW next \in {"failing", "failed"}, WriteFails(next)
    PROVE  IInv'
  BY ApplyIInv DEF WriteFails

\* A log entry that fails keeps the invariant.
LEMMA LogFailsIInv == ASSUME IInv, LogFails PROVE IInv'
<1>1. "PIPE" \in Sig  BY SignalAssumption, IndexFact
<1>2. at = "program" /\ UNCHANGED <<kernel, app_actions>>
  BY DEF LogFails, Runs
<1>3. CASE "PIPE" \in blocked
  BY <1>2, <1>3, ApplyIInv DEF LogFails
<1>4. CASE "PIPE" \notin blocked
  BY <1>1, <1>2, <1>4, EntryIInv DEF LogFails
<1>. QED  BY <1>3, <1>4

\* A log that stays broken keeps the invariant.
LEMMA LogBreaksIInv == ASSUME IInv, LogBreaks PROVE IInv'
<1>1. TypeOK /\ at = "program"
  BY DEF IInv, LogBreaks, Runs
<1>2. TypeOK'  BY <1>1 DEF TypeOK, LogBreaks, Unseen
<1>. QED  BY <1>1, <1>2, OtherIInv DEF LogBreaks, Unseen

\* Every step keeps the invariant.
LEMMA NextIInv == ASSUME IInv, [Next]_vars PROVE IInv'
<1>1. CASE UNCHANGED vars
  BY <1>1 DEF vars, appVars, IInv, TypeOK, InControl
<1>. QED
  BY <1>1, SetupIInv, AbortIInv, SigactionIInv, SigactionUnknownIInv, BlockIInv,
     RaiseIInv, DeliverIInv, ReturnIInv, LongJumpIInv, ContinueIInv,
     WriteFailsIInv, LogFailsIInv, LogBreaksIInv, Zenon
  DEF Next

\* The invariant always holds.
LEMMA SpecIInv == Spec => []IInv
<1>. QED  BY InitIInv, NextIInv, PTL DEF Spec

-----------------------------------------------------------------------------
(* The signal mask.  The handlers that have been entered keep the mask of   *)
(* the program under the first one, unless a wrapper has leaked one; what   *)
(* the library does at a stop has that first handler under it.              *)

MaskInv ==
    /\ frames = <<>> /\ ~leaked /\ at \in {"start", "program"} => blocked = own
    /\ frames # <<>> => /\ ~leaked => frames[1].mask = own
                        /\ frames[1].to = "program"
    /\ at \in {"stopped", "failing", "failed"} => frames # <<>>

\* Nothing is entered and nothing returns.
LEMMA MaskStays ==
    ASSUME MaskInv, frames' = frames, blocked' = blocked, own' = own, leaked' = leaked,
           at' \in {"stopped", "failing", "failed", "program"} =>
               at \in {"stopped", "failing", "failed", "program"},
           at' \in {"stopped", "failing", "failed"} =>
               at \in {"stopped", "failing", "failed"},
           at' # "start" \/ at = "start",
           at' = "program" => at = "program" \/ frames # <<>>
    PROVE  MaskInv'
  BY DEF MaskInv

\* A handler is entered.
LEMMA MaskPush ==
    ASSUME TypeOK, MaskInv, own' = own, leaked' = leaked,
           NEW kind, NEW to, NEW logs, frames' = Entered(kind, to, logs),
           frames = <<>> => to = "program" /\ at \in {"start", "program"}
    PROVE  MaskInv'
<1>. DEFINE f == [kind |-> kind, mask |-> blocked, to |-> to, logs |-> logs]
<1>1. frames \in Seq(Frame) /\ Len(frames) \in Nat
  BY LenProperties DEF TypeOK
<1>2. frames' = Append(frames, f)
  BY DEF Entered
<1>3. f.mask = blocked /\ f.to = to
  OBVIOUS
<1>. HIDE DEF f
<1>4. frames' # <<>>
  BY <1>1, <1>2
<1>5. CASE frames = <<>>
  <2>1. frames'[1] = f
    BY <1>2, <1>5
  <2>. QED  BY <1>3, <1>4, <1>5, <2>1 DEF MaskInv
<1>6. CASE frames # <<>>
  <2>1. 1 \in 1 .. Len(frames)
    BY <1>1, <1>6, EmptySeq
  <2>2. frames'[1] = frames[1]
    BY <1>1, <1>2, <2>1
  <2>. QED  BY <1>4, <1>6, <2>2 DEF MaskInv
<1>. QED  BY <1>5, <1>6

\* A handler returns.
LEMMA MaskPop ==
    ASSUME TypeOK, MaskInv, frames # <<>>, own' = own, leaked' = leaked,
           frames' = Pop, blocked' = Top.mask, at' \in {"dead", Top.to}
    PROVE  MaskInv'
<1>1. frames \in Seq(Frame) /\ Len(frames) \in Nat \ {0}
  BY EmptySeq, LenProperties DEF TypeOK
<1>2. CASE Len(frames) = 1
  <2>1. Top = frames[1] /\ frames' = <<>>
    BY <1>1, <1>2 DEF Top, Pop
  <2>. QED  BY <2>1 DEF MaskInv
<1>3. CASE Len(frames) # 1
  <2>6. Len(frames) - 1 \in Nat \ {0}
    BY <1>1, <1>3
  <2>1. PICK n \in Nat \ {0} : n = Len(frames) - 1
    BY <2>6
  <2>4. \A i \in 1 .. n : frames[i] \in Frame
    BY <1>1, <2>1, ElementOfSeq
  <2>5. /\ Len(SubSeq(frames, 1, n)) = n
        /\ \A i \in 1 .. n : SubSeq(frames, 1, n)[i] = frames[i]
    BY <2>4, SubSeqProperties
  <2>2. Len(frames') = n /\ frames'[1] = frames[1]
    BY <2>1, <2>5 DEF Pop
  <2>3. frames' # <<>>
    BY <2>1, <2>2
  <2>. QED  BY <2>2, <2>3 DEF MaskInv
<1>. QED  BY <1>2, <1>3

\* What app_signal_handler does, with a frame under it or in the program.
LEMMA MaskApply ==
    ASSUME TypeOK, MaskInv, NEW sig, NEW kind, NEW logs,
           NEW to \in {"program", "failing", "failed"},
           Apply(sig, kind, to, logs),
           \/ at = "program" /\ to = "program"
           \/ at \in {"stopped", "failing", "failed"}
    PROVE  MaskInv'
<1>1. CASE frames' = Entered(kind, to, logs) /\ UNCHANGED <<own, leaked>>
  <2>1. frames = <<>> => to = "program" /\ at \in {"start", "program"}
    BY DEF MaskInv
  <2>. QED  BY <1>1, <2>1, MaskPush
<1>2. CASE at' \in {to, "wild"} /\ UNCHANGED <<blocked, frames, own, leaked>>
  BY <1>2, MaskStays DEF MaskInv
<1>. QED  BY <1>1, <1>2 DEF Apply, Unseen

\* The entry of the library keeps the masks.
LEMMA MaskEntry ==
    ASSUME TypeOK, MaskInv, at = "program", NEW sig, NEW logs,
           signal_entry_impl(sig, logs)
    PROVE  MaskInv'
<1>1. CASE EntryPipe(sig, logs) \/ EntryPass(sig, logs)
  BY <1>1, MaskApply DEF EntryPipe, EntryPass
<1>2. CASE EntryStop(sig, logs)
  <2>1. own' = own /\ leaked' = leaked
    BY <1>2 DEF EntryStop, Unseen
  <2>2. CASE frames' = Entered("stop", "program", logs)
    BY <2>1, <2>2, MaskPush
  <2>3. CASE UNCHANGED <<at, frames, blocked>>
    BY <2>1, <2>3, MaskStays
  <2>. QED  BY <1>2, <2>2, <2>3 DEF EntryStop
<1>. QED  BY <1>1, <1>2 DEF signal_entry_impl

\* The steps of the program, of the kernel and of the library.
LEMMA MaskProgram ==
    ASSUME TypeOK, MaskInv,
           \/ \E sig \in Sig, act \in Actions, asks \in BOOLEAN :
                Sigaction(sig, asks, act) \/ SigactionUnknown(sig, asks, act)
           \/ \E mask \in Masks : Block(mask)
           \/ \E sig \in Sig : Raise(sig)
           \/ LongJump
    PROVE  MaskInv'
<1>1. leaked \in BOOLEAN  BY DEF TypeOK
<1>2. ASSUME NEW sig \in Sig, NEW act \in Actions, NEW asks \in BOOLEAN,
             Sigaction(sig, asks, act)
      PROVE  MaskInv'
  BY <1>2, MaskStays DEF Sigaction
<1>3. ASSUME NEW sig \in Sig, NEW act \in Actions, NEW asks \in BOOLEAN,
             SigactionUnknown(sig, asks, act)
      PROVE  MaskInv'
  BY <1>1, <1>3 DEF SigactionUnknown, Runs, MaskInv
<1>4. ASSUME NEW mask \in Masks, Block(mask) PROVE MaskInv'
  BY <1>1, <1>4 DEF Block, Runs, MaskInv
<1>5. ASSUME NEW sig \in Sig, Raise(sig) PROVE MaskInv'
  BY <1>5, MaskStays DEF Raise, Unseen
<1>6. CASE LongJump
  BY <1>6 DEF LongJump, Runs, MaskInv
<1>. QED  BY <1>2, <1>3, <1>4, <1>5, <1>6

\* So do the steps of the library.
LEMMA MaskLibrary ==
    ASSUME TypeOK, MaskInv,
           \/ \E ok \in BOOLEAN : Setup(ok)
           \/ udi_abort
           \/ \E sig \in Sig : Deliver(sig)
           \/ Return
           \/ \E sig \in Sig \cup Bad \cup {"none"} : Continue(sig)
           \/ \E next \in {"failing", "failed"} : WriteFails(next)
           \/ LogFails
           \/ LogBreaks
    PROVE  MaskInv'
<1>1. ASSUME NEW ok \in BOOLEAN, Setup(ok) PROVE MaskInv'
  <2>1. frames' = Entered("stop", "program", FALSE) /\ own' = own /\ leaked' = leaked
        /\ at = "start"
    BY <1>1 DEF Setup, Unseen
  <2>. QED  BY <2>1, MaskPush
<1>2. CASE udi_abort
  <2>1. own' = own /\ leaked' = leaked /\ blocked' = blocked /\ frames # <<>>
    BY <1>2 DEF udi_abort, Unseen, MaskInv
  <2>2. CASE at' = "dead" /\ UNCHANGED frames
    BY <2>1, <2>2, MaskStays
  <2>3. CASE frames' = Entered("abort", "dead", FALSE)
    BY <2>1, <2>3, MaskPush
  <2>. QED  BY <1>2, <2>2, <2>3 DEF udi_abort
<1>3. ASSUME NEW sig \in Sig, Deliver(sig) PROVE MaskInv'
  <2>1. CASE signal_entry_impl(sig, FALSE)
    BY <1>3, <2>1, MaskEntry DEF Deliver
  <2>2. CASE Native(sig)
    <3>1. at = "program" /\ own' = own /\ leaked' = leaked
      BY <1>3, <2>2 DEF Deliver, Native, Unseen
    <3>2. CASE at' = "dead" /\ UNCHANGED <<frames, blocked>>
      BY <3>1, <3>2, MaskStays
    <3>3. CASE frames' = Entered("native", "program", FALSE)
      BY <3>1, <3>3, MaskPush
    <3>. QED  BY <2>2, <3>2, <3>3 DEF Native
  <2>. QED  BY <1>3, <2>1, <2>2 DEF Deliver
<1>4. CASE Return
  BY <1>4, MaskPop DEF Return, Unseen
<1>5. ASSUME NEW sig \in Sig \cup Bad \cup {"none"}, Continue(sig) PROVE MaskInv'
  <2>1. frames # <<>>
    BY <1>5 DEF Continue, MaskInv
  <2>. QED  BY <1>5, <2>1, MaskPop DEF Continue, Unseen
<1>6. ASSUME NEW next \in {"failing", "failed"}, WriteFails(next) PROVE MaskInv'
  BY <1>6, MaskApply DEF WriteFails
<1>7. CASE LogFails
  <2>1. at = "program"
    BY <1>7 DEF LogFails, Runs
  <2>. QED  BY <1>7, <2>1, MaskApply, MaskEntry DEF LogFails
<1>8. CASE LogBreaks
  BY <1>8, MaskStays DEF LogBreaks, Unseen
<1>. QED  BY <1>1, <1>2, <1>3, <1>4, <1>5, <1>6, <1>7, <1>8

\* Every step keeps the masks.
LEMMA NextMask == ASSUME TypeOK, MaskInv, [Next]_vars PROVE MaskInv'
<1>1. CASE UNCHANGED vars
  BY <1>1 DEF vars, appVars, MaskInv
<1>. QED  BY <1>1, MaskProgram, MaskLibrary, Zenon DEF Next

-----------------------------------------------------------------------------

\* The table of the library holds what the program has asked for, and while
\* the library is enabled no call of the program takes a signal from it, for
\* every program and every way its own writes fail (udirt-posix-sys.c:288).
THEOREM StaysInControl == Spec => []InControl
<1>1. IInv => InControl  BY DEF IInv
<1>. QED  BY <1>1, SpecIInv, PTL

\* Outside of handlers the program runs with the mask it has chosen, for every
\* history of stops, passed signals, failed writes and jumps out of handlers
\* (udirt-posix-sys.c:327), unless a wrapper has returned early.
THEOREM MaskAlwaysKept == Spec => []MaskKept
<1>1. Init => MaskInv
  BY DEF Init, MaskInv
<1>2. IInv /\ MaskInv /\ [Next]_vars => MaskInv'
  BY NextMask DEF IInv
<1>3. IInv /\ MaskInv => MaskKept
  BY DEF IInv, MaskInv, MaskKept
<1>. QED  BY <1>1, <1>2, <1>3, SpecIInv, PTL DEF Spec

\* Whenever the library gives up, in its initialization or later, the kernel
\* gets back the actions of the program (udirt-posix-sys.c:462), for every
\* history of the program and the debugger: all but that of SIGABRT, for which
\* udi_abort asks otherwise, and of SIGPIPE after a failed write of the log.
THEOREM ActionsRestored == Spec => Restored
<1>. DEFINE Back == (enabled /\ ~enabled') \/ (at = "failed" /\ at' # "failed") =>
         \A s \in Table \ {"ABRT"} :
            kernel'[s] = intended[s] \/ (s = "PIPE" /\ pipe_write_failure)
<1>1. ASSUME IInv, [Next]_vars PROVE [Back]_vars
  <2>1. CASE udi_abort
    <3>1. /\ TypeOK /\ InControl /\ at # "start"
          /\ kernel' = uninstall_signal_handlers([kernel EXCEPT !["ABRT"] = Default])
      BY <1>1, <2>1 DEF IInv, udi_abort
    <3>2. [kernel EXCEPT !["ABRT"] = Default] \in [Sig -> Actions \cup {Lib}]
      BY <3>1, SignalAssumption DEF TypeOK
    <3>3. \A s \in Table : ~(s = "PIPE" /\ pipe_write_failure) =>
            kernel'[s] = app_actions[Index(s)]
      BY <3>1, <3>2, UninstallFact
    <3>. QED  BY <3>1, <3>3 DEF InControl
  <2>2. CASE \E ok \in BOOLEAN : Setup(ok)
    BY <1>1, <2>2 DEF IInv, Setup
  <2>3. CASE ~udi_abort /\ ~(\E ok \in BOOLEAN : Setup(ok))
    <3>1. enabled' = enabled /\ (at = "failed" => at' = at)
      BY <1>1, <2>3
      DEF Next, vars, Sigaction, SigactionUnknown, Block, Raise, Deliver, Return,
          LongJump, Continue, WriteFails, LogFails, LogBreaks, signal_entry_impl,
          Native, Runs
    <3>. QED  BY <3>1
  <2>. QED  BY <2>1, <2>2, <2>3
<1>. QED  BY <1>1, SpecIInv, PTL DEF Spec, Restored

=============================================================================
