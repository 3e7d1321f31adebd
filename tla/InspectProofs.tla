---------------------------- MODULE InspectProofs ----------------------------
(***************************************************************************)
(* For every memory, page size, program and set of requests: an access     *)
(* copies exactly what was asked, up to the abort it loses in a thread     *)
(* that is single stepped, its flags and the signal mask do not outlive    *)
(* its request, a failure is explained as it is, the registers shown are   *)
(* those of the thread, and the next instruction is the one it executes.   *)
(***************************************************************************)
EXTENDS Inspect, SequenceTheorems, TLAPS

-----------------------------------------------------------------------------
(* Which branches udirt-x86.c decodes as the processor does.                *)

\* The three names of the counter register lead to the same element of gregs.
LEMMA CounterNames ==
    /\ get_reg_context_offset("RCX") = "RCX"
    /\ get_reg_context_offset("ECX") = "RCX"
    /\ get_reg_context_offset("CX") = "RCX"
<1>1. get_reg_context_offset("RCX") = "RCX"
  BY DEF get_reg_context_offset
<1>2. get_reg_context_offset("ECX") = "RCX"
  BY DEF get_reg_context_offset
<1>3. get_reg_context_offset("CX") = "RCX"
  BY DEF get_reg_context_offset
<1>. QED  BY <1>1, <1>2, <1>3

\* A flag is tested by comparing the masked register with 0; SF and OF are
\* equal as masked values unless exactly one, or both, are set.
LEMMA Masks ==
    ASSUME NEW flags \in SUBSET Flag
    PROVE  /\ \A f \in Flag : And(f, flags) # 0 <=> f \in flags
           /\ ~("SF" \in flags /\ "OF" \in flags) =>
                (And("SF", flags) = And("OF", flags)
                   <=> ("SF" \in flags <=> "OF" \in flags))
<1>1. /\ FlagMask["CF"] = 1 /\ FlagMask["PF"] = 4 /\ FlagMask["ZF"] = 64
      /\ FlagMask["SF"] = 128 /\ FlagMask["OF"] = 2048
  BY DEF FlagMask, Flag
<1>. QED  BY <1>1 DEF And, Flag

\* The remainder of 0.
LEMMA ZeroMod == ASSUME NEW w \in Nat, w > 1 PROVE 0 % w = 0
  OBVIOUS

\* ctf_condition_met agrees with the processor for every flags register and
\* every counter, except for a signed condition when SF and OF are both set,
\* and for a narrow counter that is zero in a register that is not
\* (udirt-x86.c:126).
THEOREM ConditionRight ==
    ASSUME NEW ctx \in Context, NEW m \in Conditional,
           Decodable(m, ctx.flags, ctx.gregs["RCX"])
    PROVE  ctf_condition_met(m, ctx) <=> Taken(m, ctx.flags, ctx.gregs["RCX"])
<1>. DEFINE flags == ctx.flags
            rcx == ctx.gregs["RCX"]
<1>1. flags \in SUBSET Flag /\ rcx \in Word
  BY DEF Context, Greg
<1>2. /\ get_flags(ctx) = flags
      /\ \A r \in {"CX", "ECX", "RCX"} : get_register_ud_type(r, ctx) = rcx
  BY CounterNames DEF get_flags, get_register_ud_type
<1>3. /\ \A f \in Flag : And(f, flags) # 0 <=> f \in flags
      /\ ~("SF" \in flags /\ "OF" \in flags) =>
           (And("SF", flags) = And("OF", flags)
              <=> ("SF" \in flags <=> "OF" \in flags))
  BY <1>1, Masks
<1>4. /\ rcx - 1 # 0 <=> (IF rcx = 0 THEN W64 - 1 ELSE rcx - 1) # 0
      /\ 0 % W16 = 0 /\ 0 % W32 = 0
  BY <1>1, WidthAssumption, ZeroMod DEF Word
<1>. HIDE DEF flags, rcx
<1>5. Decodable(m, flags, rcx)
  BY DEF flags, rcx
<1>6. ctf_condition_met(m, ctx) <=> Taken(m, flags, rcx)
  BY <1>2, <1>3, <1>4, <1>5
     DEF ctf_condition_met, Taken, Decodable, Conditional, Signed, Flag
<1>. QED  BY <1>6 DEF flags, rcx

-----------------------------------------------------------------------------
(* The inductive invariant of the accesses.                                *)

States == {"stopped", "copying", "planted", "running", "killed", "wedged",
           "aborted"}

\* The part of memory a request names.
Within(a, n) == a \in Addr /\ n \in Nat /\ a + n <= PageSize * NumPages

\* A copy in progress is the one of the request being served, and has done
\* what it should up to byte i.
CopyOfRequest ==
    /\ copy.i \in Nat /\ copy.size \in Nat /\ copy.i <= copy.size
    /\ copy.mask \in BOOLEAN /\ (copy.mask => "mask" \in Fails)
    /\ "cut" \in DOMAIN copy
    /\ copy.cut /\ ~aborting => single_step
    /\ resp.kind = "none"
    /\ {"fault", "lost"} \subseteq DOMAIN request /\ request.lost = FALSE
    /\ request.kind \in {"read", "write", "next"}
    /\ request.kind # "next" =>
         /\ Within(copy.addr, copy.size)
         /\ request.addr = copy.addr /\ request.size = copy.size
    /\ copy.op = IF request.kind = "write" THEN "write" ELSE "read"
    /\ request.kind = "read" =>
         /\ copy.data \in Seq(Byte) /\ Len(copy.data) = copy.i
         /\ \A k \in 1 .. copy.i : copy.data[k] = byte[copy.addr + k - 1]
    /\ request.kind = "write" =>
         /\ copy.data \in Seq(Byte) /\ Len(copy.data) = copy.size
         /\ \A k \in 1 .. copy.size : request.data[k] = copy.data[k]
         /\ byte = Patched(copy.i)

IInv ==
    /\ at \in States
    /\ byte \in [Addr -> Byte]
    /\ open \in BOOLEAN /\ aborting \in BOOLEAN
    /\ request.kind \in {"none", "read", "write", "next"}
    /\ request.kind = "write" => request.size \in Nat
    /\ at = "copying" => CopyOfRequest
    /\ AccessExact
    /\ AccessClosed
    /\ RegistersKept

\* An address is a natural number below the size of the memory.
LEMMA AddrFact == \A a \in Addr : a \in Nat /\ a < PageSize * NumPages
<1>1. PageSize * NumPages \in Nat  BY MemoryAssumption
<1>. QED  BY <1>1 DEF Addr

\* A response says what it answers and whether that succeeded.
LEMMA Kinds ==
    \A kind, x : /\ Success(kind, x).kind = kind /\ Success(kind, x).ok
                 /\ Failure(kind, x).kind = kind /\ ~Failure(kind, x).ok
  BY DEF Success, Failure

\* The invariant holds initially.
LEMMA InitIInv == Init => IInv
<1>. SUFFICES ASSUME Init PROVE IInv
  OBVIOUS
<1>1. byte \in [Addr -> Byte]
  BY InspectAssumption DEF Init
<1>2. /\ at = "stopped" /\ request.kind = "none" /\ request.lost = FALSE
      /\ resp.kind = "none"
  BY DEF Init, NoResp, NoRequest
<1>3. AccessExact
  BY <1>2 DEF AccessExact
<1>4. AccessClosed /\ RegistersKept
  BY DEF Init, AccessClosed, RegistersKept
<1>. QED  BY <1>1, <1>2, <1>3, <1>4 DEF Init, IInv, States

-----------------------------------------------------------------------------
(* The requests.                                                           *)

\* A request answered without touching memory.
LEMMA AnswerIInv ==
    ASSUME IInv, at = "stopped", NEW r, Answer(r),
           context_valid => context' = wanted'
    PROVE  IInv'
<1>. USE DEF IInv, Answer, NoRequest, memVars
<1>1. AccessExact'  BY DEF AccessExact
<1>2. AccessClosed'  BY DEF AccessClosed
<1>3. RegistersKept'  BY DEF RegistersKept
<1>. QED  BY <1>1, <1>2, <1>3 DEF States

\* A request that starts a copy, or whose first hook fails.
LEMMA AccessIInv ==
    ASSUME IInv, at = "stopped",
           NEW kind \in {"read", "write", "next"}, NEW op, NEW a, NEW n \in Nat,
           NEW data \in Seq(Byte), NEW asked, Access(kind, op, a, n, data, asked),
           kind # "next" => Within(a, n),
           op = IF kind = "write" THEN "write" ELSE "read",
           kind = "read" => data = <<>>,
           kind = "write" =>
             /\ Len(data) = n
             /\ \A k \in 1 .. n : asked[k] = data[k]
    PROVE  IInv'
<1>1. CASE /\ StartCopy(op, a, n, data)
           /\ at' = "copying"
           /\ request' = [kind |-> kind, addr |-> a, size |-> n, data |-> asked,
                          old |-> byte, fault |-> -1, lost |-> FALSE]
           /\ resp' = NoResp
  <2>1. /\ byte' = byte /\ byte \in [Addr -> Byte]
        /\ open' = TRUE /\ performing' = TRUE /\ aborting' = aborting
        /\ copy' = [op |-> op, addr |-> a, size |-> n, i |-> 0, data |-> data,
                    cut |-> FALSE, mask |-> open]
    BY <1>1 DEF StartCopy, IInv
  <2>2. /\ request'.kind = kind /\ request'.addr = a /\ request'.size = n
        /\ request'.data = asked /\ request'.old = byte /\ request'.lost = FALSE
        /\ {"fault", "lost"} \subseteq DOMAIN request'
        /\ resp'.kind = "none"
    BY <1>1 DEF NoResp
  <2>3. kind = "write" => Patched(0)' = byte'
    <3>. SUFFICES ASSUME kind = "write" PROVE Patched(0)' = byte'
      OBVIOUS
    <3>1. \A b \in Addr : ~(a <= b /\ b < a + 0)
      BY AddrFact DEF Within
    <3>2. Patched(0)' = [b \in Addr |-> request'.old[b]]
      BY <2>2, <3>1 DEF Patched
    <3>. QED  BY <2>1, <2>2, <3>2
  <2>4. CopyOfRequest'
    BY <2>1, <2>2, <2>3 DEF CopyOfRequest, IInv, AccessClosed, Within
  <2>5. AccessExact'
    BY <2>1, <2>2, <2>3 DEF AccessExact
  <2>6. AccessClosed' /\ RegistersKept'
    BY <1>1, <2>1 DEF Access, IInv, AccessClosed, RegistersKept
  <2>. QED  BY <1>1, <2>1, <2>2, <2>4, <2>5, <2>6 DEF IInv, States
<1>2. CASE PreHookFails /\ request' = NoRequest /\ UNCHANGED at
  <2>1. request'.kind = "none" /\ request'.lost = FALSE /\ UNCHANGED <<memVars, at>>
    BY <1>2 DEF NoRequest, PreHookFails
  <2>2. AccessExact'
    BY <2>1 DEF AccessExact
  <2>3. AccessClosed' /\ RegistersKept'
    BY <2>1 DEF Access, IInv, AccessClosed, RegistersKept, memVars
  <2>. QED  BY <2>1, <2>2, <2>3 DEF IInv, memVars
<1>. QED  BY <1>1, <1>2 DEF Access

-----------------------------------------------------------------------------
(* The copy, the handler nested in it, and the stops.                      *)

\* A copy that the page permits keeps the invariant.
LEMMA CopiesIInv == ASSUME IInv, Copies PROVE IInv'
<1>. DEFINE a == At
<1>1. /\ at = "copying" /\ at' = "copying" /\ CopyOfRequest
      /\ copy.i < copy.size /\ byte \in [Addr -> Byte]
      /\ UNCHANGED <<request, resp, single_step, aborting>>
  BY DEF Copies, CopyByte, Copying, IInv, stopVars
<1>2. request.kind # "next" => a \in Addr
  BY <1>1, AddrFact, MemoryAssumption DEF CopyOfRequest, Within, At, Addr
<1>3. CASE copy.op = "read"
  <2>1. /\ byte' = byte
        /\ copy' = [copy EXCEPT !.i = @ + 1, !.data = Append(@, byte[a])]
    BY <1>3 DEF Copies, CopyByte
  <2>2. request.kind # "write"
    BY <1>1, <1>3 DEF CopyOfRequest
  <2>3. request.kind = "read" =>
          /\ Append(copy.data, byte[a]) \in Seq(Byte)
          /\ Len(Append(copy.data, byte[a])) = copy.i + 1
          /\ \A k \in 1 .. copy.i + 1 :
               Append(copy.data, byte[a])[k] = byte[copy.addr + k - 1]
    <3>. SUFFICES ASSUME request.kind = "read"
                  PROVE  /\ Append(copy.data, byte[a]) \in Seq(Byte)
                         /\ Len(Append(copy.data, byte[a])) = copy.i + 1
                         /\ \A k \in 1 .. copy.i + 1 :
                              Append(copy.data, byte[a])[k]
                                = byte[copy.addr + k - 1]
      OBVIOUS
    <3>1. /\ copy.data \in Seq(Byte) /\ Len(copy.data) = copy.i
          /\ \A k \in 1 .. copy.i : copy.data[k] = byte[copy.addr + k - 1]
          /\ byte[a] \in Byte /\ copy.i \in Nat
      BY <1>1, <1>2 DEF CopyOfRequest
    <3>2. a = copy.addr + (copy.i + 1) - 1
      BY <1>1, AddrFact DEF At, CopyOfRequest, Within
    <3>. HIDE DEF a
    <3>. QED  BY <3>1, <3>2
  <2>. HIDE DEF a
  <2>4. /\ copy'.i = copy.i + 1 /\ copy'.size = copy.size
        /\ copy'.addr = copy.addr /\ copy'.op = copy.op /\ copy'.mask = copy.mask
        /\ copy'.cut = copy.cut /\ copy'.data = Append(copy.data, byte[a])
        /\ DOMAIN copy' = DOMAIN copy
    BY <2>1
  <2>5. CopyOfRequest'
    BY <1>1, <1>3, <2>1, <2>2, <2>3, <2>4 DEF CopyOfRequest, Within
  <2>6. AccessExact'
    BY <1>1, <2>1, <2>2 DEF AccessExact, CopyOfRequest
  <2>. QED
    BY <1>1, <2>1, <2>4, <2>5, <2>6
       DEF IInv, Copies, CopyByte, stopVars, AccessClosed, RegistersKept
<1>4. CASE copy.op # "read"
  <2>1. /\ byte' = [byte EXCEPT ![a] = copy.data[copy.i + 1]]
        /\ copy' = [copy EXCEPT !.i = @ + 1]
    BY <1>4 DEF Copies, CopyByte
  <2>2. request.kind = "write"
    BY <1>1, <1>4 DEF CopyOfRequest
  <2>3. PICK n \in Nat : n = copy.i + 1
    BY <1>1 DEF CopyOfRequest
  <2>4. /\ byte = Patched(copy.i) /\ a \in Addr
        /\ copy.data[n] = request.data[n] /\ copy.data[n] \in Byte
        /\ copy.addr = request.addr /\ copy.addr \in Int /\ copy.i \in Nat
        /\ n \in 0 .. request.size
    BY <1>1, <1>2, <2>2, <2>3, AddrFact DEF CopyOfRequest, Within
  <2>5. byte' \in [Addr -> Byte]
    BY <1>1, <2>1, <2>3, <2>4
  <2>6. \A b \in Addr : byte'[b] = Patched(n)[b]
    BY <1>1, <2>1, <2>3, <2>4, AddrFact DEF Patched, At
  <2>. HIDE DEF a
  <2>7. byte' = Patched(n)'
    BY <1>1, <2>5, <2>6 DEF Patched
  <2>8. /\ copy'.i = n /\ copy'.size = copy.size /\ copy'.data = copy.data
        /\ copy'.addr = copy.addr /\ copy'.op = copy.op /\ copy'.mask = copy.mask
        /\ copy'.cut = copy.cut /\ DOMAIN copy' = DOMAIN copy
    BY <2>1, <2>3, <1>1
  <2>9. Patched(copy.i)' = Patched(n)'
    BY <2>8 DEF Patched
  <2>10. CopyOfRequest'
    BY <1>1, <2>2, <2>3, <2>7, <2>8, <2>9 DEF CopyOfRequest, Within
  <2>11. AccessExact'
    BY <1>1, <2>2, <2>4, <2>7 DEF AccessExact, CopyOfRequest
  <2>. QED
    BY <1>1, <2>5, <2>8, <2>10, <2>11
       DEF IInv, Copies, CopyByte, stopVars, AccessClosed, RegistersKept
<1>. QED  BY <1>3, <1>4

\* What a fault leaves of the copy, whichever way the handler takes: only the
\* place at which it resumes.
LEMMA FaultCopy ==
    ASSUME Fault
    PROVE  /\ at = "copying" /\ performing /\ ~copy.cut
           /\ at' \in {"copying", "planted"}
           /\ \E c \in BOOLEAN : copy' = [copy EXCEPT !.cut = c]
           /\ \/ /\ aborting' = copy'.cut /\ at' = at /\ performing' = performing
              \/ /\ single_step /\ performing' = FALSE /\ aborting' = FALSE
                 /\ at' = "copying" => copy'.cut \/ Fails # {}
           /\ context_valid' = FALSE /\ faulted' = TRUE
           /\ UNCHANGED <<byte, open, code, live, single_step, continue_bp, resp,
                          request, wanted>>
<1>1. /\ at = "copying" /\ performing /\ ~copy.cut
      /\ context_valid' = FALSE /\ faulted' = TRUE
      /\ UNCHANGED <<byte, open, code, live, single_step, continue_bp, resp,
                     request, wanted>>
  BY DEF Fault, Faults, Copying
<1>2. \E c \in BOOLEAN : copy' = [copy EXCEPT !.cut = c]
  <2>. DEFINE c == ~(si_code(PageOf(At)) = SEGV_ACCERR) \/ mprotect_fails
  <2>1. copy' = [copy EXCEPT !.cut = c]
    BY Zenon DEF Fault, decode_memory_access_event
  <2>2. c \in BOOLEAN
    BY Zenon DEF mprotect_fails
  <2>. HIDE DEF c
  <2>. QED  BY <2>1, <2>2
<1>3. Handled \/ Stepped
  BY Zenon DEF Fault
<1>4. CASE Handled
  BY <1>1, <1>2, <1>4, Zenon DEF Handled
<1>5. CASE Stepped
  <2>1. single_step /\ performing' = FALSE /\ aborting' = FALSE
    BY <1>5, Zenon DEF Stepped
  <2>2. \/ at' = "copying" /\ (copy'.cut \/ Fails # {})
        \/ at' = "planted"
    BY <1>1, <1>5, Zenon DEF Stepped
  <2>. QED  BY <1>1, <1>2, <2>1, <2>2
<1>. QED  BY <1>3, <1>4, <1>5

\* The nested handler touches neither the memory nor what has been copied, and
\* it clears the flags of the copy only for a thread that is single stepped.
LEMMA FaultIInv == ASSUME IInv, Fault PROVE IInv'
<1>1. /\ at = "copying" /\ at' \in {"copying", "planted"}
      /\ byte' = byte /\ open' = open /\ request' = request
      /\ resp' = resp /\ single_step' = single_step
      /\ context_valid' = FALSE /\ faulted' = TRUE
  BY FaultCopy
<1>2. PICK c \in BOOLEAN : copy' = [copy EXCEPT !.cut = c]
  BY FaultCopy
<1>3. /\ copy'.op = copy.op /\ copy'.addr = copy.addr /\ copy'.size = copy.size
      /\ copy'.i = copy.i /\ copy'.data = copy.data /\ copy'.mask = copy.mask
      /\ DOMAIN copy' = DOMAIN copy
  BY <1>2
<1>4. \/ aborting' = copy'.cut /\ at' = at /\ performing' = performing
      \/ /\ single_step /\ performing' = FALSE /\ aborting' = FALSE
         /\ at' = "copying" => copy'.cut \/ Fails # {}
  BY FaultCopy
<1>5. CopyOfRequest /\ open /\ performing /\ ~aborting /\ aborting \in BOOLEAN
  BY <1>1, FaultCopy DEF IInv, AccessClosed
<1>6. copy'.cut \in BOOLEAN
  BY <1>2, <1>5 DEF CopyOfRequest
<1>7. \A k : Patched(k)' = Patched(k)
  BY <1>1 DEF Patched
<1>8. CopyOfRequest'
  <2>1. copy'.cut /\ ~aborting' => single_step
    BY <1>4
  <2>. QED  BY <1>1, <1>3, <1>5, <1>7, <2>1 DEF CopyOfRequest, Within
<1>9. AccessExact'
  BY <1>1, <1>5, <1>7 DEF IInv, AccessExact, CopyOfRequest
<1>10. AccessClosed'
  BY <1>1, <1>4, <1>5 DEF AccessClosed
<1>11. RegistersKept'
  BY <1>1 DEF RegistersKept
<1>12. aborting' \in BOOLEAN
  BY <1>4, <1>6
<1>. QED  BY <1>1, <1>8, <1>9, <1>10, <1>11, <1>12 DEF IInv, States

\* The bytes of an answer: what was copied, and whatever the buffer held.
LEMMA ReadBytes ==
    ASSUME NEW data \in Seq(Byte), NEW n \in Nat, NEW i \in Nat,
           Len(data) = i, i <= n, NEW rest \in [1 .. n - i -> Byte]
    PROVE  /\ Len(data \o rest) = n
           /\ \A k \in 1 .. i : (data \o rest)[k] = data[k]
<1>1. PICK m \in Nat : m = n - i
  OBVIOUS
<1>2. rest \in [1 .. m -> Byte]
  BY <1>1
<1>3. rest \in Seq(Byte) /\ Len(rest) = m
  BY <1>2
<1>4. /\ Len(data \o rest) = Len(data) + Len(rest)
      /\ \A k \in 1 .. Len(data) + Len(rest) :
           (data \o rest)[k] = IF k <= Len(data) THEN data[k] ELSE rest[k - Len(data)]
  BY <1>3, ConcatProperties, ZenonT(60)
<1>5. Len(data) + Len(rest) = n
  BY <1>1, <1>3
<1>6. \A k \in 1 .. i : k \in 1 .. n /\ k <= Len(data)
  OBVIOUS
<1>. QED  BY <1>4, <1>5, <1>6

\* The answer to an access: all of it has been copied, or it says so, or the
\* abort is lost.
LEMMA FinishIInv ==
    ASSUME IInv, NEW restored \in BOOLEAN, Finish(restored)
    PROVE  IInv'
<1>1. /\ at = "copying" /\ at' = "stopped" /\ CopyOfRequest
      /\ byte' = byte /\ byte \in [Addr -> Byte]
      /\ aborting' = FALSE /\ performing' = FALSE
      /\ open' = (IF restored THEN copy.mask ELSE open)
      /\ restored \/ "mask" \in Fails
      /\ copy.cut \/ copy.i = copy.size
      /\ UNCHANGED <<context, context_valid, wanted, faulted, single_step>>
  BY DEF Finish, EndCopy, Ended, IInv
<1>2. PICK rest \in Uncopied : resp' = Reply(Result(restored), copy.data \o rest)
  BY DEF Finish
<1>. DEFINE f == IF copy.cut THEN At ELSE -1
            l == copy.cut /\ ~aborting
<1>3. request' = [request EXCEPT !.fault = f, !.lost = l]
  BY DEF Finish
<1>. HIDE DEF f, l
<1>4. /\ request'.kind = request.kind /\ request'.addr = request.addr
      /\ request'.size = request.size /\ request'.data = request.data
      /\ request'.old = request.old
  BY <1>3
<1>5. request'.lost = l /\ request'.fault = f
  BY <1>1, <1>3 DEF CopyOfRequest
<1>6. open' \in BOOLEAN
  BY <1>1, MemoryAssumption DEF IInv, CopyOfRequest
<1>7. l => single_step
  BY <1>1 DEF l, CopyOfRequest
<1>8. ASSUME request.kind = "read", resp'.kind = "read", resp'.ok
      PROVE  /\ resp'.value = copy.data \o rest
             /\ rest \in [1 .. copy.size - copy.i -> Byte]
  BY <1>2, <1>8 DEF Reply, Success, Failure, Uncopied
<1>9. ASSUME request.kind \in {"read", "write"}, resp'.ok
      PROVE  /\ ~l => copy.i = copy.size
             /\ l => f = copy.addr + copy.i
  BY <1>1, <1>2, <1>9 DEF Reply, Result, Success, Failure, l, f, At
<1>10. ASSUME request.kind \in {"read", "write"}, resp'.ok
       PROVE  Reached' = copy.i /\ copy.i \in Nat /\ copy.size \in Nat /\ copy.i <= copy.size
  <2>1. /\ copy.addr \in Nat /\ copy.i \in Nat /\ request.addr = copy.addr
        /\ request.size = copy.size /\ copy.size \in Nat /\ copy.i <= copy.size
    BY <1>1, <1>10, AddrFact DEF CopyOfRequest, Within
  <2>. QED  BY <1>4, <1>5, <1>9, <1>10, <2>1 DEF Reached
<1>11. AccessExact'
  <2>1. ASSUME request.kind = "read", resp'.kind = "read", resp'.ok
        PROVE  /\ Len(resp'.value) = request.size
               /\ \A k \in 1 .. copy.i : resp'.value[k] = byte[request.addr + k - 1]
    <3>1. /\ copy.data \in Seq(Byte) /\ Len(copy.data) = copy.i
          /\ \A k \in 1 .. copy.i : copy.data[k] = byte[copy.addr + k - 1]
          /\ request.addr = copy.addr /\ request.size = copy.size
      BY <1>1, <2>1 DEF CopyOfRequest
    <3>2. copy.i \in Nat /\ copy.size \in Nat /\ copy.i <= copy.size
      BY <1>1 DEF CopyOfRequest
    <3>3. /\ Len(copy.data \o rest) = copy.size
          /\ \A k \in 1 .. copy.i : (copy.data \o rest)[k] = copy.data[k]
      BY <1>8, <2>1, <3>1, <3>2, ReadBytes
    <3>. QED  BY <1>8, <2>1, <3>1, <3>3
  <2>2. request.kind = "write" =>
          copy.i \in 0 .. request.size /\ byte = Patched(copy.i)
    BY <1>1 DEF CopyOfRequest
  <2>3. \A k : Patched(k)' = Patched(k)
    BY <1>1, <1>4 DEF Patched
  <2>4. request'.lost => single_step'
    BY <1>1, <1>5, <1>7
  <2>. QED  BY <1>1, <1>4, <1>10, <2>1, <2>2, <2>3, <2>4 DEF AccessExact
<1>12. AccessClosed' /\ RegistersKept'
  BY <1>1 DEF IInv, AccessClosed, RegistersKept, CopyOfRequest
<1>. QED  BY <1>1, <1>4, <1>6, <1>11, <1>12 DEF IInv, States

\* Every step keeps the invariant.
LEMMA NextIInv == ASSUME IInv, [Next]_vars PROVE IInv'
<1>0. <<>> \in Seq(Byte) /\ Len(<<>>) = 0 /\ 0 \in Nat /\ WordSize \in Nat
  BY DEF WordSize
<1>1. ASSUME NEW r \in MemRequests, Read(r[1], r[2]) PROVE IInv'
  <2>1. Within(r[1], r[2])
    BY InspectAssumption DEF Within
  <2>2. at = "stopped" /\ Access("read", "read", r[1], r[2], <<>>, <<>>)
    BY <1>1 DEF Read
  <2>3. r[2] \in Nat
    BY <2>1 DEF Within
  <2>. QED  BY <1>0, <2>1, <2>2, <2>3, AccessIInv
<1>2. ASSUME NEW r \in MemRequests, NEW d \in Data, Len(d) = r[2], Write(r[1], d)
      PROVE  IInv'
  <2>1. Within(r[1], r[2]) /\ Within(r[1], 0) /\ d \in Seq(Byte)
    BY InspectAssumption, AddrFact, MemoryAssumption DEF Within
  <2>2. CASE at = "stopped" /\ Access("write", "write", r[1], Len(d), d, d)
    BY <1>2, <2>1, <2>2, AccessIInv DEF Within
  <2>3. CASE at = "stopped" /\ Access("write", "write", r[1], 0, <<>>, d)
    <3>1. \A k \in 1 .. 0 : d[k] = <<>>[k]
      OBVIOUS
    <3>. QED  BY <1>0, <2>1, <2>3, <3>1, AccessIInv
  <2>. QED  BY <1>2, <2>2, <2>3 DEF Write
<1>3. CASE ReadUnallocated
  BY <1>3 DEF ReadUnallocated, IInv, AccessExact, AccessClosed, RegistersKept,
              memVars, NoRequest, States
<1>4. ASSUME NEW reg \in Registers, ReadRegister(reg) PROVE IInv'
  BY <1>4, AnswerIInv DEF ReadRegister, IInv, RegistersKept
<1>5. ASSUME NEW reg \in Registers, NEW v \in Settings[reg], WriteRegister(reg, v)
      PROVE  IInv'
  <2>1. at = "stopped" /\ (context_valid => context' = wanted')
    BY <1>5 DEF WriteRegister, IInv, RegistersKept
  <2>. QED  BY <1>5, <2>1, AnswerIInv DEF WriteRegister
<1>6. CASE NextInstruction
  <2>1. ASSUME NEW sp, at = "stopped",
               Access("next", "read", sp, WordSize, <<>>, <<>>)
        PROVE  IInv'
    BY <1>0, <2>1, AccessIInv
  <2>2. ASSUME NEW r, at = "stopped", Answer(r), UNCHANGED <<context, wanted>>
        PROVE  IInv'
    BY <2>2, AnswerIInv DEF IInv, RegistersKept
  <2>. QED  BY <1>6, <2>1, <2>2 DEF NextInstruction
<1>7. ASSUME NEW setting \in BOOLEAN, SingleStep(setting) PROVE IInv'
  BY <1>7, AnswerIInv DEF SingleStep, IInv, RegistersKept
<1>8. CASE Planted \/ FaultUnmarked
  <2>1. /\ at' \in {"wedged", "killed"} /\ byte' = byte /\ open' = open
        /\ aborting' = aborting /\ request' = request /\ resp' = resp
        /\ single_step' = single_step
    BY <1>8 DEF Planted, FaultUnmarked, memVars
  <2>2. ~aborting
    <3>1. CASE at = "planted"
      BY <3>1 DEF IInv, AccessClosed
    <3>2. CASE FaultUnmarked
      BY <3>2 DEF FaultUnmarked, Faults, Copying, IInv, AccessClosed
    <3>. QED  BY <1>8, <3>1, <3>2 DEF Planted
  <2>. QED  BY <2>1, <2>2 DEF IInv, AccessExact, AccessClosed, RegistersKept,
                             Patched, Reached, States
<1>9. CASE Continue
  BY <1>9 DEF Continue, IInv, AccessExact, AccessClosed, RegistersKept,
              memVars, NoRequest, States
<1>10. CASE Stop
  <2>1. /\ at = "running" /\ at' = "stopped" /\ context' = wanted'
        /\ context_valid' = TRUE
        /\ UNCHANGED <<memVars, request, resp, single_step>>
    BY <1>10 DEF Stop
  <2>. QED  BY <2>1 DEF IInv, AccessExact, AccessClosed, RegistersKept, Patched,
                        Reached, memVars, States
<1>11. CASE UNCHANGED vars
  <2>1. UNCHANGED <<byte, performing, aborting, open, copy, at, context, context_valid,
                    single_step, resp, request, wanted, faulted>>
    BY <1>11 DEF vars, memVars, stopVars
  <2>2. (\A k : Patched(k)' = Patched(k)) /\ Reached' = Reached
    BY <2>1 DEF Patched, Reached
  <2>3. CopyOfRequest' <=> CopyOfRequest
    BY <2>1, <2>2 DEF CopyOfRequest
  <2>4. (AccessExact' <=> AccessExact) /\ (AccessClosed' <=> AccessClosed)
        /\ (RegistersKept' <=> RegistersKept)
    BY <2>1, <2>2 DEF AccessExact, AccessClosed, RegistersKept
  <2>. QED  BY <2>1, <2>3, <2>4 DEF IInv
<1>. QED
  BY <1>1, <1>2, <1>3, <1>4, <1>5, <1>6, <1>7, <1>8, <1>9, <1>10, <1>11,
     CopiesIInv, FaultIInv, FinishIInv DEF Next

\* The invariant always holds.
LEMMA SpecIInv == Spec => []IInv
<1>. QED  BY InitIInv, NextIInv, PTL DEF Spec

-----------------------------------------------------------------------------
(* Types, and what a failed access is blamed on.                           *)

\* A page of the memory has only addresses of the memory.
LEMMA PageAddr == ASSUME NEW a \in Nat, PageOf(a) \in Page PROVE a \in Addr
<1>. DEFINE q == a \div PageSize
            r == a % PageSize
<1>1. PageSize \in Nat /\ PageSize > 0 /\ NumPages \in Nat
  BY MemoryAssumption
<1>2. q \in Int /\ r \in Int /\ a = PageSize * q + r /\ r < PageSize
  BY <1>1
<1>3. q + 1 <= NumPages /\ 0 <= q
  BY <1>1 DEF PageOf, Page
<1>. HIDE DEF q, r
<1>4. PageSize * (q + 1) <= PageSize * NumPages
  BY <1>1, <1>2, <1>3
<1>5. PageSize * (q + 1) = PageSize * q + PageSize
  BY <1>1, <1>2
<1>6. PageSize * q \in Int /\ PageSize * NumPages \in Int
  BY <1>1, <1>2
<1>. QED  BY <1>1, <1>2, <1>4, <1>5, <1>6 DEF Addr

\* Setting a register leaves a context.
LEMMA SetRegisterType ==
    ASSUME NEW ctx \in Context, NEW reg \in Registers, NEW v \in Settings[reg]
    PROVE  set_register(reg, v, ctx) \in Context
<1>1. v \in Word
  BY InspectAssumption
<1>2. FlagsOf(v) \in SUBSET Flag
  BY DEF FlagsOf
<1>. DEFINE fl == FlagsOf(v)
            g == GpName[reg - 26]
<1>. HIDE DEF fl, g
<1>3. [ctx EXCEPT !.flags = fl] \in Context
  BY <1>2 DEF Context, fl
<1>4. [ctx EXCEPT !.gregs[g] = v] \in Context
  BY <1>1 DEF Context
<1>. QED  BY <1>3, <1>4 DEF set_register, fl, g

\* The answers and the start of a copy keep the types.
LEMMA AnswerType ==
    ASSUME TypeOK, IInv', NEW r, Answer(r),
           r.kind \in {"none", "read", "write", "read_register",
                       "write_register", "next", "single_step"},
           single_step' \in BOOLEAN, context' \in Context, wanted' \in Context
    PROVE  TypeOK'
<1>1. request'.kind = "none" /\ request'.lost = FALSE
  BY DEF Answer, NoRequest
<1>. QED  BY <1>1 DEF TypeOK, IInv, Answer, memVars, States

\* Starting an access keeps the types.
LEMMA AccessType ==
    ASSUME TypeOK, IInv', NEW kind \in {"read", "write", "next"},
           NEW op \in Op, NEW a \in Nat, NEW n \in Nat,
           NEW data \in Seq(Byte), NEW asked, Access(kind, op, a, n, data, asked)
    PROVE  TypeOK'
<1>1. /\ prot' = prot /\ failed_si_code' = failed_si_code /\ performing' \in BOOLEAN
      /\ UNCHANGED <<code, live, context, context_valid, single_step, continue_bp,
                     wanted, faulted>>
  BY DEF Access, StartCopy, PreHookFails, memVars, TypeOK
<1>2. copy' \in Copy
  <2>1. [op |-> op, addr |-> a, size |-> n, i |-> 0, data |-> data, cut |-> FALSE,
         mask |-> open] \in Copy
    BY DEF Copy, TypeOK
  <2>. QED  BY <2>1 DEF Access, StartCopy, PreHookFails, memVars, TypeOK
<1>3. /\ resp'.kind \in {"none", "read", "write", "next"}
      /\ request'.kind \in {"none", "read", "write", "next"}
      /\ request'.lost \in BOOLEAN
  <2>1. \A why : Failure(kind, why).kind = kind
    BY DEF Failure
  <2>2. CASE /\ request' = [kind |-> kind, addr |-> a, size |-> n, data |-> asked,
                            old |-> byte, fault |-> -1, lost |-> FALSE]
             /\ resp' = NoResp
    BY <2>2 DEF NoResp
  <2>3. CASE (\E why : resp' = Failure(kind, why)) /\ request' = NoRequest
    BY <2>1, <2>3 DEF NoRequest
  <2>. QED  BY <2>2, <2>3, Zenon DEF Access
<1>. QED  BY <1>1, <1>2, <1>3 DEF TypeOK, IInv, States

\* A copy keeps the types.
LEMMA CopiesType == ASSUME IInv, IInv', TypeOK, Copies PROVE TypeOK'
<1>1. /\ at = "copying" /\ CopyOfRequest /\ copy \in Copy /\ Permits(copy.op, PageOf(At))
      /\ UNCHANGED <<prot, performing, failed_si_code, stopVars>>
  BY DEF Copies, CopyByte, IInv, TypeOK, stopVars
<1>2. copy' \in Copy
  <2>1. At \in Addr
    BY <1>1, PageAddr DEF Permits, At, Copy
  <2>2. byte[At] \in Byte
    BY <2>1 DEF TypeOK
  <2>3. Append(copy.data, byte[At]) \in Seq(Byte) /\ copy.i + 1 \in Nat
    BY <1>1, <2>2 DEF Copy
  <2>. DEFINE d == Append(copy.data, byte[At])
  <2>4. \/ copy' = [copy EXCEPT !.i = @ + 1, !.data = d]
        \/ copy' = [copy EXCEPT !.i = @ + 1]
    BY DEF Copies, CopyByte
  <2>. HIDE DEF d
  <2>. QED  BY <1>1, <2>3, <2>4 DEF Copy, d
<1>. QED  BY <1>1, <1>2 DEF TypeOK, IInv, stopVars, States

\* A fault, and the protection it changes, keeps the types.
LEMMA FaultType == ASSUME IInv', TypeOK, Fault PROVE TypeOK'
<1>1. prot' \in [Page -> Prot] /\ failed_si_code' \in 0 .. 2
  <2>1. Mprotected \in [Page -> Prot]
    BY DEF Mprotected, TypeOK, Prot
  <2>2. si_code(PageOf(At)) \in 0 .. 2
    BY DEF si_code, SEGV_MAPERR, SEGV_ACCERR, BUS_ADRERR
  <2>. QED  BY <2>1, <2>2 DEF Fault, decode_memory_access_event, TypeOK
<1>2. context' \in Context
  <2>1. LibraryContext \in Context
    BY WidthAssumption DEF LibraryContext, Context, Word
  <2>. QED  BY <2>1 DEF Fault, TypeOK
<1>3. /\ performing' \in BOOLEAN /\ context_valid' = FALSE /\ faulted' = TRUE
      /\ UNCHANGED <<live, single_step, continue_bp, resp, request, wanted>>
  BY FaultCopy DEF TypeOK
<1>4. copy' \in Copy
  <2>1. PICK c \in BOOLEAN : copy' = [copy EXCEPT !.cut = c]
    BY FaultCopy
  <2>. QED  BY <2>1 DEF TypeOK, Copy
<1>. QED  BY <1>1, <1>2, <1>3, <1>4 DEF TypeOK, IInv, States

\* Ending an access keeps the types.
LEMMA FinishType ==
    ASSUME IInv, IInv', TypeOK, NEW restored \in BOOLEAN, Finish(restored)
    PROVE  TypeOK'
<1>1. /\ copy' = NoCopy /\ performing' = FALSE
      /\ UNCHANGED <<prot, failed_si_code, live, context, context_valid, single_step,
                     continue_bp, wanted, faulted>>
  BY DEF Finish, EndCopy
<1>2. NoCopy \in Copy
  BY EmptySeq DEF NoCopy, Copy, Op
<1>3. resp'.kind \in {"read", "write", "next"}
  <2>1. PICK ok, d : resp' = Reply(ok, d)
    BY Zenon DEF Finish
  <2>. QED  BY <2>1 DEF Reply, Success, Failure
<1>4. request'.kind \in {"none", "read", "write", "next"}
  BY DEF IInv
<1>5. request'.lost \in BOOLEAN
  <2>. DEFINE f == IF copy.cut THEN At ELSE -1
              l == copy.cut /\ ~aborting
  <2>1. request' = [request EXCEPT !.fault = f, !.lost = l] /\ "lost" \in DOMAIN request
    BY DEF Finish, IInv, CopyOfRequest
  <2>2. l \in BOOLEAN
    BY Zenon
  <2>. HIDE DEF f, l
  <2>. QED  BY <2>1, <2>2
<1>. QED  BY <1>1, <1>2, <1>3, <1>4, <1>5 DEF TypeOK, IInv, States

\* Every step keeps the types.
LEMMA NextType == ASSUME IInv, IInv', TypeOK, [Next]_vars PROVE TypeOK'
<1>0. /\ <<>> \in Seq(Byte) /\ 0 \in Nat /\ WordSize \in Nat
      /\ "read" \in Op /\ "write" \in Op
      /\ \A a \in Addr : a \in Nat
  BY AddrFact, EmptySeq DEF WordSize, Op
<1>1. ASSUME NEW r \in MemRequests, Read(r[1], r[2]) PROVE TypeOK'
  <2>1. r[1] \in Nat /\ r[2] \in Nat
    BY <1>0, InspectAssumption
  <2>. QED  BY <1>0, <1>1, <2>1, AccessType DEF Read
<1>2. ASSUME NEW r \in MemRequests, NEW d \in Data, Write(r[1], d)
      PROVE  TypeOK'
  <2>1. r[1] \in Nat /\ d \in Seq(Byte) /\ Len(d) \in Nat
    BY <1>0, InspectAssumption, LenProperties
  <2>2. CASE Access("write", "write", r[1], Len(d), d, d)
    BY <1>0, <2>1, <2>2, AccessType
  <2>3. CASE Access("write", "write", r[1], 0, <<>>, d)
    BY <1>0, <2>1, <2>3, AccessType
  <2>. QED  BY <1>2, <2>2, <2>3 DEF Write
<1>3. CASE ReadUnallocated
  BY <1>3 DEF ReadUnallocated, IInv, TypeOK, memVars, NoRequest, NoResp, States
<1>4. ASSUME NEW reg \in Registers, ReadRegister(reg) PROVE TypeOK'
  <2>1. PICK r : Answer(r) /\ r.kind = "read_register"
    BY <1>4, Kinds, ZenonT(60) DEF ReadRegister
  <2>. QED  BY <1>4, <2>1, AnswerType DEF ReadRegister, TypeOK
<1>5. ASSUME NEW reg \in Registers, NEW v \in Settings[reg], WriteRegister(reg, v)
      PROVE  TypeOK'
  <2>1. PICK r : Answer(r) /\ r.kind = "write_register"
    BY <1>5, Kinds, ZenonT(60) DEF WriteRegister
  <2>2. context' \in Context /\ wanted' \in Context
    BY <1>5, SetRegisterType DEF WriteRegister, TypeOK
  <2>. QED  BY <1>5, <2>1, <2>2, AnswerType DEF WriteRegister, TypeOK
<1>6. CASE NextInstruction
  <2>1. CASE Access("next", "read", context.gregs["RSP"], WordSize, <<>>, <<>>)
    <3>1. context.gregs["RSP"] \in Nat
      BY WidthAssumption DEF TypeOK, Context, Greg, Word
    <3>. QED  BY <1>0, <2>1, <3>1, AccessType
  <2>2. CASE \E r : Answer(r) /\ r.kind = "next" /\ UNCHANGED <<context, single_step, wanted>>
    BY <2>2, AnswerType DEF TypeOK
  <2>. QED  BY <1>6, <2>1, <2>2 DEF NextInstruction, Failure, Success
<1>7. ASSUME NEW setting \in BOOLEAN, SingleStep(setting) PROVE TypeOK'
  <2>1. PICK r : Answer(r) /\ r.kind = "single_step"
    BY <1>7, Kinds, ZenonT(60) DEF SingleStep
  <2>. QED  BY <1>7, <2>1, AnswerType DEF SingleStep, TypeOK
<1>8. CASE Planted \/ FaultUnmarked
  BY <1>8 DEF Planted, FaultUnmarked, IInv, TypeOK, memVars, States
<1>9. CASE Continue
  BY <1>9 DEF Continue, IInv, TypeOK, memVars, NoRequest, NoResp, States
<1>10. CASE Stop
  BY <1>10 DEF Stop, IInv, TypeOK, memVars, States
<1>11. CASE UNCHANGED vars
  BY <1>11 DEF TypeOK, vars, memVars, stopVars
<1>. QED
  BY <1>1, <1>2, <1>3, <1>4, <1>5, <1>6, <1>7, <1>8, <1>9, <1>10, <1>11,
     CopiesType, FaultType, FinishType DEF Next

\* What decode_memory_access_event stores fits the byte the copy is at, for as
\* long as it is at abort_label; the fault is part of the answer only.
Blamed ==
    /\ at \in {"copying", "planted"} => request.fault = -1
    /\ at = "copying" /\ copy.cut =>
         (failed_si_code = SEGV_MAPERR <=> Unmapped(PageOf(At)))
    /\ request.fault # -1 /\ resp.kind # "next" =>
         IF resp.ok THEN request.lost
         ELSE resp.why = "not mapped" <=> Unmapped(PageOf(request.fault))

\* mprotect maps nothing and unmaps nothing.
LEMMA FaultBlamed == ASSUME TypeOK, Blamed, Fault PROVE Blamed'
<1>0. PICK c \in BOOLEAN : copy' = [copy EXCEPT !.cut = c]
  BY FaultCopy
<1>1. /\ at = "copying" /\ at' \in {"copying", "planted"}
      /\ UNCHANGED <<request, resp>> /\ At' = At
  BY <1>0, FaultCopy DEF At
<1>2. request.fault = -1
  BY <1>1 DEF Blamed
<1>3. \A p \in Page : Mprotected[p] = "unmapped" <=> prot[p] = "unmapped"
  <2>. SUFFICES ASSUME NEW p \in Page
                PROVE  Mprotected[p] = "unmapped" <=> prot[p] = "unmapped"
    OBVIOUS
  <2>1. p <= p
    BY DEF Page
  <2>2. p \in Granted /\ ~Refused(p) => prot[p] # "unmapped"
    BY <2>1 DEF Refused
  <2>. QED  BY <2>2 DEF Mprotected
<1>4. Unmapped(PageOf(At))' <=> Unmapped(PageOf(At))
  BY <1>1, <1>3 DEF Fault, decode_memory_access_event, Unmapped
<1>5. copy'.cut => failed_si_code' = si_code(PageOf(At))
  <2>. DEFINE aborts == ~(si_code(PageOf(At)) = SEGV_ACCERR) \/ mprotect_fails
  <2>1. /\ copy' = [copy EXCEPT !.cut = aborts]
        /\ aborts => failed_si_code' = si_code(PageOf(At))
    BY Zenon DEF Fault, decode_memory_access_event
  <2>2. "cut" \in DOMAIN copy
    BY DEF TypeOK, Copy
  <2>. HIDE DEF aborts
  <2>. QED  BY <2>1, <2>2
<1>6. si_code(PageOf(At)) = SEGV_MAPERR <=> Unmapped(PageOf(At))
  BY DEF si_code, SEGV_MAPERR, SEGV_ACCERR, BUS_ADRERR
<1>7. copy'.cut => (failed_si_code' = SEGV_MAPERR <=> Unmapped(PageOf(At))')
  BY <1>4, <1>5, <1>6
<1>. QED  BY <1>1, <1>2, <1>7 DEF Blamed

\* An access that ends blames the page at which it faulted.
LEMMA FinishBlamed ==
    ASSUME TypeOK, IInv, Blamed, NEW restored \in BOOLEAN, Finish(restored)
    PROVE  Blamed'
<1>. DEFINE f == IF copy.cut THEN At ELSE -1
            l == copy.cut /\ ~aborting
<1>1. /\ at = "copying" /\ at' = "stopped" /\ prot' = prot
      /\ request.kind \in {"read", "write", "next"}
      /\ request' = [request EXCEPT !.fault = f, !.lost = l]
      /\ {"fault", "lost"} \subseteq DOMAIN request
  BY DEF Finish, EndCopy, IInv, CopyOfRequest
<1>2. PICK d : resp' = Reply(Result(restored), d)
  BY Zenon DEF Finish
<1>3. ASSUME copy.cut, resp'.kind # "next"
      PROVE  IF resp'.ok THEN l
             ELSE resp'.why = "not mapped" <=> Unmapped(PageOf(At))
  <2>1. CASE resp'.ok
    BY <1>1, <1>2, <1>3, <2>1 DEF Reply, Result, Failure
  <2>2. CASE ~resp'.ok
    <3>1. resp'.why = get_mem_errstr
      BY <1>1, <1>2, <1>3, <2>2 DEF Reply, Success, Failure
    <3>. QED  BY <1>1, <1>3, <2>2, <3>1 DEF get_mem_errstr, Blamed
  <2>. QED  BY <2>1, <2>2
<1>4. f # -1 => copy.cut /\ f = At
  OBVIOUS
<1>. HIDE DEF f, l
<1>5. request'.fault = f /\ request'.lost = l
  BY <1>1
<1>. QED  BY <1>1, <1>3, <1>4, <1>5 DEF Blamed, Unmapped

\* Every step keeps the blame where it belongs.
LEMMA NextBlamed == ASSUME TypeOK, IInv, Blamed, [Next]_vars PROVE Blamed'
<1>1. ASSUME request'.fault = -1, at' # "copying" \/ ~copy'.cut PROVE Blamed'
  BY <1>1 DEF Blamed
<1>2. ASSUME NEW r, Answer(r), at = "stopped" PROVE Blamed'
  BY <1>1, <1>2 DEF Answer, NoRequest
<1>3. ASSUME NEW kind, NEW op, NEW a, NEW n, NEW data, NEW asked, at = "stopped",
             Access(kind, op, a, n, data, asked)
      PROVE  Blamed'
  <2>1. StartCopy(op, a, n, data) => ~copy'.cut
    BY DEF StartCopy
  <2>2. at' = "stopped" \/ ~copy'.cut
    BY <1>3, <2>1 DEF Access
  <2>3. request'.fault = -1
    <3>1. CASE request' = [kind |-> kind, addr |-> a, size |-> n, data |-> asked,
                           old |-> byte, fault |-> -1, lost |-> FALSE]
      BY <3>1
    <3>2. CASE request' = NoRequest
      BY <3>2 DEF NoRequest
    <3>. QED  BY <1>3, <3>1, <3>2 DEF Access
  <2>. QED  BY <1>1, <2>2, <2>3
<1>4. CASE Copies
  <2>1. /\ at = "copying" /\ ~copy.cut /\ request' = request
    BY <1>4 DEF Copies, CopyByte, Copying, stopVars
  <2>2. copy'.cut = copy.cut
    <3>. DEFINE d == Append(copy.data, byte[At])
    <3>1. \/ copy' = [copy EXCEPT !.i = @ + 1, !.data = d]
          \/ copy' = [copy EXCEPT !.i = @ + 1]
      BY <1>4 DEF Copies, CopyByte
    <3>. HIDE DEF d
    <3>. QED  BY <3>1 DEF TypeOK, Copy
  <2>. QED  BY <1>1, <2>1, <2>2 DEF Blamed
<1>5. CASE ReadUnallocated \/ Continue
  BY <1>1, <1>5 DEF ReadUnallocated, Continue, NoRequest
<1>6. CASE Planted \/ FaultUnmarked
  BY <1>1, <1>6 DEF Planted, FaultUnmarked, Blamed
<1>7. CASE Stop
  BY <1>7 DEF Stop, Blamed, memVars, Unmapped
<1>8. CASE UNCHANGED vars
  BY <1>8 DEF vars, memVars, stopVars, Blamed, Unmapped, At
<1>9. ASSUME NEW a, NEW n, Read(a, n) PROVE Blamed'
  BY <1>3, <1>9 DEF Read
<1>10. ASSUME NEW a, NEW d, Write(a, d) PROVE Blamed'
  BY <1>3, <1>10 DEF Write
<1>11. ASSUME NEW reg, ReadRegister(reg) \/ \E v : WriteRegister(reg, v) PROVE Blamed'
  BY <1>2, <1>11 DEF ReadRegister, WriteRegister
<1>12. CASE NextInstruction
  BY <1>2, <1>3, <1>12 DEF NextInstruction
<1>13. ASSUME NEW setting, SingleStep(setting) PROVE Blamed'
  BY <1>2, <1>13 DEF SingleStep
<1>. QED
  BY <1>4, <1>5, <1>6, <1>7, <1>8, <1>9, <1>10, <1>11, <1>12, <1>13,
     FaultBlamed, FinishBlamed DEF Next

-----------------------------------------------------------------------------
(* The next instruction.                                                   *)

\* The 64 bit registers have the names of their elements of gregs.
LEMMA WideNames == \A b \in Greg \ {"CSGSFS"} : get_reg_context_offset(b) = b
<1>1. ASSUME NEW b \in {"RAX", "RCX", "RDX", "RBX", "RIP", "RSP"}
      PROVE  get_reg_context_offset(b) = b
  BY <1>1 DEF get_reg_context_offset
<1>2. ASSUME NEW b \in {"RBP", "RSI", "RDI", "R8", "R9", "R10"}
      PROVE  get_reg_context_offset(b) = b
  BY <1>2 DEF get_reg_context_offset
<1>3. ASSUME NEW b \in {"R11", "R12", "R13", "R14", "R15"}
      PROVE  get_reg_context_offset(b) = b
  BY <1>3 DEF get_reg_context_offset
<1>. QED  BY <1>1, <1>2, <1>3 DEF Greg

\* get_ctf_successor agrees with the processor on what it can determine.
LEMMA SuccessorRight ==
    ASSUME NEW ctx \in Context, NEW insn \in Instruction, NEW words,
           insn.mnemonic # "ret", Predictable(insn, ctx)
    PROVE  get_ctf_successor(insn, get_pc(ctx), ctx) = Executes(insn, ctx, words)
<1>. DEFINE next == (get_pc(ctx) + insn.len) % W64
            m == insn.mnemonic
            t == Taken(insn.mnemonic, ctx.flags, ctx.gregs["RCX"])
            jumps == m \in {"call", "jmp"} \/ (m \in Conditional /\ t)
<1>1. m \in Conditional => (ctf_condition_met(m, ctx) <=> t)
  BY ConditionRight DEF Predictable
<1>2. m \notin Conditional => ~t
  BY DEF Taken, Conditional, Signed
<1>3. /\ jumps => get_ctf_successor(insn, get_pc(ctx), ctx)
                      = compute_target(insn.op, next, ctx)
      /\ ~jumps => get_ctf_successor(insn, get_pc(ctx), ctx) = next
  BY <1>1, Zenon DEF get_ctf_successor
<1>4. /\ jumps => Executes(insn, ctx, words) = Target(insn.op, next, ctx, words)
      /\ ~jumps => Executes(insn, ctx, words) = next
  BY <1>2, Zenon DEF Executes, get_pc
<1>5. ASSUME jumps
      PROVE  compute_target(insn.op, next, ctx) = Target(insn.op, next, ctx, words)
  <2>1. insn.op.type \in {"REG", "JIMM"}
    BY <1>5 DEF Predictable
  <2>2. CASE insn.op.type = "REG"
    <3>1. insn.op.base \in Greg \ {"CSGSFS"}
      BY <1>5, <2>2 DEF Instruction
    <3>2. get_register_ud_type(insn.op.base, ctx) = ctx.gregs[insn.op.base]
      BY <3>1, WideNames DEF get_register_ud_type
    <3>. QED  BY <2>2, <3>2 DEF compute_target, Target
  <2>3. CASE insn.op.type = "JIMM"
    BY <2>3 DEF compute_target, Target, compute_relative_location
  <2>. QED  BY <2>1, <2>2, <2>3
<1>. QED  BY <1>3, <1>4, <1>5

\* The copy for the next instruction is that of the word a ret pops.
StackCopy ==
    /\ get_pc(wanted) \in DOMAIN code
    /\ code[get_pc(wanted)].mnemonic = "ret"
    /\ copy.addr = wanted.gregs["RSP"] /\ copy.size = WordSize
    /\ Len(copy.data) = copy.i
    /\ \A k \in 1 .. copy.i : /\ copy.addr + k - 1 \in Addr
                              /\ copy.data[k] = byte[copy.addr + k - 1]

NextInv ==
    /\ \A a \in DOMAIN code : code[a] \in Instruction
    /\ at = "running" => resp.kind = "none"
    /\ at = "copying" /\ request.kind = "next" => StackCopy
    /\ NextTrue

\* A step that answers nothing, or another request, or fails.
LEMMA OtherNext ==
    ASSUME NextInv, code' = code, resp'.kind # "next" \/ ~resp'.ok \/ request'.lost,
           at' = "running" => resp'.kind = "none",
           at' = "copying" /\ request'.kind = "next" => StackCopy'
    PROVE  NextInv'
  BY DEF NextInv, NextTrue

\* An access that starts reads the stack when the next instruction is asked for.
LEMMA AccessNext ==
    ASSUME TypeOK, NextInv, at = "stopped", NEW kind \in {"read", "write", "next"},
           NEW op, NEW a, NEW n, NEW data, NEW asked,
           Access(kind, op, a, n, data, asked),
           kind = "next" =>
             /\ get_pc(wanted) \in DOMAIN code
             /\ code[get_pc(wanted)].mnemonic = "ret"
             /\ a = wanted.gregs["RSP"] /\ n = WordSize /\ data = <<>>
    PROVE  NextInv'
<1>1. code' = code /\ wanted' = wanted
  BY DEF Access
<1>2. CASE /\ StartCopy(op, a, n, data)
           /\ at' = "copying"
           /\ request' = [kind |-> kind, addr |-> a, size |-> n, data |-> asked,
                          old |-> byte, fault |-> -1, lost |-> FALSE]
           /\ resp' = NoResp
  <2>1. resp'.kind = "none" /\ request'.kind = kind
    BY <1>2 DEF NoResp
  <2>2. /\ copy'.addr = a /\ copy'.size = n /\ copy'.i = 0 /\ copy'.data = data
    BY <1>2 DEF StartCopy
  <2>3. ASSUME kind = "next" PROVE StackCopy'
    <3>1. Len(copy'.data) = 0 /\ 1 .. copy'.i = {}
      BY <2>2, <2>3
    <3>2. get_pc(wanted') \in DOMAIN code' /\ code'[get_pc(wanted')].mnemonic = "ret"
      BY <1>1, <2>3
    <3>3. copy'.addr = wanted'.gregs["RSP"] /\ copy'.size = WordSize
      BY <1>1, <2>2, <2>3
    <3>. QED  BY <2>2, <3>1, <3>2, <3>3, ZenonT(60) DEF StackCopy
  <2>. QED  BY <1>1, <1>2, <2>1, <2>3, OtherNext
<1>3. CASE (\E why : resp' = Failure(kind, why)) /\ UNCHANGED at
  <2>1. ~resp'.ok
    <3>1. PICK why : resp' = Failure(kind, why)
      BY <1>3
    <3>2. ~Failure(kind, why).ok
      BY Kinds
    <3>. QED  BY <3>1, <3>2, Zenon
  <2>. QED  BY <1>1, <1>3, <2>1, OtherNext
<1>. QED  BY <1>2, <1>3, Zenon DEF Access

\* A reply that tells no next instruction keeps the invariant.
LEMMA AnswerNext ==
    ASSUME NextInv, at = "stopped", NEW r, Answer(r), r.kind # "next" \/ ~r.ok
    PROVE  NextInv'
  BY OtherNext DEF Answer

\* next_instr_handler, with the context of the stop.
LEMMA RequestNext ==
    ASSUME TypeOK, IInv, NextInv, NextInstruction
    PROVE  NextInv'
<1>. DEFINE pc == get_pc(context)
            decoded == pc \in DOMAIN code
            successor == get_ctf_successor(code[pc], pc, context)
<1>1. at = "stopped" /\ (context_valid => context = wanted)
  BY DEF NextInstruction, IInv, RegistersKept
<1>2. CASE context_valid /\ decoded /\ code[pc].mnemonic = "ret"
  <2>1. Access("next", "read", context.gregs["RSP"], WordSize, <<>>, <<>>)
    BY <1>2 DEF NextInstruction
  <2>. QED  BY <1>1, <1>2, <2>1, AccessNext
<1>3. CASE /\ context_valid /\ decoded /\ code[pc].mnemonic # "ret"
           /\ Answer(Success("next", <<successor>>)) /\ UNCHANGED wanted
  <2>1. /\ code' = code /\ live' = live /\ byte' = byte /\ at' = "stopped"
        /\ resp'.value = <<successor>>
    BY <1>1, <1>3 DEF Answer, Success, memVars
  <2>2. code[pc] \in Instruction
    BY <1>3 DEF NextInv
  <2>3. ASSUME wanted = live, Predictable(code[get_pc(live)], live)
        PROVE  successor = Executes(code[get_pc(live)], live, Words)
    <3>1. context = live /\ live \in Context
      BY <1>1, <1>3, <2>3 DEF TypeOK
    <3>. QED  BY <1>3, <2>2, <2>3, <3>1, SuccessorRight
  <2>4. Words' = Words
    BY <2>1 DEF Words
  <2>. HIDE DEF successor
  <2>5. NextTrue'
    BY <1>3, <2>1, <2>3, <2>4 DEF NextTrue
  <2>. QED  BY <2>1, <2>5 DEF NextInv
<1>4. CASE \E why : Answer(Failure("next", why))
  BY <1>1, <1>4, AnswerNext DEF Failure
<1>. QED  BY <1>2, <1>3, <1>4 DEF NextInstruction

\* What a copy has read from the stack stays a part of the word there.
LEMMA CopiesNext == ASSUME TypeOK, IInv, NextInv, Copies PROVE NextInv'
<1>1. /\ at = "copying" /\ CopyOfRequest /\ copy \in Copy /\ Permits(copy.op, PageOf(At))
      /\ UNCHANGED stopVars
  BY DEF Copies, CopyByte, IInv, TypeOK, stopVars
<1>2. ASSUME request.kind = "next" PROVE StackCopy'
  <2>1. StackCopy /\ copy.op = "read" /\ copy.i \in Nat /\ copy.addr \in Nat
        /\ copy.data \in Seq(Byte)
    BY <1>1, <1>2 DEF NextInv, CopyOfRequest, Copy
  <2>2. At \in Addr /\ byte[At] \in Byte
    BY <1>1, PageAddr DEF Permits, At, Copy, TypeOK
  <2>. DEFINE b == byte[At]
              d == Append(copy.data, b)
  <2>3. copy' = [copy EXCEPT !.i = @ + 1, !.data = d] /\ byte' = byte
    BY <2>1 DEF Copies, CopyByte
  <2>4. At = copy.addr + (copy.i + 1) - 1 /\ b \in Byte
    BY <2>1, <2>2 DEF At
  <2>5. At \in Addr /\ b = byte[At]
    BY <2>2
  <2>. HIDE DEF b
  <2>6. /\ Len(d) = copy.i + 1
        /\ \A k \in 1 .. copy.i : d[k] = copy.data[k]
        /\ d[copy.i + 1] = b
    BY <2>1, <2>4 DEF StackCopy
  <2>. HIDE DEF d
  <2>7. /\ copy'.i = copy.i + 1 /\ copy'.data = d /\ copy'.addr = copy.addr
        /\ copy'.size = copy.size
    BY <1>1, <2>3 DEF Copy
  <2>8. \A k \in 1 .. copy.i + 1 : /\ copy.addr + k - 1 \in Addr
                                   /\ d[k] = byte[copy.addr + k - 1]
    BY <2>1, <2>4, <2>5, <2>6 DEF StackCopy
  <2>. QED  BY <1>1, <2>1, <2>3, <2>6, <2>7, <2>8 DEF StackCopy, stopVars
<1>3. /\ at' = at /\ code' = code /\ request' = request /\ resp' = resp
      /\ resp.kind = "none"
  BY <1>1 DEF stopVars, CopyOfRequest
<1>. QED  BY <1>1, <1>2, <1>3, OtherNext

\* The word read from the stack is where a return goes.
LEMMA FinishNext ==
    ASSUME TypeOK, IInv, NextInv, NEW restored \in BOOLEAN, Finish(restored)
    PROVE  NextInv'
<1>1. /\ at = "copying" /\ at' = "stopped" /\ CopyOfRequest
      /\ UNCHANGED <<byte, code, wanted, live>>
      /\ copy.cut \/ copy.i = copy.size
  BY DEF Finish, EndCopy, IInv, Ended
<1>a. PICK rest \in Uncopied : resp' = Reply(Result(restored), copy.data \o rest)
  BY DEF Finish
<1>b. request'.lost = (copy.cut /\ ~aborting)
  <2>. DEFINE f == IF copy.cut THEN At ELSE -1
              l == copy.cut /\ ~aborting
  <2>1. request' = [request EXCEPT !.fault = f, !.lost = l] /\ "lost" \in DOMAIN request
    BY <1>1 DEF Finish, CopyOfRequest
  <2>. HIDE DEF f, l
  <2>2. request'.lost = l
    BY <2>1
  <2>. QED  BY <2>2 DEF l
<1>2. CASE resp'.kind = "next" /\ resp'.ok /\ ~request'.lost
  <2>1. /\ request.kind = "next" /\ ~aborting /\ copy.i = copy.size
        /\ resp'.value = <<WordOf(copy.data \o rest)>>
    BY <1>1, <1>2, <1>a, <1>b DEF Reply, Result, Success, Failure
  <2>2. StackCopy /\ copy.i = WordSize /\ copy.addr \in Nat /\ copy.data \in Seq(Byte)
    BY <1>1, <2>1 DEF NextInv, StackCopy, TypeOK, Copy
  <2>w. WordOf(copy.data \o rest) = WordOf(copy.data)
    <3>1. copy.size - copy.i = 0
      BY <2>1, <2>2 DEF WordSize
    <3>2. rest = <<>>
      BY <2>1, <3>1 DEF Uncopied
    <3>. QED  BY <2>2, <3>2
  <2>3. /\ copy.addr \in Addr /\ copy.addr + 1 \in Addr
        /\ copy.data[1] = byte[copy.addr] /\ copy.data[2] = byte[copy.addr + 1]
    <3>1. /\ copy.addr + 1 - 1 \in Addr /\ copy.data[1] = byte[copy.addr + 1 - 1]
          /\ copy.addr + 2 - 1 \in Addr /\ copy.data[2] = byte[copy.addr + 2 - 1]
      BY <2>2 DEF StackCopy, WordSize
    <3>2. copy.addr + 1 - 1 = copy.addr /\ copy.addr + 2 - 1 = copy.addr + 1
      BY <2>2
    <3>. QED  BY <3>1, <3>2
  <2>4. copy.addr \in 0 .. PageSize * NumPages - WordSize
    <3>1. PageSize * NumPages \in Nat
      BY MemoryAssumption
    <3>. QED  BY <2>2, <2>3, <3>1 DEF Addr, WordSize
  <2>5. Words[copy.addr] = WordOf(copy.data)
    <3>. DEFINE w == [k \in 1 .. WordSize |-> byte[copy.addr + k - 1]]
    <3>1. Words[copy.addr] = WordOf(w)
      BY <2>4 DEF Words
    <3>2. w[1] = byte[copy.addr] /\ w[2] = byte[copy.addr + 1]
      <4>1. w[1] = byte[copy.addr + 1 - 1] /\ w[2] = byte[copy.addr + 2 - 1]
        BY DEF WordSize
      <4>2. copy.addr + 1 - 1 = copy.addr /\ copy.addr + 2 - 1 = copy.addr + 1
        BY <2>2
      <4>. QED  BY <4>1, <4>2
    <3>. HIDE DEF w
    <3>. QED  BY <2>3, <3>1, <3>2 DEF WordOf
  <2>6. wanted = live =>
          Executes(code[get_pc(live)], live, Words) = WordOf(copy.data)
    BY <2>2, <2>5 DEF StackCopy, Executes
  <2>7. Words' = Words
    BY <1>1 DEF Words
  <2>8. NextTrue'
    BY <1>1, <2>1, <2>6, <2>7, <2>w DEF NextTrue
  <2>. QED  BY <1>1, <2>8 DEF NextInv
<1>3. CASE ~(resp'.kind = "next" /\ resp'.ok /\ ~request'.lost)
  BY <1>1, <1>3, OtherNext
<1>. QED  BY <1>2, <1>3

\* Every step keeps the invariant of the next instruction.
LEMMA NextNext == ASSUME TypeOK, IInv, NextInv, [Next]_vars PROVE NextInv'
<1>1. ASSUME NEW a, NEW n, Read(a, n) PROVE NextInv'
  BY <1>1, AccessNext DEF Read
<1>2. ASSUME NEW a, NEW d, Write(a, d) PROVE NextInv'
  BY <1>2, AccessNext DEF Write
<1>3. CASE ReadUnallocated \/ Continue
  BY <1>3, OtherNext DEF ReadUnallocated, Continue, NoResp
<1>4. ASSUME NEW reg, ReadRegister(reg) \/ \E v : WriteRegister(reg, v) PROVE NextInv'
  BY <1>4, AnswerNext DEF ReadRegister, WriteRegister, Success, Failure
<1>5. ASSUME NEW setting, SingleStep(setting) PROVE NextInv'
  BY <1>5, AnswerNext DEF SingleStep, Success
<1>6. CASE Fault
  <2>1. PICK c \in BOOLEAN : copy' = [copy EXCEPT !.cut = c]
    BY <1>6, FaultCopy
  <2>2. /\ at = "copying" /\ at' \in {"copying", "planted"} /\ CopyOfRequest
        /\ UNCHANGED <<byte, code, live, resp, request, wanted>>
    BY <1>6, FaultCopy DEF IInv
  <2>3. UNCHANGED <<copy.addr, copy.size, copy.i, copy.data>>
    BY <2>1
  <2>4. resp'.kind = "none"
    BY <2>2 DEF CopyOfRequest
  <2>5. request.kind = "next" => StackCopy'
    BY <2>2, <2>3 DEF NextInv, StackCopy
  <2>. QED  BY <2>2, <2>4, <2>5, OtherNext
<1>7. CASE Planted \/ FaultUnmarked
  BY <1>7 DEF Planted, FaultUnmarked, NextInv, NextTrue, Words, memVars
<1>8. CASE Stop
  BY <1>8, OtherNext DEF Stop, NextInv
<1>9. CASE UNCHANGED vars
  BY <1>9 DEF vars, memVars, stopVars, NextInv, NextTrue, StackCopy, Words
<1>. QED
  BY <1>1, <1>2, <1>3, <1>4, <1>5, <1>6, <1>7, <1>8, <1>9,
     RequestNext, CopiesNext, FinishNext DEF Next

-----------------------------------------------------------------------------

\* A read returns what memory holds and a write changes the bytes it names,
\* in order and no others: the loop of abortable_memcpy and the handler that
\* interrupts it repeat or add nothing, for every page layout, request and
\* failure.  They lose the rest of an aborted copy that is answered with
\* success only if the thread is single stepped (udirt.c:91).
THEOREM AccessIsExact == Spec => []AccessExact
<1>1. IInv => AccessExact  BY DEF IInv
<1>. QED  BY <1>1, SpecIInv, PTL

\* performing_mem_access, aborting_mem_access and the open signal mask never
\* outlive the request they belong to, and a copy runs without the first only
\* in a single stepped thread, up to its abort or after a failure of a hook.
THEOREM AccessIsClosed == Spec => []AccessClosed
<1>1. IInv => AccessClosed  BY DEF IInv
<1>. QED  BY <1>1, SpecIInv, PTL

\* The context the register requests use is the one of the stop, with the
\* debugger's own changes, however often the library faults in between.
THEOREM RegistersAreKept == Spec => []RegistersKept
<1>1. IInv => RegistersKept  BY DEF IInv
<1>. QED  BY <1>1, SpecIInv, PTL

\* The types always hold.
LEMMA SpecType == Spec => []TypeOK
<1>1. Init => TypeOK
  <2>. SUFFICES ASSUME Init PROVE TypeOK
    OBVIOUS
  <2>1. /\ prot \in [Page -> Prot] /\ byte \in [Addr -> Byte] /\ live \in Context
        /\ continue_bp \in BOOLEAN
    BY InspectAssumption DEF Init
  <2>2. NoCopy \in Copy
    BY EmptySeq DEF NoCopy, Copy, Op
  <2>3. resp.kind = "none" /\ request.kind = "none" /\ request.lost = FALSE
    BY DEF Init, NoResp, NoRequest
  <2>4. context \in Context /\ wanted \in Context /\ copy \in Copy
    BY <2>1, <2>2 DEF Init
  <2>5. /\ performing = FALSE /\ aborting = FALSE /\ open = FALSE
        /\ at = "stopped" /\ context_valid = TRUE
        /\ single_step = FALSE /\ faulted = FALSE
    BY DEF Init
  <2>6. failed_si_code \in 0 .. 2
    BY DEF Init
  <2>. QED  BY <2>1, <2>3, <2>4, <2>5, <2>6, Zenon DEF TypeOK
<1>2. IInv /\ IInv' /\ TypeOK /\ [Next]_vars => TypeOK'
  BY NextType
<1>. QED  BY <1>1, <1>2, SpecIInv, PTL DEF Spec

\* The types hold, and an aborted access fails and says "not mapped" exactly if
\* its byte is not mapped (udirt-posix.c:116), for every page layout and every
\* earlier failure, unless its abort has been lost.
THEOREM FailuresAreExplained == Spec => []FailureExplained
<1>1. Init => Blamed
  BY DEF Init, Blamed, NoRequest
<1>2. IInv /\ TypeOK /\ Blamed /\ [Next]_vars => Blamed'
  BY NextBlamed
<1>3. TypeOK /\ Blamed => FailureExplained
  BY DEF Blamed, FailureExplained
<1>. QED  BY <1>1, <1>2, <1>3, SpecIInv, SpecType, PTL DEF Spec

\* The next instruction answered to the debugger is the one the processor
\* executes (udirt-x86.c:280), for every instruction get_ctf_successor can
\* determine, every context and every content of the stack, as long as no
\* register has been written and the read of the stack has not lost its abort.
THEOREM NextIsTrue == Spec => []NextTrue
<1>1. Init => NextInv
  <2>. SUFFICES ASSUME Init PROVE NextInv
    OBVIOUS
  <2>1. \A a \in DOMAIN code : code[a] \in Instruction
    BY InspectAssumption DEF Init
  <2>. QED  BY <2>1 DEF Init, NextInv, NextTrue, NoResp
<1>2. IInv /\ TypeOK /\ NextInv /\ [Next]_vars => NextInv'
  BY NextNext
<1>3. NextInv => NextTrue
  BY DEF NextInv
<1>. QED  BY <1>1, <1>2, <1>3, SpecIInv, SpecType, PTL DEF Spec

=============================================================================
