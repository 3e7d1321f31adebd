------------------------------- MODULE Inspect -------------------------------
(***************************************************************************)
(* A stopped thread and the requests that look into it: read and write     *)
(* memory, read and write a register, next instruction, single step        *)
(* (udirt-msg.c), and the signal handler that copies the registers at a    *)
(* stop and is entered again by a fault of the library (udirt-posix.c).    *)
(* It composes MemAccess, the instruction decoding of X86 and the register *)
(* access of udirt-linux-x86.c.                                            *)
(*                                                                         *)
(* The program is reduced to the instruction it is stopped at: it comes    *)
(* back to it, with the same registers, whenever it is continued.          *)
(***************************************************************************)
EXTENDS MemAccess, X86

CONSTANTS
    Programs,     \* where the process may be stopped: code, registers, pages,
                  \* and the kinds of requests it is asked there
    MemRequests,  \* the <<address, length>> the debugger asks for
    Data,         \* the byte strings it writes, by length
    Registers,    \* the registers it names, as numbers of the protocol
    Settings      \* Settings[reg]: the values it writes into reg

Context == [gregs: [Greg -> Word], flags: SUBSET Flag]

ASSUME InspectAssumption ==
    /\ \A p \in Programs :
         /\ p.prot \in [Page -> Prot] /\ p.byte \in [Addr -> Byte]
         /\ p.context \in Context /\ p.at_breakpoint \in BOOLEAN
         /\ \A a \in DOMAIN p.code : p.code[a] \in Instruction
    /\ \A r \in MemRequests :
         r[1] \in Addr /\ r[2] \in Nat /\ r[1] + r[2] <= PageSize * NumPages
    /\ \A d \in Data : d \in Seq(Byte)
    /\ \A reg \in Registers : Settings[reg] \subseteq Word

VARIABLES
    at,             \* what the thread is doing
    code,           \* the instruction at an address
    live,           \* the context the thread resumes with
    context,        \* thr->event_state.context
    context_valid,  \* thr->event_state.context_valid
    single_step,    \* thr->single_step
    continue_bp,    \* continue_bp # NULL: stopped at a breakpoint
    resp,           \* the last response
    request,        \* the memory request being served, or just answered
    asks,           \* what the debugger asks for
    wanted,         \* the registers as the debugger has set them
    faulted         \* a copy has faulted since the stop

stopVars == <<at, code, live, context, context_valid, single_step,
              continue_bp, resp, request, asks, wanted, faulted>>
vars == <<memVars, stopVars>>

-----------------------------------------------------------------------------
(* Registers: the numbers of udi_register_e and their place in a context.  *)

UDI_X86_64_MIN == 26
UDI_X86_64_MAX == 70

\* UDI_X86_64_R8 up to UDI_X86_64_CSGSFS, then UDI_X86_64_FLAGS.
GpName == <<"R8", "R9", "R10", "R11", "R12", "R13", "R14", "R15", "RDI", "RSI",
            "RBP", "RBX", "RDX", "RAX", "RCX", "RSP", "RIP", "CSGSFS">>
UDI_X86_64_FLAGS == 45

is_gp_register(reg) == reg \in 1 .. 16 \/ reg \in 27 .. UDI_X86_64_FLAGS

is_fp_register(reg) == reg \in 17 .. 24 \/ reg \in 46 .. 69

\* validate_register, with get_architecture() = UDI_ARCH_X86_64
validate_register(reg) == UDI_X86_64_MIN < reg /\ reg < UDI_X86_64_MAX

\* get_udi_reg_context_offset: the place in gregs, -1 for a floating point
\* register and for the 32 bit ones a 64 bit context lacks, -2 for no register.
get_udi_reg_context_offset(reg) ==
    IF is_gp_register(reg) THEN IF reg > UDI_X86_64_MIN THEN reg - 27 ELSE -1
    ELSE IF is_fp_register(reg) THEN -1 ELSE -2

\* The flags register as a number, and back.
FlagsWord(flags) == And("CF", flags) + And("PF", flags) + And("ZF", flags)
                    + And("SF", flags) + And("OF", flags)

FlagsOf(v) == {f \in Flag : (v \div FlagMask[f]) % 2 = 1}

\* get_register fails for what it does not know and, get_fp_register being
\* unfinished, for every floating point register.
Readable(reg) == validate_register(reg) /\ get_udi_reg_context_offset(reg) >= 0

get_register(reg, ctx) ==
    IF reg = UDI_X86_64_FLAGS THEN FlagsWord(ctx.flags) ELSE ctx.gregs[GpName[reg - 26]]

\* set_register accepts a floating point register and leaves it alone.
Writable(reg) == validate_register(reg) /\ get_udi_reg_context_offset(reg) >= -1

set_register(reg, v, ctx) ==
    IF get_udi_reg_context_offset(reg) < 0 THEN ctx
    ELSE IF reg = UDI_X86_64_FLAGS THEN [ctx EXCEPT !.flags = FlagsOf(v)]
    ELSE [ctx EXCEPT !.gregs[GpName[reg - 26]] = v]

-----------------------------------------------------------------------------

\* What the registers hold inside the library.
LibraryContext == [gregs |-> [g \in Greg |-> 0], flags |-> {}]

NoResp == [kind |-> "none", ok |-> TRUE, value |-> <<>>, why |-> "none"]

Success(kind, v) == [kind |-> kind, ok |-> TRUE, value |-> v, why |-> "none"]

Failure(kind, why) == [kind |-> kind, ok |-> FALSE, value |-> <<>>, why |-> why]

NoRequest == [kind |-> "none", addr |-> 0, size |-> 0, data |-> <<>>,
              old |-> <<>>, fault |-> -1, lost |-> FALSE]

TypeOK ==
    /\ prot \in [Page -> Prot]
    /\ byte \in [Addr -> Byte]
    /\ performing \in BOOLEAN /\ aborting \in BOOLEAN /\ open \in BOOLEAN
    /\ failed_si_code \in 0 .. 2
    /\ copy \in Copy
    /\ at \in {"stopped", "copying", "planted", "running", "killed", "wedged",
               "aborted"}
    /\ live \in Context /\ context \in Context /\ wanted \in Context
    /\ context_valid \in BOOLEAN /\ single_step \in BOOLEAN
    /\ continue_bp \in BOOLEAN /\ faulted \in BOOLEAN
    /\ resp.kind \in {"none", "read", "write", "read_register",
                      "write_register", "next", "single_step"}
    /\ request.kind \in {"none", "read", "write", "next"}
    /\ request.lost \in BOOLEAN

Init ==
    /\ \E p \in Programs :
         /\ prot = p.prot
         /\ byte = p.byte
         /\ code = p.code
         /\ live = p.context
         /\ continue_bp = p.at_breakpoint
         /\ asks = p.asks
    /\ performing = FALSE /\ aborting = FALSE /\ open = FALSE
    /\ failed_si_code = 0
    /\ copy = NoCopy
    /\ at = "stopped"
    /\ context = live /\ context_valid = TRUE
    /\ single_step = FALSE
    /\ resp = NoResp /\ request = NoRequest
    /\ wanted = live
    /\ faulted = FALSE

-----------------------------------------------------------------------------
(* Requests.                                                               *)

\* A request that ends without touching memory.
Answer(r) ==
    /\ resp' = r
    /\ request' = NoRequest
    /\ UNCHANGED <<memVars, at, code, live, context_valid, continue_bp, asks,
                   faulted>>

\* A request that needs a copy: it starts, or its first hook fails.  n bytes
\* were asked for, and data is what the library has been able to store.
Access(kind, op, a, n, data, asked) ==
    /\ \/ /\ StartCopy(op, a, n, data)
          /\ at' = "copying"
          /\ request' = [kind |-> kind, addr |-> a, size |-> n, data |-> asked,
                         old |-> byte, fault |-> -1, lost |-> FALSE]
          /\ resp' = NoResp
       \/ /\ PreHookFails
          /\ resp' = Failure(kind, IF kind = "next" THEN "no successor"
                                   ELSE get_mem_errstr)
          /\ request' = NoRequest
          /\ UNCHANGED at
    /\ UNCHANGED <<code, live, context, context_valid, single_step, continue_bp,
                   asks, wanted, faulted>>

\* read_handler
Read(a, n) ==
    /\ at = "stopped"
    /\ Access("read", "read", a, n, <<>>, <<>>)

\* read_handler without a buffer: an error, which ends the process.
ReadUnallocated ==
    /\ at = "stopped"
    /\ "alloc" \in Fails
    /\ at' = "aborted"
    /\ resp' = NoResp
    /\ request' = NoRequest
    /\ UNCHANGED <<memVars, code, live, context, context_valid, single_step,
                   continue_bp, asks, wanted, faulted>>

\* write_handler; write_data_callback stores nothing when it cannot allocate.
Write(a, data) ==
    /\ at = "stopped"
    /\ \/ Access("write", "write", a, Len(data), data, data)
       \/ "alloc" \in Fails /\ Access("write", "write", a, 0, <<>>, data)

\* read_register_handler
ReadRegister(reg) ==
    /\ at = "stopped"
    /\ Answer(IF ~context_valid THEN Failure("read_register", "unavailable")
              ELSE IF ~Readable(reg) THEN Failure("read_register", "invalid")
              ELSE Success("read_register", <<get_register(reg, context)>>))
    /\ UNCHANGED <<context, single_step, wanted>>

\* write_register_handler
WriteRegister(reg, v) ==
    /\ at = "stopped"
    /\ IF context_valid /\ Writable(reg)
       THEN /\ Answer(Success("write_register", <<>>))
            /\ context' = set_register(reg, v, context)
            /\ wanted' = set_register(reg, v, wanted)
       ELSE /\ Answer(Failure("write_register", IF context_valid THEN "invalid"
                                                ELSE "unavailable"))
            /\ UNCHANGED <<context, wanted>>
    /\ UNCHANGED single_step

WordSize == 2

\* next_instr_handler: the successor of a ret is on the stack.
NextInstruction ==
    LET pc == get_pc(context)
        sp == context.gregs["RSP"]
        decoded == pc \in DOMAIN code
        successor == get_ctf_successor(code[pc], pc, context)
    IN /\ at = "stopped"
       /\ IF context_valid /\ decoded /\ code[pc].mnemonic = "ret"
          THEN Access("next", "read", sp, WordSize, <<>>, <<>>)
          ELSE /\ Answer(IF ~context_valid THEN Failure("next", "unavailable")
                         ELSE IF ~decoded \/ successor = 0
                         THEN Failure("next", "no successor")
                         ELSE Success("next", <<successor>>))
               /\ UNCHANGED <<context, single_step, wanted>>

\* single_step_handler
SingleStep(setting) ==
    /\ at = "stopped"
    /\ single_step' = setting
    /\ Answer(Success("single_step", <<>>))
    /\ UNCHANGED <<context, wanted>>

-----------------------------------------------------------------------------
(* The copy, and the handler nested in it.                                 *)

Copies ==
    /\ at = "copying"
    /\ CopyByte
    /\ UNCHANGED stopVars

\* The flags as decode_memory_access_event leaves them.  So they are found by
\* the copy if the thread is not single stepped, if the breakpoint table has
\* an entry for the instruction behind the one the handler returns to (one an
\* earlier fault has left there, or the debugger's), and if the breakpoint or
\* the first hook of its installation fails.
Handled ==
    /\ aborting' = copy'.cut
    /\ UNCHANGED <<at, performing>>

\* signal_entry_impl sets a single step breakpoint behind the instruction it
\* returns to, which is in abortable_memcpy.  install_breakpoint copies with
\* the flags of the interrupted copy, and leaves performing_mem_access clear.
\* Its read consumes an abort and fails with it, and nothing is planted; it is
\* not planted either if one of the later hooks fails.
Stepped ==
    /\ single_step
    /\ performing' = FALSE
    /\ aborting' = FALSE
    /\ \/ copy'.cut /\ UNCHANGED at
       \/ ~copy'.cut /\ Fails # {} /\ UNCHANGED at
       \/ ~copy'.cut /\ at' = "planted"

\* Mutant: the handler leaves the context valid.
Fault_valid ==
    /\ at = "copying"
    /\ performing /\ Faults
    /\ decode_memory_access_event
    /\ context' = IF continue_bp THEN LibraryContext ELSE context
    /\ faulted' = TRUE
    /\ Handled \/ Stepped
    /\ UNCHANGED <<byte, open, code, live, context_valid, single_step,
                   continue_bp, resp, request, asks, wanted>>

\* signal_entry_impl for a fault of the copy; single_thread_executing() is true.
Fault ==
    /\ at = "copying"
    /\ performing /\ Faults
    /\ decode_memory_access_event
    /\ context' = IF continue_bp THEN LibraryContext ELSE context
    /\ context_valid' = FALSE
    /\ faulted' = TRUE
    /\ Handled \/ Stepped
    /\ UNCHANGED <<byte, open, code, live, single_step, continue_bp, resp,
                   request, asks, wanted>>

\* A fault while performing_mem_access is clear is taken for one of the
\* program: the handler waits for a request, and the debugger for the response.
FaultUnmarked ==
    /\ at = "copying"
    /\ ~performing /\ Faults
    /\ at' = "wedged"
    /\ UNCHANGED <<memVars, code, live, context, context_valid, single_step,
                   continue_bp, resp, request, asks, wanted, faulted>>

\* The thread runs into the breakpoint in abortable_memcpy with SIGTRAP
\* blocked, which kills the process, or faults once more before it.
Planted ==
    /\ at = "planted"
    /\ at' \in IF Faults THEN {"killed", "wedged"} ELSE {"killed"}
    /\ UNCHANGED <<memVars, code, live, context, context_valid, single_step,
                   continue_bp, resp, request, asks, wanted, faulted>>

\* The word read_memory has left in successor.
WordOf(data) == data[1] + 4 * data[2]

\* What the buffer holds behind the bytes copied: read_handler does not clear
\* the one it allocates, and successor is 0 in get_ctf_successor.
Uncopied ==
    LET n == copy.size - copy.i
    IN CASE request.kind = "read" -> [1 .. n -> Byte]
         [] request.kind = "next" -> {[k \in 1 .. n |-> 0]}
         [] OTHER -> {<<>>}

\* The rest of the handler: the response.
Reply(ok, data) ==
    CASE request.kind = "next" ->
            IF ok /\ WordOf(data) # 0 THEN Success("next", <<WordOf(data)>>)
            ELSE Failure("next", "no successor")
      [] request.kind = "read" ->
            IF ok THEN Success("read", data) ELSE Failure("read", get_mem_errstr)
      [] OTHER ->
            IF ok THEN Success("write", <<>>) ELSE Failure("write", get_mem_errstr)

\* udi_memcpy returns.  fault is where the copy was aborted; the abort is lost
\* when aborting_mem_access is no longer set at abort_label.
Finish(restored) ==
    /\ at = "copying"
    /\ Ended
    /\ EndCopy(restored)
    /\ at' = "stopped"
    /\ \E rest \in Uncopied : resp' = Reply(Result(restored), copy.data \o rest)
    /\ request' = [request EXCEPT !.fault = IF copy.cut THEN At ELSE -1,
                                  !.lost = copy.cut /\ ~aborting]
    /\ UNCHANGED <<code, live, context, context_valid, single_step, continue_bp,
                   asks, wanted, faulted>>

-----------------------------------------------------------------------------

\* continue_handler and the return from signal_entry_impl.  Nothing copies
\* event_state.context back.
Continue ==
    /\ at = "stopped"
    /\ at' = "running"
    /\ context_valid' = FALSE
    /\ resp' = NoResp
    /\ request' = NoRequest
    /\ UNCHANGED <<memVars, code, live, context, single_step, continue_bp,
                   asks, wanted, faulted>>

\* signal_entry_impl for a signal of the program: at a breakpoint or not.
Stop ==
    /\ at = "running"
    /\ at' = "stopped"
    /\ context' = live
    /\ context_valid' = TRUE
    /\ wanted' = live
    /\ faulted' = FALSE
    /\ continue_bp' \in BOOLEAN
    /\ UNCHANGED <<memVars, code, live, single_step, resp, request, asks>>

Next ==
    \/ /\ "memory" \in asks
       /\ \E r \in MemRequests :
            \/ Read(r[1], r[2])
            \/ \E d \in Data : Len(d) = r[2] /\ Write(r[1], d)
    \/ "memory" \in asks /\ ReadUnallocated
    \/ /\ "registers" \in asks
       /\ \E reg \in Registers :
            \/ ReadRegister(reg)
            \/ \E v \in Settings[reg] : WriteRegister(reg, v)
    \/ NextInstruction
    \/ "step" \in asks /\ \E setting \in BOOLEAN : SingleStep(setting)
    \/ Copies
    \/ Fault
    \/ FaultUnmarked
    \/ Planted
    \/ \E restored \in BOOLEAN : Finish(restored)
    \/ Continue
    \/ Stop

Spec == Init /\ [][Next]_vars

\* The thread in the handler keeps running.
FairSpec ==
    /\ Spec
    /\ WF_vars(Copies) /\ WF_vars(Fault \/ FaultUnmarked) /\ WF_vars(Planted)
    /\ WF_vars(\E restored \in BOOLEAN : Finish(restored))

-----------------------------------------------------------------------------
(* Properties.                                                             *)

\* Memory after the first k bytes of the request have been written.
Patched(k) == [a \in Addr |->
    IF request.addr <= a /\ a < request.addr + k
    THEN request.data[a - request.addr + 1] ELSE request.old[a]]

\* The bytes that an access answered with success has copied.
Reached == IF request.lost THEN request.fault - request.addr ELSE request.size

\* A read that succeeds returns what memory holds.  A write changes nothing
\* but the bytes it names, in order, whatever faults interrupt it, and has
\* changed all of them when it succeeds: the handler of a fault resumes the
\* copy at the byte that faulted (udirt.c:84, udirt-posix.c:366).  Excepted
\* are the write that write_data_callback could not store (udirt-msg.c:730)
\* and, only while the thread is single stepped, the access whose abort the
\* installation of the single step breakpoint has consumed (udirt.c:91,
\* udirt-posix.c:558): it succeeds, exact up to the byte it was aborted at.
AccessExact ==
    /\ request.lost => single_step
    /\ request.kind = "read" /\ resp.kind = "read" /\ resp.ok =>
         /\ Len(resp.value) = request.size
         /\ \A k \in 1 .. Reached : resp.value[k] = byte[request.addr + k - 1]
    /\ request.kind = "write" => \E k \in 0 .. request.size : byte = Patched(k)
    /\ request.kind = "write" /\ resp.kind = "write" /\ resp.ok =>
         byte = Patched(Reached)

\* No request leaves an access marked as performed or aborted, and the fault
\* signals are blocked again unless the mask could not be restored: a fault
\* of the program is never taken for one of the library, nor the copy of a
\* request aborted by the fault of an earlier request (udirt.c:90, 123,
\* udirt-posix.c:195).  A copy runs unmarked only after a fault of a single
\* stepped thread, and then only to its abort_label unless a hook has failed:
\* otherwise a second fault would be taken for one of the program.
AccessClosed ==
    /\ aborting => at = "copying" /\ copy.cut
    /\ at = "copying" =>
         /\ open
         /\ performing \/ (single_step /\ faulted /\ (copy.cut \/ Fails # {}))
    /\ at \in {"stopped", "running", "aborted"} =>
         ~performing /\ (open => "mask" \in Fails)

\* The registers of a stopped thread are the ones it stopped with and the
\* debugger has set since, never those of the library's own fault, and they
\* can be read unless such a fault has occurred (udirt-posix.c:501, 613).
RegistersKept ==
    at \in {"stopped", "copying"} =>
        /\ context_valid => context = wanted
        /\ ~context_valid => faulted

\* An access whose copy was aborted fails, and the response blames an address
\* that is not mapped exactly if there is none at the byte that faulted,
\* whichever way earlier accesses failed (udirt-posix.c:116, 368), except for
\* the access of a single stepped thread that has lost its abort.
FailureExplained ==
    /\ TypeOK
    /\ request.fault # -1 /\ resp.kind # "next" =>
         IF resp.ok THEN request.lost
         ELSE resp.why = "not mapped" <=> Unmapped(PageOf(request.fault))

\* The words in memory.
Words == [a \in 0 .. PageSize * NumPages - WordSize |->
             WordOf([k \in 1 .. WordSize |-> byte[a + k - 1]])]

\* What get_ctf_successor can determine: a condition it decodes correctly
\* and a target that is not in memory.
Predictable(insn, ctx) ==
    /\ Decodable(insn.mnemonic, ctx.flags, ctx.gregs["RCX"])
    /\ insn.mnemonic \in Conditional \cup {"call", "jmp"} =>
         insn.op.type \in {"REG", "JIMM"}

\* The address answered to a next instruction request is where the processor
\* goes when the thread resumes, for the instructions above, as long as the
\* debugger has not written a register, and unless the read of the stack has
\* lost its abort (udirt-x86.c:280).
NextTrue ==
    resp.kind = "next" /\ resp.ok /\ ~request.lost /\ wanted = live
        /\ Predictable(code[get_pc(live)], live) =>
      resp.value = <<Executes(code[get_pc(live)], live, Words)>>

\* A copy that the handler cannot help: a page behind the end of its file,
\* whose fault has the code of a protection fault, or one that mprotect is
\* not asked to change, since the length counts from the aligned address.
Endless == \E a \in Span(copy.addr, copy.size) :
               prot[PageOf(a)] = "past" \/ PageOf(a) \notin Granted

\* Every other copy ends, however many pages it has to be granted
\* (udirt-posix.c:333).
AccessEnds == (at = "copying" /\ ~Endless) ~> at # "copying"

\* A register the debugger has written is what the thread resumes with.
RegisterWritten == at = "running" => live = wanted

=============================================================================
