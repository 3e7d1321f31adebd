------------------------------ MODULE MemAccess ------------------------------
(***************************************************************************)
(* How libudirt reads and writes the memory of its own process: the copy   *)
(* that a signal handler can abort (udirt.c), the hooks that let the fault *)
(* signals through while it runs, and the part of the signal handler that  *)
(* grants itself the access or aborts the copy (udirt-posix.c).            *)
(*                                                                         *)
(* The thread that does this is the only one executing, so the steps here  *)
(* are those of one thread and of the handler nested in it.  Inspect       *)
(* composes them with the requests that need memory.                       *)
(***************************************************************************)
EXTENDS Integers, Sequences

CONSTANTS
    PageSize,   \* sysconf(_SC_PAGESIZE)
    NumPages,
    Byte,       \* what a byte of memory holds
    Fails       \* the calls that may fail: "alloc", "mask"

ASSUME MemoryAssumption ==
    /\ PageSize \in Nat \ {0}
    /\ NumPages \in Nat \ {0}
    /\ Fails \subseteq {"alloc", "mask"}

VARIABLES
    prot,            \* what a page permits
    byte,            \* the contents of memory
    performing,      \* performing_mem_access
    aborting,        \* aborting_mem_access
    failed_si_code,
    open,            \* SIGSEGV and SIGBUS are not blocked
    copy             \* the copy in progress

memVars == <<prot, byte, performing, aborting, failed_si_code, open, copy>>

Page == 0 .. NumPages - 1
Addr == 0 .. PageSize * NumPages - 1

PageOf(a) == a \div PageSize

\* "shared" is a read only file mapping that mprotect cannot make writable,
\* "past" a page of a mapping behind the end of its file.
Prot == {"none", "read", "all", "shared", "past", "unmapped"}

\* There is no page for an address outside of the modelled memory.
Unmapped(p) == p \notin Page \/ prot[p] = "unmapped"

Permits(op, p) ==
    /\ p \in Page
    /\ \/ prot[p] = "all"
       \/ op = "read" /\ prot[p] \in {"read", "shared"}

\* The codes of siginfo_t; those of SIGSEGV and SIGBUS share their numbers.
SEGV_MAPERR == 1
SEGV_ACCERR == 2
BUS_ADRERR == 2

si_code(p) == IF Unmapped(p) THEN SEGV_MAPERR
              ELSE IF prot[p] = "past" THEN BUS_ADRERR ELSE SEGV_ACCERR

Op == {"read", "write"}

\* mem_access_addr and mem_access_size, i of abortable_memcpy, the bytes to
\* write or read so far, whether a handler has moved the program counter to
\* abort_label, and the signal mask pre_mem_access_hook has saved.
Copy == [op: Op, addr: Nat, size: Nat, i: Nat, data: Seq(Byte), cut: BOOLEAN,
         mask: BOOLEAN]

NoCopy == [op |-> "read", addr |-> 0, size |-> 0, i |-> 0, data |-> <<>>,
           cut |-> FALSE, mask |-> FALSE]

Span(a, n) == {b \in Addr : a <= b /\ b < a + n}

-----------------------------------------------------------------------------
(* udi_memcpy, from the call to the first byte.                            *)

\* read_memory and write_memory, pre_mem_access_hook and the start of
\* abortable_memcpy; op says which of its arguments is the debuggee's memory.
StartCopy(op, a, n, data) ==
    /\ open' = TRUE
    /\ performing' = TRUE
    /\ copy' = [op |-> op, addr |-> a, size |-> n, i |-> 0, data |-> data,
                cut |-> FALSE, mask |-> open]
    /\ UNCHANGED <<prot, byte, aborting, failed_si_code>>

\* The hook fails to allocate or to set the mask: nothing has been copied.
PreHookFails == Fails # {} /\ UNCHANGED memVars

-----------------------------------------------------------------------------
(* abortable_memcpy                                                        *)

At == copy.addr + copy.i

Copying == ~copy.cut /\ copy.i < copy.size

\* dest[i] = src[i]
CopyByte ==
    /\ Copying
    /\ Permits(copy.op, PageOf(At))
    /\ IF copy.op = "read"
       THEN /\ copy' = [copy EXCEPT !.i = @ + 1, !.data = Append(@, byte[At])]
            /\ UNCHANGED byte
       ELSE /\ copy' = [copy EXCEPT !.i = @ + 1]
            /\ byte' = [byte EXCEPT ![At] = copy.data[copy.i + 1]]
    /\ UNCHANGED <<prot, performing, aborting, failed_si_code, open>>

Faults == Copying /\ ~Permits(copy.op, PageOf(At))

\* The pages of mprotect(page of mem_access_addr, mem_access_size).
Granted == {p \in Page :
    /\ PageOf(copy.addr) <= p
    /\ p * PageSize < PageOf(copy.addr) * PageSize + copy.size}

\* mprotect works upwards and stops at the first page it cannot change.
Refused(p) == \E q \in Granted : q <= p /\ prot[q] \in {"shared", "unmapped"}

mprotect_fails == \E p \in Granted : Refused(p)

Mprotected == [p \in Page |->
    IF p \in Granted /\ ~Refused(p) /\ prot[p] # "past" THEN "all" ELSE prot[p]]

\* Mutant: a failure of mprotect is ignored.
decode_memory_access_event_retry ==
    LET code == si_code(PageOf(At))
        denied == code = SEGV_ACCERR
    IN /\ prot' = IF denied THEN Mprotected ELSE prot
       /\ copy' = [copy EXCEPT !.cut = ~denied]
       /\ failed_si_code' = IF denied THEN failed_si_code ELSE code

\* Mutant: only the first failure is remembered.
decode_memory_access_event_first ==
    LET code == si_code(PageOf(At))
        denied == code = SEGV_ACCERR
        aborts == ~denied \/ mprotect_fails
    IN /\ prot' = IF denied THEN Mprotected ELSE prot
       /\ copy' = [copy EXCEPT !.cut = aborts]
       /\ failed_si_code' = IF aborts /\ failed_si_code = 0 THEN code
                            ELSE failed_si_code

\* decode_memory_access_event during an access: the pages are made accessible,
\* or the copy goes on at abort_label.  abort_mem_access has then set
\* aborting_mem_access, which the rest of the handler may still change.
decode_memory_access_event ==
    LET code == si_code(PageOf(At))
        denied == code = SEGV_ACCERR
        aborts == ~denied \/ mprotect_fails
    IN /\ prot' = IF denied THEN Mprotected ELSE prot
       /\ copy' = [copy EXCEPT !.cut = aborts]
       /\ failed_si_code' = IF aborts THEN code ELSE failed_si_code

-----------------------------------------------------------------------------
(* udi_memcpy, from abort_label to the return.                             *)

Ended == copy.cut \/ copy.i = copy.size

\* Mutant: aborting_mem_access is not reset.
EndCopy_aborting(restored) ==
    /\ restored \/ "mask" \in Fails
    /\ performing' = FALSE
    /\ open' = IF restored THEN copy.mask ELSE open
    /\ copy' = NoCopy
    /\ UNCHANGED <<prot, byte, aborting, failed_si_code>>

\* The test at abort_label and post_mem_access_hook.
EndCopy(restored) ==
    /\ restored \/ "mask" \in Fails
    /\ aborting' = FALSE
    /\ performing' = FALSE
    /\ open' = IF restored THEN copy.mask ELSE open
    /\ copy' = NoCopy
    /\ UNCHANGED <<prot, byte, failed_si_code>>

\* Mutant: the result of the copy is dropped.
Result_hook(restored) == restored

\* What udi_memcpy returns.
Result(restored) == ~aborting /\ restored

get_mem_errstr == IF failed_si_code = SEGV_MAPERR THEN "not mapped" ELSE "unknown"

=============================================================================
