------------------------------ MODULE MCInspect ------------------------------
(* Instances of Inspect for TLC: two pages of two bytes.                    *)
EXTENDS Inspect

\* An operand, a branch and a ret; the code is at 1, its branch target at 8.
Op0 == [type |-> "IMM", base |-> "NONE", index |-> "NONE", scale |-> 0,
        value |-> 0, uvalue |-> 0]
Near == [Op0 EXCEPT !.type = "JIMM", !.value = 5, !.uvalue = 5]
Back == [Op0 EXCEPT !.type = "JIMM", !.value = -1, !.uvalue = W64 - 1]
Far == [Op0 EXCEPT !.type = "REG", !.base = "RAX"]
Table == [Op0 EXCEPT !.type = "MEM", !.base = "RAX", !.uvalue = 1, !.value = 1]

At1(mnemonic, op) == [pc \in {1} |-> [mnemonic |-> mnemonic, len |-> 2, op |-> op]]

Regs(rcx, flags) ==
    [gregs |-> [g \in Greg |-> CASE g = "RIP" -> 1
                                 [] g = "RCX" -> rcx
                                 [] g = "RSP" -> 1
                                 [] g = "RAX" -> 2
                                 [] OTHER -> 0],
     flags |-> flags]

Bytes == [a \in Addr |-> a]

\* Every conditional branch with every flags register and counters that are
\* zero in their low part, in memory that permits everything.
Branches ==
    {[code |-> At1(m, op), context |-> Regs(rcx, flags), byte |-> Bytes,
      prot |-> [p \in Page |-> "all"], at_breakpoint |-> FALSE, asks |-> {"registers"}] :
       m \in Conditional, op \in {Near}, rcx \in {0, 1, 2, 4},
       flags \in SUBSET Flag}

Jumps ==
    {[code |-> At1(m, op), context |-> Regs(1, {}), byte |-> Bytes,
      prot |-> [p \in Page |-> "all"], at_breakpoint |-> FALSE, asks |-> {"registers"}] :
       m \in {"call", "jmp"}, op \in {Op0, Near, Back, Far, Table}}

\* A ret whose stack may be anywhere, at a breakpoint or not.
Stacks ==
    {[code |-> At1("ret", Op0), context |-> Regs(1, {}), byte |-> Bytes,
      prot |-> prots, at_breakpoint |-> b,
      asks |-> {"memory", "registers", "step"}] :
       prots \in [Page -> Prot], b \in BOOLEAN}

AllPrograms == Branches \cup Jumps \cup Stacks

Requested == {<<0, 1>>, <<1, 3>>}
Written == {<<3>>, <<3, 2, 1>>}

\* RSP, FLAGS, a floating point register and a 32 bit one.
Named == {42, 45, 46, 12}
Values == [reg \in Named |-> IF reg = 45 THEN {64} ELSE {3}]

=============================================================================
