--------------------------------- MODULE X86 ---------------------------------
(***************************************************************************)
(* Where an instruction goes, as udirt-x86.c computes it from a register   *)
(* context, and where the processor goes.  The disassembler (udis86) is    *)
(* external: an instruction is the record it leaves in ud_t.  The flags    *)
(* register is the set of the flags that are set.                          *)
(*                                                                         *)
(* A register is a natural number below W64.  W16 and W32 stand for 2^16   *)
(* and 2^32: what matters is that a register may be zero in its low part   *)
(* only.                                                                   *)
(***************************************************************************)
EXTENDS Integers

CONSTANTS W16, W32, W64

ASSUME WidthAssumption ==
    /\ W16 \in Nat /\ W32 \in Nat /\ W64 \in Nat
    /\ 1 < W16 /\ W16 < W32 /\ W32 < W64

Word == 0 .. W64 - 1

-----------------------------------------------------------------------------
(* The context: uc_mcontext.gregs and the registers of the disassembler.   *)

\* The general registers of a 64 bit context (udi.h, in the order of the
\* protocol), without the flags.
Greg == {"R8", "R9", "R10", "R11", "R12", "R13", "R14", "R15", "RDI", "RSI",
         "RBP", "RBX", "RDX", "RAX", "RCX", "RSP", "RIP", "CSGSFS"}

Flag == {"CF", "PF", "ZF", "SF", "OF"}

\* static int CF, PF, ZF, SF, OF
FlagMask == [f \in Flag |-> CASE f = "CF" -> 1
                              [] f = "PF" -> 4
                              [] f = "ZF" -> 64
                              [] f = "SF" -> 128
                              [] f = "OF" -> 2048]

\* mask & flags
And(f, flags) == IF f \in flags THEN FlagMask[f] ELSE 0

\* get_reg_context_offset: the element of gregs a register of the
\* disassembler is part of; the 16 bit names of RDX and RBX are missing.
get_reg_context_offset(r) ==
    CASE r \in {"AL", "AH", "AX", "EAX", "RAX"} -> "RAX"
      [] r \in {"CL", "CH", "CX", "ECX", "RCX"} -> "RCX"
      [] r \in {"DL", "DH", "EDX", "RDX"} -> "RDX"
      [] r \in {"BL", "BH", "EBX", "RBX"} -> "RBX"
      [] r = "RIP" -> "RIP"
      [] r \in {"SPL", "SP", "ESP", "RSP"} -> "RSP"
      [] r \in {"BPL", "BP", "EBP", "RBP"} -> "RBP"
      [] r \in {"SIL", "SI", "ESI", "RSI"} -> "RSI"
      [] r \in {"DIL", "DI", "EDI", "RDI"} -> "RDI"
      [] r \in {"R8B", "R8W", "R8D", "R8"} -> "R8"
      [] r \in {"R9B", "R9W", "R9D", "R9"} -> "R9"
      [] r \in {"R10B", "R10W", "R10D", "R10"} -> "R10"
      [] r \in {"R11B", "R11W", "R11D", "R11"} -> "R11"
      [] r \in {"R12B", "R12W", "R12D", "R12"} -> "R12"
      [] r \in {"R13B", "R13W", "R13D", "R13"} -> "R13"
      [] r \in {"R14B", "R14W", "R14D", "R14"} -> "R14"
      [] r \in {"R15B", "R15W", "R15D", "R15"} -> "R15"
      [] OTHER -> "none"

\* The whole element, whatever the width of the name.  The code aborts the
\* process when the register is not accessible.
get_register_ud_type(r, ctx) == ctx.gregs[get_reg_context_offset(r)]

get_pc(ctx) == ctx.gregs["RIP"]

get_flags(ctx) == ctx.flags

-----------------------------------------------------------------------------
(* udirt-x86.c                                                             *)

Signed == {"jl", "jge", "jle", "jg"}

Conditional == {"jo", "jno", "jb", "jae", "jz", "jnz", "jbe", "ja", "js",
                "jns", "jp", "jnp", "jcxz", "jecxz", "jrcxz", "loopne",
                "loope", "loop"} \cup Signed

Mnemonic == Conditional \cup {"call", "jmp", "ret", "other"}

ctf_condition_met(mnemonic, ctx) ==
    LET flags == get_flags(ctx)
        cx == get_register_ud_type("RCX", ctx)
    IN \/ mnemonic = "ja" /\ And("CF", flags) = 0 /\ And("ZF", flags) = 0
       \/ mnemonic = "jae" /\ And("CF", flags) = 0
       \/ mnemonic = "jb" /\ And("CF", flags) # 0
       \/ mnemonic = "jbe" /\ (And("CF", flags) # 0 \/ And("ZF", flags) # 0)
       \/ mnemonic = "jcxz" /\ get_register_ud_type("CX", ctx) = 0
       \/ mnemonic = "jecxz" /\ get_register_ud_type("ECX", ctx) = 0
       \/ mnemonic = "jrcxz" /\ get_register_ud_type("RCX", ctx) = 0
       \/ /\ mnemonic = "jg"
          /\ And("ZF", flags) = 0 /\ And("SF", flags) = And("OF", flags)
       \/ mnemonic = "jge" /\ And("SF", flags) = And("OF", flags)
       \/ mnemonic = "jl" /\ And("SF", flags) # And("OF", flags)
       \/ /\ mnemonic = "jle"
          /\ And("ZF", flags) # 0 \/ And("SF", flags) # And("OF", flags)
       \/ mnemonic = "jno" /\ And("OF", flags) = 0
       \/ mnemonic = "jnp" /\ And("PF", flags) = 0
       \/ mnemonic = "jns" /\ And("SF", flags) = 0
       \/ mnemonic = "jnz" /\ And("ZF", flags) = 0
       \/ mnemonic = "jo" /\ And("OF", flags) # 0
       \/ mnemonic = "jp" /\ And("PF", flags) # 0
       \/ mnemonic = "js" /\ And("SF", flags) # 0
       \/ mnemonic = "jz" /\ And("ZF", flags) # 0
       \/ mnemonic = "loopne" /\ And("ZF", flags) = 0 /\ cx - 1 # 0
       \/ mnemonic = "loope" /\ And("ZF", flags) # 0 /\ cx - 1 # 0
       \/ mnemonic = "loop" /\ cx - 1 # 0

\* An operand of ud_t: its type, the registers of a memory operand ("NONE"
\* when absent) and the immediate or displacement, sign extended in value and
\* as its unsigned bit pattern in uvalue.
Operand == [type: {"REG", "MEM", "JIMM", "IMM"}, base: STRING, index: STRING,
            scale: Nat, value: Int, uvalue: Nat]

\* In 64 bit mode an indirect branch has a 64 bit register.
Instruction ==
    {insn \in [mnemonic: Mnemonic, len: Nat \ {0}, op: Operand] :
        insn.mnemonic \in Conditional \cup {"call", "jmp"} /\ insn.op.type = "REG"
            => insn.op.base \in Greg \ {"CSGSFS"}}

compute_relative_location(op, pc) == (pc + op.value) % W64

Part(r, ctx) == IF r = "NONE" THEN 0 ELSE get_register_ud_type(r, ctx)

\* The address of a memory operand is the target; its contents are not read.
compute_target(op, effective_pc, ctx) ==
    CASE op.type = "REG" -> get_register_ud_type(op.base, ctx)
      [] op.type = "MEM" ->
            (Part(op.base, ctx) + Part(op.index, ctx) * op.scale + op.uvalue)
                % W64
      [] op.type = "JIMM" -> compute_relative_location(op, effective_pc)
      [] OTHER -> 0

\* Mutant: targets are relative to the instruction itself.
get_ctf_successor_pc(insn, pc, ctx) ==
    IF \/ insn.mnemonic \in {"call", "jmp"}
       \/ insn.mnemonic \in Conditional /\ ctf_condition_met(insn.mnemonic, ctx)
    THEN compute_target(insn.op, pc, ctx)
    ELSE (pc + insn.len) % W64

\* get_ctf_successor for every instruction but ret, whose successor is read
\* from the stack; 0 is an error.
get_ctf_successor(insn, pc, ctx) ==
    LET effective_pc == (pc + insn.len) % W64
    IN IF \/ insn.mnemonic \in {"call", "jmp"}
          \/ insn.mnemonic \in Conditional /\ ctf_condition_met(insn.mnemonic, ctx)
       THEN compute_target(insn.op, effective_pc, ctx)
       ELSE effective_pc

-----------------------------------------------------------------------------
(* The processor: when a conditional branch is taken, and where it goes.   *)

Taken(mnemonic, flags, rcx) ==
    LET Below == "CF" \in flags
        Equal == "ZF" \in flags
        Less == ("SF" \in flags) # ("OF" \in flags)
        count == IF rcx = 0 THEN W64 - 1 ELSE rcx - 1
    IN \/ mnemonic = "ja" /\ ~Below /\ ~Equal
       \/ mnemonic = "jae" /\ ~Below
       \/ mnemonic = "jb" /\ Below
       \/ mnemonic = "jbe" /\ (Below \/ Equal)
       \/ mnemonic = "jcxz" /\ rcx % W16 = 0
       \/ mnemonic = "jecxz" /\ rcx % W32 = 0
       \/ mnemonic = "jrcxz" /\ rcx = 0
       \/ mnemonic = "jg" /\ ~Equal /\ ~Less
       \/ mnemonic = "jge" /\ ~Less
       \/ mnemonic = "jl" /\ Less
       \/ mnemonic = "jle" /\ (Equal \/ Less)
       \/ mnemonic = "jno" /\ "OF" \notin flags
       \/ mnemonic = "jnp" /\ "PF" \notin flags
       \/ mnemonic = "jns" /\ "SF" \notin flags
       \/ mnemonic = "jnz" /\ ~Equal
       \/ mnemonic = "jo" /\ "OF" \in flags
       \/ mnemonic = "jp" /\ "PF" \in flags
       \/ mnemonic = "js" /\ "SF" \in flags
       \/ mnemonic = "jz" /\ Equal
       \/ mnemonic = "loopne" /\ ~Equal /\ count # 0
       \/ mnemonic = "loope" /\ Equal /\ count # 0
       \/ mnemonic = "loop" /\ count # 0

\* words[a] is the word at address a.
Target(op, next_pc, ctx, words) ==
    CASE op.type = "REG" -> ctx.gregs[op.base]
      [] op.type = "MEM" ->
            words[(Part(op.base, ctx) + Part(op.index, ctx) * op.scale + op.value)
                      % W64]
      [] OTHER -> (next_pc + op.value) % W64

Executes(insn, ctx, words) ==
    LET next_pc == (ctx.gregs["RIP"] + insn.len) % W64
    IN IF insn.mnemonic = "ret" THEN words[ctx.gregs["RSP"]]
       ELSE IF \/ insn.mnemonic \in {"call", "jmp"}
               \/ Taken(insn.mnemonic, ctx.flags, ctx.gregs["RCX"])
       THEN Target(insn.op, next_pc, ctx, words)
       ELSE next_pc

-----------------------------------------------------------------------------

\* The branches whose condition ctf_condition_met decodes as the processor
\* does: SF and OF are compared as bits of different weight, so the signed
\* conditions are wrong when both are set, and the narrow counter registers
\* are read whole.
Decodable(mnemonic, flags, rcx) ==
    /\ ~(mnemonic \in Signed /\ "SF" \in flags /\ "OF" \in flags)
    /\ ~(mnemonic = "jcxz" /\ rcx # 0 /\ rcx % W16 = 0)
    /\ ~(mnemonic = "jecxz" /\ rcx # 0 /\ rcx % W32 = 0)

=============================================================================
