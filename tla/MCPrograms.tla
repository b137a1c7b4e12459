----------------------------- MODULE MCPrograms -----------------------------
(***************************************************************************)
(* Programs for TLC's instances of the two simulators: words over an       *)
(* alphabet of instructions, followed by words that do not decode, on a    *)
(* machine with four registers and 8-bit words made of four 2-bit bytes.   *)
(*                                                                         *)
(* Word 0 does not decode; word i is the i-th instruction of the alphabet. *)
(***************************************************************************)
EXTENDS RiscvIsa, Sequences

RvAluOf8Bits == INSTANCE RvAlu WITH XLEN <- 8
MCAlu(op, a, b) == RvAluOf8Bits!ExecData(op, a, b)

\* The stack pointer starts at the end of DRAM, everything else at zero.
MCInitGPRs == {[r \in Reg |-> IF r = 2 THEN DRAMBase + DRAMSize ELSE 0]}

DecodeOf(alphabet) == [w \in 1 .. Len(alphabet) |-> alphabet[w]]

\* A program at the start of DRAM, zeros in the rest.
Loaded(prog) ==
  [b \in DRAM |-> LET k == (b - DRAMBase) \div 4
                  IN IF k < Len(prog) THEN ByteOf(prog[k + 1], (b - DRAMBase) % 4)
                                      ELSE 0]
Programs(words, len) == [1 .. len -> words]
AllPrograms(words, len) == {Loaded(p) : p \in Programs(words, len)}

R(op, rd, rs1, rs2)   == [op |-> op, rd |-> rd, rs1 |-> rs1, rs2 |-> rs2, imm |-> 0]
I(op, rd, rs1, imm)   == [op |-> op, rd |-> rd, rs1 |-> rs1, rs2 |-> 0, imm |-> imm]
S(op, rs2, imm, rs1)  == [op |-> op, rd |-> 0, rs1 |-> rs1, rs2 |-> rs2, imm |-> imm]
B(op, rs1, rs2, imm)  == [op |-> op, rd |-> 0, rs1 |-> rs1, rs2 |-> rs2, imm |-> imm]
U(op, rd, imm)        == [op |-> op, rd |-> rd, rs1 |-> 0, rs2 |-> 0, imm |-> imm]
N(op)                 == I(op, 0, 0, 0)

\* No word of "first" stands directly in front of one of "second".
Apart(p, first, second) ==
  \A i \in 1 .. Len(p) - 1 : ~(p[i] \in first /\ p[i + 1] \in second)
=============================================================================
