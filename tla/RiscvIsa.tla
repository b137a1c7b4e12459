------------------------------ MODULE RiscvIsa ------------------------------
(***************************************************************************)
(* What the two simulators of rip-sim share: instruction words and their   *)
(* fields, the operand classes, memory as DRAM bytes, the exception and    *)
(* privilege-mode numbers and the mstatus fields.                          *)
(*                                                                         *)
(* The machine is scaled down, not simplified: a word is four bytes, as in *)
(* the code, but a byte holds ByteSize values; the fields of mstatus sit   *)
(* next to each other and CSR numbers are small.  Machine integers are     *)
(* their unsigned representatives and wrap at WordSize; Signed gives the   *)
(* other reading.                                                          *)
(***************************************************************************)
EXTENDS Integers

CONSTANTS
  ByteSize,      \* Values of a byte (2^8 in the code, a small power of two here).
  DRAMBase,      \* Address of the first DRAM byte.
  DRAMSize,      \* Bytes of DRAM.
  RegNum,        \* General purpose registers, x0 included.
  UImmUnit,      \* Weight of a U-type immediate (2^12 in the code).
  MMIO,          \* The console address, 0x10000000 in the code.
  Decode,        \* Decoder: decodable instruction word |-> its fields.
  Alu(_, _, _)   \* Alu(mnemonic, a, b): result of the data instructions.

WordSize == ByteSize * ByteSize * ByteSize * ByteSize
Byte     == 0 .. ByteSize - 1
Word     == 0 .. WordSize - 1
Wrap(v)   == v % WordSize
Signed(v) == IF 2 * v < WordSize THEN v ELSE v - WordSize

ClearBit0(v) == v - (v % 2)                     \* v & ~1

nullopt == -1          \* std::nullopt of the optional addresses and exceptions

(* Instruction kinds of InstructionTypes.h. *)
AluImm     == {"addi", "slti", "sltiu", "xori", "ori", "andi",
               "slli", "srli", "srai"}
Loads      == {"lb", "lh", "lw", "lbu", "lhu"}
CSRImm     == {"csrrwi", "csrrsi", "csrrci"}
CSR_INSTs  == {"csrrw", "csrrs", "csrrc"} \cup CSRImm
System     == {"ecall", "ebreak", "uret", "sret", "mret", "ext", "extx"}
ITypeKinds == AluImm \cup Loads \cup CSR_INSTs \cup System \cup {"jalr"}
STypeKinds == {"sb", "sh", "sw"}
BTypeKinds == {"beq", "bne", "blt", "bge", "bltu", "bgeu"}
UTypeKinds == {"lui", "auipc"}
JTypeKinds == {"jal"}
RTypeKinds == {"add", "sub", "sll", "slt", "sltu", "xor", "srl", "sra", "or",
               "and", "mul", "mulh", "mulhsu", "mulhu", "div", "divu", "rem",
               "remu"}
Mnemonics  == ITypeKinds \cup STypeKinds \cup BTypeKinds \cup UTypeKinds
                \cup JTypeKinds \cup RTypeKinds

Reg == 0 .. RegNum - 1

(* An instruction word is executed through its decoded fields. *)
Code    == DOMAIN Decode
Mnemo(w) == Decode[w].op
Rd(w)    == Decode[w].rd
Rs1(w)   == Decode[w].rs1
Rs2(w)   == Decode[w].rs2
Imm(w)   == Wrap(Decode[w].imm)

HasRd(w)  == Mnemo(w) \notin STypeKinds \cup BTypeKinds
HasRs1(w) == Mnemo(w) \notin UTypeKinds \cup JTypeKinds
HasRs2(w) == Mnemo(w) \notin ITypeKinds \cup UTypeKinds \cup JTypeKinds

(* The condition of a branch on two register values. *)
Taken(op, a, b) ==
  CASE op = "beq"  -> a = b
    [] op = "bne"  -> a # b
    [] op = "blt"  -> Signed(a) < Signed(b)
    [] op = "bge"  -> Signed(a) >= Signed(b)
    [] op = "bltu" -> a < b
    [] OTHER       -> a >= b

-----------------------------------------------------------------------------
(* Memory.cpp.  Only the first byte of an access is checked, and against   *)
(* DRAMSize inclusive; an access that passes the check and still leaves    *)
(* the array is undefined behaviour.                                       *)
DRAM == DRAMBase .. DRAMBase + DRAMSize - 1

Width(op) == CASE op \in {"lb", "lbu", "sb"} -> 1
               [] op \in {"lh", "lhu", "sh"} -> 2
               [] OTHER                      -> 4

Access(a, n) ==
  CASE a < DRAMBase \/ DRAMSize < a - DRAMBase -> "abort"
    [] a + n > DRAMBase + DRAMSize             -> "undefined"
    [] OTHER                                   -> "ok"

readHalfWord(m, a) == m[a] + ByteSize * m[a + 1]
readWord(m, a) ==
  readHalfWord(m, a) + ByteSize * ByteSize * readHalfWord(m, a + 2)

\* An n-byte integer read as signed and widened to a word.
SignedLoad(v, size) == IF 2 * v < size THEN v ELSE Wrap(v - size)

LoadValue(op, m, a) ==
  CASE op = "lb"  -> SignedLoad(m[a], ByteSize)
    [] op = "lbu" -> m[a]
    [] op = "lh"  -> SignedLoad(readHalfWord(m, a), ByteSize * ByteSize)
    [] op = "lhu" -> readHalfWord(m, a)
    [] OTHER      -> readWord(m, a)

ByteOf(v, k) ==
  CASE k = 0 -> v % ByteSize
    [] k = 1 -> (v \div ByteSize) % ByteSize
    [] k = 2 -> (v \div (ByteSize * ByteSize)) % ByteSize
    [] OTHER -> (v \div (ByteSize * ByteSize * ByteSize)) % ByteSize

StoreValue(op, m, a, v) ==
  [b \in DRAM |-> IF b - a \in 0 .. Width(op) - 1 THEN ByteOf(v, b - a)
                                                  ELSE m[b]]

-----------------------------------------------------------------------------
(* CSR.h and Exceptions.h. *)
CSR_SIZE == 8
MSTATUS  == 0
MTVEC    == 1
MEPC     == 2
MCAUSE   == 3
MTVAL    == 4
CSRAddress == 0 .. CSR_SIZE - 1

User       == 0
Supervisor == 1
Hypervisor == 2
Machine    == 3
Epilogue   == 4
ModeKind   == 0 .. 4

IllegalInstruction == 2
Breakpoint         == 3
EnvCallU           == 8
EnvCallS           == 9
R0                 == 10
EnvCallM           == 11
R1                 == 14
Exception == {IllegalInstruction, Breakpoint, EnvCallU, EnvCallS, R0, EnvCallM,
              R1}

trap_val(e, instVal) == IF e = IllegalInstruction THEN instVal ELSE 0

\* The mstatus fields, by weight: MIE 1, MPIE 2, MPP 4 and 8, MPREV 16.
getMIE(v)  == v % 2
getMPIE(v) == (v \div 2) % 2
getMPP(v)  == (v \div 4) % 4
setMIE(v, b)   == v - getMIE(v) + b
setMPIE(v, b)  == v - 2 * getMPIE(v) + 2 * b
setMPP(v, m)   == v - 4 * getMPP(v) + 4 * m
setMPREV(v, b) == v - 16 * ((v \div 16) % 2) + 16 * b

-----------------------------------------------------------------------------
\* A byte has enough values for the scaled mstatus and CSR numbers to fit a word.
ASSUME ByteAssumption == ByteSize \in Nat /\ ByteSize >= 4 /\ WordSize % 32 = 0

\* Addresses are 64-bit in the code, some widened from signed words, others
\* from unsigned ones.  With DRAM in the lower half of a word's range both
\* fail the same check, and addresses can be kept as words.
ASSUME DRAMAssumption ==
  /\ DRAMBase \in Nat /\ DRAMSize \in Nat \ {0}
  /\ 2 * (DRAMBase + DRAMSize) < WordSize

ASSUME RegAssumption == RegNum \in Nat \ {0} /\ RegNum <= WordSize

ASSUME UnitAssumption == UImmUnit \in Nat /\ MMIO \in Word

(* The decoder yields well-formed fields; the system instructions name no  *)
(* register, as their encodings require.                                   *)
ASSUME DecodeAssumption ==
  /\ Code \subseteq Word
  /\ \A w \in Code :
       /\ Decode[w] \in [op : Mnemonics, rd : Reg, rs1 : Reg, rs2 : Reg, imm : Int]
       /\ Mnemo(w) \in System => Rd(w) = 0 /\ Rs1(w) = 0

\* The arithmetic of the data instructions stays within a word.
ASSUME AluAssumption ==
  \A op \in {Mnemo(w) : w \in Code} \cup {"csrrs", "csrrc"} :
    \A a, b \in Word : Alu(op, a, b) \in Word
=============================================================================
