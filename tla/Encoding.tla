------------------------------ MODULE Encoding ------------------------------
(***************************************************************************)
(* Instruction words bit by bit: the tables of mnemonics, the encoders of  *)
(* the six instruction classes, the decoder, and the two ways the          *)
(* simulators read the fields of a decoded instruction.                    *)
(*                                                                         *)
(* A word is the set of the positions of its one bits: & is \cap, | is     *)
(* \cup, and a shift moves the positions.  std::bitset<n>(v) is Bits(v, n).*)
(***************************************************************************)
EXTENDS Integers

Bit == 0 .. 31
Bits(v, n) == {i \in 0 .. n - 1 : (v \div 2^i) % 2 = 1}
Shl(w, n)  == {b \in Bit : b - n \in w}
Shr(w, n)  == {b \in Bit : b + n \in w}

\* An int as 32 bits: 2^31 itself is kept out of the arithmetic.
IntBits(v) == Bits(v, 31) \cup (IF v < 0 THEN {31} ELSE {})

-----------------------------------------------------------------------------
(* InstructionTypes.h: funct3 and opcode, for the R type funct7 in front.  *)

ITypeKinds ==
  [addi   |-> <<\b000, \b0010011>>, slti   |-> <<\b010, \b0010011>>,
   sltiu  |-> <<\b011, \b0010011>>, xori   |-> <<\b100, \b0010011>>,
   ori    |-> <<\b110, \b0010011>>, andi   |-> <<\b111, \b0010011>>,
   jalr   |-> <<\b000, \b1100111>>, lb     |-> <<\b000, \b0000011>>,
   lh     |-> <<\b001, \b0000011>>, lw     |-> <<\b010, \b0000011>>,
   lbu    |-> <<\b100, \b0000011>>, lhu    |-> <<\b101, \b0000011>>,
   slli   |-> <<\b001, \b0010011>>, srli   |-> <<\b101, \b0010011>>,
   srai   |-> <<\b101, \b0010011>>, csrrw  |-> <<\b001, \b1110011>>,
   csrrs  |-> <<\b010, \b1110011>>, csrrc  |-> <<\b011, \b1110011>>,
   csrrwi |-> <<\b101, \b1110011>>, csrrsi |-> <<\b110, \b1110011>>,
   csrrci |-> <<\b111, \b1110011>>, ecall  |-> <<\b000, \b1110011>>,
   ebreak |-> <<\b000, \b1110011>>, uret   |-> <<\b000, \b1110011>>,
   sret   |-> <<\b000, \b1110011>>, mret   |-> <<\b000, \b1110011>>,
   ext    |-> <<\b000, \b0001011>>, extx   |-> <<\b000, \b0001011>>]

STypeKinds == [sb |-> <<\b000, \b0100011>>, sh |-> <<\b001, \b0100011>>,
               sw |-> <<\b010, \b0100011>>]

BTypeKinds == [beq  |-> <<\b000, \b1100011>>, bne  |-> <<\b001, \b1100011>>,
               blt  |-> <<\b100, \b1100011>>, bge  |-> <<\b101, \b1100011>>,
               bltu |-> <<\b110, \b1100011>>, bgeu |-> <<\b111, \b1100011>>]

RTypeKinds ==
  LET OP == \b0110011 IN
  [add    |-> <<\b0000000, \b000, OP>>, sub    |-> <<\b0100000, \b000, OP>>,
   sll    |-> <<\b0000000, \b001, OP>>, slt    |-> <<\b0000000, \b010, OP>>,
   sltu   |-> <<\b0000000, \b011, OP>>, xor    |-> <<\b0000000, \b100, OP>>,
   srl    |-> <<\b0000000, \b101, OP>>, sra    |-> <<\b0100000, \b101, OP>>,
   or     |-> <<\b0000000, \b110, OP>>, and    |-> <<\b0000000, \b111, OP>>,
   mul    |-> <<\b0000001, \b000, OP>>, mulh   |-> <<\b0000001, \b001, OP>>,
   mulhsu |-> <<\b0000001, \b010, OP>>, mulhu  |-> <<\b0000001, \b011, OP>>,
   div    |-> <<\b0000001, \b100, OP>>, divu   |-> <<\b0000001, \b101, OP>>,
   rem    |-> <<\b0000001, \b110, OP>>, remu   |-> <<\b0000001, \b111, OP>>]

UTypeKinds == [lui |-> <<\b0110111>>, auipc |-> <<\b0010111>>]
JTypeKinds == [jal |-> <<\b1101111>>]

Loads == {"lb", "lh", "lw", "lbu", "lhu"}

-----------------------------------------------------------------------------
(* Encoders, one for each class: both constructors of a class end in the   *)
(* same shifts.  Registers and immediates are bitsets of their width.      *)

IWord(kind, rd, rs1, imm) ==
  Shl(imm, 20) \cup Shl(rs1, 15) \cup Shl(Bits(kind[1], 3), 12)
    \cup Shl(rd, 7) \cup Bits(kind[2], 7)

RWord(kind, rd, rs1, rs2) ==
  Shl(Bits(kind[1], 7), 25) \cup Shl(rs2, 20) \cup Shl(rs1, 15)
    \cup Shl(Bits(kind[2], 3), 12) \cup Shl(rd, 7) \cup Bits(kind[3], 7)

UWord(kind, rd, imm) == Shl(imm, 12) \cup Shl(rd, 7) \cup Bits(kind[1], 7)

\* The masks M0 to M3 select bit ranges of the immediate.
JWord(kind, rd, imm) ==
  Shl(Shr(imm \cap {20}, 20), 31) \cup Shl(Shr(imm \cap 1 .. 10, 1), 21)
    \cup Shl(Shr(imm \cap {11}, 11), 20) \cup Shl(Shr(imm \cap 12 .. 19, 12), 12)
    \cup Shl(rd, 7) \cup Bits(kind[1], 7)

SWord(kind, rs1, rs2, imm) ==
  Shl(Shr(imm \cap 5 .. 11, 5), 25) \cup Shl(rs2, 20) \cup Shl(rs1, 15)
    \cup Shl(Bits(kind[1], 3), 12) \cup Shl(imm \cap 0 .. 4, 7) \cup Bits(kind[2], 7)

BWord(kind, rs1, rs2, imm) ==
  Shl(Shr(imm \cap {12}, 12), 31) \cup Shl(Shr(imm \cap 5 .. 10, 5), 25)
    \cup Shl(rs2, 20) \cup Shl(rs1, 15) \cup Shl(Bits(kind[1], 3), 12)
    \cup Shl(Shr(imm \cap 1 .. 4, 1), 8) \cup Shl(Shr(imm \cap {11}, 11), 7)
    \cup Bits(kind[2], 7)

-----------------------------------------------------------------------------
(* Decoded instructions.  The instruction-level simulator executes the     *)
(* members its class has; the pipeline reads everything off val, the word  *)
(* the constructor encoded again.                                          *)

nullptr == [op |-> "nullptr"]
NoBits  == {}

MakeI(op, rd, rs1, imm) ==
  [op |-> op, rd |-> rd, rs1 |-> rs1, rs2 |-> NoBits, imm |-> imm,
   val |-> IWord(ITypeKinds[op], rd, rs1, imm)]
MakeR(op, rd, rs1, rs2) ==
  [op |-> op, rd |-> rd, rs1 |-> rs1, rs2 |-> rs2, imm |-> NoBits,
   val |-> RWord(RTypeKinds[op], rd, rs1, rs2)]
MakeU(op, rd, imm) ==
  [op |-> op, rd |-> rd, rs1 |-> NoBits, rs2 |-> NoBits, imm |-> imm,
   val |-> UWord(UTypeKinds[op], rd, imm)]
MakeJ(op, rd, imm) ==
  [op |-> op, rd |-> rd, rs1 |-> NoBits, rs2 |-> NoBits, imm |-> imm,
   val |-> JWord(JTypeKinds[op], rd, imm)]
MakeS(op, rs1, rs2, imm) ==
  [op |-> op, rd |-> NoBits, rs1 |-> rs1, rs2 |-> rs2, imm |-> imm,
   val |-> SWord(STypeKinds[op], rs1, rs2, imm)]
MakeB(op, rs1, rs2, imm) ==
  [op |-> op, rd |-> NoBits, rs1 |-> rs1, rs2 |-> rs2, imm |-> imm,
   val |-> BWord(BTypeKinds[op], rs1, rs2, imm)]

-----------------------------------------------------------------------------
(* Decoder.cpp. *)

Opcode(w) == w \cap 0 .. 6
RdOf(w)   == Shr(w \cap 7 .. 11, 7)
Rs1Of(w)  == Shr(w \cap 15 .. 19, 15)
Rs2Of(w)  == Shr(w \cap 20 .. 24, 20)
Funct3(w) == Shr(w \cap 12 .. 14, 12)
Funct7(w) == Shr(w \cap 25 .. 31, 25)
Upper12(w) == Shr(w, 20)

\* The entry of an eight-row table that funct3 selects; "" where none decodes.
ByFunct3(w, table) ==
  LET bit(b) == IF b \in Funct3(w) THEN 1 ELSE 0
  IN table[1 + bit(0) + 2 * bit(1) + 4 * bit(2)]

decodeLoad(w) ==
  LET op == ByFunct3(w, <<"lb", "lh", "lw", "", "lbu", "lhu", "", "">>)
  IN IF op = "" THEN nullptr ELSE MakeI(op, RdOf(w), Rs1Of(w), Upper12(w))

decodeExt(w) ==
  CASE Rs2Of(w) = {}  -> MakeI("extx", {}, {}, {})
    [] Rs2Of(w) = {0} -> MakeI("ext", {}, {}, {})
    [] OTHER          -> nullptr

\* fence and fence.i.
decodeFence(w) ==
  IF Funct3(w) \in {{}, {0}} THEN MakeI("addi", RdOf(w), Rs1Of(w), {}) ELSE nullptr

decodeUpper(w, op) == MakeU(op, RdOf(w), Shr(w \cap 12 .. 31, 12))

decodeR(w) ==
  LET table ==
        CASE Funct7(w) = {}  -> <<"add", "sll", "slt", "sltu", "xor", "srl", "or", "and">>
          [] Funct7(w) = {5} -> <<"sub", "", "", "", "", "sra", "", "">>
          [] Funct7(w) = {0} -> <<"mul", "mulh", "mulhsu", "mulhu", "div", "divu",
                                  "rem", "remu">>
          [] OTHER           -> <<"", "", "", "", "", "", "", "">>
      op == ByFunct3(w, table)
  IN IF op = "" THEN nullptr ELSE MakeR(op, RdOf(w), Rs1Of(w), Rs2Of(w))

\* Mutant: the shift amount keeps the bit that tells srai from srli.
decodeImmUnmasked(w) ==
  LET op == ByFunct3(w, <<"addi", "slli", "slti", "sltiu", "xori",
                          IF Funct7(w) = {} THEN "srli" ELSE "srai", "ori", "andi">>)
  IN MakeI(op, RdOf(w), Rs1Of(w), Upper12(w))

decodeImm(w) ==
  LET op == ByFunct3(w, <<"addi", "slli", "slti", "sltiu", "xori",
                          IF Funct7(w) = {} THEN "srli" ELSE "srai", "ori", "andi">>)
  IN MakeI(op, RdOf(w), Rs1Of(w),
           IF op \in {"srli", "srai"} THEN Upper12(w) \cap 0 .. 4 ELSE Upper12(w))

decodeStore(w) ==
  LET op == ByFunct3(w, <<"sb", "sh", "sw", "", "", "", "", "">>)
  IN IF op = "" THEN nullptr
     ELSE MakeS(op, Rs1Of(w), Rs2Of(w),
                Shr(w \cap 25 .. 31, 20) \cup (Shr(w, 7) \cap 0 .. 4))

decodeBranch(w) ==
  LET op == ByFunct3(w, <<"beq", "bne", "", "", "blt", "bge", "bltu", "bgeu">>)
  IN IF op = "" THEN nullptr
     ELSE MakeB(op, Rs1Of(w), Rs2Of(w),
                Shr(w \cap {31}, 19) \cup Shl(w \cap {7}, 4)
                  \cup (Shr(w, 20) \cap 5 .. 10) \cup (Shr(w, 7) \cap 1 .. 4))

decodeJal(w) ==
  MakeJ("jal", RdOf(w), Shr(w \cap {31}, 11) \cup (w \cap 12 .. 19)
                          \cup (Shr(w, 9) \cap {11}) \cup (Shr(w, 20) \cap 1 .. 10))

decodeSystem(w) ==
  LET op == CASE Funct3(w) # {} ->
                   ByFunct3(w, <<"", "csrrw", "csrrs", "csrrc", "",
                                 "csrrwi", "csrrsi", "csrrci">>)
              [] Funct3(w) = {} /\ Upper12(w) = Bits(\b0, 12)          -> "ecall"
              [] Funct3(w) = {} /\ Upper12(w) = Bits(\b1, 12)          -> "ebreak"
              [] Funct3(w) = {} /\ Upper12(w) = Bits(\b10, 12)         -> "uret"
              [] Funct3(w) = {} /\ Upper12(w) = Bits(\b100000010, 12)  -> "sret"
              [] Funct3(w) = {} /\ Upper12(w) = Bits(\b1100000010, 12) -> "mret"
              [] OTHER -> ""
  IN IF op = "" THEN nullptr ELSE MakeI(op, RdOf(w), Rs1Of(w), Upper12(w))

decode(w) ==
  CASE Opcode(w) = Bits(\b0000011, 7) -> decodeLoad(w)
    [] Opcode(w) = Bits(\b0001011, 7) -> decodeExt(w)
    [] Opcode(w) = Bits(\b0001111, 7) -> decodeFence(w)
    [] Opcode(w) = Bits(\b0010111, 7) -> decodeUpper(w, "auipc")
    [] Opcode(w) = Bits(\b0110011, 7) -> decodeR(w)
    [] Opcode(w) = Bits(\b0010011, 7) -> decodeImm(w)
    [] Opcode(w) = Bits(\b0110111, 7) -> decodeUpper(w, "lui")
    [] Opcode(w) = Bits(\b1100111, 7) -> MakeI("jalr", RdOf(w), Rs1Of(w), Upper12(w))
    [] Opcode(w) = Bits(\b0100011, 7) -> decodeStore(w)
    [] Opcode(w) = Bits(\b1100011, 7) -> decodeBranch(w)
    [] Opcode(w) = Bits(\b1101111, 7) -> decodeJal(w)
    [] Opcode(w) = Bits(\b1110011, 7) -> decodeSystem(w)
    [] OTHER -> nullptr

-----------------------------------------------------------------------------
(* The members as the instruction-level simulator uses them.               *)

\* signExtend<N>(bitset<N>).
signExtendBits(imm, n) == IF n - 1 \in imm THEN imm \cup n .. 31 ELSE imm

MemberImm(i) ==
  CASE i.op \in DOMAIN ITypeKinds \cup DOMAIN STypeKinds -> signExtendBits(i.imm, 12)
    [] i.op \in DOMAIN UTypeKinds -> signExtendBits(i.imm, 20)
    [] i.op \in DOMAIN BTypeKinds -> signExtendBits(i.imm, 13)
    [] i.op \in DOMAIN JTypeKinds -> signExtendBits(i.imm, 21)
    [] OTHER                      -> NoBits

(* The word as the pipeline uses it. *)

hasRd(i)  == i.op \notin DOMAIN STypeKinds \cup DOMAIN BTypeKinds
hasRs1(i) == i.op \notin DOMAIN UTypeKinds \cup DOMAIN JTypeKinds
hasRs2(i) == i.op \notin DOMAIN ITypeKinds \cup DOMAIN UTypeKinds
                           \cup DOMAIN JTypeKinds

getRd(w)   == Shr(w \cap 7 .. 11, 7)
getRs1(w)  == Shr(w \cap 15 .. 19, 15)
getRs2(w)  == Shr(w \cap 20 .. 24, 20)
getIImm(w) == Shr(w \cap 20 .. 31, 20)
getSImm(w) == Shr(w \cap 25 .. 31, 20) \cup (Shr(w, 7) \cap 0 .. 4)
getJImm(w) == Shr(w \cap {31}, 11) \cup (w \cap 12 .. 19)
                \cup (Shr(w, 9) \cap {11}) \cup (Shr(w, 20) \cap 1 .. 10)
\* Mutant: the mask of the lower part is the one of the S type, 0x1f.
getBImmMask(w) == Shr(w \cap {31}, 19) \cup Shl(w \cap {7}, 4)
                    \cup (Shr(w, 20) \cap 5 .. 10) \cup (Shr(w, 7) \cap 0 .. 4)
getBImm(w) == Shr(w \cap {31}, 19) \cup Shl(w \cap {7}, 4)
                \cup (Shr(w, 20) \cap 5 .. 10) \cup (Shr(w, 7) \cap 1 .. 4)
getUImm(w) == Shr(w \cap 12 .. 31, 12)

\* (~0 ^ (2^width - 1)) | imm
signExtend(imm, width) == IF width - 1 \in imm THEN (Bit \ 0 .. width - 1) \cup imm
                                               ELSE imm

PipelineImm(i) ==
  CASE i.op \in DOMAIN ITypeKinds -> signExtend(getIImm(i.val), 12)
    [] i.op \in DOMAIN STypeKinds -> signExtend(getSImm(i.val), 12)
    [] i.op \in DOMAIN JTypeKinds -> signExtend(signExtend(getJImm(i.val), 20), 20)
    [] i.op \in DOMAIN BTypeKinds -> signExtend(getBImm(i.val), 13)
    [] i.op \in DOMAIN UTypeKinds -> signExtend(getUImm(i.val), 20)
    [] OTHER                      -> NoBits

\* The sign of a jal offset is taken from bit 19: half a megabyte is out of reach.
NearJump(i) == i.op = "jal" => (19 \in i.imm <=> 20 \in i.imm)

\* Registers and immediate are the same in both readings.
FieldsOf(i) ==
  /\ hasRd(i)  => getRd(i.val) = i.rd
  /\ hasRs1(i) => getRs1(i.val) = i.rs1
  /\ hasRs2(i) => getRs2(i.val) = i.rs2
  /\ NearJump(i) => PipelineImm(i) = MemberImm(i)
=============================================================================
