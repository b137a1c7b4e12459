-------------------------- MODULE Encoding_proofs --------------------------
(***************************************************************************)
(* Proofs that the two simulators read the same registers and immediate    *)
(* from every word the decoder accepts, and that what is encoded is what   *)
(* is decoded again: the getters are lemmas about bits, the encoders about *)
(* which bits they set, the decoder's rows about which encoder they call.  *)
(***************************************************************************)
EXTENDS Encoding, TLAPS

-----------------------------------------------------------------------------

\* The low n bits of a number are below n.
LEMMA BitsRange == \A v \in Int, n \in Nat : Bits(v, n) \subseteq 0 .. n - 1
  BY DEF Bits

\* The mnemonics of each class of instructions.
LEMMA KindsI ==
  DOMAIN ITypeKinds =
    {"addi", "slti", "sltiu", "xori", "ori", "andi", "jalr", "lb", "lh", "lw", "lbu",
     "lhu", "slli", "srli", "srai", "csrrw", "csrrs", "csrrc", "csrrwi", "csrrsi",
     "csrrci", "ecall", "ebreak", "uret", "sret", "mret", "ext", "extx"}
  BY DEF ITypeKinds
\* The same of the stores.
LEMMA KindsS == DOMAIN STypeKinds = {"sb", "sh", "sw"}
  BY DEF STypeKinds
\* The same of the branches.
LEMMA KindsB == DOMAIN BTypeKinds = {"beq", "bne", "blt", "bge", "bltu", "bgeu"}
  BY DEF BTypeKinds
\* The same of lui and auipc.
LEMMA KindsU == DOMAIN UTypeKinds = {"lui", "auipc"}
  BY DEF UTypeKinds
\* The same of jal.
LEMMA KindsJ == DOMAIN JTypeKinds = {"jal"}
  BY DEF JTypeKinds
\* The same of the instructions on registers.
LEMMA KindsR ==
  DOMAIN RTypeKinds =
    {"add", "sub", "sll", "slt", "sltu", "xor", "srl", "sra", "or", "and", "mul",
     "mulh", "mulhsu", "mulhu", "div", "divu", "rem", "remu"}
  BY DEF RTypeKinds

(* What the getters of Instructions.h read off a word whose field holds s. *)
LEMMA RdRead ==
  ASSUME NEW w, NEW s \in SUBSET (0 .. 4), \A b \in 0 .. 4 : b + 7 \in w <=> b \in s
  PROVE  getRd(w) = s
<1>1. \A b \in Int : b \in getRd(w) <=> b \in s
  BY DEF getRd, Shr, Bit
<1>2. getRd(w) \subseteq Int /\ s \subseteq Int
  BY DEF getRd, Shr, Bit
<1> QED
  BY <1>1, <1>2, Zenon

\* The same of rs1.
LEMMA Rs1Read ==
  ASSUME NEW w, NEW s \in SUBSET (0 .. 4), \A b \in 0 .. 4 : b + 15 \in w <=> b \in s
  PROVE  getRs1(w) = s
<1>1. \A b \in Int : b \in getRs1(w) <=> b \in s
  BY DEF getRs1, Shr, Bit
<1>2. getRs1(w) \subseteq Int /\ s \subseteq Int
  BY DEF getRs1, Shr, Bit
<1> QED
  BY <1>1, <1>2, Zenon

\* The same of rs2.
LEMMA Rs2Read ==
  ASSUME NEW w, NEW s \in SUBSET (0 .. 4), \A b \in 0 .. 4 : b + 20 \in w <=> b \in s
  PROVE  getRs2(w) = s
<1>1. \A b \in Int : b \in getRs2(w) <=> b \in s
  BY DEF getRs2, Shr, Bit
<1>2. getRs2(w) \subseteq Int /\ s \subseteq Int
  BY DEF getRs2, Shr, Bit
<1> QED
  BY <1>1, <1>2, Zenon

\* The same of the immediate of the I type.
LEMMA IImmRead ==
  ASSUME NEW w, NEW s \in SUBSET (0 .. 11), \A b \in 0 .. 11 : b + 20 \in w <=> b \in s
  PROVE  getIImm(w) = s
<1>1. \A b \in Int : b \in getIImm(w) <=> b \in s
  BY DEF getIImm, Shr, Bit
<1>2. getIImm(w) \subseteq Int /\ s \subseteq Int
  BY DEF getIImm, Shr, Bit
<1> QED
  BY <1>1, <1>2, Zenon

\* The same of the immediate of the U type.
LEMMA UImmRead ==
  ASSUME NEW w, NEW s \in SUBSET (0 .. 19), \A b \in 0 .. 19 : b + 12 \in w <=> b \in s
  PROVE  getUImm(w) = s
<1>1. \A b \in Int : b \in getUImm(w) <=> b \in s
  BY DEF getUImm, Shr, Bit
<1>2. getUImm(w) \subseteq Int /\ s \subseteq Int
  BY DEF getUImm, Shr, Bit
<1> QED
  BY <1>1, <1>2, Zenon

\* The opcode of a word with these bits at its lower end.
LEMMA OpcodeRead ==
  ASSUME NEW w, NEW s \in SUBSET (0 .. 6), \A b \in 0 .. 6 : b \in w <=> b \in s
  PROVE  Opcode(w) = s
<1>1. \A b \in Int : b \in Opcode(w) <=> b \in s
  BY DEF Opcode
<1>2. Opcode(w) \subseteq Int /\ s \subseteq Int
  BY DEF Opcode
<1> QED
  BY <1>1, <1>2, Zenon

\* The same of funct3, bits 12 to 14.
LEMMA Funct3Read ==
  ASSUME NEW w, NEW s \in SUBSET (0 .. 2), \A b \in 0 .. 2 : b + 12 \in w <=> b \in s
  PROVE  Funct3(w) = s
<1>1. \A b \in Int : b \in Funct3(w) <=> b \in s
  BY DEF Funct3, Shr, Bit
<1>2. Funct3(w) \subseteq Int /\ s \subseteq Int
  BY DEF Funct3, Shr, Bit
<1> QED
  BY <1>1, <1>2, Zenon

\* The same of funct7, bits 25 to 31.
LEMMA Funct7Read ==
  ASSUME NEW w, NEW s \in SUBSET (0 .. 6), \A b \in 0 .. 6 : b + 25 \in w <=> b \in s
  PROVE  Funct7(w) = s
<1>1. \A b \in Int : b \in Funct7(w) <=> b \in s
  BY DEF Funct7, Shr, Bit
<1>2. Funct7(w) \subseteq Int /\ s \subseteq Int
  BY DEF Funct7, Shr, Bit
<1> QED
  BY <1>1, <1>2, Zenon

(* The immediates that are put together from several fields.               *)
LEMMA SImmRead ==
  ASSUME NEW w, NEW s \in SUBSET (0 .. 11),
         \A b \in 5 .. 11 : b + 20 \in w <=> b \in s,
         \A b \in 0 .. 4 : b + 7 \in w <=> b \in s
  PROVE  getSImm(w) = s
<1>1. \A b \in Int : b \in getSImm(w) <=> b \in s
  BY DEF getSImm, Shr, Shl, Bit
<1>2. getSImm(w) \subseteq Int /\ s \subseteq Int
  BY DEF getSImm, Shr, Shl, Bit
<1> QED
  BY <1>1, <1>2, Zenon

\* The same of the immediate of the B type.
LEMMA BImmRead ==
  ASSUME NEW w, NEW s \in SUBSET (1 .. 12),
         31 \in w <=> 12 \in s, 7 \in w <=> 11 \in s,
         \A b \in 5 .. 10 : b + 20 \in w <=> b \in s,
         \A b \in 1 .. 4 : b + 7 \in w <=> b \in s
  PROVE  getBImm(w) = s
<1>1. \A b \in Int : b \in getBImm(w) <=> b \in s
  BY DEF getBImm, Shr, Shl, Bit
<1>2. getBImm(w) \subseteq Int /\ s \subseteq Int
  BY DEF getBImm, Shr, Shl, Bit
<1> QED
  BY <1>1, <1>2, Zenon

\* The same of the immediate of the J type.
LEMMA JImmRead ==
  ASSUME NEW w, NEW s \in SUBSET (1 .. 20),
         31 \in w <=> 20 \in s, 20 \in w <=> 11 \in s,
         \A b \in 12 .. 19 : b \in w <=> b \in s,
         \A b \in 1 .. 10 : b + 20 \in w <=> b \in s
  PROVE  getJImm(w) = s
<1>1. \A b \in Int : b \in getJImm(w) <=> b \in s
  BY DEF getJImm, Shr, Shl, Bit
<1>2. getJImm(w) \subseteq Int /\ s \subseteq Int
  BY DEF getJImm, Shr, Shl, Bit
<1> QED
  BY <1>1, <1>2, Zenon

-----------------------------------------------------------------------------
(* What an encoder of InstructionTypes.h puts into a word is what the      *)
(* getters read off it.                                                    *)
LEMMA WordI ==
  ASSUME NEW k, k[1] \in Int, k[2] \in Int,
         NEW rd \in SUBSET (0 .. 4),
         NEW rs1 \in SUBSET (0 .. 4),
         NEW imm \in SUBSET (0 .. 11)
  PROVE  LET w == IWord(k, rd, rs1, imm)
         IN /\ getRd(w) = rd /\ getRs1(w) = rs1 /\ getIImm(w) = imm
            /\ Opcode(w) = Bits(k[2], 7)
            /\ Funct3(w) = Bits(k[1], 3)
<1> DEFINE w == IWord(k, rd, rs1, imm)
<1>0. PICK f \in SUBSET (0 .. 2), o \in SUBSET (0 .. 6) :
        Bits(k[1], 3) = f /\ Bits(k[2], 7) = o
  BY BitsRange
<1>1. \A b \in Bit : b \in w <=>
        \/ b - 20 \in imm
        \/ b - 15 \in rs1
        \/ b - 12 \in f
        \/ b - 7 \in rd
        \/ b \in o
  BY <1>0 DEF IWord, Shl, Shr, Bit
<1> HIDE DEF w
<1>2. getRd(w) = rd
  <2>1. \A b \in 0 .. 4 : b + 7 \in w <=> b \in rd
    BY <1>0, <1>1 DEF Bit
  <2> QED
    BY <2>1, RdRead
<1>3. getRs1(w) = rs1
  <2>1. \A b \in 0 .. 4 : b + 15 \in w <=> b \in rs1
    BY <1>0, <1>1 DEF Bit
  <2> QED
    BY <2>1, Rs1Read
<1>4. getIImm(w) = imm
  <2>1. \A b \in 0 .. 11 : b + 20 \in w <=> b \in imm
    BY <1>0, <1>1 DEF Bit
  <2> QED
    BY <2>1, IImmRead
<1>5. Opcode(w) = o
  <2>1. \A b \in 0 .. 6 : b \in w <=> b \in o
    BY <1>0, <1>1 DEF Bit
  <2> QED
    BY <2>1, OpcodeRead
<1>6. Funct3(w) = f
  <2>1. \A b \in 0 .. 2 : b + 12 \in w <=> b \in f
    BY <1>0, <1>1 DEF Bit
  <2> QED
    BY <2>1, Funct3Read
<1> QED
  BY <1>0, <1>2, <1>3, <1>4, <1>5, <1>6 DEF w

\* The same of the instructions on registers.
LEMMA WordR ==
  ASSUME NEW k, k[1] \in Int, k[2] \in Int, k[3] \in Int,
         NEW rd \in SUBSET (0 .. 4),
         NEW rs1 \in SUBSET (0 .. 4),
         NEW rs2 \in SUBSET (0 .. 4)
  PROVE  LET w == RWord(k, rd, rs1, rs2)
         IN /\ getRd(w) = rd /\ getRs1(w) = rs1 /\ getRs2(w) = rs2
            /\ Opcode(w) = Bits(k[3], 7)
            /\ Funct3(w) = Bits(k[2], 3)
            /\ Funct7(w) = Bits(k[1], 7)
<1> DEFINE w == RWord(k, rd, rs1, rs2)
<1>0. PICK g \in SUBSET (0 .. 6), f \in SUBSET (0 .. 2), o \in SUBSET (0 .. 6) :
        Bits(k[1], 7) = g /\ Bits(k[2], 3) = f /\ Bits(k[3], 7) = o
  BY BitsRange
<1>1. \A b \in Bit : b \in w <=>
        \/ b - 25 \in g
        \/ b - 20 \in rs2
        \/ b - 15 \in rs1
        \/ b - 12 \in f
        \/ b - 7 \in rd
        \/ b \in o
  BY <1>0 DEF RWord, Shl, Shr, Bit
<1> HIDE DEF w
<1>2. getRd(w) = rd
  <2>1. \A b \in 0 .. 4 : b + 7 \in w <=> b \in rd
    BY <1>0, <1>1 DEF Bit
  <2> QED
    BY <2>1, RdRead
<1>3. getRs1(w) = rs1
  <2>1. \A b \in 0 .. 4 : b + 15 \in w <=> b \in rs1
    BY <1>0, <1>1 DEF Bit
  <2> QED
    BY <2>1, Rs1Read
<1>4. getRs2(w) = rs2
  <2>1. \A b \in 0 .. 4 : b + 20 \in w <=> b \in rs2
    BY <1>0, <1>1 DEF Bit
  <2> QED
    BY <2>1, Rs2Read
<1>5. Opcode(w) = o
  <2>1. \A b \in 0 .. 6 : b \in w <=> b \in o
    BY <1>0, <1>1 DEF Bit
  <2> QED
    BY <2>1, OpcodeRead
<1>6. Funct3(w) = f
  <2>1. \A b \in 0 .. 2 : b + 12 \in w <=> b \in f
    BY <1>0, <1>1 DEF Bit
  <2> QED
    BY <2>1, Funct3Read
<1>7. Funct7(w) = g
  <2>1. \A b \in 0 .. 6 : b + 25 \in w <=> b \in g
    BY <1>0, <1>1 DEF Bit
  <2> QED
    BY <2>1, Funct7Read
<1> QED
  BY <1>0, <1>2, <1>3, <1>4, <1>5, <1>6, <1>7 DEF w

\* The same of lui and auipc.
LEMMA WordU ==
  ASSUME NEW k, k[1] \in Int,
         NEW rd \in SUBSET (0 .. 4),
         NEW imm \in SUBSET (0 .. 19)
  PROVE  LET w == UWord(k, rd, imm)
         IN /\ getRd(w) = rd /\ getUImm(w) = imm
            /\ Opcode(w) = Bits(k[1], 7)
<1> DEFINE w == UWord(k, rd, imm)
<1>0. PICK o \in SUBSET (0 .. 6) :
        Bits(k[1], 7) = o
  BY BitsRange
<1>1. \A b \in Bit : b \in w <=>
        \/ b - 12 \in imm
        \/ b - 7 \in rd
        \/ b \in o
  BY <1>0 DEF UWord, Shl, Shr, Bit
<1> HIDE DEF w
<1>2. getRd(w) = rd
  <2>1. \A b \in 0 .. 4 : b + 7 \in w <=> b \in rd
    BY <1>0, <1>1 DEF Bit
  <2> QED
    BY <2>1, RdRead
<1>3. getUImm(w) = imm
  <2>1. \A b \in 0 .. 19 : b + 12 \in w <=> b \in imm
    BY <1>0, <1>1 DEF Bit
  <2> QED
    BY <2>1, UImmRead
<1>4. Opcode(w) = o
  <2>1. \A b \in 0 .. 6 : b \in w <=> b \in o
    BY <1>0, <1>1 DEF Bit
  <2> QED
    BY <2>1, OpcodeRead
<1> QED
  BY <1>0, <1>2, <1>3, <1>4 DEF w

\* The same of the stores.
LEMMA WordS ==
  ASSUME NEW k, k[1] \in Int, k[2] \in Int,
         NEW rs1 \in SUBSET (0 .. 4),
         NEW rs2 \in SUBSET (0 .. 4),
         NEW imm \in SUBSET (0 .. 11)
  PROVE  LET w == SWord(k, rs1, rs2, imm)
         IN /\ getRs1(w) = rs1 /\ getRs2(w) = rs2 /\ getSImm(w) = imm
            /\ Opcode(w) = Bits(k[2], 7)
            /\ Funct3(w) = Bits(k[1], 3)
<1> DEFINE w == SWord(k, rs1, rs2, imm)
<1>0. PICK f \in SUBSET (0 .. 2), o \in SUBSET (0 .. 6) :
        Bits(k[1], 3) = f /\ Bits(k[2], 7) = o
  BY BitsRange
<1>1. \A b \in Bit : b \in w <=>
        \/ b \in 25 .. 31 /\ b - 20 \in imm
        \/ b - 20 \in rs2
        \/ b - 15 \in rs1
        \/ b - 12 \in f
        \/ b \in 7 .. 11 /\ b - 7 \in imm
        \/ b \in o
  BY <1>0 DEF SWord, Shl, Shr, Bit
<1> HIDE DEF w
<1>2. getRs1(w) = rs1
  <2>1. \A b \in 0 .. 4 : b + 15 \in w <=> b \in rs1
    BY <1>0, <1>1 DEF Bit
  <2> QED
    BY <2>1, Rs1Read
<1>3. getRs2(w) = rs2
  <2>1. \A b \in 0 .. 4 : b + 20 \in w <=> b \in rs2
    BY <1>0, <1>1 DEF Bit
  <2> QED
    BY <2>1, Rs2Read
<1>4. getSImm(w) = imm
  <2>1. \A b \in 5 .. 11 : b + 20 \in w <=> b \in imm
    BY <1>0, <1>1 DEF Bit
  <2>2. \A b \in 0 .. 4 : b + 7 \in w <=> b \in imm
    BY <1>0, <1>1 DEF Bit
  <2> QED
    BY <2>1, <2>2, SImmRead
<1>5. Opcode(w) = o
  <2>1. \A b \in 0 .. 6 : b \in w <=> b \in o
    BY <1>0, <1>1 DEF Bit
  <2> QED
    BY <2>1, OpcodeRead
<1>6. Funct3(w) = f
  <2>1. \A b \in 0 .. 2 : b + 12 \in w <=> b \in f
    BY <1>0, <1>1 DEF Bit
  <2> QED
    BY <2>1, Funct3Read
<1> QED
  BY <1>0, <1>2, <1>3, <1>4, <1>5, <1>6 DEF w

\* The same of the branches.
LEMMA WordB ==
  ASSUME NEW k, k[1] \in Int, k[2] \in Int,
         NEW rs1 \in SUBSET (0 .. 4),
         NEW rs2 \in SUBSET (0 .. 4),
         NEW imm \in SUBSET (1 .. 12)
  PROVE  LET w == BWord(k, rs1, rs2, imm)
         IN /\ getRs1(w) = rs1 /\ getRs2(w) = rs2 /\ getBImm(w) = imm
            /\ Opcode(w) = Bits(k[2], 7)
            /\ Funct3(w) = Bits(k[1], 3)
<1> DEFINE w == BWord(k, rs1, rs2, imm)
<1>0. PICK f \in SUBSET (0 .. 2), o \in SUBSET (0 .. 6) :
        Bits(k[1], 3) = f /\ Bits(k[2], 7) = o
  BY BitsRange
<1>1. \A b \in Bit : b \in w <=>
        \/ b = 31 /\ 12 \in imm
        \/ b \in 25 .. 30 /\ b - 20 \in imm
        \/ b - 20 \in rs2
        \/ b - 15 \in rs1
        \/ b - 12 \in f
        \/ b \in 8 .. 11 /\ b - 7 \in imm
        \/ b = 7 /\ 11 \in imm
        \/ b \in o
  BY <1>0 DEF BWord, Shl, Shr, Bit
<1> HIDE DEF w
<1>2. getRs1(w) = rs1
  <2>1. \A b \in 0 .. 4 : b + 15 \in w <=> b \in rs1
    BY <1>0, <1>1 DEF Bit
  <2> QED
    BY <2>1, Rs1Read
<1>3. getRs2(w) = rs2
  <2>1. \A b \in 0 .. 4 : b + 20 \in w <=> b \in rs2
    BY <1>0, <1>1 DEF Bit
  <2> QED
    BY <2>1, Rs2Read
<1>4. getBImm(w) = imm
  <2>1. 31 \in w <=> 12 \in imm
    BY <1>0, <1>1 DEF Bit
  <2>2. 7 \in w <=> 11 \in imm
    BY <1>0, <1>1 DEF Bit
  <2>3. \A b \in 5 .. 10 : b + 20 \in w <=> b \in imm
    BY <1>0, <1>1 DEF Bit
  <2>4. \A b \in 1 .. 4 : b + 7 \in w <=> b \in imm
    BY <1>0, <1>1 DEF Bit
  <2> QED
    BY <2>1, <2>2, <2>3, <2>4, BImmRead
<1>5. Opcode(w) = o
  <2>1. \A b \in 0 .. 6 : b \in w <=> b \in o
    BY <1>0, <1>1 DEF Bit
  <2> QED
    BY <2>1, OpcodeRead
<1>6. Funct3(w) = f
  <2>1. \A b \in 0 .. 2 : b + 12 \in w <=> b \in f
    BY <1>0, <1>1 DEF Bit
  <2> QED
    BY <2>1, Funct3Read
<1> QED
  BY <1>0, <1>2, <1>3, <1>4, <1>5, <1>6 DEF w

\* The same of jal.
LEMMA WordJ ==
  ASSUME NEW k, k[1] \in Int,
         NEW rd \in SUBSET (0 .. 4),
         NEW imm \in SUBSET (1 .. 20)
  PROVE  LET w == JWord(k, rd, imm)
         IN /\ getRd(w) = rd /\ getJImm(w) = imm
            /\ Opcode(w) = Bits(k[1], 7)
<1> DEFINE w == JWord(k, rd, imm)
<1>0. PICK o \in SUBSET (0 .. 6) :
        Bits(k[1], 7) = o
  BY BitsRange
<1>1. \A b \in Bit : b \in w <=>
        \/ b = 31 /\ 20 \in imm
        \/ b \in 21 .. 30 /\ b - 20 \in imm
        \/ b = 20 /\ 11 \in imm
        \/ b \in 12 .. 19 /\ b \in imm
        \/ b - 7 \in rd
        \/ b \in o
  BY <1>0 DEF JWord, Shl, Shr, Bit
<1> HIDE DEF w
<1>2. getRd(w) = rd
  <2>1. \A b \in 0 .. 4 : b + 7 \in w <=> b \in rd
    BY <1>0, <1>1 DEF Bit
  <2> QED
    BY <2>1, RdRead
<1>3. getJImm(w) = imm
  <2>1. 31 \in w <=> 20 \in imm
    BY <1>0, <1>1 DEF Bit
  <2>2. 20 \in w <=> 11 \in imm
    BY <1>0, <1>1 DEF Bit
  <2>3. \A b \in 12 .. 19 : b \in w <=> b \in imm
    BY <1>0, <1>1 DEF Bit
  <2>4. \A b \in 1 .. 10 : b + 20 \in w <=> b \in imm
    BY <1>0, <1>1 DEF Bit
  <2> QED
    BY <2>1, <2>2, <2>3, <2>4, JImmRead
<1>4. Opcode(w) = o
  <2>1. \A b \in 0 .. 6 : b \in w <=> b \in o
    BY <1>0, <1>1 DEF Bit
  <2> QED
    BY <2>1, OpcodeRead
<1> QED
  BY <1>0, <1>2, <1>3, <1>4 DEF w

-----------------------------------------------------------------------------
(* The kinds of a class have numbers for their fields.                     *)
LEMMA CodesI == \A op \in DOMAIN ITypeKinds : ITypeKinds[op][1] \in Int /\ ITypeKinds[op][2] \in Int
  BY KindsI DEF ITypeKinds
\* The same of the stores.
LEMMA CodesS == \A op \in DOMAIN STypeKinds : STypeKinds[op][1] \in Int /\ STypeKinds[op][2] \in Int
  BY KindsS DEF STypeKinds
\* The same of the branches.
LEMMA CodesB == \A op \in DOMAIN BTypeKinds : BTypeKinds[op][1] \in Int /\ BTypeKinds[op][2] \in Int
  BY KindsB DEF BTypeKinds
\* The same of lui and auipc.
LEMMA CodesU == \A op \in DOMAIN UTypeKinds : UTypeKinds[op][1] \in Int
  BY KindsU DEF UTypeKinds
\* The same of jal.
LEMMA CodesJ == \A op \in DOMAIN JTypeKinds : JTypeKinds[op][1] \in Int
  BY KindsJ DEF JTypeKinds
\* The same of the instructions on registers.
LEMMA CodesR ==
  \A op \in DOMAIN RTypeKinds :
    RTypeKinds[op][1] \in Int /\ RTypeKinds[op][2] \in Int /\ RTypeKinds[op][3] \in Int
  BY KindsR DEF RTypeKinds

(* No mnemonic is in two classes.                                          *)
LEMMA Classes ==
  /\ \A op \in DOMAIN ITypeKinds :
       op \notin DOMAIN STypeKinds \cup DOMAIN BTypeKinds \cup DOMAIN UTypeKinds
                   \cup DOMAIN JTypeKinds \cup DOMAIN RTypeKinds
  /\ \A op \in DOMAIN STypeKinds :
       op \notin DOMAIN BTypeKinds \cup DOMAIN UTypeKinds \cup DOMAIN JTypeKinds
                   \cup DOMAIN RTypeKinds
  /\ \A op \in DOMAIN BTypeKinds :
       op \notin DOMAIN UTypeKinds \cup DOMAIN JTypeKinds \cup DOMAIN RTypeKinds
  /\ \A op \in DOMAIN UTypeKinds : op \notin DOMAIN JTypeKinds \cup DOMAIN RTypeKinds
  /\ \A op \in DOMAIN JTypeKinds : op \notin DOMAIN RTypeKinds
<1>1. \A op \in DOMAIN ITypeKinds :
       op \notin DOMAIN STypeKinds \cup DOMAIN BTypeKinds \cup DOMAIN UTypeKinds
                   \cup DOMAIN JTypeKinds \cup DOMAIN RTypeKinds
  BY KindsI, KindsS, KindsB, KindsU, KindsJ, KindsR
<1>2. \A op \in DOMAIN STypeKinds :
       op \notin DOMAIN BTypeKinds \cup DOMAIN UTypeKinds \cup DOMAIN JTypeKinds
                   \cup DOMAIN RTypeKinds
  BY KindsS, KindsB, KindsU, KindsJ, KindsR
<1>3. \A op \in DOMAIN BTypeKinds :
       op \notin DOMAIN UTypeKinds \cup DOMAIN JTypeKinds \cup DOMAIN RTypeKinds
  BY KindsB, KindsU, KindsJ, KindsR
<1>4. /\ \A op \in DOMAIN UTypeKinds : op \notin DOMAIN JTypeKinds \cup DOMAIN RTypeKinds
      /\ \A op \in DOMAIN JTypeKinds : op \notin DOMAIN RTypeKinds
  BY KindsU, KindsJ, KindsR
<1> QED
  BY <1>1, <1>2, <1>3, <1>4

-----------------------------------------------------------------------------
(* The two sign extensions, one written with a mask (RIPSimulator.h) and   *)
(* one by shifting a sign up and down (signExtend<N>), are the same.       *)
LEMMA Extensions ==
  ASSUME NEW n \in 1 .. 31, NEW s \in SUBSET (0 .. n - 1)
  PROVE  signExtend(s, n) = signExtendBits(s, n)
<1>1. (Bit \ 0 .. n - 1) \cup s = s \cup n .. 31
  <2>1. \A b \in Int : b \in (Bit \ 0 .. n - 1) \cup s <=> b \in s \cup n .. 31
    BY DEF Bit
  <2>2. (Bit \ 0 .. n - 1) \cup s \subseteq Int /\ s \cup n .. 31 \subseteq Int
    BY DEF Bit
  <2> QED
    BY <2>1, <2>2, Zenon
<1> QED
  BY <1>1 DEF signExtend, signExtendBits

(* The offset of a jal is extended twice by the pipeline, from bit 19; for *)
(* a near jump that is the extension from bit 20.                          *)
LEMMA JumpExtension ==
  ASSUME NEW s \in SUBSET (1 .. 20), 19 \in s <=> 20 \in s
  PROVE  signExtend(signExtend(s, 20), 20) = signExtendBits(s, 21)
<1>1. CASE 19 \in s
  <2>1. \A b \in Int : b \in (Bit \ 0 .. 19) \cup s <=> b \in s \cup 21 .. 31
    BY <1>1 DEF Bit
  <2>2. (Bit \ 0 .. 19) \cup s \subseteq Int /\ s \cup 21 .. 31 \subseteq Int
    BY DEF Bit
  <2>3. (Bit \ 0 .. 19) \cup s = s \cup 21 .. 31
    BY <2>1, <2>2, Zenon
  <2>4. (Bit \ 0 .. 19) \cup ((Bit \ 0 .. 19) \cup s) = (Bit \ 0 .. 19) \cup s
    BY Zenon
  <2> QED
    BY <1>1, <2>3, <2>4 DEF signExtend, signExtendBits
<1>2. CASE 19 \notin s
  BY <1>2 DEF signExtend, signExtendBits
<1> QED
  BY <1>1, <1>2

-----------------------------------------------------------------------------
(* What a constructor makes is read alike, whatever the operands are.      *)
LEMMA FieldsOfI ==
  ASSUME NEW op \in DOMAIN ITypeKinds, NEW rd \in SUBSET (0 .. 4),
         NEW rs1 \in SUBSET (0 .. 4), NEW imm \in SUBSET (0 .. 11)
  PROVE  FieldsOf(MakeI(op, rd, rs1, imm))
<1> DEFINE i == MakeI(op, rd, rs1, imm)
<1>1. /\ i.op = op /\ i.rd = rd /\ i.rs1 = rs1 /\ i.imm = imm
      /\ i.val = IWord(ITypeKinds[op], rd, rs1, imm)
  BY DEF MakeI
<1> HIDE DEF i
<1>2. getRd(i.val) = rd /\ getRs1(i.val) = rs1 /\ getIImm(i.val) = imm
  <2>1. ITypeKinds[op][1] \in Int /\ ITypeKinds[op][2] \in Int
    BY CodesI
  <2>2. LET w == IWord(ITypeKinds[op], rd, rs1, imm)
        IN getRd(w) = rd /\ getRs1(w) = rs1 /\ getIImm(w) = imm
    BY <2>1, WordI
  <2> QED
    BY <1>1, <2>2
<1>3. signExtend(imm, 12) = signExtendBits(imm, 12)
  BY Extensions
<1>4. ~hasRs2(i)
  BY <1>1 DEF hasRs2
<1>5. PipelineImm(i) = signExtend(getIImm(i.val), 12)
  BY <1>1, Classes DEF PipelineImm
<1>6. MemberImm(i) = signExtendBits(i.imm, 12)
  BY <1>1, Classes DEF MemberImm
<1> QED
  BY <1>1, <1>2, <1>3, <1>4, <1>5, <1>6 DEF FieldsOf, i

\* The same of the stores.
LEMMA FieldsOfS ==
  ASSUME NEW op \in DOMAIN STypeKinds, NEW rs1 \in SUBSET (0 .. 4),
         NEW rs2 \in SUBSET (0 .. 4),
         NEW imm \in SUBSET (0 .. 11)
  PROVE  FieldsOf(MakeS(op, rs1, rs2, imm))
<1> DEFINE i == MakeS(op, rs1, rs2, imm)
<1>1. /\ i.op = op /\ i.rs1 = rs1 /\ i.rs2 = rs2 /\ i.imm = imm
      /\ i.val = SWord(STypeKinds[op], rs1, rs2, imm)
  BY DEF MakeS
<1> HIDE DEF i
<1>2. getRs1(i.val) = rs1 /\ getRs2(i.val) = rs2 /\ getSImm(i.val) = imm
  <2>1. STypeKinds[op][1] \in Int /\ STypeKinds[op][2] \in Int
    BY CodesS
  <2>2. LET w == SWord(STypeKinds[op], rs1, rs2, imm)
        IN getRs1(w) = rs1 /\ getRs2(w) = rs2 /\ getSImm(w) = imm
    BY <2>1, WordS
  <2> QED
    BY <1>1, <2>2
<1>3. ~hasRd(i)
  BY <1>1, Classes DEF hasRd
<1>4. signExtend(imm, 12) = signExtendBits(imm, 12)
  BY Extensions
<1>5. PipelineImm(i) = signExtend(getSImm(i.val), 12)
  BY <1>1, Classes DEF PipelineImm
<1>6. MemberImm(i) = signExtendBits(i.imm, 12)
  BY <1>1, Classes DEF MemberImm
<1> QED
  BY <1>1, <1>2, <1>3, <1>4, <1>5, <1>6 DEF FieldsOf, i

\* The same of the branches.
LEMMA FieldsOfB ==
  ASSUME NEW op \in DOMAIN BTypeKinds, NEW rs1 \in SUBSET (0 .. 4),
         NEW rs2 \in SUBSET (0 .. 4),
         NEW imm \in SUBSET (1 .. 12)
  PROVE  FieldsOf(MakeB(op, rs1, rs2, imm))
<1> DEFINE i == MakeB(op, rs1, rs2, imm)
<1>1. /\ i.op = op /\ i.rs1 = rs1 /\ i.rs2 = rs2 /\ i.imm = imm
      /\ i.val = BWord(BTypeKinds[op], rs1, rs2, imm)
  BY DEF MakeB
<1> HIDE DEF i
<1>2. getRs1(i.val) = rs1 /\ getRs2(i.val) = rs2 /\ getBImm(i.val) = imm
  <2>1. BTypeKinds[op][1] \in Int /\ BTypeKinds[op][2] \in Int
    BY CodesB
  <2>2. LET w == BWord(BTypeKinds[op], rs1, rs2, imm)
        IN getRs1(w) = rs1 /\ getRs2(w) = rs2 /\ getBImm(w) = imm
    BY <2>1, WordB
  <2> QED
    BY <1>1, <2>2
<1>3. ~hasRd(i)
  BY <1>1, Classes DEF hasRd
<1>4. imm \in SUBSET (0 .. 12)
  BY SMT
<1>5. signExtend(imm, 13) = signExtendBits(imm, 13)
  BY <1>4, Extensions
<1>6. PipelineImm(i) = signExtend(getBImm(i.val), 13)
  BY <1>1, Classes DEF PipelineImm
<1>7. MemberImm(i) = signExtendBits(i.imm, 13)
  BY <1>1, Classes DEF MemberImm
<1> QED
  BY <1>1, <1>2, <1>3, <1>4, <1>5, <1>6, <1>7 DEF FieldsOf, i

\* The same of lui and auipc.
LEMMA FieldsOfU ==
  ASSUME NEW op \in DOMAIN UTypeKinds, NEW rd \in SUBSET (0 .. 4),
         NEW imm \in SUBSET (0 .. 19)
  PROVE  FieldsOf(MakeU(op, rd, imm))
<1> DEFINE i == MakeU(op, rd, imm)
<1>1. /\ i.op = op /\ i.rd = rd /\ i.imm = imm
      /\ i.val = UWord(UTypeKinds[op], rd, imm)
  BY DEF MakeU
<1> HIDE DEF i
<1>2. getRd(i.val) = rd /\ getUImm(i.val) = imm
  <2>1. UTypeKinds[op][1] \in Int
    BY CodesU
  <2>2. LET w == UWord(UTypeKinds[op], rd, imm)
        IN getRd(w) = rd /\ getUImm(w) = imm
    BY <2>1, WordU
  <2> QED
    BY <1>1, <2>2
<1>3. ~hasRs1(i) /\ ~hasRs2(i)
  BY <1>1, Classes DEF hasRs1, hasRs2
<1>4. signExtend(imm, 20) = signExtendBits(imm, 20)
  BY Extensions
<1>5. PipelineImm(i) = signExtend(getUImm(i.val), 20)
  BY <1>1, Classes DEF PipelineImm
<1>6. MemberImm(i) = signExtendBits(i.imm, 20)
  BY <1>1, Classes DEF MemberImm
<1> QED
  BY <1>1, <1>2, <1>3, <1>4, <1>5, <1>6 DEF FieldsOf, i

\* The same of jal.
LEMMA FieldsOfJ ==
  ASSUME NEW op \in DOMAIN JTypeKinds, NEW rd \in SUBSET (0 .. 4),
         NEW imm \in SUBSET (1 .. 20)
  PROVE  FieldsOf(MakeJ(op, rd, imm))
<1> DEFINE i == MakeJ(op, rd, imm)
<1>1. /\ i.op = op /\ i.rd = rd /\ i.imm = imm
      /\ i.val = JWord(JTypeKinds[op], rd, imm)
  BY DEF MakeJ
<1> HIDE DEF i
<1>2. getRd(i.val) = rd /\ getJImm(i.val) = imm
  <2>1. JTypeKinds[op][1] \in Int
    BY CodesJ
  <2>2. LET w == JWord(JTypeKinds[op], rd, imm)
        IN getRd(w) = rd /\ getJImm(w) = imm
    BY <2>1, WordJ
  <2> QED
    BY <1>1, <2>2
<1>3. ~hasRs1(i) /\ ~hasRs2(i)
  BY <1>1, Classes DEF hasRs1, hasRs2
<1>4. NearJump(i) => signExtend(signExtend(imm, 20), 20) = signExtendBits(imm, 21)
  BY <1>1, KindsJ, JumpExtension DEF NearJump
<1>5. PipelineImm(i) = signExtend(signExtend(getJImm(i.val), 20), 20)
  BY <1>1, Classes DEF PipelineImm
<1>6. MemberImm(i) = signExtendBits(i.imm, 21)
  BY <1>1, Classes DEF MemberImm
<1> QED
  BY <1>1, <1>2, <1>3, <1>4, <1>5, <1>6 DEF FieldsOf, i

\* The same of the instructions on registers.
LEMMA FieldsOfR ==
  ASSUME NEW op \in DOMAIN RTypeKinds, NEW rd \in SUBSET (0 .. 4),
         NEW rs1 \in SUBSET (0 .. 4),
         NEW rs2 \in SUBSET (0 .. 4)
  PROVE  FieldsOf(MakeR(op, rd, rs1, rs2))
<1> DEFINE i == MakeR(op, rd, rs1, rs2)
<1>1. /\ i.op = op /\ i.rd = rd /\ i.rs1 = rs1 /\ i.rs2 = rs2
      /\ i.val = RWord(RTypeKinds[op], rd, rs1, rs2)
  BY DEF MakeR
<1> HIDE DEF i
<1>2. getRd(i.val) = rd /\ getRs1(i.val) = rs1 /\ getRs2(i.val) = rs2
  <2>1. RTypeKinds[op][1] \in Int /\ RTypeKinds[op][2] \in Int /\ RTypeKinds[op][3] \in Int
    BY CodesR
  <2>2. LET w == RWord(RTypeKinds[op], rd, rs1, rs2)
        IN getRd(w) = rd /\ getRs1(w) = rs1 /\ getRs2(w) = rs2
    BY <2>1, WordR
  <2> QED
    BY <1>1, <2>2
<1>4. PipelineImm(i) = NoBits
  BY <1>1, Classes DEF PipelineImm
<1>5. MemberImm(i) = NoBits
  BY <1>1, Classes DEF MemberImm
<1> QED
  BY <1>1, <1>2, <1>4, <1>5 DEF FieldsOf, i

-----------------------------------------------------------------------------
(* What the decoder cuts out of a word fits the operands of a constructor. *)
LEMMA Operands ==
  ASSUME NEW w \in SUBSET Bit
  PROVE  /\ RdOf(w) \in SUBSET (0 .. 4) /\ Rs1Of(w) \in SUBSET (0 .. 4)
         /\ Rs2Of(w) \in SUBSET (0 .. 4) /\ Upper12(w) \in SUBSET (0 .. 11)
<1>1. RdOf(w) \in SUBSET (0 .. 4) /\ Rs1Of(w) \in SUBSET (0 .. 4)
  BY DEF RdOf, Rs1Of, Shr, Bit
<1>2. Rs2Of(w) \in SUBSET (0 .. 4) /\ Upper12(w) \in SUBSET (0 .. 11)
  BY DEF Rs2Of, Upper12, Shr, Bit
<1> QED
  BY <1>1, <1>2

(* A table of eight rows has a row for every funct3.                       *)
LEMMA Rows ==
  ASSUME NEW w, NEW r1, NEW r2, NEW r3, NEW r4, NEW r5, NEW r6, NEW r7, NEW r8
  PROVE  ByFunct3(w, <<r1, r2, r3, r4, r5, r6, r7, r8>>)
           \in {r1, r2, r3, r4, r5, r6, r7, r8}
BY DEF ByFunct3

\* Each row of the decoder: what it makes is read alike.
LEMMA DecodeLoad ==
  ASSUME NEW w \in SUBSET Bit, decodeLoad(w) # nullptr
  PROVE  FieldsOf(decodeLoad(w))
<1> DEFINE op == ByFunct3(w, <<"lb", "lh", "lw", "", "lbu", "lhu", "", "">>)
<1>1. op \in {"lb", "lh", "lw", "", "lbu", "lhu", "", ""}
  BY Rows
<1>2. decodeLoad(w) = IF op = "" THEN nullptr ELSE MakeI(op, RdOf(w), Rs1Of(w), Upper12(w))
  BY DEF decodeLoad
<1> HIDE DEF op
<1>3. decodeLoad(w) = MakeI(op, RdOf(w), Rs1Of(w), Upper12(w)) /\ op \in DOMAIN ITypeKinds
  BY <1>1, <1>2, KindsI
<1> QED
  BY <1>3, Operands, FieldsOfI

\* The same of decodeExt.
LEMMA DecodeExt ==
  ASSUME NEW w \in SUBSET Bit, decodeExt(w) # nullptr
  PROVE  FieldsOf(decodeExt(w))
<1>1. "ext" \in DOMAIN ITypeKinds /\ "extx" \in DOMAIN ITypeKinds
  BY KindsI
<1>2. FieldsOf(MakeI("ext", {}, {}, {})) /\ FieldsOf(MakeI("extx", {}, {}, {}))
  BY <1>1, FieldsOfI
<1>3. decodeExt(w) \in {MakeI("ext", {}, {}, {}), MakeI("extx", {}, {}, {}), nullptr}
  BY DEF decodeExt
<1> QED
  BY <1>2, <1>3

\* The same of decodeFence.
LEMMA DecodeFence ==
  ASSUME NEW w \in SUBSET Bit, decodeFence(w) # nullptr
  PROVE  FieldsOf(decodeFence(w))
<1>1. decodeFence(w) = MakeI("addi", RdOf(w), Rs1Of(w), {})
  BY DEF decodeFence
<1>2. "addi" \in DOMAIN ITypeKinds
  BY KindsI
<1> QED
  BY <1>1, <1>2, Operands, FieldsOfI

\* The same of decodeUpper.
LEMMA DecodeUpper ==
  ASSUME NEW w \in SUBSET Bit, NEW op \in {"auipc", "lui"}
  PROVE  FieldsOf(decodeUpper(w, op))
<1>1. op \in DOMAIN UTypeKinds
  BY KindsU
<1>2. Shr(w \cap 12 .. 31, 12) \in SUBSET (0 .. 19)
  BY DEF Shr, Bit
<1> QED
  BY <1>1, <1>2, Operands, FieldsOfU DEF decodeUpper

\* The same of decodeR.
LEMMA DecodeR ==
  ASSUME NEW w \in SUBSET Bit, decodeR(w) # nullptr
  PROVE  FieldsOf(decodeR(w))
<1> DEFINE Base   == <<"add", "sll", "slt", "sltu", "xor", "srl", "or", "and">>
           Minus  == <<"sub", "", "", "", "", "sra", "", "">>
           Mul    == <<"mul", "mulh", "mulhsu", "mulhu", "div", "divu", "rem", "remu">>
           None   == <<"", "", "", "", "", "", "", "">>
           table  == CASE Funct7(w) = {}  -> Base
                       [] Funct7(w) = {5} -> Minus
                       [] Funct7(w) = {0} -> Mul
                       [] OTHER           -> None
           op == ByFunct3(w, table)
<1>1. decodeR(w) = IF op = "" THEN nullptr ELSE MakeR(op, RdOf(w), Rs1Of(w), Rs2Of(w))
  BY DEF decodeR
<1>2. /\ ByFunct3(w, Base) \in {"add", "sll", "slt", "sltu", "xor", "srl", "or", "and"}
      /\ ByFunct3(w, Minus) \in {"sub", "", "", "", "", "sra", "", ""}
      /\ ByFunct3(w, Mul) \in {"mul", "mulh", "mulhsu", "mulhu", "div", "divu", "rem", "remu"}
      /\ ByFunct3(w, None) \in {"", "", "", "", "", "", "", ""}
  BY Rows
<1> HIDE DEF Base, Minus, Mul, None
<1>3. table \in {Base, Minus, Mul, None}
  <2>1. \/ Funct7(w) = {} \/ Funct7(w) = {5} \/ Funct7(w) = {0}
        \/ ~(Funct7(w) = {} \/ Funct7(w) = {5} \/ Funct7(w) = {0})
    OBVIOUS
  <2>2. 0 # 5
    OBVIOUS
  <2> QED
    BY <2>1, <2>2
<1> HIDE DEF table
<1>4. op \in DOMAIN RTypeKinds \cup {""}
  BY <1>2, <1>3, KindsR
<1> HIDE DEF op
<1>5. decodeR(w) = MakeR(op, RdOf(w), Rs1Of(w), Rs2Of(w)) /\ op \in DOMAIN RTypeKinds
  BY <1>1, <1>4
<1> QED
  BY <1>5, Operands, FieldsOfR

\* The same of decodeImm.
LEMMA DecodeImm ==
  ASSUME NEW w \in SUBSET Bit
  PROVE  FieldsOf(decodeImm(w))
<1> DEFINE shift == IF Funct7(w) = {} THEN "srli" ELSE "srai"
           op  == ByFunct3(w, <<"addi", "slli", "slti", "sltiu", "xori", shift, "ori", "andi">>)
           imm == IF op \in {"srli", "srai"} THEN Upper12(w) \cap 0 .. 4 ELSE Upper12(w)
<1>1. decodeImm(w) = MakeI(op, RdOf(w), Rs1Of(w), imm)
  BY DEF decodeImm
<1>2. imm \in SUBSET (0 .. 11)
  <2> HIDE DEF op
  <2> QED
    BY Operands
<1>3. op \in {"addi", "slli", "slti", "sltiu", "xori", shift, "ori", "andi"}
  <2> HIDE DEF shift
  <2> QED
    BY Rows
<1>4. shift \in {"srli", "srai"}
  OBVIOUS
<1> HIDE DEF shift, op, imm
<1>5. op \in DOMAIN ITypeKinds
  BY <1>3, <1>4, KindsI
<1> QED
  BY <1>1, <1>2, <1>5, Operands, FieldsOfI

\* The same of decodeStore.
LEMMA DecodeStore ==
  ASSUME NEW w \in SUBSET Bit, decodeStore(w) # nullptr
  PROVE  FieldsOf(decodeStore(w))
<1> DEFINE op  == ByFunct3(w, <<"sb", "sh", "sw", "", "", "", "", "">>)
           imm == Shr(w \cap 25 .. 31, 20) \cup (Shr(w, 7) \cap 0 .. 4)
<1>1. op \in {"sb", "sh", "sw", "", "", "", "", ""}
  BY Rows
<1>2. decodeStore(w) = IF op = "" THEN nullptr ELSE MakeS(op, Rs1Of(w), Rs2Of(w), imm)
  BY DEF decodeStore
<1>3. imm \in SUBSET (0 .. 11)
  BY DEF Shr, Bit
<1> HIDE DEF op, imm
<1>4. decodeStore(w) = MakeS(op, Rs1Of(w), Rs2Of(w), imm) /\ op \in DOMAIN STypeKinds
  BY <1>1, <1>2, KindsS
<1> QED
  BY <1>3, <1>4, Operands, FieldsOfS

\* The same of decodeBranch.
LEMMA DecodeBranch ==
  ASSUME NEW w \in SUBSET Bit, decodeBranch(w) # nullptr
  PROVE  FieldsOf(decodeBranch(w))
<1> DEFINE op  == ByFunct3(w, <<"beq", "bne", "", "", "blt", "bge", "bltu", "bgeu">>)
           imm == Shr(w \cap {31}, 19) \cup Shl(w \cap {7}, 4)
                    \cup (Shr(w, 20) \cap 5 .. 10) \cup (Shr(w, 7) \cap 1 .. 4)
<1>1. op \in {"beq", "bne", "", "", "blt", "bge", "bltu", "bgeu"}
  BY Rows
<1>2. decodeBranch(w) = IF op = "" THEN nullptr ELSE MakeB(op, Rs1Of(w), Rs2Of(w), imm)
  BY DEF decodeBranch
<1>3. imm \in SUBSET (1 .. 12)
  BY DEF Shr, Shl, Bit
<1> HIDE DEF op, imm
<1>4. decodeBranch(w) = MakeB(op, Rs1Of(w), Rs2Of(w), imm) /\ op \in DOMAIN BTypeKinds
  BY <1>1, <1>2, KindsB
<1> QED
  BY <1>3, <1>4, Operands, FieldsOfB

\* The same of decodeJal.
LEMMA DecodeJal ==
  ASSUME NEW w \in SUBSET Bit
  PROVE  FieldsOf(decodeJal(w))
<1> DEFINE imm == Shr(w \cap {31}, 11) \cup (w \cap 12 .. 19)
                    \cup (Shr(w, 9) \cap {11}) \cup (Shr(w, 20) \cap 1 .. 10)
<1>1. decodeJal(w) = MakeJ("jal", RdOf(w), imm)
  BY DEF decodeJal
<1>2. imm \in SUBSET (1 .. 20)
  BY DEF Shr, Bit
<1> HIDE DEF imm
<1>3. "jal" \in DOMAIN JTypeKinds
  BY KindsJ
<1> QED
  BY <1>1, <1>2, <1>3, Operands, FieldsOfJ

\* The same of decodeSystem.
LEMMA DecodeSystem ==
  ASSUME NEW w \in SUBSET Bit, decodeSystem(w) # nullptr
  PROVE  FieldsOf(decodeSystem(w))
<1> DEFINE Csr == ByFunct3(w, <<"", "csrrw", "csrrs", "csrrc", "", "csrrwi", "csrrsi", "csrrci">>)
           op == CASE Funct3(w) # {} -> Csr
                   [] Funct3(w) = {} /\ Upper12(w) = Bits(\b0, 12)          -> "ecall"
                   [] Funct3(w) = {} /\ Upper12(w) = Bits(\b1, 12)          -> "ebreak"
                   [] Funct3(w) = {} /\ Upper12(w) = Bits(\b10, 12)         -> "uret"
                   [] Funct3(w) = {} /\ Upper12(w) = Bits(\b100000010, 12)  -> "sret"
                   [] Funct3(w) = {} /\ Upper12(w) = Bits(\b1100000010, 12) -> "mret"
                   [] OTHER -> ""
<1>1. decodeSystem(w) = IF op = "" THEN nullptr ELSE MakeI(op, RdOf(w), Rs1Of(w), Upper12(w))
  BY DEF decodeSystem
<1>2. Csr \in {"", "csrrw", "csrrs", "csrrc", "", "csrrwi", "csrrsi", "csrrci"}
  BY Rows
<1> HIDE DEF Csr
<1>3. op \in {Csr, "ecall", "ebreak", "uret", "sret", "mret", ""}
  OBVIOUS
<1> HIDE DEF op
<1>4. decodeSystem(w) = MakeI(op, RdOf(w), Rs1Of(w), Upper12(w)) /\ op \in DOMAIN ITypeKinds
  BY <1>1, <1>2, <1>3, KindsI
<1> QED
  BY <1>4, Operands, FieldsOfI

-----------------------------------------------------------------------------
(* Of every 32-bit word that decodes, the pipeline and the instruction-     *)
(* level simulator see the same registers and the same immediate, a near    *)
(* jump's offset included: cutting the fields out, building the word again  *)
(* in a constructor and cutting them out of that one loses nothing          *)
(* (Decoder.cpp:3-308, InstructionTypes.h, Instructions.h:62-119).          *)
THEOREM EveryWordAgrees == \A w \in SUBSET Bit : decode(w) # nullptr => FieldsOf(decode(w))
<1> SUFFICES ASSUME NEW w \in SUBSET Bit, decode(w) # nullptr
             PROVE  FieldsOf(decode(w))
  OBVIOUS
<1> DEFINE jalr == MakeI("jalr", RdOf(w), Rs1Of(w), Upper12(w))
<1>1. decode(w) \in {decodeLoad(w), decodeExt(w), decodeFence(w), decodeUpper(w, "auipc"),
                    decodeR(w), decodeImm(w), decodeUpper(w, "lui"), jalr,
                    decodeStore(w), decodeBranch(w), decodeJal(w), decodeSystem(w),
                    nullptr}
  <2> HIDE DEF jalr
  <2> QED
    BY DEF decode, jalr
<1>2. FieldsOf(jalr)
  <2>1. "jalr" \in DOMAIN ITypeKinds
    BY KindsI
  <2> QED
    BY <2>1, Operands, FieldsOfI
<1> HIDE DEF jalr
<1>3. /\ decodeLoad(w) # nullptr => FieldsOf(decodeLoad(w))
      /\ decodeExt(w) # nullptr => FieldsOf(decodeExt(w))
      /\ decodeFence(w) # nullptr => FieldsOf(decodeFence(w))
      /\ FieldsOf(decodeUpper(w, "auipc")) /\ FieldsOf(decodeUpper(w, "lui"))
  BY DecodeLoad, DecodeExt, DecodeFence, DecodeUpper
<1>4. /\ decodeR(w) # nullptr => FieldsOf(decodeR(w))
      /\ FieldsOf(decodeImm(w)) /\ FieldsOf(decodeJal(w))
      /\ decodeStore(w) # nullptr => FieldsOf(decodeStore(w))
      /\ decodeBranch(w) # nullptr => FieldsOf(decodeBranch(w))
      /\ decodeSystem(w) # nullptr => FieldsOf(decodeSystem(w))
  BY DecodeR, DecodeImm, DecodeJal, DecodeStore, DecodeBranch, DecodeSystem
<1> QED
  BY <1>1, <1>2, <1>3, <1>4

-----------------------------------------------------------------------------
(* The bits of a number.                                                  *)

\* What bit b is worth, and whether a number has it.
Weight(b) == 2^b
HasBit(v, b) == (v \div Weight(b)) % 2 = 1

\* Bits with the weights kept folded.
LEMMA BitsAre == \A v, n : Bits(v, n) = {b \in 0 .. n - 1 : HasBit(v, b)}
  BY DEF Bits, HasBit, Weight

\* The weights of the bits.
LEMMA Weights ==
  /\ Weight(0) = 1 /\ Weight(1) = 2 /\ Weight(2) = 4 /\ Weight(3) = 8
  /\ Weight(4) = 16 /\ Weight(5) = 32 /\ Weight(6) = 64 /\ Weight(7) = 128
  /\ Weight(8) = 256 /\ Weight(9) = 512 /\ Weight(10) = 1024 /\ Weight(11) = 2048
  /\ Weight(12) = 4096 /\ Weight(13) = 8192 /\ Weight(14) = 16384 /\ Weight(15) = 32768
  /\ Weight(16) = 65536 /\ Weight(17) = 131072 /\ Weight(18) = 262144 /\ Weight(19) = 524288
  /\ Weight(20) = 1048576 /\ Weight(21) = 2097152 /\ Weight(22) = 4194304 /\ Weight(23) = 8388608
  /\ Weight(24) = 16777216 /\ Weight(25) = 33554432 /\ Weight(26) = 67108864 /\ Weight(27) = 134217728
  /\ Weight(28) = 268435456 /\ Weight(29) = 536870912 /\ Weight(30) = 1073741824
BY DEF Weight

\* The positions of the bits below the sign.
LEMMA Positions ==
  \A b \in 0 .. 30 :
     \/ b = 0 \/ b = 1 \/ b = 2 \/ b = 3 \/ b = 4 \/ b = 5 \/ b = 6 \/ b = 7
     \/ b = 8 \/ b = 9 \/ b = 10 \/ b = 11 \/ b = 12 \/ b = 13 \/ b = 14 \/ b = 15
     \/ b = 16 \/ b = 17 \/ b = 18 \/ b = 19 \/ b = 20 \/ b = 21 \/ b = 22 \/ b = 23
     \/ b = 24 \/ b = 25 \/ b = 26 \/ b = 27 \/ b = 28 \/ b = 29 \/ b = 30
OBVIOUS

\* The weights from the sign of an immediate on are not below its own.
LEMMA Heavier ==
  /\ \A b \in 0 .. 30 : Weight(b) \in Nat /\ 0 < Weight(b)
  /\ \A b \in 5 .. 30 : 32 <= Weight(b)
  /\ \A b \in 11 .. 30 : 2048 <= Weight(b)
  /\ \A b \in 12 .. 30 : 4096 <= Weight(b)
  /\ \A b \in 19 .. 30 : 524288 <= Weight(b)
  /\ \A b \in 20 .. 30 : 1048576 <= Weight(b)
<1>1. \A b \in 0 .. 30 : Weight(b) \in Nat /\ 0 < Weight(b)
  BY Weights, Positions, SMT
<1>2. \A b \in 5 .. 30 : 32 <= Weight(b)
  BY Weights, Positions, SMT
<1>3. \A b \in 11 .. 30 : 2048 <= Weight(b)
  BY Weights, Positions, SMT
<1>4. \A b \in 12 .. 30 : 4096 <= Weight(b)
  BY Weights, Positions, SMT
<1>5. \A b \in 19 .. 30 : 524288 <= Weight(b)
  BY Weights, Positions, SMT
<1>6. \A b \in 20 .. 30 : 1048576 <= Weight(b)
  BY Weights, Positions, SMT
<1> QED
  BY <1>1, <1>2, <1>3, <1>4, <1>5, <1>6, SMT

\* From a number's own size on, every bit is its sign.
LEMMA High ==
  ASSUME NEW v \in Int, NEW m \in Nat, NEW p \in Nat, 0 < p, m <= p, -m <= v, v < m
  PROVE  (v \div p) % 2 = 1 <=> v < 0
<1>1. CASE v < 0
  <2>1. v \div p = -1
    <3>1. v = p * (-1) + (v + p) /\ 0 <= v + p /\ v + p < p
      BY <1>1
    <3> QED
      BY <3>1
  <2> QED
    BY <1>1, <2>1
<1>2. CASE v >= 0
  <2>1. v \div p = 0
    <3>1. v = p * 0 + v /\ 0 <= v /\ v < p
      BY <1>2
    <3> QED
      BY <3>1
  <2> QED
    BY <1>2, <2>1
<1> QED
  BY <1>1, <1>2

\* The bits of a number that fits n bits, extended with their sign, are its bits.
LEMMA Extended ==
  ASSUME NEW n \in 1 .. 31, NEW m \in Nat, \A b \in n - 1 .. 30 : m <= Weight(b),
         NEW v \in Int, -m <= v, v < m
  PROVE  signExtendBits(Bits(v, n), n) = IntBits(v)
<1>1. ASSUME NEW b \in n - 1 .. 30 PROVE HasBit(v, b) <=> v < 0
  <2>1. Weight(b) \in Nat /\ 0 < Weight(b) /\ m <= Weight(b)
    BY Heavier
  <2> QED
    BY <2>1, High DEF HasBit
<1>2. /\ Bits(v, n) = {b \in 0 .. n - 1 : HasBit(v, b)}
      /\ Bits(v, 31) = {b \in 0 .. 31 - 1 : HasBit(v, b)}
  BY BitsAre
<1>3. ASSUME NEW b \in Int
      PROVE  b \in signExtendBits(Bits(v, n), n) <=> b \in IntBits(v)
  BY <1>1, <1>2 DEF signExtendBits, IntBits
<1>4. signExtendBits(Bits(v, n), n) \subseteq Int /\ IntBits(v) \subseteq Int
  BY <1>2 DEF signExtendBits, IntBits
<1> QED
  BY <1>3, <1>4, Zenon

\* The immediates of the classes: 12, 13, 20 and 21 bits with a sign.
LEMMA Extended12 ==
  ASSUME NEW v \in Int, -2048 <= v, v < 2048
  PROVE  signExtendBits(Bits(v, 12), 12) = IntBits(v)
<1>1. PICK n \in 1 .. 31, m \in Nat : n = 12 /\ m = 2048
  OBVIOUS
<1>2. \A b \in n - 1 .. 30 : m <= Weight(b)
  BY <1>1, Heavier, SMT
<1>3. -m <= v /\ v < m
  BY <1>1, SMT
<1> QED
  BY <1>1, <1>2, <1>3, Extended, SMT

\* The same of the branches.
LEMMA Extended13 ==
  ASSUME NEW v \in Int, -4096 <= v, v < 4096
  PROVE  signExtendBits(Bits(v, 13), 13) = IntBits(v)
<1>1. PICK n \in 1 .. 31, m \in Nat : n = 13 /\ m = 4096
  OBVIOUS
<1>2. \A b \in n - 1 .. 30 : m <= Weight(b)
  BY <1>1, Heavier, SMT
<1>3. -m <= v /\ v < m
  BY <1>1, SMT
<1> QED
  BY <1>1, <1>2, <1>3, Extended, SMT

\* The same of lui and auipc.
LEMMA Extended20 ==
  ASSUME NEW v \in Int, -524288 <= v, v < 524288
  PROVE  signExtendBits(Bits(v, 20), 20) = IntBits(v)
<1>1. PICK n \in 1 .. 31, m \in Nat : n = 20 /\ m = 524288
  OBVIOUS
<1>2. \A b \in n - 1 .. 30 : m <= Weight(b)
  BY <1>1, Heavier, SMT
<1>3. -m <= v /\ v < m
  BY <1>1, SMT
<1> QED
  BY <1>1, <1>2, <1>3, Extended, SMT

\* The same of jal.
LEMMA Extended21 ==
  ASSUME NEW v \in Int, -1048576 <= v, v < 1048576
  PROVE  signExtendBits(Bits(v, 21), 21) = IntBits(v)
<1>1. PICK n \in 1 .. 31, m \in Nat : n = 21 /\ m = 1048576
  OBVIOUS
<1>2. \A b \in n - 1 .. 30 : m <= Weight(b)
  BY <1>1, Heavier, SMT
<1>3. -m <= v /\ v < m
  BY <1>1, SMT
<1> QED
  BY <1>1, <1>2, <1>3, Extended, SMT

\* A shift amount has five bits, zero has none.
LEMMA ShiftBits == \A v \in 0 .. 31 : Bits(v, 12) \subseteq 0 .. 4
<1> SUFFICES ASSUME NEW v \in 0 .. 31 PROVE Bits(v, 12) \subseteq 0 .. 4
  OBVIOUS
<1>1. ASSUME NEW b \in 5 .. 11 PROVE ~HasBit(v, b)
  <2>1. Weight(b) \in Nat /\ 0 < Weight(b) /\ 32 <= Weight(b)
    BY Heavier
  <2> QED
    BY <2>1, High DEF HasBit
<1> QED
  BY <1>1, BitsAre

\* Zero has no bits, its sign is clear.
LEMMA NoneExtended == IntBits(0) = {}
<1>1. ASSUME NEW b \in 0 .. 30 PROVE ~HasBit(0, b)
  <2>1. Weight(b) \in Nat /\ 0 < Weight(b)
    BY Heavier
  <2>2. 1 <= Weight(b)
    BY <2>1
  <2> QED
    BY <2>1, <2>2, High DEF HasBit
<1>2. Bits(0, 31) = {}
  BY <1>1, BitsAre
<1> QED
  BY <1>2 DEF IntBits

\* The twelve low bits of a number.
LEMMA LowBits ==
  ASSUME NEW v \in Int
  PROVE  /\ HasBit(v, 0) <=> v % 2 = 1
         /\ HasBit(v, 1) <=> (v \div 2) % 2 = 1
         /\ HasBit(v, 2) <=> (v \div 4) % 2 = 1
         /\ HasBit(v, 3) <=> (v \div 8) % 2 = 1
         /\ HasBit(v, 4) <=> (v \div 16) % 2 = 1
         /\ HasBit(v, 5) <=> (v \div 32) % 2 = 1
         /\ HasBit(v, 6) <=> (v \div 64) % 2 = 1
         /\ HasBit(v, 7) <=> (v \div 128) % 2 = 1
         /\ HasBit(v, 8) <=> (v \div 256) % 2 = 1
         /\ HasBit(v, 9) <=> (v \div 512) % 2 = 1
         /\ HasBit(v, 10) <=> (v \div 1024) % 2 = 1
         /\ HasBit(v, 11) <=> (v \div 2048) % 2 = 1
<1>1. v \div 1 = v
  OBVIOUS
<1> QED
  BY <1>1, Weights, SMT DEF HasBit

\* The opcodes of the classes.
LEMMA Opcodes ==
  /\ Bits(\b0000011, 7) = {0, 1}
  /\ Bits(\b0001011, 7) = {0, 1, 3}
  /\ Bits(\b0001111, 7) = {0, 1, 2, 3}
  /\ Bits(\b0010111, 7) = {0, 1, 2, 4}
  /\ Bits(\b0110011, 7) = {0, 1, 4, 5}
  /\ Bits(\b0010011, 7) = {0, 1, 4}
  /\ Bits(\b0110111, 7) = {0, 1, 2, 4, 5}
  /\ Bits(\b1100111, 7) = {0, 1, 2, 5, 6}
  /\ Bits(\b0100011, 7) = {0, 1, 5}
  /\ Bits(\b1100011, 7) = {0, 1, 5, 6}
  /\ Bits(\b1101111, 7) = {0, 1, 2, 3, 5, 6}
  /\ Bits(\b1110011, 7) = {0, 1, 4, 5, 6}
<1>1. Bits(\b0000011, 7) = {0, 1}
  BY LowBits, BitsAre, SMT
<1>2. Bits(\b0001011, 7) = {0, 1, 3}
  BY LowBits, BitsAre, SMT
<1>3. Bits(\b0001111, 7) = {0, 1, 2, 3}
  BY LowBits, BitsAre, SMT
<1>4. Bits(\b0010111, 7) = {0, 1, 2, 4}
  BY LowBits, BitsAre, SMT
<1>5. Bits(\b0110011, 7) = {0, 1, 4, 5}
  BY LowBits, BitsAre, SMT
<1>6. Bits(\b0010011, 7) = {0, 1, 4}
  BY LowBits, BitsAre, SMT
<1>7. Bits(\b0110111, 7) = {0, 1, 2, 4, 5}
  BY LowBits, BitsAre, SMT
<1>8. Bits(\b1100111, 7) = {0, 1, 2, 5, 6}
  BY LowBits, BitsAre, SMT
<1>9. Bits(\b0100011, 7) = {0, 1, 5}
  BY LowBits, BitsAre, SMT
<1>10. Bits(\b1100011, 7) = {0, 1, 5, 6}
  BY LowBits, BitsAre, SMT
<1>11. Bits(\b1101111, 7) = {0, 1, 2, 3, 5, 6}
  BY LowBits, BitsAre, SMT
<1>12. Bits(\b1110011, 7) = {0, 1, 4, 5, 6}
  BY LowBits, BitsAre, SMT
<1> QED
  BY <1>1, <1>2, <1>3, <1>4, <1>5, <1>6, <1>7, <1>8, <1>9, <1>10, <1>11, <1>12

\* funct3 selects the row of a table.
LEMMA Row ==
  ASSUME NEW w, NEW n \in 0 .. 7, Funct3(w) = Bits(n, 3), NEW r1, NEW r2, NEW r3, NEW r4,
         NEW r5, NEW r6, NEW r7, NEW r8, NEW r,
         r = ByFunct3(w, <<r1, r2, r3, r4, r5, r6, r7, r8>>)
  PROVE  /\ n = 0 => r = r1
         /\ n = 1 => r = r2
         /\ n = 2 => r = r3
         /\ n = 3 => r = r4
         /\ n = 4 => r = r5
         /\ n = 5 => r = r6
         /\ n = 6 => r = r7
         /\ n = 7 => r = r8
<1> DEFINE bit(b) == IF b \in Funct3(w) THEN 1 ELSE 0
<1>1. /\ 0 \in Funct3(w) <=> n % 2 = 1
      /\ 1 \in Funct3(w) <=> (n \div 2) % 2 = 1
      /\ 2 \in Funct3(w) <=> (n \div 4) % 2 = 1
  BY LowBits, BitsAre, SMT
<1>2. n = bit(0) + 2 * bit(1) + 4 * bit(2)
  BY <1>1, SMT
<1> QED
  BY <1>2 DEF ByFunct3

\* funct3 is empty if it is zero, and only then.
LEMMA Funct3Zero ==
  ASSUME NEW w, NEW n \in 0 .. 7, Funct3(w) = Bits(n, 3)
  PROVE  Funct3(w) = {} <=> n = 0
<1>1. \A b \in 0 .. 2 : b \in Funct3(w) <=> HasBit(n, b)
  BY BitsAre, SMT
<1>2. Funct3(w) \subseteq 0 .. 2
  BY BitsRange
<1>3. CASE n = 0
  <2>1. ~HasBit(n, 0) /\ ~HasBit(n, 1) /\ ~HasBit(n, 2)
    BY <1>3, LowBits, SMT
  <2>2. \A b \in 0 .. 2 : b = 0 \/ b = 1 \/ b = 2
    OBVIOUS
  <2> QED
    BY <1>1, <1>2, <1>3, <2>1, <2>2
<1>4. CASE n # 0
  <2>1. n \in 1 .. 7
    BY <1>4, SMT
  <2>2. HasBit(n, 0) \/ HasBit(n, 1) \/ HasBit(n, 2)
    BY <2>1, LowBits, SMT
  <2>3. 0 \in 0 .. 2 /\ 1 \in 0 .. 2 /\ 2 \in 0 .. 2
    OBVIOUS
  <2> QED
    BY <1>1, <1>4, <2>2, <2>3, Zenon
<1> QED
  BY <1>3, <1>4

\* No two rows of the decoder have the same opcode.
LEMMA OpcodesDiffer ==
  /\ Bits(\b0000011, 7) \notin
        {Bits(\b0001011, 7), Bits(\b0001111, 7), Bits(\b0010111, 7),
         Bits(\b0110011, 7), Bits(\b0010011, 7), Bits(\b0110111, 7),
         Bits(\b1100111, 7), Bits(\b0100011, 7), Bits(\b1100011, 7),
         Bits(\b1101111, 7), Bits(\b1110011, 7)}
  /\ Bits(\b0001011, 7) \notin
        {Bits(\b0001111, 7), Bits(\b0010111, 7), Bits(\b0110011, 7),
         Bits(\b0010011, 7), Bits(\b0110111, 7), Bits(\b1100111, 7),
         Bits(\b0100011, 7), Bits(\b1100011, 7), Bits(\b1101111, 7),
         Bits(\b1110011, 7)}
  /\ Bits(\b0001111, 7) \notin
        {Bits(\b0010111, 7), Bits(\b0110011, 7), Bits(\b0010011, 7),
         Bits(\b0110111, 7), Bits(\b1100111, 7), Bits(\b0100011, 7),
         Bits(\b1100011, 7), Bits(\b1101111, 7), Bits(\b1110011, 7)}
  /\ Bits(\b0010111, 7) \notin
        {Bits(\b0110011, 7), Bits(\b0010011, 7), Bits(\b0110111, 7),
         Bits(\b1100111, 7), Bits(\b0100011, 7), Bits(\b1100011, 7),
         Bits(\b1101111, 7), Bits(\b1110011, 7)}
  /\ Bits(\b0110011, 7) \notin
        {Bits(\b0010011, 7), Bits(\b0110111, 7), Bits(\b1100111, 7),
         Bits(\b0100011, 7), Bits(\b1100011, 7), Bits(\b1101111, 7),
         Bits(\b1110011, 7)}
  /\ Bits(\b0010011, 7) \notin
        {Bits(\b0110111, 7), Bits(\b1100111, 7), Bits(\b0100011, 7),
         Bits(\b1100011, 7), Bits(\b1101111, 7), Bits(\b1110011, 7)}
  /\ Bits(\b0110111, 7) \notin
        {Bits(\b1100111, 7), Bits(\b0100011, 7), Bits(\b1100011, 7),
         Bits(\b1101111, 7), Bits(\b1110011, 7)}
  /\ Bits(\b1100111, 7) \notin
        {Bits(\b0100011, 7), Bits(\b1100011, 7), Bits(\b1101111, 7),
         Bits(\b1110011, 7)}
  /\ Bits(\b0100011, 7) \notin
        {Bits(\b1100011, 7), Bits(\b1101111, 7), Bits(\b1110011, 7)}
  /\ Bits(\b1100011, 7) \notin
        {Bits(\b1101111, 7), Bits(\b1110011, 7)}
  /\ Bits(\b1101111, 7) \notin
        {Bits(\b1110011, 7)}
BY Opcodes, SMT

\* The row an opcode selects.
LEMMA Dispatch ==
  ASSUME NEW w
  PROVE  /\ Opcode(w) = Bits(\b0000011, 7) => decode(w) = decodeLoad(w)
         /\ Opcode(w) = Bits(\b0001011, 7) => decode(w) = decodeExt(w)
         /\ Opcode(w) = Bits(\b0001111, 7) => decode(w) = decodeFence(w)
         /\ Opcode(w) = Bits(\b0010111, 7) => decode(w) = decodeUpper(w, "auipc")
         /\ Opcode(w) = Bits(\b0110011, 7) => decode(w) = decodeR(w)
         /\ Opcode(w) = Bits(\b0010011, 7) => decode(w) = decodeImm(w)
         /\ Opcode(w) = Bits(\b0110111, 7) => decode(w) = decodeUpper(w, "lui")
         /\ Opcode(w) = Bits(\b1100111, 7) => decode(w) = MakeI("jalr", RdOf(w), Rs1Of(w), Upper12(w))
         /\ Opcode(w) = Bits(\b0100011, 7) => decode(w) = decodeStore(w)
         /\ Opcode(w) = Bits(\b1100011, 7) => decode(w) = decodeBranch(w)
         /\ Opcode(w) = Bits(\b1101111, 7) => decode(w) = decodeJal(w)
         /\ Opcode(w) = Bits(\b1110011, 7) => decode(w) = decodeSystem(w)
<1>1. Opcode(w) = Bits(\b0000011, 7) => decode(w) = decodeLoad(w)
  BY OpcodesDiffer DEF decode
<1>2. Opcode(w) = Bits(\b0001011, 7) => decode(w) = decodeExt(w)
  BY OpcodesDiffer DEF decode
<1>3. Opcode(w) = Bits(\b0001111, 7) => decode(w) = decodeFence(w)
  BY OpcodesDiffer DEF decode
<1>4. Opcode(w) = Bits(\b0010111, 7) => decode(w) = decodeUpper(w, "auipc")
  BY OpcodesDiffer DEF decode
<1>5. Opcode(w) = Bits(\b0110011, 7) => decode(w) = decodeR(w)
  BY OpcodesDiffer DEF decode
<1>6. Opcode(w) = Bits(\b0010011, 7) => decode(w) = decodeImm(w)
  BY OpcodesDiffer DEF decode
<1>7. Opcode(w) = Bits(\b0110111, 7) => decode(w) = decodeUpper(w, "lui")
  BY OpcodesDiffer DEF decode
<1>8. Opcode(w) = Bits(\b1100111, 7) => decode(w) = MakeI("jalr", RdOf(w), Rs1Of(w), Upper12(w))
  BY OpcodesDiffer DEF decode
<1>9. Opcode(w) = Bits(\b0100011, 7) => decode(w) = decodeStore(w)
  BY OpcodesDiffer DEF decode
<1>10. Opcode(w) = Bits(\b1100011, 7) => decode(w) = decodeBranch(w)
  BY OpcodesDiffer DEF decode
<1>11. Opcode(w) = Bits(\b1101111, 7) => decode(w) = decodeJal(w)
  BY OpcodesDiffer DEF decode
<1>12. Opcode(w) = Bits(\b1110011, 7) => decode(w) = decodeSystem(w)
  BY OpcodesDiffer DEF decode
<1> QED
  BY <1>1, <1>2, <1>3, <1>4, <1>5, <1>6, <1>7, <1>8, <1>9, <1>10, <1>11, <1>12

-----------------------------------------------------------------------------
(* Encoded, and decoded again.                                            *)

\* What the decoder cuts out of a word is what the getters read off it.
LEMMA Cut ==
  ASSUME NEW w \in SUBSET Bit
  PROVE  /\ RdOf(w) = getRd(w) /\ Rs1Of(w) = getRs1(w) /\ Rs2Of(w) = getRs2(w)
         /\ Upper12(w) = getIImm(w)
<1>1. \A b \in Bit : b + 20 \in w <=> b + 20 \in w \cap 20 .. 31
  BY DEF Bit
<1> QED
  BY <1>1 DEF RdOf, getRd, Rs1Of, getRs1, Rs2Of, getRs2, Upper12, getIImm, Shr

\* A word has 32 bits, whatever is put into it.
LEMMA WordBits ==
  ASSUME NEW k, NEW rd, NEW rs1, NEW rs2, NEW imm
  PROVE  /\ k[2] \in Int => /\ IWord(k, rd, rs1, imm) \in SUBSET Bit
                            /\ SWord(k, rs1, rs2, imm) \in SUBSET Bit
                            /\ BWord(k, rs1, rs2, imm) \in SUBSET Bit
         /\ k[3] \in Int => RWord(k, rd, rs1, rs2) \in SUBSET Bit
         /\ k[1] \in Int => /\ UWord(k, rd, imm) \in SUBSET Bit
                            /\ JWord(k, rd, imm) \in SUBSET Bit
<1>1. \A v \in Int : Bits(v, 7) \in SUBSET Bit
  BY BitsRange DEF Bit
<1>2. \A s, n : Shl(s, n) \in SUBSET Bit
  BY DEF Shl
<1> QED
  BY <1>1, <1>2 DEF IWord, RWord, SWord, BWord, UWord, JWord

\* What the decoder sees of a word of the I type.
LEMMA SeenI ==
  ASSUME NEW op \in DOMAIN ITypeKinds, NEW rd \in SUBSET (0 .. 4),
         NEW rs1 \in SUBSET (0 .. 4), NEW imm \in SUBSET (0 .. 11),
         NEW w, w = IWord(ITypeKinds[op], rd, rs1, imm),
         NEW n, NEW o, n = ITypeKinds[op][1], o = ITypeKinds[op][2]
  PROVE  /\ RdOf(w) = rd /\ Rs1Of(w) = rs1 /\ Upper12(w) = imm
         /\ Opcode(w) = Bits(o, 7)
         /\ Funct3(w) = Bits(n, 3)
<1>1. n \in Int /\ o \in Int
  BY CodesI
<1>2. w \in SUBSET Bit
  BY <1>1, WordBits
<1>3. LET x == IWord(ITypeKinds[op], rd, rs1, imm)
      IN /\ getRd(x) = rd /\ getRs1(x) = rs1 /\ getIImm(x) = imm
         /\ Opcode(x) = Bits(o, 7)
         /\ Funct3(x) = Bits(n, 3)
  BY <1>1, WordI
<1> QED
  BY <1>2, <1>3, Cut

\* What is made has its mnemonic.
LEMMA MadeI == \A op, rd, rs1, imm : MakeI(op, rd, rs1, imm).op = op
BY DEF MakeI

\* The codes of the mnemonics.
LEMMA CodeI ==
  /\ ITypeKinds["addi"][1] = \b000 /\ ITypeKinds["addi"][2] = \b0010011
  /\ ITypeKinds["slti"][1] = \b010 /\ ITypeKinds["slti"][2] = \b0010011
  /\ ITypeKinds["sltiu"][1] = \b011 /\ ITypeKinds["sltiu"][2] = \b0010011
  /\ ITypeKinds["xori"][1] = \b100 /\ ITypeKinds["xori"][2] = \b0010011
  /\ ITypeKinds["ori"][1] = \b110 /\ ITypeKinds["ori"][2] = \b0010011
  /\ ITypeKinds["andi"][1] = \b111 /\ ITypeKinds["andi"][2] = \b0010011
  /\ ITypeKinds["jalr"][1] = \b000 /\ ITypeKinds["jalr"][2] = \b1100111
  /\ ITypeKinds["lb"][1] = \b000 /\ ITypeKinds["lb"][2] = \b0000011
  /\ ITypeKinds["lh"][1] = \b001 /\ ITypeKinds["lh"][2] = \b0000011
  /\ ITypeKinds["lw"][1] = \b010 /\ ITypeKinds["lw"][2] = \b0000011
  /\ ITypeKinds["lbu"][1] = \b100 /\ ITypeKinds["lbu"][2] = \b0000011
  /\ ITypeKinds["lhu"][1] = \b101 /\ ITypeKinds["lhu"][2] = \b0000011
  /\ ITypeKinds["slli"][1] = \b001 /\ ITypeKinds["slli"][2] = \b0010011
  /\ ITypeKinds["srli"][1] = \b101 /\ ITypeKinds["srli"][2] = \b0010011
  /\ ITypeKinds["srai"][1] = \b101 /\ ITypeKinds["srai"][2] = \b0010011
  /\ ITypeKinds["csrrw"][1] = \b001 /\ ITypeKinds["csrrw"][2] = \b1110011
  /\ ITypeKinds["csrrs"][1] = \b010 /\ ITypeKinds["csrrs"][2] = \b1110011
  /\ ITypeKinds["csrrc"][1] = \b011 /\ ITypeKinds["csrrc"][2] = \b1110011
  /\ ITypeKinds["csrrwi"][1] = \b101 /\ ITypeKinds["csrrwi"][2] = \b1110011
  /\ ITypeKinds["csrrsi"][1] = \b110 /\ ITypeKinds["csrrsi"][2] = \b1110011
  /\ ITypeKinds["csrrci"][1] = \b111 /\ ITypeKinds["csrrci"][2] = \b1110011
  /\ ITypeKinds["ecall"][1] = \b000 /\ ITypeKinds["ecall"][2] = \b1110011
  /\ ITypeKinds["ebreak"][1] = \b000 /\ ITypeKinds["ebreak"][2] = \b1110011
  /\ ITypeKinds["uret"][1] = \b000 /\ ITypeKinds["uret"][2] = \b1110011
  /\ ITypeKinds["sret"][1] = \b000 /\ ITypeKinds["sret"][2] = \b1110011
  /\ ITypeKinds["mret"][1] = \b000 /\ ITypeKinds["mret"][2] = \b1110011
  /\ ITypeKinds["ext"][1] = \b000 /\ ITypeKinds["ext"][2] = \b0001011
  /\ ITypeKinds["extx"][1] = \b000 /\ ITypeKinds["extx"][2] = \b0001011
<1>1. /\ ITypeKinds["addi"][1] = \b000 /\ ITypeKinds["addi"][2] = \b0010011
      /\ ITypeKinds["slti"][1] = \b010 /\ ITypeKinds["slti"][2] = \b0010011
      /\ ITypeKinds["sltiu"][1] = \b011 /\ ITypeKinds["sltiu"][2] = \b0010011
      /\ ITypeKinds["xori"][1] = \b100 /\ ITypeKinds["xori"][2] = \b0010011
      /\ ITypeKinds["ori"][1] = \b110 /\ ITypeKinds["ori"][2] = \b0010011
      /\ ITypeKinds["andi"][1] = \b111 /\ ITypeKinds["andi"][2] = \b0010011
      /\ ITypeKinds["jalr"][1] = \b000 /\ ITypeKinds["jalr"][2] = \b1100111
  BY DEF ITypeKinds
<1>2. /\ ITypeKinds["lb"][1] = \b000 /\ ITypeKinds["lb"][2] = \b0000011
      /\ ITypeKinds["lh"][1] = \b001 /\ ITypeKinds["lh"][2] = \b0000011
      /\ ITypeKinds["lw"][1] = \b010 /\ ITypeKinds["lw"][2] = \b0000011
      /\ ITypeKinds["lbu"][1] = \b100 /\ ITypeKinds["lbu"][2] = \b0000011
      /\ ITypeKinds["lhu"][1] = \b101 /\ ITypeKinds["lhu"][2] = \b0000011
      /\ ITypeKinds["slli"][1] = \b001 /\ ITypeKinds["slli"][2] = \b0010011
      /\ ITypeKinds["srli"][1] = \b101 /\ ITypeKinds["srli"][2] = \b0010011
  BY DEF ITypeKinds
<1>3. /\ ITypeKinds["srai"][1] = \b101 /\ ITypeKinds["srai"][2] = \b0010011
      /\ ITypeKinds["csrrw"][1] = \b001 /\ ITypeKinds["csrrw"][2] = \b1110011
      /\ ITypeKinds["csrrs"][1] = \b010 /\ ITypeKinds["csrrs"][2] = \b1110011
      /\ ITypeKinds["csrrc"][1] = \b011 /\ ITypeKinds["csrrc"][2] = \b1110011
      /\ ITypeKinds["csrrwi"][1] = \b101 /\ ITypeKinds["csrrwi"][2] = \b1110011
      /\ ITypeKinds["csrrsi"][1] = \b110 /\ ITypeKinds["csrrsi"][2] = \b1110011
      /\ ITypeKinds["csrrci"][1] = \b111 /\ ITypeKinds["csrrci"][2] = \b1110011
  BY DEF ITypeKinds
<1>4. /\ ITypeKinds["ecall"][1] = \b000 /\ ITypeKinds["ecall"][2] = \b1110011
      /\ ITypeKinds["ebreak"][1] = \b000 /\ ITypeKinds["ebreak"][2] = \b1110011
      /\ ITypeKinds["uret"][1] = \b000 /\ ITypeKinds["uret"][2] = \b1110011
      /\ ITypeKinds["sret"][1] = \b000 /\ ITypeKinds["sret"][2] = \b1110011
      /\ ITypeKinds["mret"][1] = \b000 /\ ITypeKinds["mret"][2] = \b1110011
      /\ ITypeKinds["ext"][1] = \b000 /\ ITypeKinds["ext"][2] = \b0001011
      /\ ITypeKinds["extx"][1] = \b000 /\ ITypeKinds["extx"][2] = \b0001011
  BY DEF ITypeKinds
<1> QED
  BY <1>1, <1>2, <1>3, <1>4

\* The same of the stores.
LEMMA CodeS ==
  /\ STypeKinds["sb"][1] = \b000 /\ STypeKinds["sb"][2] = \b0100011
  /\ STypeKinds["sh"][1] = \b001 /\ STypeKinds["sh"][2] = \b0100011
  /\ STypeKinds["sw"][1] = \b010 /\ STypeKinds["sw"][2] = \b0100011
BY DEF STypeKinds

\* The same of the branches.
LEMMA CodeB ==
  /\ BTypeKinds["beq"][1] = \b000 /\ BTypeKinds["beq"][2] = \b1100011
  /\ BTypeKinds["bne"][1] = \b001 /\ BTypeKinds["bne"][2] = \b1100011
  /\ BTypeKinds["blt"][1] = \b100 /\ BTypeKinds["blt"][2] = \b1100011
  /\ BTypeKinds["bge"][1] = \b101 /\ BTypeKinds["bge"][2] = \b1100011
  /\ BTypeKinds["bltu"][1] = \b110 /\ BTypeKinds["bltu"][2] = \b1100011
  /\ BTypeKinds["bgeu"][1] = \b111 /\ BTypeKinds["bgeu"][2] = \b1100011
BY DEF BTypeKinds

\* The same of the instructions on registers.
LEMMA CodeR ==
  /\ RTypeKinds["add"][1] = \b0000000 /\ RTypeKinds["add"][2] = \b000 /\ RTypeKinds["add"][3] = \b0110011
  /\ RTypeKinds["sub"][1] = \b0100000 /\ RTypeKinds["sub"][2] = \b000 /\ RTypeKinds["sub"][3] = \b0110011
  /\ RTypeKinds["sll"][1] = \b0000000 /\ RTypeKinds["sll"][2] = \b001 /\ RTypeKinds["sll"][3] = \b0110011
  /\ RTypeKinds["slt"][1] = \b0000000 /\ RTypeKinds["slt"][2] = \b010 /\ RTypeKinds["slt"][3] = \b0110011
  /\ RTypeKinds["sltu"][1] = \b0000000 /\ RTypeKinds["sltu"][2] = \b011 /\ RTypeKinds["sltu"][3] = \b0110011
  /\ RTypeKinds["xor"][1] = \b0000000 /\ RTypeKinds["xor"][2] = \b100 /\ RTypeKinds["xor"][3] = \b0110011
  /\ RTypeKinds["srl"][1] = \b0000000 /\ RTypeKinds["srl"][2] = \b101 /\ RTypeKinds["srl"][3] = \b0110011
  /\ RTypeKinds["sra"][1] = \b0100000 /\ RTypeKinds["sra"][2] = \b101 /\ RTypeKinds["sra"][3] = \b0110011
  /\ RTypeKinds["or"][1] = \b0000000 /\ RTypeKinds["or"][2] = \b110 /\ RTypeKinds["or"][3] = \b0110011
  /\ RTypeKinds["and"][1] = \b0000000 /\ RTypeKinds["and"][2] = \b111 /\ RTypeKinds["and"][3] = \b0110011
  /\ RTypeKinds["mul"][1] = \b0000001 /\ RTypeKinds["mul"][2] = \b000 /\ RTypeKinds["mul"][3] = \b0110011
  /\ RTypeKinds["mulh"][1] = \b0000001 /\ RTypeKinds["mulh"][2] = \b001 /\ RTypeKinds["mulh"][3] = \b0110011
  /\ RTypeKinds["mulhsu"][1] = \b0000001 /\ RTypeKinds["mulhsu"][2] = \b010 /\ RTypeKinds["mulhsu"][3] = \b0110011
  /\ RTypeKinds["mulhu"][1] = \b0000001 /\ RTypeKinds["mulhu"][2] = \b011 /\ RTypeKinds["mulhu"][3] = \b0110011
  /\ RTypeKinds["div"][1] = \b0000001 /\ RTypeKinds["div"][2] = \b100 /\ RTypeKinds["div"][3] = \b0110011
  /\ RTypeKinds["divu"][1] = \b0000001 /\ RTypeKinds["divu"][2] = \b101 /\ RTypeKinds["divu"][3] = \b0110011
  /\ RTypeKinds["rem"][1] = \b0000001 /\ RTypeKinds["rem"][2] = \b110 /\ RTypeKinds["rem"][3] = \b0110011
  /\ RTypeKinds["remu"][1] = \b0000001 /\ RTypeKinds["remu"][2] = \b111 /\ RTypeKinds["remu"][3] = \b0110011
<1>1. /\ RTypeKinds["add"][1] = \b0000000 /\ RTypeKinds["add"][2] = \b000 /\ RTypeKinds["add"][3] = \b0110011
      /\ RTypeKinds["sub"][1] = \b0100000 /\ RTypeKinds["sub"][2] = \b000 /\ RTypeKinds["sub"][3] = \b0110011
      /\ RTypeKinds["sll"][1] = \b0000000 /\ RTypeKinds["sll"][2] = \b001 /\ RTypeKinds["sll"][3] = \b0110011
      /\ RTypeKinds["slt"][1] = \b0000000 /\ RTypeKinds["slt"][2] = \b010 /\ RTypeKinds["slt"][3] = \b0110011
      /\ RTypeKinds["sltu"][1] = \b0000000 /\ RTypeKinds["sltu"][2] = \b011 /\ RTypeKinds["sltu"][3] = \b0110011
      /\ RTypeKinds["xor"][1] = \b0000000 /\ RTypeKinds["xor"][2] = \b100 /\ RTypeKinds["xor"][3] = \b0110011
      /\ RTypeKinds["srl"][1] = \b0000000 /\ RTypeKinds["srl"][2] = \b101 /\ RTypeKinds["srl"][3] = \b0110011
  BY DEF RTypeKinds
<1>2. /\ RTypeKinds["sra"][1] = \b0100000 /\ RTypeKinds["sra"][2] = \b101 /\ RTypeKinds["sra"][3] = \b0110011
      /\ RTypeKinds["or"][1] = \b0000000 /\ RTypeKinds["or"][2] = \b110 /\ RTypeKinds["or"][3] = \b0110011
      /\ RTypeKinds["and"][1] = \b0000000 /\ RTypeKinds["and"][2] = \b111 /\ RTypeKinds["and"][3] = \b0110011
      /\ RTypeKinds["mul"][1] = \b0000001 /\ RTypeKinds["mul"][2] = \b000 /\ RTypeKinds["mul"][3] = \b0110011
      /\ RTypeKinds["mulh"][1] = \b0000001 /\ RTypeKinds["mulh"][2] = \b001 /\ RTypeKinds["mulh"][3] = \b0110011
      /\ RTypeKinds["mulhsu"][1] = \b0000001 /\ RTypeKinds["mulhsu"][2] = \b010 /\ RTypeKinds["mulhsu"][3] = \b0110011
      /\ RTypeKinds["mulhu"][1] = \b0000001 /\ RTypeKinds["mulhu"][2] = \b011 /\ RTypeKinds["mulhu"][3] = \b0110011
  BY DEF RTypeKinds
<1>3. /\ RTypeKinds["div"][1] = \b0000001 /\ RTypeKinds["div"][2] = \b100 /\ RTypeKinds["div"][3] = \b0110011
      /\ RTypeKinds["divu"][1] = \b0000001 /\ RTypeKinds["divu"][2] = \b101 /\ RTypeKinds["divu"][3] = \b0110011
      /\ RTypeKinds["rem"][1] = \b0000001 /\ RTypeKinds["rem"][2] = \b110 /\ RTypeKinds["rem"][3] = \b0110011
      /\ RTypeKinds["remu"][1] = \b0000001 /\ RTypeKinds["remu"][2] = \b111 /\ RTypeKinds["remu"][3] = \b0110011
  BY DEF RTypeKinds
<1> QED
  BY <1>1, <1>2, <1>3

\* The same of lui and auipc.
LEMMA CodeU ==
  /\ UTypeKinds["lui"][1] = \b0110111
  /\ UTypeKinds["auipc"][1] = \b0010111
BY DEF UTypeKinds

\* The same of jal.
LEMMA CodeJ ==
  /\ JTypeKinds["jal"][1] = \b1101111
BY DEF JTypeKinds

(* The row funct3 selects of each table of the decoder; e where none decodes. *)

\* funct3 and mnemonic of a load, as decodeLoad has them.
LoadRow(op, n) ==
  \/ op = "lb" /\ n = 0
  \/ op = "lh" /\ n = 1
  \/ op = "lw" /\ n = 2
  \/ op = "lbu" /\ n = 4
  \/ op = "lhu" /\ n = 5

\* The row of a load is found by its funct3.
LEMMA RowLoad ==
  ASSUME NEW w, NEW op, NEW n \in 0 .. 7, Funct3(w) = Bits(n, 3), NEW e, LoadRow(op, n)
  PROVE  ByFunct3(w, <<"lb", "lh", "lw", e, "lbu", "lhu", e, e>>) = op
<1> PICK r : r = ByFunct3(w, <<"lb", "lh", "lw", e, "lbu", "lhu", e, e>>)
  OBVIOUS
<1>1. /\ n = 0 => r = "lb"
      /\ n = 1 => r = "lh"
      /\ n = 2 => r = "lw"
      /\ n = 4 => r = "lbu"
      /\ n = 5 => r = "lhu"
  BY Row
<1> QED
  BY <1>1 DEF LoadRow

\* The same of decodeSystem.
SystemRow(op, n) ==
  \/ op = "csrrw" /\ n = 1
  \/ op = "csrrs" /\ n = 2
  \/ op = "csrrc" /\ n = 3
  \/ op = "csrrwi" /\ n = 5
  \/ op = "csrrsi" /\ n = 6
  \/ op = "csrrci" /\ n = 7

\* The same of a CSR instruction.
LEMMA RowSystem ==
  ASSUME NEW w, NEW op, NEW n \in 0 .. 7, Funct3(w) = Bits(n, 3), NEW e, SystemRow(op, n)
  PROVE  ByFunct3(w, <<e, "csrrw", "csrrs", "csrrc", e, "csrrwi", "csrrsi", "csrrci">>) = op
<1> PICK r : r = ByFunct3(w, <<e, "csrrw", "csrrs", "csrrc", e, "csrrwi", "csrrsi", "csrrci">>)
  OBVIOUS
<1>1. /\ n = 1 => r = "csrrw"
      /\ n = 2 => r = "csrrs"
      /\ n = 3 => r = "csrrc"
      /\ n = 5 => r = "csrrwi"
      /\ n = 6 => r = "csrrsi"
      /\ n = 7 => r = "csrrci"
  BY Row
<1> QED
  BY <1>1 DEF SystemRow

\* The same of decodeImm.
ImmRow(op, n) ==
  \/ op = "addi" /\ n = 0
  \/ op = "slli" /\ n = 1
  \/ op = "slti" /\ n = 2
  \/ op = "sltiu" /\ n = 3
  \/ op = "xori" /\ n = 4
  \/ op = "ori" /\ n = 6
  \/ op = "andi" /\ n = 7

\* The same of an instruction with an immediate, the right shifts apart.
LEMMA RowImm ==
  ASSUME NEW w, NEW op, NEW n \in 0 .. 7, Funct3(w) = Bits(n, 3), NEW e, ImmRow(op, n)
  PROVE  ByFunct3(w, <<"addi", "slli", "slti", "sltiu", "xori", e, "ori", "andi">>) = op
<1> PICK r : r = ByFunct3(w, <<"addi", "slli", "slti", "sltiu", "xori", e, "ori", "andi">>)
  OBVIOUS
<1>1. /\ n = 0 => r = "addi"
      /\ n = 1 => r = "slli"
      /\ n = 2 => r = "slti"
      /\ n = 3 => r = "sltiu"
      /\ n = 4 => r = "xori"
      /\ n = 6 => r = "ori"
      /\ n = 7 => r = "andi"
  BY Row
<1> QED
  BY <1>1 DEF ImmRow

\* The same of decodeStore.
StoreRow(op, n) ==
  \/ op = "sb" /\ n = 0
  \/ op = "sh" /\ n = 1
  \/ op = "sw" /\ n = 2

\* The same of a store.
LEMMA RowStore ==
  ASSUME NEW w, NEW op, NEW n \in 0 .. 7, Funct3(w) = Bits(n, 3), NEW e, StoreRow(op, n)
  PROVE  ByFunct3(w, <<"sb", "sh", "sw", e, e, e, e, e>>) = op
<1> PICK r : r = ByFunct3(w, <<"sb", "sh", "sw", e, e, e, e, e>>)
  OBVIOUS
<1>1. /\ n = 0 => r = "sb"
      /\ n = 1 => r = "sh"
      /\ n = 2 => r = "sw"
  BY Row
<1> QED
  BY <1>1 DEF StoreRow

\* The same of decodeBranch.
BranchRow(op, n) ==
  \/ op = "beq" /\ n = 0
  \/ op = "bne" /\ n = 1
  \/ op = "blt" /\ n = 4
  \/ op = "bge" /\ n = 5
  \/ op = "bltu" /\ n = 6
  \/ op = "bgeu" /\ n = 7

\* The same of a branch.
LEMMA RowBranch ==
  ASSUME NEW w, NEW op, NEW n \in 0 .. 7, Funct3(w) = Bits(n, 3), NEW e, BranchRow(op, n)
  PROVE  ByFunct3(w, <<"beq", "bne", e, e, "blt", "bge", "bltu", "bgeu">>) = op
<1> PICK r : r = ByFunct3(w, <<"beq", "bne", e, e, "blt", "bge", "bltu", "bgeu">>)
  OBVIOUS
<1>1. /\ n = 0 => r = "beq"
      /\ n = 1 => r = "bne"
      /\ n = 4 => r = "blt"
      /\ n = 5 => r = "bge"
      /\ n = 6 => r = "bltu"
      /\ n = 7 => r = "bgeu"
  BY Row
<1> QED
  BY <1>1 DEF BranchRow

\* The same of decodeR, for funct7 zero.
BaseRow(op, n) ==
  \/ op = "add" /\ n = 0
  \/ op = "sll" /\ n = 1
  \/ op = "slt" /\ n = 2
  \/ op = "sltu" /\ n = 3
  \/ op = "xor" /\ n = 4
  \/ op = "srl" /\ n = 5
  \/ op = "or" /\ n = 6
  \/ op = "and" /\ n = 7

\* The same of the rows for funct7 zero.
LEMMA RowBase ==
  ASSUME NEW w, NEW op, NEW n \in 0 .. 7, Funct3(w) = Bits(n, 3), BaseRow(op, n)
  PROVE  ByFunct3(w, <<"add", "sll", "slt", "sltu", "xor", "srl", "or", "and">>) = op
<1> PICK r : r = ByFunct3(w, <<"add", "sll", "slt", "sltu", "xor", "srl", "or", "and">>)
  OBVIOUS
<1>1. /\ n = 0 => r = "add"
      /\ n = 1 => r = "sll"
      /\ n = 2 => r = "slt"
      /\ n = 3 => r = "sltu"
      /\ n = 4 => r = "xor"
      /\ n = 5 => r = "srl"
      /\ n = 6 => r = "or"
      /\ n = 7 => r = "and"
  BY Row
<1> QED
  BY <1>1 DEF BaseRow

\* The same for bit 30.
MinusRow(op, n) ==
  \/ op = "sub" /\ n = 0
  \/ op = "sra" /\ n = 5

\* The same of the rows for bit 30.
LEMMA RowMinus ==
  ASSUME NEW w, NEW op, NEW n \in 0 .. 7, Funct3(w) = Bits(n, 3), NEW e, MinusRow(op, n)
  PROVE  ByFunct3(w, <<"sub", e, e, e, e, "sra", e, e>>) = op
<1> PICK r : r = ByFunct3(w, <<"sub", e, e, e, e, "sra", e, e>>)
  OBVIOUS
<1>1. /\ n = 0 => r = "sub"
      /\ n = 5 => r = "sra"
  BY Row
<1> QED
  BY <1>1 DEF MinusRow

\* The same for the multiplications and divisions.
MulRow(op, n) ==
  \/ op = "mul" /\ n = 0
  \/ op = "mulh" /\ n = 1
  \/ op = "mulhsu" /\ n = 2
  \/ op = "mulhu" /\ n = 3
  \/ op = "div" /\ n = 4
  \/ op = "divu" /\ n = 5
  \/ op = "rem" /\ n = 6
  \/ op = "remu" /\ n = 7

\* The same of the rows for the multiplications and divisions.
LEMMA RowMul ==
  ASSUME NEW w, NEW op, NEW n \in 0 .. 7, Funct3(w) = Bits(n, 3), MulRow(op, n)
  PROVE  ByFunct3(w, <<"mul", "mulh", "mulhsu", "mulhu", "div", "divu", "rem", "remu">>) = op
<1> PICK r : r = ByFunct3(w, <<"mul", "mulh", "mulhsu", "mulhu", "div", "divu", "rem", "remu">>)
  OBVIOUS
<1>1. /\ n = 0 => r = "mul"
      /\ n = 1 => r = "mulh"
      /\ n = 2 => r = "mulhsu"
      /\ n = 3 => r = "mulhu"
      /\ n = 4 => r = "div"
      /\ n = 5 => r = "divu"
      /\ n = 6 => r = "rem"
      /\ n = 7 => r = "remu"
  BY Row
<1> QED
  BY <1>1 DEF MulRow

\* The mnemonics the decoder tells apart by more than opcode and funct3.
SystemCalls == {"ecall", "ebreak", "uret", "sret", "mret"}
RightShifts == {"srli", "srai"}

\* Instructions whose operands are all in the word come back with them.
LEMMA AgainI ==
  ASSUME NEW op \in DOMAIN ITypeKinds \ (SystemCalls \cup RightShifts \cup {"ext", "extx"}),
         NEW rd \in SUBSET (0 .. 4), NEW rs1 \in SUBSET (0 .. 4), NEW imm \in SUBSET (0 .. 11)
  PROVE  decode(IWord(ITypeKinds[op], rd, rs1, imm)) = MakeI(op, rd, rs1, imm)
<1> PICK w : w = IWord(ITypeKinds[op], rd, rs1, imm)
  OBVIOUS
<1> PICK n, o : n = ITypeKinds[op][1] /\ o = ITypeKinds[op][2]
  OBVIOUS
<1>0. /\ RdOf(w) = rd /\ Rs1Of(w) = rs1 /\ Upper12(w) = imm
      /\ Opcode(w) = Bits(o, 7)
      /\ Funct3(w) = Bits(n, 3)
  BY SeenI
<1>1. CASE op \in Loads
  <2>1. LoadRow(op, n)
    BY <1>1, CodeI DEF Loads, LoadRow
  <2>2. o = \b0000011 /\ n \in 0 .. 7
    BY <1>1, CodeI DEF Loads
  <2>3. op # ""
    BY <1>1 DEF Loads
  <2>4. ByFunct3(w, <<"lb", "lh", "lw", "", "lbu", "lhu", "", "">>) = op
    BY <1>0, <2>1, <2>2, RowLoad, Zenon
  <2>5. decode(w) = decodeLoad(w)
    BY <1>0, <2>2, Dispatch
  <2> QED
    BY <1>0, <2>3, <2>4, <2>5, Zenon DEF decodeLoad
<1>2. CASE op \in {"addi", "slti", "sltiu", "xori", "ori", "andi", "slli"}
  <2> DEFINE shift == IF Funct7(w) = {} THEN "srli" ELSE "srai"
             row   == ByFunct3(w, <<"addi", "slli", "slti", "sltiu", "xori", shift,
                                    "ori", "andi">>)
  <2>1. ImmRow(op, n)
    BY <1>2, CodeI DEF ImmRow
  <2>2. o = \b0010011 /\ n \in 0 .. 7 /\ op \notin {"srli", "srai"}
    BY <1>2, CodeI
  <2>3. row = op
    BY <1>0, <2>1, <2>2, RowImm, Zenon
  <2>4. decode(w) = decodeImm(w)
    BY <1>0, <2>2, Dispatch
  <2>5. decodeImm(w) = MakeI(row, RdOf(w), Rs1Of(w),
                             IF row \in {"srli", "srai"} THEN Upper12(w) \cap 0 .. 4
                                                         ELSE Upper12(w))
    BY DEF decodeImm
  <2> HIDE DEF row
  <2> QED
    BY <1>0, <2>2, <2>3, <2>4, <2>5
<1>3. CASE op = "jalr"
  BY <1>0, <1>3, CodeI, Dispatch
<1>4. CASE op \in {"csrrw", "csrrs", "csrrc", "csrrwi", "csrrsi", "csrrci"}
  <2> DEFINE csr == ByFunct3(w, <<"", "csrrw", "csrrs", "csrrc", "",
                                  "csrrwi", "csrrsi", "csrrci">>)
  <2>1. SystemRow(op, n)
    BY <1>4, CodeI DEF SystemRow
  <2>2. o = \b1110011
    BY <1>4, CodeI
  <2>3. n \in 0 .. 7 /\ n # 0
    <3> HIDE DEF csr
    <3> QED
      BY <2>1, SMT DEF SystemRow
  <2>4. op # ""
    <3> HIDE DEF csr
    <3> QED
      BY <1>4, Zenon
  <2>5. csr = op
    BY <1>0, <2>1, <2>3, RowSystem, Zenon
  <2> HIDE DEF csr
  <2>6. Funct3(w) # {}
    BY <1>0, <2>3, Funct3Zero
  <2>7. decode(w) = decodeSystem(w)
    BY <1>0, <2>2, Dispatch
  <2>8. decodeSystem(w) = IF csr = "" THEN nullptr ELSE MakeI(csr, RdOf(w), Rs1Of(w), Upper12(w))
    BY <2>6 DEF decodeSystem, csr
  <2> QED
    BY <1>0, <2>4, <2>5, <2>7, <2>8
<1> QED
  BY <1>1, <1>2, <1>3, <1>4, KindsI DEF Loads, SystemCalls, RightShifts

\* The immediate a shift is written with: bit 30 of the word tells srai apart.
ShiftImm(op, s) == s \cup (IF op = "srai" THEN {10} ELSE {})

\* A shift to the right comes back, with its amount alone.
LEMMA AgainShift ==
  ASSUME NEW op \in RightShifts, NEW rd \in SUBSET (0 .. 4), NEW rs1 \in SUBSET (0 .. 4),
         NEW s \in SUBSET (0 .. 4)
  PROVE  decode(IWord(ITypeKinds[op], rd, rs1, ShiftImm(op, s))) = MakeI(op, rd, rs1, s)
<1> PICK imm : imm = ShiftImm(op, s)
  OBVIOUS
<1>0. imm = s \cup (IF op = "srai" THEN {10} ELSE {})
  BY DEF ShiftImm
<1> PICK w : w = IWord(ITypeKinds[op], rd, rs1, imm)
  OBVIOUS
<1> PICK n, o : n = ITypeKinds[op][1] /\ o = ITypeKinds[op][2]
  OBVIOUS
<1>1. op \in DOMAIN ITypeKinds /\ op \in {"srli", "srai"} /\ imm \in SUBSET (0 .. 11)
  BY <1>0, KindsI DEF RightShifts
<1>2. n = 5 /\ o = \b0010011
  <2>1. CASE op = "srli"
    BY <2>1, CodeI
  <2>2. CASE op = "srai"
    BY <2>2, CodeI
  <2> QED
    BY <1>1, <2>1, <2>2
<1>3. /\ RdOf(w) = rd /\ Rs1Of(w) = rs1 /\ Upper12(w) = imm
      /\ Opcode(w) = Bits(o, 7)
      /\ Funct3(w) = Bits(n, 3)
  <2>1. op \in DOMAIN ITypeKinds
    BY <1>1
  <2>2. imm \in SUBSET (0 .. 11)
    BY <1>1
  <2> QED
    BY <2>1, <2>2, SeenI
<1>4. imm \cap 0 .. 4 = s
  <2>1. \A b \in Int : b \in imm \cap 0 .. 4 <=> b \in s
    BY <1>0, SMT
  <2>2. imm \cap 0 .. 4 \subseteq Int /\ s \subseteq Int
    BY <1>0, SMT
  <2> QED
    BY <2>1, <2>2, Zenon
<1>5. Funct7(w) = {} <=> op = "srli"
  <2>1. \A b \in 0 .. 6 : b \in Funct7(w) <=> b + 5 \in Upper12(w)
    BY DEF Funct7, Upper12, Shr, Bit
  <2>2. Funct7(w) \subseteq 0 .. 6
    BY DEF Funct7, Shr, Bit
  <2>3. CASE op = "srli"
    BY <1>3, <1>0, <2>1, <2>2, <2>3
  <2>4. CASE op = "srai"
    <3>1. 5 \in Funct7(w)
      BY <1>3, <1>0, <2>1, <2>4
    <3> QED
      BY <2>4, <3>1
  <2> QED
    BY <1>1, <2>3, <2>4
<1> DEFINE shift == IF Funct7(w) = {} THEN "srli" ELSE "srai"
           row   == ByFunct3(w, <<"addi", "slli", "slti", "sltiu", "xori", shift,
                                  "ori", "andi">>)
<1>6. shift = op
  BY <1>1, <1>5
<1>7. row = op
  <2> HIDE DEF shift
  <2> QED
    BY <1>2, <1>3, <1>6, Row
<1>8. decode(w) = decodeImm(w)
  BY <1>2, <1>3, Dispatch
<1>9. decodeImm(w) = MakeI(row, RdOf(w), Rs1Of(w),
                           IF row \in {"srli", "srai"} THEN Upper12(w) \cap 0 .. 4
                                                       ELSE Upper12(w))
  BY DEF decodeImm
<1> HIDE DEF row
<1> QED
  BY <1>1, <1>3, <1>4, <1>7, <1>8, <1>9

\* The five system calls are told apart by their immediates.
LEMMA SystemImms ==
  /\ Bits(\b0, 12) = {}
  /\ Bits(\b1, 12) = {0}
  /\ Bits(\b10, 12) = {1}
  /\ Bits(\b100000010, 12) = {1, 8}
  /\ Bits(\b1100000010, 12) = {1, 8, 9}
<1>1. \A b \in 0 .. 11 : b = 0 \/ b = 1 \/ b = 2 \/ b = 3 \/ b = 4 \/ b = 5 \/ b = 6 \/ b = 7
                          \/ b = 8 \/ b = 9 \/ b = 10 \/ b = 11
  OBVIOUS
<1>2. Bits(\b0, 12) = {}
  BY <1>1, LowBits, BitsAre, SMT
<1>3. Bits(\b1, 12) = {0}
  BY <1>1, LowBits, BitsAre, SMT
<1>4. Bits(\b10, 12) = {1}
  BY <1>1, LowBits, BitsAre, SMT
<1>5. Bits(\b100000010, 12) = {1, 8}
  BY <1>1, LowBits, BitsAre, SMT
<1>6. Bits(\b1100000010, 12) = {1, 8, 9}
  BY <1>1, LowBits, BitsAre, SMT
<1> QED
  BY <1>2, <1>3, <1>4, <1>5, <1>6

\* The system call of an immediate, as decodeSystem chooses it; e if none decodes.
CallOf(f, u, csr, e) ==
  CASE f # {} -> csr
    [] f = {} /\ u = Bits(\b0, 12)          -> "ecall"
    [] f = {} /\ u = Bits(\b1, 12)          -> "ebreak"
    [] f = {} /\ u = Bits(\b10, 12)         -> "uret"
    [] f = {} /\ u = Bits(\b100000010, 12)  -> "sret"
    [] f = {} /\ u = Bits(\b1100000010, 12) -> "mret"
    [] OTHER -> e

\* Each of the five immediates calls what it stands for.
LEMMA Called ==
  ASSUME NEW u, NEW csr, NEW e
  PROVE  /\ u = Bits(\b0, 12) => CallOf({}, u, csr, e) = "ecall"
         /\ u = Bits(\b1, 12) => CallOf({}, u, csr, e) = "ebreak"
         /\ u = Bits(\b10, 12) => CallOf({}, u, csr, e) = "uret"
         /\ u = Bits(\b100000010, 12) => CallOf({}, u, csr, e) = "sret"
         /\ u = Bits(\b1100000010, 12) => CallOf({}, u, csr, e) = "mret"
<1>1. /\ Bits(\b0, 12) \notin {Bits(\b1, 12), Bits(\b10, 12), Bits(\b100000010, 12),
                               Bits(\b1100000010, 12)}
      /\ Bits(\b1, 12) \notin {Bits(\b10, 12), Bits(\b100000010, 12), Bits(\b1100000010, 12)}
      /\ Bits(\b10, 12) \notin {Bits(\b100000010, 12), Bits(\b1100000010, 12)}
      /\ Bits(\b100000010, 12) # Bits(\b1100000010, 12)
  BY SystemImms, SMT
<1> QED
  BY <1>1 DEF CallOf

\* The immediate of a system call.
SystemCode(op) ==
  CASE op = "ecall"  -> \b0
    [] op = "ebreak" -> \b1
    [] op = "uret"   -> \b10
    [] op = "sret"   -> \b100000010
    [] op = "mret"   -> \b1100000010

\* The mnemonic of a system call comes back.
LEMMA AgainSystem ==
  ASSUME NEW op \in SystemCalls, NEW rd \in SUBSET (0 .. 4), NEW rs1 \in SUBSET (0 .. 4),
         NEW imm, imm = Bits(SystemCode(op), 12)
  PROVE  decode(IWord(ITypeKinds[op], rd, rs1, imm)).op = op
<1> PICK w : w = IWord(ITypeKinds[op], rd, rs1, imm)
  OBVIOUS
<1> PICK n, o : n = ITypeKinds[op][1] /\ o = ITypeKinds[op][2]
  OBVIOUS
<1>0. \/ op = "ecall" /\ imm = Bits(\b0, 12)
      \/ op = "ebreak" /\ imm = Bits(\b1, 12)
      \/ op = "uret" /\ imm = Bits(\b10, 12)
      \/ op = "sret" /\ imm = Bits(\b100000010, 12)
      \/ op = "mret" /\ imm = Bits(\b1100000010, 12)
  BY DEF SystemCalls, SystemCode
<1>1. op \in DOMAIN ITypeKinds /\ n = 0 /\ o = \b1110011
  <2>1. op \in DOMAIN ITypeKinds
    BY KindsI DEF SystemCalls
  <2>2. n = 0 /\ o = \b1110011
    BY CodeI DEF SystemCalls
  <2> QED
    BY <2>1, <2>2
<1>2. imm \in SUBSET (0 .. 11)
  <2>1. \A b \in {0, 1, 8, 9} : b \in 0 .. 11
    OBVIOUS
  <2>2. imm \subseteq {0, 1, 8, 9}
    BY <1>0, SystemImms
  <2> QED
    BY <2>1, <2>2, Zenon
<1>3. Upper12(w) = imm /\ Opcode(w) = Bits(o, 7) /\ Funct3(w) = Bits(n, 3)
  <2>1. op \in DOMAIN ITypeKinds
    BY <1>1
  <2> QED
    BY <1>2, <2>1, SeenI
<1>4. Funct3(w) = {}
  BY <1>1, <1>3, Funct3Zero
<1>5. decode(w) = decodeSystem(w)
  BY <1>1, <1>3, Dispatch
<1> DEFINE csr == ByFunct3(w, <<"", "csrrw", "csrrs", "csrrc", "",
                                "csrrwi", "csrrsi", "csrrci">>)
           call == CallOf(Funct3(w), Upper12(w), csr, "")
<1>6. decodeSystem(w) = IF call = "" THEN nullptr ELSE MakeI(call, RdOf(w), Rs1Of(w), Upper12(w))
  BY Zenon DEF decodeSystem, CallOf
<1>7. call = op
  <2> HIDE DEF csr
  <2>1. \A e : CallOf({}, imm, csr, e) = op
    BY <1>0, Called
  <2> QED
    BY <1>3, <1>4, <2>1, Zenon
<1> HIDE DEF call, csr
<1>8. op # ""
  BY Zenon DEF SystemCalls
<1>9. decode(w) = MakeI(op, RdOf(w), Rs1Of(w), Upper12(w))
  BY <1>5, <1>6, <1>7, <1>8, Zenon
<1>10. MakeI(op, RdOf(w), Rs1Of(w), Upper12(w)).op = op
  BY MadeI
<1>11. decode(w).op = op
  BY <1>9, <1>10, Zenon
<1> QED
  BY <1>11, Zenon

\* The immediate of the two instructions of the extension.
ExtImm(op) == IF op = "ext" THEN {0} ELSE {}

\* ext and extx come back.
LEMMA AgainExt ==
  ASSUME NEW op \in {"ext", "extx"}, NEW rd \in SUBSET (0 .. 4), NEW rs1 \in SUBSET (0 .. 4)
  PROVE  decode(IWord(ITypeKinds[op], rd, rs1, ExtImm(op))).op = op
<1> PICK imm : imm = IF op = "ext" THEN {0} ELSE {}
  OBVIOUS
<1>0. imm = ExtImm(op)
  BY DEF ExtImm
<1> PICK w : w = IWord(ITypeKinds[op], rd, rs1, imm)
  OBVIOUS
<1> PICK n, o : n = ITypeKinds[op][1] /\ o = ITypeKinds[op][2]
  OBVIOUS
<1>1. op \in DOMAIN ITypeKinds /\ o = \b0001011
  BY KindsI, CodeI
<1>2. imm \in SUBSET (0 .. 11)
  OBVIOUS
<1>3. Upper12(w) = imm /\ Opcode(w) = Bits(o, 7)
  <2>1. op \in DOMAIN ITypeKinds
    BY <1>1
  <2> QED
    BY <1>2, <2>1, SeenI
<1>4. Rs2Of(w) = imm
  <2>1. \A b \in Int : b \in Rs2Of(w) <=> b \in Upper12(w) /\ b \in 0 .. 4
    BY DEF Rs2Of, Upper12, Shr, Bit
  <2>2. \A b \in imm : b \in Int /\ b \in 0 .. 4
    OBVIOUS
  <2>3. Rs2Of(w) \subseteq Int
    BY DEF Rs2Of, Shr, Bit
  <2> QED
    BY <1>3, <2>1, <2>2, <2>3, Zenon
<1>5. decode(w) = decodeExt(w)
  BY <1>1, <1>3, Dispatch
<1>6. ASSUME op = "ext"
      PROVE  decode(w).op = op
  <2>1. Rs2Of(w) = {0} /\ Rs2Of(w) # {}
    BY <1>4, <1>6
  <2>2. decodeExt(w) = MakeI("ext", {}, {}, {})
    BY <2>1 DEF decodeExt
  <2>3. decode(w).op = "ext"
    BY <1>5, <2>2, MadeI
  <2> QED
    BY <1>6, <2>3
<1>7. ASSUME op = "extx"
      PROVE  decode(w).op = op
  <2>1. Rs2Of(w) = {}
    BY <1>4, <1>7
  <2>2. Rs2Of(w) # {0}
    BY <2>1
  <2>3. decodeExt(w) = MakeI("extx", {}, {}, {})
    BY <2>1, <2>2 DEF decodeExt
  <2>4. decode(w).op = "extx"
    BY <1>5, <2>3, MadeI
  <2> QED
    BY <1>7, <2>4
<1> QED
  BY <1>0, <1>6, <1>7

\* The immediates are put together again as the getters read them.
LEMMA SameImm ==
  ASSUME NEW w
  PROVE  /\ decodeJal(w) = MakeJ("jal", RdOf(w), getJImm(w))
         /\ \A op : decodeUpper(w, op) = MakeU(op, RdOf(w), getUImm(w))
BY DEF decodeJal, decodeUpper, getJImm, getUImm

\* The three values of funct7.
LEMMA Funct7s ==
  /\ Bits(\b0000000, 7) = {}
  /\ Bits(\b0100000, 7) = {5}
  /\ Bits(\b0000001, 7) = {0}
<1>1. \A b \in 0 .. 6 : b = 0 \/ b = 1 \/ b = 2 \/ b = 3 \/ b = 4 \/ b = 5 \/ b = 6
  OBVIOUS
<1>2. Bits(\b0000000, 7) = {}
  BY <1>1, LowBits, BitsAre, SMT
<1>3. Bits(\b0100000, 7) = {5}
  BY <1>1, LowBits, BitsAre, SMT
<1>4. Bits(\b0000001, 7) = {0}
  BY <1>1, LowBits, BitsAre, SMT
<1> QED
  BY <1>2, <1>3, <1>4

\* A store comes back.
LEMMA AgainS ==
  ASSUME NEW op \in DOMAIN STypeKinds, NEW rs1 \in SUBSET (0 .. 4),
         NEW rs2 \in SUBSET (0 .. 4), NEW imm \in SUBSET (0 .. 11)
  PROVE  decode(SWord(STypeKinds[op], rs1, rs2, imm)) = MakeS(op, rs1, rs2, imm)
<1> PICK w : w = SWord(STypeKinds[op], rs1, rs2, imm)
  OBVIOUS
<1> PICK n, o : n = STypeKinds[op][1] /\ o = STypeKinds[op][2]
  OBVIOUS
<1>1. n \in Int /\ o \in Int
  BY CodesS
<1>2. w \in SUBSET Bit
  BY <1>1, WordBits
<1>3. LET x == SWord(STypeKinds[op], rs1, rs2, imm)
      IN /\ getRs1(x) = rs1 /\ getRs2(x) = rs2 /\ getSImm(x) = imm
         /\ Opcode(x) = Bits(o, 7)
         /\ Funct3(x) = Bits(n, 3)
  BY <1>1, WordS
<1>4. /\ Rs1Of(w) = rs1 /\ Rs2Of(w) = rs2 /\ getSImm(w) = imm
      /\ Opcode(w) = Bits(o, 7)
      /\ Funct3(w) = Bits(n, 3)
  BY <1>2, <1>3, Cut
<1>5. StoreRow(op, n)
  BY KindsS, CodeS DEF StoreRow
<1>6. o = \b0100011 /\ n \in 0 .. 7
  BY KindsS, CodeS
<1>7. decode(w) = decodeStore(w)
  BY <1>4, <1>6, Dispatch
<1>8. op # ""
  BY KindsS, Zenon
<1>9. ByFunct3(w, <<"sb", "sh", "sw", "", "", "", "", "">>) = op
  BY <1>4, <1>5, <1>6, RowStore, Zenon
<1>10. decodeStore(w) = MakeS(op, Rs1Of(w), Rs2Of(w), getSImm(w))
  BY <1>8, <1>9, Zenon DEF decodeStore, getSImm
<1> QED
  BY <1>4, <1>7, <1>10, Zenon

\* A branch comes back.
LEMMA AgainB ==
  ASSUME NEW op \in DOMAIN BTypeKinds, NEW rs1 \in SUBSET (0 .. 4),
         NEW rs2 \in SUBSET (0 .. 4), NEW imm \in SUBSET (1 .. 12)
  PROVE  decode(BWord(BTypeKinds[op], rs1, rs2, imm)) = MakeB(op, rs1, rs2, imm)
<1> PICK w : w = BWord(BTypeKinds[op], rs1, rs2, imm)
  OBVIOUS
<1> PICK n, o : n = BTypeKinds[op][1] /\ o = BTypeKinds[op][2]
  OBVIOUS
<1>1. n \in Int /\ o \in Int
  BY CodesB
<1>2. w \in SUBSET Bit
  BY <1>1, WordBits
<1>3. LET x == BWord(BTypeKinds[op], rs1, rs2, imm)
      IN /\ getRs1(x) = rs1 /\ getRs2(x) = rs2 /\ getBImm(x) = imm
         /\ Opcode(x) = Bits(o, 7)
         /\ Funct3(x) = Bits(n, 3)
  BY <1>1, WordB
<1>4. /\ Rs1Of(w) = rs1 /\ Rs2Of(w) = rs2 /\ getBImm(w) = imm
      /\ Opcode(w) = Bits(o, 7)
      /\ Funct3(w) = Bits(n, 3)
  BY <1>2, <1>3, Cut
<1>5. BranchRow(op, n)
  BY KindsB, CodeB DEF BranchRow
<1>6. o = \b1100011 /\ n \in 0 .. 7
  BY KindsB, CodeB
<1>7. decode(w) = decodeBranch(w)
  BY <1>4, <1>6, Dispatch
<1>8. op # ""
  BY KindsB, Zenon
<1>9. ByFunct3(w, <<"beq", "bne", "", "", "blt", "bge", "bltu", "bgeu">>) = op
  <2>1. \A e : ByFunct3(w, <<"beq", "bne", e, e, "blt", "bge", "bltu", "bgeu">>) = op
    <3>1. n \in 0 .. 7 /\ Funct3(w) = Bits(n, 3)
      BY <1>4, <1>6
    <3> QED
      BY <1>5, <3>1, RowBranch
  <2> QED
    BY <2>1, Zenon
<1>10. decodeBranch(w) = MakeB(op, Rs1Of(w), Rs2Of(w), getBImm(w))
  BY <1>8, <1>9, Zenon DEF decodeBranch, getBImm
<1> QED
  BY <1>4, <1>7, <1>10, Zenon

\* lui and auipc come back.
LEMMA AgainU ==
  ASSUME NEW op \in DOMAIN UTypeKinds, NEW rd \in SUBSET (0 .. 4),
         NEW imm \in SUBSET (0 .. 19)
  PROVE  decode(UWord(UTypeKinds[op], rd, imm)) = MakeU(op, rd, imm)
<1> PICK w : w = UWord(UTypeKinds[op], rd, imm)
  OBVIOUS
<1> PICK o : o = UTypeKinds[op][1]
  OBVIOUS
<1>1. o \in Int
  BY CodesU
<1>2. w \in SUBSET Bit
  BY <1>1, WordBits
<1>3. LET x == UWord(UTypeKinds[op], rd, imm)
      IN getRd(x) = rd /\ getUImm(x) = imm /\ Opcode(x) = Bits(o, 7)
  BY <1>1, WordU
<1>4. RdOf(w) = rd /\ getUImm(w) = imm /\ Opcode(w) = Bits(o, 7)
  BY <1>2, <1>3, Cut
<1>5. decode(w) = decodeUpper(w, op)
  <2>1. CASE op = "lui"
    BY <1>4, <2>1, CodeU, Dispatch
  <2>2. CASE op = "auipc"
    BY <1>4, <2>2, CodeU, Dispatch
  <2> QED
    BY <2>1, <2>2, KindsU
<1> QED
  BY <1>4, <1>5, SameImm, Zenon

\* A jump comes back.
LEMMA AgainJ ==
  ASSUME NEW op \in DOMAIN JTypeKinds, NEW rd \in SUBSET (0 .. 4),
         NEW imm \in SUBSET (1 .. 20)
  PROVE  decode(JWord(JTypeKinds[op], rd, imm)) = MakeJ(op, rd, imm)
<1> PICK w : w = JWord(JTypeKinds[op], rd, imm)
  OBVIOUS
<1> PICK o : o = JTypeKinds[op][1]
  OBVIOUS
<1>1. o \in Int
  BY CodesJ
<1>2. w \in SUBSET Bit
  BY <1>1, WordBits
<1>3. LET x == JWord(JTypeKinds[op], rd, imm)
      IN getRd(x) = rd /\ getJImm(x) = imm /\ Opcode(x) = Bits(o, 7)
  BY <1>1, WordJ
<1>4. RdOf(w) = rd /\ getJImm(w) = imm /\ Opcode(w) = Bits(o, 7)
  BY <1>2, <1>3, Cut
<1>5. op = "jal" /\ o = \b1101111
  BY KindsJ, CodeJ
<1>6. decode(w) = decodeJal(w)
  BY <1>4, <1>5, Dispatch
<1> QED
  BY <1>4, <1>5, <1>6, SameImm, Zenon

\* An instruction on registers comes back.
LEMMA AgainR ==
  ASSUME NEW op \in DOMAIN RTypeKinds, NEW rd \in SUBSET (0 .. 4),
         NEW rs1 \in SUBSET (0 .. 4), NEW rs2 \in SUBSET (0 .. 4)
  PROVE  decode(RWord(RTypeKinds[op], rd, rs1, rs2)) = MakeR(op, rd, rs1, rs2)
<1> PICK w : w = RWord(RTypeKinds[op], rd, rs1, rs2)
  OBVIOUS
<1> PICK m, n, o : m = RTypeKinds[op][1] /\ n = RTypeKinds[op][2] /\ o = RTypeKinds[op][3]
  OBVIOUS
<1>1. m \in Int /\ n \in Int /\ o \in Int
  BY CodesR
<1>2. w \in SUBSET Bit
  BY <1>1, WordBits
<1>3. LET x == RWord(RTypeKinds[op], rd, rs1, rs2)
      IN /\ getRd(x) = rd /\ getRs1(x) = rs1 /\ getRs2(x) = rs2
         /\ Opcode(x) = Bits(o, 7)
         /\ Funct3(x) = Bits(n, 3)
         /\ Funct7(x) = Bits(m, 7)
  BY <1>1, WordR
<1>4. /\ RdOf(w) = rd /\ Rs1Of(w) = rs1 /\ Rs2Of(w) = rs2
      /\ Opcode(w) = Bits(o, 7)
      /\ Funct3(w) = Bits(n, 3)
      /\ Funct7(w) = Bits(m, 7)
  BY <1>2, <1>3, Cut
<1>5. \/ m = \b0000000 /\ BaseRow(op, n)
      \/ m = \b0100000 /\ MinusRow(op, n)
      \/ m = \b0000001 /\ MulRow(op, n)
  BY KindsR, CodeR DEF BaseRow, MinusRow, MulRow
<1>6. o = \b0110011 /\ n \in 0 .. 7
  <2>1. o = \b0110011
    BY KindsR, CodeR
  <2>2. n \in 0 .. 7
    BY <1>5 DEF BaseRow, MinusRow, MulRow
  <2> QED
    BY <2>1, <2>2
<1>7. decode(w) = decodeR(w)
  BY <1>4, <1>6, Dispatch
<1>8. op # ""
  BY KindsR, Zenon
<1>9. decodeR(w) = MakeR(op, RdOf(w), Rs1Of(w), Rs2Of(w))
  <2>0. {5} # {} /\ {0} # {} /\ {0} # {5}
    BY SMT
  <2>1. CASE m = \b0000000 /\ BaseRow(op, n)
    <3>1. Funct7(w) = {}
      BY <1>4, <2>1, Funct7s
    <3>2. ByFunct3(w, <<"add", "sll", "slt", "sltu", "xor", "srl", "or", "and">>) = op
      BY <1>4, <1>6, <2>1, RowBase, Zenon
    <3> QED
      BY <1>8, <2>0, <3>1, <3>2, Zenon DEF decodeR
  <2>2. CASE m = \b0100000 /\ MinusRow(op, n)
    <3>1. Funct7(w) = {5}
      BY <1>4, <2>2, Funct7s
    <3>2. ByFunct3(w, <<"sub", "", "", "", "", "sra", "", "">>) = op
      BY <1>4, <1>6, <2>2, RowMinus, Zenon
    <3> QED
      BY <1>8, <2>0, <3>1, <3>2, Zenon DEF decodeR
  <2>3. CASE m = \b0000001 /\ MulRow(op, n)
    <3>1. Funct7(w) = {0}
      BY <1>4, <2>3, Funct7s
    <3>2. ByFunct3(w, <<"mul", "mulh", "mulhsu", "mulhu", "div", "divu", "rem", "remu">>) = op
      BY <1>4, <1>6, <2>3, RowMul, Zenon
    <3> QED
      BY <1>8, <2>0, <3>1, <3>2, Zenon DEF decodeR
  <2> QED
    BY <1>5, <2>1, <2>2, <2>3
<1> QED
  BY <1>4, <1>7, <1>9, Zenon

(* What an encoder is given comes back from the decoder: the word of every  *)
(* mnemonic, whatever its registers and its immediate, is decoded as that   *)
(* instruction with these operands (BinaryEmitter.cpp:12-56,                *)
(* InstructionTypes.h, Decoder.cpp:3-308).  Of a system call only the       *)
(* mnemonic comes back with every operand, and of a shift the amount        *)
(* without the bit that tells srai apart.                                   *)
THEOREM EncodedComesBack ==
  ASSUME NEW rd \in SUBSET (0 .. 4), NEW rs1 \in SUBSET (0 .. 4), NEW rs2 \in SUBSET (0 .. 4)
  PROVE  /\ \A op \in DOMAIN RTypeKinds :
              decode(RWord(RTypeKinds[op], rd, rs1, rs2)) = MakeR(op, rd, rs1, rs2)
         /\ \A op \in DOMAIN STypeKinds, imm \in SUBSET (0 .. 11) :
              decode(SWord(STypeKinds[op], rs1, rs2, imm)) = MakeS(op, rs1, rs2, imm)
         /\ \A op \in DOMAIN BTypeKinds, imm \in SUBSET (1 .. 12) :
              decode(BWord(BTypeKinds[op], rs1, rs2, imm)) = MakeB(op, rs1, rs2, imm)
         /\ \A op \in DOMAIN UTypeKinds, imm \in SUBSET (0 .. 19) :
              decode(UWord(UTypeKinds[op], rd, imm)) = MakeU(op, rd, imm)
         /\ \A op \in DOMAIN JTypeKinds, imm \in SUBSET (1 .. 20) :
              decode(JWord(JTypeKinds[op], rd, imm)) = MakeJ(op, rd, imm)
         /\ \A op \in DOMAIN ITypeKinds \ (SystemCalls \cup RightShifts \cup {"ext", "extx"}),
               imm \in SUBSET (0 .. 11) :
              decode(IWord(ITypeKinds[op], rd, rs1, imm)) = MakeI(op, rd, rs1, imm)
         /\ \A op \in RightShifts, s \in SUBSET (0 .. 4) :
              decode(IWord(ITypeKinds[op], rd, rs1, ShiftImm(op, s))) = MakeI(op, rd, rs1, s)
         /\ \A op \in SystemCalls :
              decode(IWord(ITypeKinds[op], rd, rs1, Bits(SystemCode(op), 12))).op = op
         /\ \A op \in {"ext", "extx"} :
              decode(IWord(ITypeKinds[op], rd, rs1, ExtImm(op))).op = op
<1>1. \A op \in DOMAIN RTypeKinds :
        decode(RWord(RTypeKinds[op], rd, rs1, rs2)) = MakeR(op, rd, rs1, rs2)
  BY AgainR, Zenon
<1>2. \A op \in DOMAIN STypeKinds, imm \in SUBSET (0 .. 11) :
        decode(SWord(STypeKinds[op], rs1, rs2, imm)) = MakeS(op, rs1, rs2, imm)
  BY AgainS, Zenon
<1>3. \A op \in DOMAIN BTypeKinds, imm \in SUBSET (1 .. 12) :
        decode(BWord(BTypeKinds[op], rs1, rs2, imm)) = MakeB(op, rs1, rs2, imm)
  BY AgainB, Zenon
<1>4. \A op \in DOMAIN UTypeKinds, imm \in SUBSET (0 .. 19) :
        decode(UWord(UTypeKinds[op], rd, imm)) = MakeU(op, rd, imm)
  BY AgainU, Zenon
<1>5. \A op \in DOMAIN JTypeKinds, imm \in SUBSET (1 .. 20) :
        decode(JWord(JTypeKinds[op], rd, imm)) = MakeJ(op, rd, imm)
  BY AgainJ, Zenon
<1>6. \A op \in DOMAIN ITypeKinds \ (SystemCalls \cup RightShifts \cup {"ext", "extx"}),
         imm \in SUBSET (0 .. 11) :
        decode(IWord(ITypeKinds[op], rd, rs1, imm)) = MakeI(op, rd, rs1, imm)
  BY AgainI, Zenon
<1>7. \A op \in RightShifts, s \in SUBSET (0 .. 4) :
        decode(IWord(ITypeKinds[op], rd, rs1, ShiftImm(op, s))) = MakeI(op, rd, rs1, s)
  BY AgainShift, Zenon
<1>8. \A op \in SystemCalls :
        decode(IWord(ITypeKinds[op], rd, rs1, Bits(SystemCode(op), 12))).op = op
  <2> SUFFICES ASSUME NEW op \in SystemCalls
               PROVE  decode(IWord(ITypeKinds[op], rd, rs1, Bits(SystemCode(op), 12))).op = op
    OBVIOUS
  <2> PICK imm : imm = Bits(SystemCode(op), 12)
    OBVIOUS
  <2>1. imm = Bits(SystemCode(op), 12)
    OBVIOUS
  <2>2. decode(IWord(ITypeKinds[op], rd, rs1, imm)).op = op
    BY <2>1, AgainSystem, Zenon
  <2> QED
    BY <2>1, <2>2, Zenon
<1>9. \A op \in {"ext", "extx"} :
        decode(IWord(ITypeKinds[op], rd, rs1, ExtImm(op))).op = op
  BY AgainExt, Zenon
<1> QED
  BY <1>1, <1>2, <1>3, <1>4, <1>5, <1>6, <1>7, <1>8, <1>9, Zenon
=============================================================================
