--------------------------- MODULE Pipeline_proofs ---------------------------
(***************************************************************************)
(* Proofs about the pipeline, for every decoder, memory size, program and  *)
(* predictor: type correctness, the stall and flush protocol, the end      *)
(* address, and that what is fetched behind a branch is what was           *)
(* predicted for it.                                                       *)
(***************************************************************************)
EXTENDS Pipeline, TLAPS

-----------------------------------------------------------------------------
(* Lemmas on the operators of RiscvIsa: what they return stays within a    *)
(* word or a byte, whatever the sizes of the machine.                      *)

(* The remainder of a machine integer: every wrap-around rests on it.      *)
LEMMA ModRange == \A v \in Int, n \in Nat \ {0} : v % n \in 0 .. n - 1
  BY SMT

(* A word and its halves have a positive number of values.                 *)
LEMMA Sizes ==
  /\ ByteSize * ByteSize \in Nat \ {0}
  /\ WordSize \in Nat \ {0}
  /\ ByteSize <= ByteSize * ByteSize
  /\ ByteSize * ByteSize <= WordSize
  /\ 32 <= WordSize
<1> DEFINE H == ByteSize * ByteSize
<1>1. ByteSize \in Nat /\ ByteSize >= 4
  BY ByteAssumption
<1>2. H \in Nat /\ H >= 4 * ByteSize
  BY <1>1, SMT
<1>3. WordSize = H * H
  BY <1>1, SMT DEF WordSize
<1>4. H * H \in Nat /\ H * H >= 16 * H
  <2>1. H >= 16
    BY <1>1, <1>2, SMT
  <2> HIDE DEF H
  <2> QED BY <1>2, <2>1, SMT
<1> HIDE DEF H
<1>5. H \in Nat \ {0} /\ H * H \in Nat \ {0} /\ ByteSize <= H /\ H <= H * H /\ 32 <= H * H
  BY <1>1, <1>2, <1>4, SMT
<1> QED BY <1>3, <1>5 DEF H

(* Results that are wrapped are words: the cast to unsigned of the code.   *)
LEMMA WrapType == \A v \in Int : Wrap(v) \in Word
  BY ModRange, Sizes DEF Wrap, Word

LEMMA ClearBit0Type == \A v \in Word : ClearBit0(v) \in Word
  BY Sizes, SMT DEF ClearBit0, Word

(* A branch is taken or not, whatever it compares.                         *)
LEMMA TakenType == \A op, a, b : Taken(op, a, b) \in BOOLEAN
<1> SUFFICES ASSUME NEW op, NEW a, NEW b PROVE Taken(op, a, b) \in BOOLEAN
  OBVIOUS
<1> DEFINE less == Signed(a) < Signed(b)
           geq  == Signed(a) >= Signed(b)
<1>1. less \in BOOLEAN /\ geq \in BOOLEAN /\ (a < b) \in BOOLEAN /\ (a >= b) \in BOOLEAN
      /\ (a = b) \in BOOLEAN /\ (a # b) \in BOOLEAN
  BY SMT
<1>2. Taken(op, a, b) \in {a = b, a # b, less, geq, a < b, a >= b}
  BY Zenon DEF Taken
<1> HIDE DEF less, geq
<1> QED BY <1>1, <1>2, Zenon

-----------------------------------------------------------------------------
(* The fields of mstatus are as wide as the code masks them.               *)
LEMMA FieldTypes ==
  \A v \in Word : /\ getMIE(v) \in 0 .. 1
                  /\ getMPIE(v) \in 0 .. 1
                  /\ getMPP(v) \in 0 .. 3
  BY Sizes, SMT DEF getMIE, getMPIE, getMPP, Word

(* Setting a field of mstatus leaves a word.                               *)
LEMMA SetTypes ==
  \A v \in Word : /\ \A b \in 0 .. 1 : /\ setMIE(v, b) \in Word
                                      /\ setMPIE(v, b) \in Word
                                      /\ setMPREV(v, b) \in Word
                  /\ \A m \in 0 .. 3 : setMPP(v, m) \in Word
<1>1. WordSize \in Nat /\ WordSize % 32 = 0
  BY Sizes, ByteAssumption
<1>2. PICK k \in Nat : WordSize = 32 * k
  BY <1>1, SMT
<1> HIDE DEF WordSize
<1> QED
  BY <1>2, SMT DEF setMIE, setMPIE, setMPREV, setMPP, getMIE, getMPIE, getMPP, Word

-----------------------------------------------------------------------------
(* Two digits of base n make a number below n * n.                         *)
LEMMA TwoDigits ==
  ASSUME NEW n \in Nat \ {0}, NEW x \in 0 .. n - 1, NEW y \in 0 .. n - 1
  PROVE  x + n * y \in 0 .. n * n - 1
<1>1. n * y <= n * (n - 1)
  BY SMT
<1>2. n * (n - 1) = n * n - n
  BY SMT
<1>3. n * y \in Nat
  BY SMT
<1> QED BY <1>1, <1>2, <1>3, SMT

(* What Memory's read functions return for an access inside DRAM.          *)
LEMMA ReadHalfWordType ==
  ASSUME NEW m \in [DRAM -> Byte], NEW a \in DRAM, a + 1 \in DRAM
  PROVE  readHalfWord(m, a) \in 0 .. ByteSize * ByteSize - 1
<1>1. ByteSize \in Nat \ {0}
  BY ByteAssumption
<1>2. m[a] \in 0 .. ByteSize - 1 /\ m[a + 1] \in 0 .. ByteSize - 1
  BY DEF Byte
<1> QED BY <1>1, <1>2, TwoDigits DEF readHalfWord

LEMMA ReadWordType ==
  ASSUME NEW m \in [DRAM -> Byte], NEW a \in DRAM,
         a + 1 \in DRAM, a + 2 \in DRAM, a + 3 \in DRAM
  PROVE  readWord(m, a) \in Word
<1> DEFINE H == ByteSize * ByteSize
<1>1. H \in Nat \ {0} /\ WordSize = H * H
  BY ByteAssumption, Sizes, SMT DEF WordSize
<1>2. a + 2 + 1 = a + 3
  BY DRAMAssumption, SMT DEF DRAM
<1>3. readHalfWord(m, a) \in 0 .. H - 1
  BY ReadHalfWordType
<1>4. readHalfWord(m, a + 2) \in 0 .. H - 1
  BY ReadHalfWordType, <1>2
<1>5. readHalfWord(m, a) + H * readHalfWord(m, a + 2) \in 0 .. H * H - 1
  <2> HIDE DEF H
  <2> QED BY <1>1, <1>3, <1>4, TwoDigits
<1> QED BY <1>1, <1>5 DEF readWord, Word

(* An access that passes both checks touches bytes of DRAM only.           *)
LEMMA AccessInDRAM ==
  ASSUME NEW a \in Word, NEW n \in 1 .. 4, Access(a, n) = "ok"
  PROVE  \A k \in 0 .. n - 1 : a + k \in DRAM
<1>1. a \in Int
  BY Sizes, SMT DEF Word
<1>2. ~(a < DRAMBase \/ DRAMSize < a - DRAMBase) /\ ~(a + n > DRAMBase + DRAMSize)
  BY DEF Access
<1> QED BY <1>1, <1>2, DRAMAssumption, SMT DEF DRAM

(* A load whose access is inside DRAM yields a word.                       *)
LEMMA LoadValueType ==
  ASSUME NEW op \in Loads, NEW m \in [DRAM -> Byte], NEW a \in Word,
         Access(a, Width(op)) = "ok"
  PROVE  LoadValue(op, m, a) \in Word
<1>1. WordSize \in Nat \ {0} /\ ByteSize * ByteSize \in Nat /\ ByteSize \in Nat
      /\ ByteSize <= WordSize /\ ByteSize * ByteSize <= WordSize
  BY Sizes, ByteAssumption, SMT
<1>2. a + 0 = a
  BY <1>1, SMT DEF Word
<1>3. \A v \in 0 .. ByteSize - 1 : v \in Word /\ SignedLoad(v, ByteSize) \in Word
  BY <1>1, WrapType, SMT DEF SignedLoad, Word
<1>4. \A v \in 0 .. ByteSize * ByteSize - 1 :
        v \in Word /\ SignedLoad(v, ByteSize * ByteSize) \in Word
  BY <1>1, WrapType, SMT DEF SignedLoad, Word
<1>5. CASE op \in {"lb", "lbu"}
  <2>1. Width(op) = 1
    BY <1>5 DEF Width
  <2>2. a \in DRAM
    BY <1>2, <2>1, AccessInDRAM, SMT
  <2> QED BY <2>2, <1>3, <1>5 DEF LoadValue, Byte
<1>6. CASE op \in {"lh", "lhu"}
  <2>1. Width(op) = 2
    BY <1>6 DEF Width
  <2>2. a \in DRAM /\ a + 1 \in DRAM
    BY <1>2, <2>1, AccessInDRAM, SMT
  <2> QED BY <2>2, <1>4, <1>6, ReadHalfWordType DEF LoadValue
<1>7. CASE op = "lw"
  <2>1. Width(op) = 4
    BY <1>7 DEF Width
  <2>2. a \in DRAM /\ a + 1 \in DRAM /\ a + 2 \in DRAM /\ a + 3 \in DRAM
    BY <1>2, <2>1, AccessInDRAM, SMT
  <2> QED BY <2>2, <1>7, ReadWordType DEF LoadValue
<1> QED BY <1>5, <1>6, <1>7 DEF Loads

(* A store leaves a memory of bytes.                                       *)
LEMMA StoreValueType ==
  ASSUME NEW op, NEW m \in [DRAM -> Byte], NEW a, NEW v \in Word
  PROVE  StoreValue(op, m, a, v) \in [DRAM -> Byte]
<1>1. \A k : ByteOf(v, k) \in Byte
  <2>1. ByteSize \in Nat \ {0} /\ ByteSize * ByteSize \in Nat \ {0}
        /\ ByteSize * ByteSize * ByteSize \in Nat \ {0}
    BY ByteAssumption, SMT
  <2>2. \A n \in Nat \ {0} : v \div n \in Int
    BY Sizes, SMT DEF Word
  <2>3. v \in Int
    BY Sizes, SMT DEF Word
  <2> QED BY <2>1, <2>2, <2>3, ModRange DEF ByteOf, Byte
<1> QED BY <1>1 DEF StoreValue

-----------------------------------------------------------------------------
(* What the stages hold.                                                   *)

(* exec is the only source of exceptions: one is pending only between exec *)
(* and its handling, and the instruction that raised it is still in EX.    *)
ExceptionInEX ==
  /\ phase \notin {"DE", "XC"} => Except = nullopt
  /\ Except # nullopt => ~Empty(EX)

(* The strengthening of TypeOK that is inductive: mtval gets the word in   *)
(* EX, which is a word only if there is an instruction.                    *)
TypeInv == TypeOK /\ ExceptionInEX

-----------------------------------------------------------------------------
(* The fields of a decodable word.                                         *)
LEMMA FieldsType ==
  ASSUME NEW w \in Code
  PROVE  /\ w \in Word /\ Mnemo(w) \in Mnemonics
         /\ Rd(w) \in Reg /\ Rs1(w) \in Reg /\ Rs2(w) \in Reg
         /\ Imm(w) \in Word
<1>1. Decode[w] \in [op : Mnemonics, rd : Reg, rs1 : Reg, rs2 : Reg, imm : Int]
  BY DecodeAssumption
<1> QED
  BY <1>1, DecodeAssumption, WrapType DEF Mnemo, Rd, Rs1, Rs2, Imm

LEMMA WordFacts ==
  /\ Word \subseteq Nat /\ 0 \in Word
  /\ Reg \subseteq Word
  /\ Exception \subseteq Word /\ nullopt \notin Word
  /\ \A v \in Word : CsrOf(v) \in CSRAddress
<1>1. WordSize \in Nat /\ 32 <= WordSize
  BY Sizes
<1>2. Word = 0 .. WordSize - 1
  BY DEF Word
<1>3. Word \subseteq Nat /\ 0 \in Word
  BY <1>1, <1>2, SMT
<1>4. Reg \subseteq Word
  BY <1>1, <1>2, RegAssumption, SMT DEF Reg
<1>5. Exception \subseteq Word /\ nullopt \notin Word
  BY <1>1, <1>2, SMT DEF Exception, IllegalInstruction, Breakpoint, EnvCallU,
       EnvCallS, R0, EnvCallM, R1, nullopt
<1>6. \A v \in Word : CsrOf(v) \in CSRAddress
  BY <1>3, SMT DEF CsrOf, CSR_SIZE, CSRAddress
<1> QED BY <1>3, <1>4, <1>5, <1>6

(* The simulator starts well typed.                                        *)
LEMMA InitType == Init => TypeInv
<1> SUFFICES ASSUME Init PROVE TypeInv
  OBVIOUS
<1>1. DRAMBase \in Word
  BY DRAMAssumption, Sizes, SMT DEF Word
<1>2. PICK g \in Garbage : /\ PCs = [s \in STAGES |-> g]
                           /\ DEVal = [rs1 |-> g, rs2 |-> 0, csr |-> 0, imm |-> 0]
  BY DEF Init
<1>3. g \in Word
  BY PipelineAssumption
<1>4. /\ PCs \in [STAGES -> Word]
      /\ DEVal \in [rs1 : Word, rs2 : Word, csr : Word, imm : Word]
      /\ EXVal \in [rd : Word, rs2 : Word, csr : Word, imm : Word]
      /\ MAVal \in [rd : Word, csr : Word, imm : Word]
      /\ States \in [CSRAddress -> Word]
  BY <1>2, <1>3, WordFacts DEF Init
<1>5. GPRegs \in [Reg -> Word] /\ Mem \in [DRAM -> Byte]
  BY PipelineAssumption DEF Init
<1>6. Insts \in [STAGES -> Code \cup {nullptr}]
  BY DEF Init
<1>7. /\ phase \in Phases /\ Mode \in ModeKind
      /\ Status \in {"run", "empty", "end", "break", "abort", "undefined"}
  BY DEF Init, Phases, ModeKind, Machine
<1>8. /\ PC \in Word /\ StalledStages \subseteq STAGES /\ InvalidStages \subseteq STAGES
      /\ BranchPC \in Word \cup {nullopt} /\ BranchPredPC \in Word \cup {nullopt}
      /\ PrevPred \in BOOLEAN /\ Except \in Exception \cup {nullopt}
  BY <1>1 DEF Init
<1>9. ExceptionInEX
  BY DEF Init, ExceptionInEX
<1> QED
  BY <1>4, <1>5, <1>6, <1>7, <1>8, <1>9 DEF TypeInv, TypeOK

-----------------------------------------------------------------------------
(* The shift of the stages moves instructions and addresses, it makes none.*)
LEMMA ShiftType ==
  ASSUME TypeOK, NEW inst \in Code \cup {nullptr}, NEW pc \in Word,
         Proceed(inst), ProceedPC(pc)
  PROVE  Insts' \in [STAGES -> Code \cup {nullptr}] /\ PCs' \in [STAGES -> Word]
<1>1. \A s \in STAGES : s # IFs => s - 1 \in STAGES
  BY SMT DEF STAGES, IFs
<1>2. Insts \in [STAGES -> Code \cup {nullptr}] /\ PCs \in [STAGES -> Word]
  BY DEF TypeOK
<1>3. Insts' \in [STAGES -> Code \cup {nullptr}]
  <2> DEFINE f(s) == CASE Advances(s) /\ s = IFs -> inst
                [] Advances(s) /\ s # IFs -> Insts[s - 1]
                [] ~Advances(s) /\ s # WB /\ Advances(s + 1) -> nullptr
                [] OTHER -> Insts[s]
  <2>1. Insts' = [s \in STAGES |-> f(s)]
    BY DEF Proceed
  <2>2. ASSUME NEW s \in STAGES PROVE f(s) \in Code \cup {nullptr}
    BY <1>1, <1>2
  <2> QED BY <2>1, <2>2
<1>4. PCs' \in [STAGES -> Word]
  BY <1>1, <1>2 DEF ProceedPC
<1> QED BY <1>3, <1>4

LEMMA FetchType == TypeInv /\ fetch => TypeInv'
<1> SUFFICES ASSUME TypeInv, fetch PROVE TypeInv'
  OBVIOUS
<1> USE DEF TypeInv
<1>1. CASE FetchStalled
  <2>1. Insts' \in [STAGES -> Code \cup {nullptr}] /\ PCs' \in [STAGES -> Word]
    BY <1>1, ShiftType, WrapType DEF FetchStalled
  <2>2. /\ Status' \in {"run", "empty", "end", "break", "abort", "undefined"}
        /\ phase' \in Phases /\ phase' \in {"IF", "WB"} /\ Except' = nullopt
    BY <1>1 DEF FetchStalled, StartCycle, TypeOK, At, Goto, Phases, ExceptionInEX
  <2> QED
    BY <1>1, <2>1, <2>2 DEF FetchStalled, TypeOK, ExceptionInEX, arch, latches
<1>2. CASE Fetch
  <2>1. Insts' \in [STAGES -> Code \cup {nullptr}] /\ PCs' \in [STAGES -> Word]
    BY <1>2, ShiftType DEF Fetch, TypeOK
  <2>2. /\ Status' \in {"run", "empty", "end", "break", "abort", "undefined"}
        /\ phase' \in Phases /\ phase' \in {"IF", "WB"} /\ Except' = nullopt
    BY <1>2 DEF Fetch, StartCycle, TypeOK, At, Goto, Phases, ExceptionInEX
  <2>3. PC' \in Word
    BY <1>2, WrapType, WordFacts, SMT DEF Fetch, TypeOK
  <2> QED
    BY <1>2, <2>1, <2>2, <2>3 DEF Fetch, TypeOK, ExceptionInEX, arch, latches
<1>3. CASE FetchFails
  <2>1. Status' \in {"abort", "undefined"}
    BY <1>3 DEF FetchFails, Access
  <2> QED
    BY <1>3, <2>1 DEF FetchFails, TypeOK, ExceptionInEX, At, Empty, arch, latches, stages
<1> QED BY <1>1, <1>2, <1>3 DEF fetch

LEMMA WritebackType == TypeInv /\ writeback => TypeInv'
<1> SUFFICES ASSUME TypeInv, writeback PROVE TypeInv'
  OBVIOUS
<1> USE DEF TypeInv
<1>1. GPRegs' \in [Reg -> Word] /\ States' \in [CSRAddress -> Word]
  <2>1. MAVal.rd \in Word /\ MAVal.csr \in Word /\ MAVal.imm \in Word
    BY DEF TypeOK
  <2>2. CsrOf(MAVal.imm) \in CSRAddress
    BY <2>1, WordFacts
  <2> QED BY <2>1, <2>2 DEF writeback, write, TypeOK
<1> QED
  BY <1>1 DEF writeback, TypeOK, ExceptionInEX, At, Goto, Phases, Empty, control,
              latches, stages

LEMMA MemoryType == TypeInv /\ memory => TypeInv'
<1> SUFFICES ASSUME TypeInv, memory PROVE TypeInv'
  OBVIOUS
<1> USE DEF TypeInv
<1>1. CASE MemoryAccess
  <2>1. EXVal.rd \in Word /\ EXVal.rs2 \in Word /\ EXVal.csr \in Word
        /\ EXVal.imm \in Word /\ Mem \in [DRAM -> Byte]
    BY DEF TypeOK
  <2>2. Mem' \in [DRAM -> Byte]
    BY <1>1, <2>1, StoreValueType DEF MemoryAccess, MemWritten
  <2>3. MemResult(Insts[MA], EXVal) \in Word
    BY <1>1, <2>1, LoadValueType DEF MemoryAccess, MemFails, MemResult
  <2>4. MAVal' \in [rd : Word, csr : Word, imm : Word]
    BY <1>1, <2>1, <2>3 DEF MemoryAccess
  <2> QED
    BY <1>1, <2>2, <2>4 DEF MemoryAccess, TypeOK, ExceptionInEX, At, Goto, Phases,
         Empty, control, stages
<1>2. CASE NoMemoryAccess
  BY <1>2 DEF NoMemoryAccess, TypeOK, ExceptionInEX, At, Goto, Phases, Empty, arch,
       control, stages, latches
<1>3. CASE MemoryAccessFails
  <2>1. Status' \in {"abort", "undefined"}
    BY <1>3 DEF MemoryAccessFails, MemFails, Access
  <2> QED
    BY <1>3, <2>1 DEF MemoryAccessFails, TypeOK, ExceptionInEX, At, Empty, arch,
         latches, stages
<1> QED BY <1>1, <1>2, <1>3 DEF memory

-----------------------------------------------------------------------------
(* What exec finds in the stage registers.                                 *)
LEMMA ExecOperands ==
  ASSUME TypeOK
  PROVE  /\ DEVal.rs1 \in Word /\ DEVal.rs2 \in Word
         /\ DEVal.csr \in Word /\ DEVal.imm \in Word
         /\ \A s \in STAGES : PCs[s] \in Word /\ (~Empty(s) => Insts[s] \in Code)
         /\ {IFs, DE, EX, MA, WB} \subseteq STAGES
  BY DEF TypeOK, Empty, STAGES, IFs, DE, EX, MA, WB

(* The latch of exec keeps its shape.                                      *)
LEMMA LatchType ==
  ASSUME TypeOK, NEW rd \in Word, NEW csr \in Word, Latch(rd, csr)
  PROVE  EXVal' \in [rd : Word, rs2 : Word, csr : Word, imm : Word]
  BY ExecOperands DEF Latch, TypeOK

(* An instruction that computes a result and changes nothing else.         *)
LEMMA ResultType ==
  ASSUME TypeInv, At("EX"), Goto("DE"),
         EXVal' \in [rd : Word, rs2 : Word, csr : Word, imm : Word],
         UNCHANGED <<arch, Insts, PCs, DEVal, MAVal, BranchPredPC, PrevPred, Except, Status>>,
         PC' \in Word, BranchPC' \in Word \cup {nullopt},
         StalledStages' \subseteq STAGES, InvalidStages' \subseteq STAGES
  PROVE  TypeInv'
  BY DEF TypeInv, TypeOK, ExceptionInEX, At, Goto, Phases, Empty, arch

LEMMA ExecType == TypeInv /\ exec => TypeInv'
<1> SUFFICES ASSUME TypeInv, exec PROVE TypeInv'
  OBVIOUS
<1>a. TypeOK /\ ExceptionInEX
  BY DEF TypeInv
<1>b. /\ DEVal.rs1 \in Word /\ DEVal.rs2 \in Word /\ DEVal.csr \in Word
      /\ DEVal.imm \in Word /\ PCs[EX] \in Word
      /\ IFs \in STAGES /\ DE \in STAGES /\ 0 \in Word
      /\ (~Empty(EX) => Insts[EX] \in Code)
  BY <1>a, ExecOperands, WordFacts
<1>c. /\ PC \in Word /\ BranchPC \in Word \cup {nullopt}
      /\ StalledStages \subseteq STAGES /\ InvalidStages \subseteq STAGES
  BY <1>a DEF TypeOK
<1>d. \A a, b \in Word : Wrap(a + b) \in Word /\ Wrap(a + 4) \in Word
                        /\ Wrap(0 + b) \in Word
  BY WrapType, WordFacts, SMT
<1>1. CASE execNothing
  BY <1>1, <1>a DEF execNothing, TypeInv, TypeOK, ExceptionInEX, At, Goto, Phases,
       Empty, arch, control, stages, latches
<1>2. CASE execData
  <2>1. Mnemo(Insts[EX]) \in {Mnemo(w) : w \in Code}
    BY <1>2, <1>b DEF execData, Exec, Holds, Empty
  <2>2. Alu(Op, DEVal.rs1, IF Op \in RTypeKinds THEN DEVal.rs2 ELSE DEVal.imm) \in Word
    BY <2>1, <1>b, AluAssumption DEF Op
  <2> QED
    BY <1>2, <2>2, <1>a, <1>b, <1>c, LatchType, ResultType
       DEF execData, Exec, stages, control
<1>3. CASE execUpper
  <2>1. DEVal.imm * UImmUnit \in Int
    BY <1>b, WordFacts, UnitAssumption, SMT
  <2>2. \A a \in Word, i \in Int : Wrap(a + i) \in Word
    BY WordFacts, WrapType, SMT
  <2>3. Wrap((IF Op = "auipc" THEN PCs[EX] ELSE 0) + DEVal.imm * UImmUnit) \in Word
    BY <1>b, <2>1, <2>2
  <2> QED
    BY <1>3, <2>3, <1>a, <1>b, <1>c, LatchType, ResultType
       DEF execUpper, Exec, stages, control
<1>4. CASE execJump
  <2>1. Wrap(PCs[EX] + 4) \in Word
        /\ Wrap((IF Op = "jal" THEN PCs[EX] ELSE DEVal.rs1) + DEVal.imm) \in Word
    BY <1>b, <1>d
  <2> QED
    BY <1>4, <2>1, <1>a, <1>b, <1>c, LatchType, ResultType DEF execJump, Exec, Flush
<1>5. CASE execLoad
  <2>1. Wrap(DEVal.rs1 + DEVal.imm) \in Word
    BY <1>b, <1>d
  <2>2. StalledStages' \subseteq STAGES
    BY <1>5, <1>b, <1>c DEF execLoad
  <2> QED
    BY <1>5, <2>1, <2>2, <1>a, <1>b, <1>c, LatchType, ResultType
       DEF execLoad, Exec, control
<1>6. CASE execStore
  <2>1. Wrap(DEVal.rs1 + DEVal.imm) \in Word
    BY <1>b, <1>d
  <2>2. EXVal' \in [rd : Word, rs2 : Word, csr : Word, imm : Word]
    BY <1>6, <2>1, <1>b DEF execStore
  <2> QED
    BY <1>6, <2>2, <1>a, <1>b, <1>c, ResultType DEF execStore, Exec, stages, control
<1>7. CASE execCsr
  <2> DEFINE new == CASE Op \in {"csrrw", "csrrwi"} -> DEVal.rs1
                      [] Op \in {"csrrs", "csrrsi"} -> Alu("csrrs", DEVal.csr, DEVal.rs1)
                      [] OTHER                      -> Alu("csrrc", DEVal.csr, DEVal.rs1)
  <2>1. new \in Word
    BY <1>b, AluAssumption
  <2>2. Latch(DEVal.csr, new)
    BY <1>7 DEF execCsr
  <2> HIDE DEF new
  <2> QED
    BY <1>7, <2>1, <2>2, <1>a, <1>b, <1>c, LatchType, ResultType
       DEF execCsr, Exec, stages, control
<1>8. CASE execBranch
  <2>1. Imm(Insts[EX]) \in Word
    BY <1>8, <1>b, FieldsType DEF execBranch, Exec, Holds, Empty
  <2>2. PC' \in Word /\ BranchPC' \in Word \cup {nullopt} /\ InvalidStages' \subseteq STAGES
    BY <1>8, <1>b, <1>c, <1>d DEF execBranch, Flush
  <2> QED
    BY <1>8, <2>2, <1>a, <1>b, <1>c, LatchType, ResultType DEF execBranch, Exec
<1>9. CASE execRaise
  <2>1. Except' \in Exception
    BY <1>9 DEF execRaise, EcallCause, Exception
  <2>2. Insts[EX] # nullptr
    BY <1>9 DEF execRaise, Exec, Holds
  <2> QED
    BY <1>9, <2>1, <2>2, <1>a DEF execRaise, Exec, TypeInv, TypeOK, ExceptionInEX,
         At, Goto, Phases, Empty, arch, stages, latches
<1>10. CASE execMret
  <2>1. States \in [CSRAddress -> Word] /\ Mode \in ModeKind /\ MAVal.csr \in Word
    BY <1>a DEF TypeOK
  <2>2. \A c \in CSRAddress : Forwarded(c) \in Word
    BY <2>1 DEF Forwarded
  <2>3. MSTATUS \in CSRAddress /\ MEPC \in CSRAddress
    BY SMT DEF CSRAddress, CSR_SIZE, MSTATUS, MEPC
  <2> DEFINE mpp  == getMPP(Forwarded(MSTATUS))
             mpie == getMPIE(Forwarded(MSTATUS))
             cur  == IF mpp = Machine THEN States[MSTATUS]
                                      ELSE setMPREV(States[MSTATUS], 0)
             new  == setMPP(setMPIE(setMIE(cur, mpie), 1), User)
  <2>4. mpp \in 0 .. 3 /\ mpie \in 0 .. 1
    BY <2>2, <2>3, FieldTypes
  <2>5. cur \in Word
    <3>1. 0 \in 0 .. 1
      BY SMT
    <3> QED BY <2>1, <2>3, <3>1, SetTypes
  <2>6. new \in Word
    <3>1. 1 \in 0 .. 1 /\ User \in 0 .. 3
      BY SMT DEF User
    <3> HIDE DEF cur, mpie
    <3> QED BY <2>4, <2>5, <3>1, SetTypes
  <2>7. /\ BranchPC' \in Word /\ Insts[EX] # nullptr
        /\ InvalidStages' \subseteq STAGES
    BY <1>10, <1>b, <1>c, <2>2, <2>3 DEF execMret, Exec, Holds, Flush
  <2>8. CASE mpp = Hypervisor
    <3>1. Except' = IllegalInstruction /\ UNCHANGED <<Mode, States, EXVal>>
      BY <1>10, <2>8 DEF execMret
    <3>2. Except' \in Exception
      BY <3>1 DEF Exception
    <3> QED
      BY <1>10, <2>7, <3>1, <3>2, <1>a DEF execMret, Exec, TypeInv, TypeOK,
           ExceptionInEX, At, Goto, Phases, Empty
  <2>9. CASE mpp # Hypervisor
    <3>1. /\ Mode' = IF mpp = User THEN Mode ELSE mpp
          /\ States' = [States EXCEPT ![MSTATUS] = new]
          /\ Latch(0, 0) /\ UNCHANGED Except
      BY <1>10, <2>9 DEF execMret
    <3>2. Mode' \in ModeKind
      <4> HIDE DEF mpp
      <4> QED BY <3>1, <2>1, <2>4, SMT DEF ModeKind
    <3>3. States' \in [CSRAddress -> Word]
      <4> HIDE DEF new
      <4> QED BY <3>1, <2>1, <2>6
    <3>4. EXVal' \in [rd : Word, rs2 : Word, csr : Word, imm : Word]
      BY <3>1, <1>a, <1>b, LatchType
    <3> QED
      BY <1>10, <2>7, <3>1, <3>2, <3>3, <3>4, <1>a DEF execMret, Exec, TypeInv,
           TypeOK, ExceptionInEX, At, Goto, Phases, Empty
  <2> QED BY <2>8, <2>9
<1>11. CASE execUnimplemented
  BY <1>11, <1>a DEF execUnimplemented, TypeInv, TypeOK, ExceptionInEX, At, Empty,
       arch, stages, latches
<1> QED
  BY <1>1, <1>2, <1>3, <1>4, <1>5, <1>6, <1>7, <1>8, <1>9, <1>10, <1>11 DEF exec

-----------------------------------------------------------------------------
(* Forwarded operands are values some latch or register holds.             *)
LEMMA OperandsType ==
  ASSUME TypeOK, NEW w \in Code
  PROVE  Operands(w) \in [rs1 : Word, rs2 : Word, csr : Word, imm : Word]
<1>1. /\ \A r \in Reg : GPRegs[r] \in Word
      /\ \A c \in CSRAddress : States[c] \in Word
      /\ EXVal.rd \in Word /\ EXVal.csr \in Word
      /\ MAVal.rd \in Word /\ MAVal.csr \in Word
      /\ DEVal.rs1 \in Word /\ DEVal.rs2 \in Word /\ DEVal.csr \in Word
  BY DEF TypeOK
<1>2. \A r \in Reg : forwardOnDE(r) \in Word
  BY <1>1 DEF forwardOnDE
<1>3. \A c \in CSRAddress : forwardCSROnDE(c) \in Word
  BY <1>1 DEF forwardCSROnDE, Forwarded
<1>4. /\ Rs1(w) \in Reg /\ Rs2(w) \in Reg /\ Rs1(w) \in Word /\ Imm(w) \in Word
      /\ CsrOf(Imm(w)) \in CSRAddress /\ 0 \in Word
  BY FieldsType, WordFacts
<1> QED BY <1>1, <1>2, <1>3, <1>4 DEF Operands

LEMMA DecodeType == TypeInv /\ decodes => TypeInv'
<1> SUFFICES ASSUME TypeInv, decodes PROVE TypeInv'
  OBVIOUS
<1>a. TypeOK /\ ExceptionInEX
  BY DEF TypeInv
<1>b. Decodes => Insts[DE] \in Code
  BY <1>a DEF Decodes, Empty, TypeOK, STAGES, DE
<1>1. CASE decode
  <2>1. DEVal' \in [rs1 : Word, rs2 : Word, csr : Word, imm : Word]
    BY <1>1, <1>a, <1>b, OperandsType DEF decode
  <2> QED
    BY <1>1, <1>a, <2>1 DEF decode, TypeInv, TypeOK, ExceptionInEX, At, Goto, Phases,
         Empty, arch, control, stages
<1>2. CASE decodeBranch
  <2>1. DEVal' \in [rs1 : Word, rs2 : Word, csr : Word, imm : Word]
    BY <1>2, <1>a, <1>b, OperandsType DEF decodeBranch
  <2>2. Wrap(PCs[DE] + Imm(Insts[DE])) \in Word
    <3>1. PCs[DE] \in Word /\ Imm(Insts[DE]) \in Word
      BY <1>2, <1>a, <1>b, FieldsType, ExecOperands DEF decodeBranch
    <3>2. \A a, b \in Word : Wrap(a + b) \in Word
      BY WrapType, WordFacts, SMT
    <3> QED BY <3>1, <3>2
  <2>3. /\ BranchPredPC' \in Word \cup {nullopt} /\ PrevPred' \in BOOLEAN
        /\ InvalidStages' \subseteq STAGES
    <3>1. PICK pred \in BOOLEAN :
            /\ PrevPred' = pred
            /\ IF pred
               THEN /\ BranchPredPC' = Wrap(PCs[DE] + Imm(Insts[DE]))
                    /\ InvalidStages' = InvalidStages \cup {IFs}
               ELSE UNCHANGED <<BranchPredPC, InvalidStages>>
      BY <1>2 DEF decodeBranch
    <3>2. PrevPred' \in BOOLEAN
      BY <3>1, Zenon
    <3>3. BranchPredPC \in Word \cup {nullopt} /\ InvalidStages \subseteq STAGES
          /\ IFs \in STAGES
      BY <1>a, ExecOperands DEF TypeOK
    <3>4. CASE pred
      BY <3>1, <3>2, <3>3, <3>4, <2>2, Zenon
    <3>5. CASE ~pred
      BY <3>1, <3>2, <3>3, <3>5, Zenon
    <3> QED BY <3>4, <3>5
  <2> QED
    BY <1>2, <1>a, <2>1, <2>3 DEF decodeBranch, TypeInv, TypeOK, ExceptionInEX, At,
         Goto, Phases, Empty, arch
<1>3. CASE decodeNothing
  BY <1>3, <1>a DEF decodeNothing, TypeInv, TypeOK, ExceptionInEX, At, Goto, Phases,
       Empty, arch, control, stages, latches
<1> QED BY <1>1, <1>2, <1>3 DEF decodes

-----------------------------------------------------------------------------
(* A pending exception is handled with its instruction still in EX.        *)
LEMMA HandleType == TypeInv /\ handleException => TypeInv'
<1> SUFFICES ASSUME TypeInv, handleException PROVE TypeInv'
  OBVIOUS
<1>a. TypeOK /\ ExceptionInEX
  BY DEF TypeInv
<1>b. Flush => InvalidStages' \subseteq STAGES
  BY <1>a DEF Flush, TypeOK, STAGES, IFs, DE
<1>1. CASE NoException
  BY <1>1, <1>a DEF NoException, TypeInv, TypeOK, ExceptionInEX, At, Goto, Phases,
       Empty, arch, control, stages, latches
<1>2. CASE Break
  BY <1>2, <1>a, <1>b DEF Break, TypeInv, TypeOK, ExceptionInEX, At, Phases, Empty,
       arch, latches
<1>3. CASE EnterEpilogue
  <2>1. Mode' \in ModeKind
    BY <1>3 DEF EnterEpilogue, ModeKind, Epilogue
  <2> QED
    BY <1>3, <1>a, <1>b, <2>1 DEF EnterEpilogue, TypeInv, TypeOK, ExceptionInEX, At,
         Goto, Phases, Empty, latches
<1>4. CASE Trap
  <2>1. /\ States \in [CSRAddress -> Word] /\ MAVal.csr \in Word
        /\ PCs[EX] \in Word /\ Except \in Exception \cup {nullopt}
    BY <1>a, ExecOperands DEF TypeOK
  <2>2. /\ MSTATUS \in CSRAddress /\ MTVEC \in CSRAddress /\ MEPC \in CSRAddress
        /\ MCAUSE \in CSRAddress /\ MTVAL \in CSRAddress
    BY SMT DEF CSRAddress, CSR_SIZE, MSTATUS, MTVEC, MEPC, MCAUSE, MTVAL
  <2>3. PC' \in Word
    BY <1>4, <2>1, <2>2, ClearBit0Type DEF Trap, Forwarded
  <2>4. Insts[EX] \in Word /\ Except \in Word /\ 0 \in Word
    BY <1>4, <1>a, <2>1, ExecOperands, WordFacts, FieldsType DEF Trap, Traps, ExceptionInEX
  <2>5. trap_val(Except, Insts[EX]) \in Word /\ ClearBit0(PCs[EX]) \in Word
    BY <2>1, <2>4, ClearBit0Type DEF trap_val
  <2> DEFINE v   == States[MSTATUS]
             new == setMPP(setMIE(setMPIE(v, getMIE(v)), 0), Mode)
  <2>6. new \in Word
    <3>1. Mode = Machine /\ Machine \in 0 .. 3 /\ 0 \in 0 .. 1
      BY <1>4, SMT DEF Trap, Machine
    <3>2. v \in Word
      BY <2>1, <2>2
    <3> HIDE DEF v
    <3> QED BY <3>1, <3>2, FieldTypes, SetTypes
  <2>7. States' = [States EXCEPT ![MEPC] = ClearBit0(PCs[EX]), ![MCAUSE] = Except,
                    ![MTVAL] = trap_val(Except, Insts[EX]), ![MSTATUS] = new]
    BY <1>4 DEF Trap
  <2>8. States' \in [CSRAddress -> Word]
    <3> HIDE DEF new
    <3> QED BY <2>1, <2>2, <2>4, <2>5, <2>6, <2>7
  <2> QED
    BY <1>4, <1>a, <1>b, <2>3, <2>8 DEF Trap, TypeInv, TypeOK, ExceptionInEX, At, Goto,
         Phases, Empty, latches
<1>5. CASE TrapFails
  BY <1>5, <1>a DEF TrapFails, TypeInv, TypeOK, ExceptionInEX, At, Empty, arch, stages,
       latches
<1> QED BY <1>1, <1>2, <1>3, <1>4, <1>5 DEF handleException

LEMMA RedirectType == TypeInv /\ Redirect => TypeInv'
<1> SUFFICES ASSUME TypeInv, Redirect PROVE TypeInv'
  OBVIOUS
<1>a. TypeOK /\ ExceptionInEX
  BY DEF TypeInv
<1>1. PC' \in Word
  BY <1>a DEF Redirect, TypeOK
<1>2. Insts' \in [STAGES -> Code \cup {nullptr}]
  BY <1>a DEF Redirect, TypeOK
<1>3. Status' \in {"run", "empty", "end", "break", "abort", "undefined"}
  BY DEF Redirect
<1> QED
  BY <1>a, <1>1, <1>2, <1>3 DEF Redirect, TypeInv, TypeOK, ExceptionInEX, At, Goto,
       Phases, arch, latches

\* Every step keeps the types.
LEMMA StepType == TypeInv /\ [Next]_vars => TypeInv'
<1> SUFFICES ASSUME TypeInv, [Next]_vars PROVE TypeInv'
  OBVIOUS
<1>1. CASE proceedNStage
  BY <1>1, FetchType, WritebackType, MemoryType, ExecType, DecodeType, HandleType,
     RedirectType DEF proceedNStage
<1>2. CASE Stopped \/ UNCHANGED vars
  BY <1>2 DEF Stopped, vars, arch, control, stages, latches, TypeInv, TypeOK,
       ExceptionInEX, Empty
<1> QED BY <1>1, <1>2 DEF Next

\* The types, and where an exception can be pending, always hold.
LEMMA TypeInvariant == Spec => []TypeInv
  BY InitType, StepType, PTL DEF Spec

(* The pipeline registers, the fetch address and the architectural state   *)
(* stay in their types: in particular no step of RIPSimulator reads an     *)
(* instruction from an empty stage into mtval, and every address it        *)
(* redirects to is a word (RIPSimulator.cpp:58-728).                       *)
THEOREM TypeCorrect == Spec => []TypeOK
<1>1. TypeInv => TypeOK
  BY DEF TypeInv
<1> QED BY <1>1, TypeInvariant, PTL

-----------------------------------------------------------------------------
(* The stall and flush protocol of one cycle.  A stall is decided by exec  *)
(* and undone by the next fetch; a flush is decided by exec, decode or the *)
(* exception and done at the end of the cycle.  Neither is pending where   *)
(* the other is decided: a load that stalls flushes nothing and raises     *)
(* nothing, and a stalled decode predicts nothing.                         *)
StallProtocol ==
  /\ phase \in {"IF", "WB", "MA", "EX"} => InvalidStages = {}
  /\ phase \in {"WB", "MA", "EX"} => StalledStages = {}
  /\ StalledStages # {} => InvalidStages = {}
  /\ Except # nullopt => StalledStages = {}

StallInv == StallProtocol /\ StallOnlyForLoadUse

LEMMA InitStall == Init => StallInv
  BY DEF Init, StallInv, StallProtocol, StallOnlyForLoadUse

\* Every step keeps the stall and flush protocol.
LEMMA StepStall == TypeInv /\ StallInv /\ [Next]_vars => StallInv'
<1> SUFFICES ASSUME TypeInv, StallInv, [Next]_vars PROVE StallInv'
  OBVIOUS
<1>a. ExceptionInEX /\ Insts \in [STAGES -> Code \cup {nullptr}]
  BY DEF TypeInv, TypeOK
<1> USE DEF StallInv, StallProtocol, StallOnlyForLoadUse, At, Goto
<1>1. CASE fetch
  <2>1. CASE FetchStalled
    BY <1>a, <2>1 DEF FetchStalled, StartCycle, ExceptionInEX
  <2>2. CASE Fetch
    <3>1. StalledStages = {} /\ StalledStages' = {}
      BY <2>2 DEF Fetch
    <3> QED BY <1>a, <2>2, <3>1 DEF Fetch, StartCycle, ExceptionInEX
  <2>3. CASE FetchFails
    BY <2>3 DEF FetchFails, stages, Holds, Empty, LoadUse
  <2> QED BY <1>1, <2>1, <2>2, <2>3 DEF fetch
<1>2. CASE writeback
  BY <1>a, <1>2 DEF writeback, stages, control, ExceptionInEX
<1>3. CASE memory
  BY <1>a, <1>3 DEF memory, MemoryAccess, NoMemoryAccess, MemoryAccessFails, stages,
       control, ExceptionInEX
<1>4. CASE exec
  <2>a. At("EX") /\ InvalidStages = {} /\ StalledStages = {} /\ Except = nullopt
    BY <1>a, <1>4 DEF exec, execNothing, execData, execUpper, execJump, execLoad,
         execStore, execCsr, execBranch, execRaise, execMret, execUnimplemented, Exec,
         ExceptionInEX
  <2>1. CASE execLoad
    <3>1. /\ InvalidStages' = {} /\ Except' = nullopt /\ phase' = "DE"
          /\ UNCHANGED Insts /\ Holds(EX, Loads)
      BY <2>a, <2>1 DEF execLoad, Exec, control
    <3>2. CASE ~Empty(DE) /\ LoadUse(Insts[EX], Insts[DE])
      <4>1. StalledStages' = {DE, IFs}
        BY <2>a, <2>1, <3>2 DEF execLoad
      <4> QED BY <3>1, <3>2, <4>1 DEF Holds, Empty, LoadUse
    <3>3. CASE ~(~Empty(DE) /\ LoadUse(Insts[EX], Insts[DE]))
      <4>1. StalledStages' = {}
        BY <2>a, <2>1, <3>3 DEF execLoad
      <4> QED BY <3>1, <4>1
    <3> QED BY <3>2, <3>3
  <2>2. CASE ~execLoad
    <3>1. StalledStages' = {} /\ phase' \in {"DE", "EX"}
          /\ (phase' = "EX" => UNCHANGED InvalidStages)
      BY <1>4, <2>a, <2>2 DEF exec, execNothing, execData, execUpper, execJump,
           execStore, execCsr, execBranch, execRaise, execMret, execUnimplemented,
           Exec, stages
    <3> QED BY <2>a, <3>1
  <2> QED BY <2>1, <2>2
<1>5. CASE decodes
  <2>1. CASE decodeBranch
    <3>1. StalledStages = {} /\ StalledStages' = {} /\ phase' = "XC"
      BY <2>1 DEF decodeBranch, Decodes
    <3> QED BY <3>1
  <2>2. CASE decode \/ decodeNothing
    BY <2>2 DEF decode, decodeNothing, stages, control, Holds, Empty, LoadUse
  <2> QED BY <1>5, <2>1, <2>2 DEF decodes
<1>6. CASE handleException
  <2>1. CASE NoException \/ TrapFails
    BY <2>1 DEF NoException, TrapFails, stages, control, Holds, Empty, LoadUse
  <2>2. CASE Break \/ EnterEpilogue \/ Trap
    <3>1. Except # nullopt
      BY <2>2, SMT DEF Break, EnterEpilogue, Trap, Traps, Breakpoint, R0, R1, nullopt
    <3>2. StalledStages' = {} /\ phase' \in {"XC", "PC"}
      BY <2>2, <3>1 DEF Break, EnterEpilogue, Trap
    <3> QED BY <3>2
  <2> QED BY <1>6, <2>1, <2>2 DEF handleException
<1>7. CASE Redirect
  <2>1. phase' = "IF" /\ InvalidStages' = {} /\ UNCHANGED <<StalledStages, Except>>
    BY <1>7 DEF Redirect
  <2>2. CASE StalledStages = {}
    BY <2>1, <2>2
  <2>3. CASE StalledStages # {}
    <3>1. InvalidStages = {}
      BY <2>3
    <3>2. Insts' = Insts
      BY <1>7, <1>a, <3>1 DEF Redirect
    <3> QED BY <2>1, <2>3, <3>2 DEF Holds, Empty, LoadUse
  <2> QED BY <2>2, <2>3
<1>8. CASE Stopped \/ UNCHANGED vars
  BY <1>8 DEF Stopped, vars, stages, control, Holds, Empty, LoadUse
<1> QED
  BY <1>1, <1>2, <1>3, <1>4, <1>5, <1>6, <1>7, <1>8 DEF Next, proceedNStage

\* The stall and flush protocol always holds.
LEMMA StallInvariant == Spec => []StallInv
<1>1. TypeInv /\ StallInv /\ [Next]_vars => StallInv'
  BY StepStall
<1> QED BY InitStall, <1>1, TypeInvariant, PTL DEF Spec

(* A stall is always the load-use stall of exec (lines 165-176): it holds  *)
(* back exactly DE and IF, one cycle, for a load in EX and an instruction  *)
(* in DE that reads its result.                                            *)
THEOREM StallCorrect == Spec => []StallOnlyForLoadUse
<1>1. StallInv => StallOnlyForLoadUse
  BY DEF StallInv
<1> QED BY <1>1, StallInvariant, PTL

(* No stage is ever both held back and flushed: fillBubble (lines 161-168) *)
(* never destroys an instruction that waits for a load.                    *)
THEOREM NoStalledInstructionLost == Spec => []StalledNeverFlushed
<1>1. StallInv => StalledNeverFlushed
  BY DEF StallInv, StallProtocol, StalledNeverFlushed
<1> QED BY <1>1, StallInvariant, PTL

-----------------------------------------------------------------------------
(* EndNeverFetched is kept by the fetch only because a running simulator   *)
(* never begins a cycle at EndAddress: that is the test of run.            *)
BeginsBeforeEnd == phase = "IF" /\ Status = "run" => PC # EndAddress

EndInv == EndAddress # DRAMBase => BeginsBeforeEnd /\ EndNeverFetched

(* An instruction keeps its address when the stages shift: what is in a    *)
(* stage afterwards was in that stage, with the address it has now, in the *)
(* one before, or has just been fetched.                                   *)
LEMMA ShiftKeepsAddress ==
  ASSUME NEW inst, NEW pc, Proceed(inst), ProceedPC(pc),
         NEW s \in STAGES, Insts'[s] # nullptr
  PROVE  \/ PCs'[s] = PCs[s] /\ ~Empty(s)
         \/ s # IFs /\ PCs'[s] = PCs[s - 1] /\ ~Empty(s - 1)
         \/ s = IFs /\ PCs'[s] = pc /\ inst # nullptr
<1>1. CASE Advances(s) /\ s = IFs
  <2>1. Insts'[s] = inst /\ PCs'[s] = pc
    BY <1>1 DEF Proceed, ProceedPC
  <2> QED BY <1>1, <2>1
<1>2. CASE Advances(s) /\ s # IFs
  <2>1. Insts'[s] = Insts[s - 1] /\ PCs'[s] = PCs[s - 1]
    BY <1>2 DEF Proceed, ProceedPC
  <2> QED BY <1>2, <2>1 DEF Empty
<1>3. CASE ~Advances(s)
  <2>1. PCs'[s] = PCs[s]
    BY <1>3 DEF ProceedPC
  <2>2. Insts'[s] \in {nullptr, Insts[s]}
    BY <1>3 DEF Proceed
  <2> QED BY <2>1, <2>2 DEF Empty
<1> QED BY <1>1, <1>2, <1>3

LEMMA InitEnd == Init => EndInv
<1> SUFFICES ASSUME Init PROVE EndInv
  OBVIOUS
<1>1. PC = DRAMBase /\ \A s \in STAGES : Empty(s)
  BY DEF Init, Empty
<1> QED BY <1>1 DEF EndInv, BeginsBeforeEnd, EndNeverFetched

\* Every step keeps the end address out of the pipeline.
LEMMA StepEnd == EndInv /\ [Next]_vars => EndInv'
<1> SUFFICES ASSUME EndAddress # DRAMBase, BeginsBeforeEnd, EndNeverFetched, [Next]_vars
             PROVE  BeginsBeforeEnd' /\ EndNeverFetched'
  BY DEF EndInv
<1> USE DEF BeginsBeforeEnd
<1>a. \A s \in STAGES : ~Empty(s) => PCs[s] # EndAddress
  BY DEF EndNeverFetched
<1>1. CASE fetch
  <2>a. \A s \in STAGES : s # IFs => s - 1 \in STAGES
    BY SMT DEF STAGES, IFs
  <2>1. CASE FetchStalled
    <3>1. BeginsBeforeEnd'
      BY <2>1 DEF FetchStalled, StartCycle, Goto
    <3>2. Proceed(nullptr) /\ ProceedPC(Wrap(-1))
      BY <2>1 DEF FetchStalled
    <3>3. ASSUME NEW s \in STAGES, Insts'[s] # nullptr PROVE PCs'[s] # EndAddress
      <4>1. \/ PCs'[s] = PCs[s] /\ ~Empty(s)
            \/ s # IFs /\ PCs'[s] = PCs[s - 1] /\ ~Empty(s - 1)
        BY <3>2, <3>3, ShiftKeepsAddress
      <4> QED BY <4>1, <1>a, <2>a
    <3> QED BY <3>1, <3>3 DEF EndNeverFetched, Empty
  <2>2. CASE Fetch
    <3>1. BeginsBeforeEnd'
      BY <2>2 DEF Fetch, StartCycle, Goto
    <3>2. ProceedPC(PC) /\ PC # EndAddress
      BY <2>2 DEF Fetch, At
    <3>3. PICK inst : Proceed(inst)
      BY <2>2 DEF Fetch
    <3>4. ASSUME NEW s \in STAGES, Insts'[s] # nullptr PROVE PCs'[s] # EndAddress
      <4>1. \/ PCs'[s] = PCs[s] /\ ~Empty(s)
            \/ s # IFs /\ PCs'[s] = PCs[s - 1] /\ ~Empty(s - 1)
            \/ PCs'[s] = PC
        BY <3>2, <3>3, <3>4, ShiftKeepsAddress
      <4> QED BY <4>1, <1>a, <2>a, <3>2
    <3> QED BY <3>1, <3>4 DEF EndNeverFetched, Empty
  <2>3. CASE FetchFails
    BY <1>a, <2>3 DEF FetchFails, Access, stages, EndNeverFetched, Empty
  <2> QED BY <1>1, <2>1, <2>2, <2>3 DEF fetch
<1>2. CASE Redirect
  <2>1. BeginsBeforeEnd'
    BY <1>2 DEF Redirect
  <2>2. \A s \in STAGES : PCs'[s] = PCs[s] /\ Insts'[s] \in {nullptr, Insts[s]}
    BY <1>2 DEF Redirect
  <2> QED BY <1>a, <2>1, <2>2 DEF EndNeverFetched, Empty
<1>3. CASE writeback \/ memory \/ exec \/ decodes \/ handleException
  <2>1. UNCHANGED <<Insts, PCs>> /\ phase' # "IF"
    BY <1>3 DEF writeback, memory, MemoryAccess, NoMemoryAccess, MemoryAccessFails,
         exec, execNothing, execData, execUpper, execJump, execLoad, execStore, execCsr,
         execBranch, execRaise, execMret, execUnimplemented, Exec, decodes, decode,
         decodeBranch, decodeNothing, handleException, NoException, Break,
         EnterEpilogue, Trap, TrapFails, At, Goto, stages
  <2> QED BY <1>a, <2>1 DEF EndNeverFetched, Empty
<1>4. CASE Stopped \/ UNCHANGED vars
  BY <1>a, <1>4 DEF Stopped, vars, stages, control, EndNeverFetched, Empty
<1> QED BY <1>1, <1>2, <1>3, <1>4 DEF Next, proceedNStage

(* The instruction at EndAddress never enters the pipeline, whatever       *)
(* stalls, redirections and predictions come before it: run's test (line   *)
(* 636) sees every address the next cycle fetches from (proceedNStage,     *)
(* lines 659-672, 716-726).                                                *)
THEOREM EndCorrect == Spec => []EndNeverFetched
<1>1. CASE EndAddress # DRAMBase
  <2>1. EndInv => EndNeverFetched
    BY <1>1 DEF EndInv
  <2> QED BY InitEnd, StepEnd, <2>1, PTL DEF Spec
<1>2. CASE EndAddress = DRAMBase
  <2>1. EndNeverFetched
    BY <1>2 DEF EndNeverFetched
  <2> QED BY <2>1, PTL
<1> QED BY <1>1, <1>2

-----------------------------------------------------------------------------
(* What the shift does, stage by stage.                                    *)
LEMMA StageFacts ==
  /\ IFs \in STAGES /\ DE \in STAGES /\ EX \in STAGES /\ MA \in STAGES /\ WB \in STAGES
  /\ DE # IFs /\ EX \notin {DE, IFs} /\ MA \notin {DE, IFs} /\ WB \notin {DE, IFs}
  /\ EX # MA /\ EX # WB /\ MA # WB
  BY DEF STAGES, IFs, DE, EX, MA, WB

(* The shift when no stage is stalled: every instruction moves on.         *)
LEMMA ShiftAll ==
  ASSUME StalledStages = {}, NEW inst, NEW pc, Proceed(inst), ProceedPC(pc)
  PROVE  /\ Insts'[IFs] = inst /\ Insts'[DE] = Insts[IFs] /\ Insts'[EX] = Insts[DE]
         /\ PCs'[IFs] = pc /\ PCs'[DE] = PCs[IFs] /\ PCs'[EX] = PCs[DE]
<1>1. \A s \in STAGES : Advances(s)
  BY DEF Advances
<1>2. \A s \in STAGES :
        /\ Insts'[s] = IF s = IFs THEN inst ELSE Insts[s - 1]
        /\ PCs'[s] = IF s = IFs THEN pc ELSE PCs[s - 1]
  BY <1>1 DEF Proceed, ProceedPC
<1>3. /\ IFs \in STAGES /\ DE \in STAGES /\ EX \in STAGES
      /\ DE # IFs /\ EX # IFs /\ DE - 1 = IFs /\ EX - 1 = DE
  BY SMT DEF STAGES, IFs, DE, EX
<1> QED BY <1>2, <1>3

(* The shift when a load stalls: IF and DE keep theirs, EX gets a bubble.  *)
LEMMA ShiftStalled ==
  ASSUME StalledStages = {DE, IFs}, NEW pc, Proceed(nullptr), ProceedPC(pc)
  PROVE  /\ Insts'[IFs] = Insts[IFs] /\ Insts'[DE] = Insts[DE] /\ Insts'[EX] = nullptr
         /\ PCs'[IFs] = PCs[IFs] /\ PCs'[DE] = PCs[DE]
<1>1. /\ ~Advances(IFs) /\ ~Advances(DE) /\ ~Advances(EX) /\ Advances(MA)
  BY SMT DEF Advances, IFs, DE, EX, MA, WB
<1>2. /\ IFs \in STAGES /\ DE \in STAGES /\ EX \in STAGES
      /\ IFs + 1 = DE /\ DE + 1 = EX /\ EX + 1 = MA
      /\ IFs # WB /\ DE # WB /\ EX # WB
  BY SMT DEF STAGES, IFs, DE, EX, MA, WB
<1>3. \A s \in {IFs, DE, EX} :
        /\ Insts'[s] = IF Advances(s + 1) THEN nullptr ELSE Insts[s]
        /\ PCs'[s] = PCs[s]
  BY <1>1, <1>2 DEF Proceed, ProceedPC
<1> QED BY <1>1, <1>2, <1>3

(* Past the stall the shift always moves everything.                       *)
LEMMA ShiftOld ==
  ASSUME StallInv, NEW inst, NEW pc, Proceed(inst), ProceedPC(pc)
  PROVE  /\ Insts'[MA] = Insts[EX] /\ Insts'[WB] = Insts[MA]
         /\ PCs'[MA] = PCs[EX] /\ PCs'[WB] = PCs[MA]
<1>1. StalledStages \subseteq {DE, IFs}
  BY DEF StallInv, StallOnlyForLoadUse
<1>2. Advances(MA) /\ Advances(WB)
  BY <1>1, SMT DEF Advances, IFs, DE, EX, MA, WB
<1>3. MA - 1 = EX /\ WB - 1 = MA /\ MA # IFs /\ WB # IFs /\ MA \in STAGES /\ WB \in STAGES
  BY SMT DEF STAGES, IFs, EX, MA, WB
<1> QED BY <1>2, <1>3 DEF Proceed, ProceedPC

-----------------------------------------------------------------------------
(* The order of fetch: the stages always hold consecutive instructions of  *)
(* the path that the predictions chose, with and without a predictor.      *)

(* The address that follows stage s on the path: the target of a branch    *)
(* that is predicted taken, the next word behind everything else.          *)
Follow(s) == IF HasBP /\ Holds(s, BTypeKinds) /\ PrevPred
             THEN Wrap(PCs[s] + Imm(Insts[s])) ELSE Wrap(PCs[s] + 4)

(* The address the fetch has for the instruction behind DE: that of IF, or *)
(* the redirection that is pending, or the fetch address itself.           *)
BehindDE == CASE Live(IFs)                             -> PCs[IFs]
              [] ~Live(IFs) /\ BranchPredPC # nullopt -> BranchPredPC
              [] OTHER                                 -> PC

(* decode has seen the instruction in DE: its prediction is the recorded one. *)
Decoded == phase \in {"XC", "PC", "IF"} /\ DE \notin StalledStages

(* A redirection is pending only until the end of the cycle, and with it   *)
(* the instructions it jumps over are marked for removal.                  *)
RedirectionsFlush ==
  /\ BranchPC # nullopt =>
       phase \in {"DE", "XC", "PC"} /\ {DE, IFs} \subseteq InvalidStages
  /\ BranchPredPC # nullopt => phase \in {"XC", "PC"} /\ IFs \in InvalidStages

NextBehindIF == Live(IFs) => PC = Wrap(PCs[IFs] + 4)

(* An instruction that decode has not seen is followed by the next word:   *)
(* the recorded prediction is that of an older branch.                     *)
NextBehindDE ==
  Live(DE) => BehindDE = IF Decoded THEN Follow(DE) ELSE Wrap(PCs[DE] + 4)

NextBehindEX ==
  phase \in {"WB", "MA", "EX"} /\ ~Empty(EX) => Upcoming = Follow(EX)

(* FetchFollowsPrediction speaks of exec; it is inductive only with the    *)
(* same fact for the younger stages, in every phase of the cycle.          *)
FetchOrder ==
  Status = "run" =>
    RedirectionsFlush /\ NextBehindIF /\ NextBehindDE /\ NextBehindEX

LEMMA InitFetchOrder == Init => FetchOrder
<1> SUFFICES ASSUME Init PROVE FetchOrder
  OBVIOUS
<1>1. \A s \in STAGES : Empty(s)
  BY DEF Init, Empty
<1>2. IFs \in STAGES /\ DE \in STAGES /\ EX \in STAGES
  BY DEF STAGES, IFs, DE, EX
<1> QED
  BY <1>1, <1>2 DEF Init, FetchOrder, RedirectionsFlush, NextBehindIF, NextBehindDE,
       NextBehindEX, Live

\* A stalled fetch keeps the order of what is held back.
LEMMA FetchStalledOrder ==
  TypeInv /\ StallInv /\ FetchOrder /\ FetchStalled => FetchOrder'
<1> SUFFICES ASSUME TypeInv, StallInv, FetchOrder, FetchStalled, Status' = "run"
             PROVE  RedirectionsFlush' /\ NextBehindIF' /\ NextBehindDE' /\ NextBehindEX'
  BY DEF FetchOrder
<1>a. /\ phase = "IF" /\ phase' = "WB" /\ StalledStages = {DE, IFs} /\ StalledStages' = {}
      /\ InvalidStages = {}
      /\ UNCHANGED <<PC, InvalidStages, BranchPC, BranchPredPC, PrevPred>>
  BY DEF FetchStalled, At, StartCycle, Goto, StallInv, StallOnlyForLoadUse, StallProtocol
<1>b. RedirectionsFlush /\ NextBehindIF /\ NextBehindDE
  BY DEF FetchOrder, FetchStalled, At
<1>c. BranchPC = nullopt /\ BranchPredPC = nullopt
  BY <1>a, <1>b DEF RedirectionsFlush
<1>1. /\ Insts'[IFs] = Insts[IFs] /\ Insts'[DE] = Insts[DE] /\ Insts'[EX] = nullptr
      /\ PCs'[IFs] = PCs[IFs] /\ PCs'[DE] = PCs[DE]
  BY <1>a, ShiftStalled DEF FetchStalled
<1>2. RedirectionsFlush'
  BY <1>a, <1>c DEF RedirectionsFlush
<1>3. NextBehindIF'
  BY <1>a, <1>b, <1>1 DEF NextBehindIF, Live, Empty
<1>4. NextBehindDE'
  BY <1>a, <1>b, <1>c, <1>1 DEF NextBehindDE, BehindDE, Decoded, Live, Empty
<1>5. NextBehindEX'
  BY <1>1 DEF NextBehindEX, Empty
<1> QED BY <1>2, <1>3, <1>4, <1>5

\* A fetch continues behind the instruction fetched last.
LEMMA FetchesOrder ==
  TypeInv /\ StallInv /\ FetchOrder /\ Fetch => FetchOrder'
<1> SUFFICES ASSUME TypeInv, StallInv, FetchOrder, Fetch, Status' = "run"
             PROVE  RedirectionsFlush' /\ NextBehindIF' /\ NextBehindDE' /\ NextBehindEX'
  BY DEF FetchOrder
<1>a. /\ phase = "IF" /\ phase' = "WB" /\ StalledStages = {} /\ StalledStages' = {}
      /\ InvalidStages = {}
      /\ UNCHANGED <<InvalidStages, BranchPC, BranchPredPC, PrevPred>>
  BY DEF Fetch, At, StartCycle, Goto, StallInv, StallOnlyForLoadUse, StallProtocol
<1>b. RedirectionsFlush /\ NextBehindIF /\ NextBehindDE
  BY DEF FetchOrder, Fetch, At
<1>c. BranchPC = nullopt /\ BranchPredPC = nullopt
  BY <1>a, <1>b DEF RedirectionsFlush
<1> DEFINE w    == readWord(Mem, PC)
           inst == IF w \in Code THEN w ELSE nullptr
<1>d. Proceed(inst) /\ ProceedPC(PC) /\ PC' = IF w \in Code THEN Wrap(PC + 4) ELSE PC
  BY DEF Fetch
<1>e. inst # nullptr => PC' = Wrap(PC + 4)
  BY <1>d
<1>f. inst = nullptr => PC' = PC
  <2>1. nullptr \notin Code
    BY DecodeAssumption, PipelineAssumption
  <2> QED BY <1>d, <2>1
<1> HIDE DEF inst, w
<1>1. /\ Insts'[IFs] = inst /\ Insts'[DE] = Insts[IFs] /\ Insts'[EX] = Insts[DE]
      /\ PCs'[IFs] = PC /\ PCs'[DE] = PCs[IFs] /\ PCs'[EX] = PCs[DE]
  BY <1>a, <1>d, ShiftAll
<1>2. RedirectionsFlush'
  BY <1>a, <1>c DEF RedirectionsFlush
<1>3. NextBehindIF'
  BY <1>a, <1>e, <1>1 DEF NextBehindIF, Live, Empty
<1>4. NextBehindDE'
  <2>1. Live(DE)' => PC = Wrap(PCs'[DE] + 4)
    BY <1>a, <1>b, <1>1 DEF NextBehindIF, Live, Empty
  <2>2. BehindDE' = PC
    BY <1>a, <1>c, <1>1, <1>f DEF BehindDE, Live, Empty
  <2>3. ~Decoded'
    BY <1>a DEF Decoded
  <2> QED BY <2>1, <2>2, <2>3 DEF NextBehindDE
<1>5. NextBehindEX'
  <2>1. Decoded
    BY <1>a DEF Decoded
  <2>2. Follow(EX)' = Follow(DE)
    BY <1>a, <1>1 DEF Follow, Holds
  <2>3. ~Empty(EX)' => BehindDE = Follow(DE)
    BY <1>a, <1>b, <1>1, <2>1 DEF NextBehindDE, Live, Empty
  <2>4. Upcoming' = BehindDE
    BY <1>a, <1>c, <1>1, <1>f DEF Upcoming, BehindDE, Live, Empty
  <2> QED BY <2>2, <2>3, <2>4 DEF NextBehindEX
<1> QED BY <1>2, <1>3, <1>4, <1>5

-----------------------------------------------------------------------------
(* The steps that change neither the stages nor the fetch address.         *)
LEMMA FetchUntouched ==
  ASSUME FetchOrder,
         UNCHANGED <<Insts, PCs, StalledStages, InvalidStages, PC, BranchPC,
                     BranchPredPC, PrevPred, Status>>,
         \/ phase' = phase
         \/ phase = "WB" /\ phase' = "MA"
         \/ phase = "MA" /\ phase' = "EX"
         \/ phase = "EX" /\ phase' = "DE"
         \/ phase = "DE" /\ phase' = "XC" /\ ~Decodes
         \/ phase = "XC" /\ phase' = "PC"
  PROVE  FetchOrder'
<1> SUFFICES ASSUME Status = "run"
             PROVE  RedirectionsFlush' /\ NextBehindIF' /\ NextBehindDE' /\ NextBehindEX'
  BY DEF FetchOrder
<1>a. RedirectionsFlush /\ NextBehindIF /\ NextBehindDE /\ NextBehindEX
  BY DEF FetchOrder
<1>b. \A s \in STAGES : Live(s)' = Live(s) /\ Follow(s)' = Follow(s) /\ Empty(s)' = Empty(s)
  BY DEF Live, Follow, Empty, Holds
<1>c. BehindDE' = BehindDE /\ Upcoming' = Upcoming
  BY DEF BehindDE, Upcoming, Live, Empty
<1>d. IFs \in STAGES /\ DE \in STAGES /\ EX \in STAGES
  BY DEF STAGES, IFs, DE, EX
<1>1. RedirectionsFlush'
  BY <1>a DEF RedirectionsFlush
<1>2. NextBehindIF'
  BY <1>a, <1>b, <1>d DEF NextBehindIF
<1>3. NextBehindDE'
  <2>1. Live(DE) => Decoded' = Decoded
    BY DEF Decoded, Decodes, Live
  <2> QED BY <1>a, <1>b, <1>c, <1>d, <2>1 DEF NextBehindDE
<1>4. NextBehindEX'
  BY <1>a, <1>b, <1>c, <1>d DEF NextBehindEX
<1> QED BY <1>1, <1>2, <1>3, <1>4

(* The steps that flush DE and IF: whatever was fetched behind EX goes.    *)
LEMMA FetchFlushed ==
  ASSUME FetchOrder, Status = "run", {DE, IFs} \subseteq InvalidStages',
         phase' \in {"DE", "XC", "PC"}, BranchPredPC' = BranchPredPC,
         BranchPredPC # nullopt => phase' \in {"XC", "PC"}
  PROVE  FetchOrder'
<1>1. ~Live(DE)' /\ ~Live(IFs)'
  BY DEF Live
<1> QED
  BY <1>1 DEF FetchOrder, RedirectionsFlush, NextBehindIF, NextBehindDE, NextBehindEX

\* exec flushes exactly when it redirects the fetch.
LEMMA ExecOrder == StallInv /\ FetchOrder /\ exec => FetchOrder'
<1> SUFFICES ASSUME StallInv, FetchOrder, exec PROVE FetchOrder'
  OBVIOUS
<1>a. phase = "EX" /\ Status = "run" /\ InvalidStages = {} /\ StalledStages = {}
  BY DEF exec, execNothing, execData, execUpper, execJump, execLoad, execStore, execCsr,
       execBranch, execRaise, execMret, execUnimplemented, Exec, At, StallInv,
       StallProtocol
<1>b. BranchPC = nullopt /\ BranchPredPC = nullopt
  BY <1>a DEF FetchOrder, RedirectionsFlush
<1>c. NextBehindIF /\ NextBehindDE
  BY <1>a DEF FetchOrder
<1>1. CASE execNothing \/ execData \/ execUpper \/ execStore \/ execCsr \/ execRaise
  BY <1>1, <1>a, FetchUntouched DEF execNothing, execData, execUpper, execStore, execCsr,
       execRaise, Exec, Goto, stages, control
<1>2. CASE execJump \/ execMret
  BY <1>2, <1>a, <1>b, FetchFlushed DEF execJump, execMret, Flush, Exec, Goto
<1>3. CASE execLoad
  <2>1. /\ phase' = "DE"
        /\ UNCHANGED <<Insts, PCs, InvalidStages, PC, BranchPC, BranchPredPC>>
    BY <1>3 DEF execLoad, Exec, Goto, control
  <2>2. RedirectionsFlush'
    BY <2>1, <1>b DEF RedirectionsFlush
  <2>3. NextBehindIF'
    BY <2>1, <1>c DEF NextBehindIF, Live, Empty
  <2>4. NextBehindDE'
    BY <1>a, <2>1, <1>c DEF NextBehindDE, BehindDE, Decoded, Live, Empty
  <2>5. NextBehindEX'
    BY <2>1 DEF NextBehindEX
  <2> QED BY <2>2, <2>3, <2>4, <2>5 DEF FetchOrder
<1>4. CASE execBranch
  <2>1. /\ phase' = "DE" /\ BranchPredPC' = BranchPredPC
        /\ \/ Flush
           \/ UNCHANGED <<Insts, PCs, StalledStages, InvalidStages, PC, BranchPC,
                          BranchPredPC, PrevPred, Status>>
    BY <1>4 DEF execBranch, Exec, Goto
  <2>2. CASE Flush
    BY <2>1, <2>2, <1>a, <1>b, FetchFlushed DEF Flush
  <2>3. CASE UNCHANGED <<Insts, PCs, StalledStages, InvalidStages, PC, BranchPC,
                         BranchPredPC, PrevPred, Status>>
    BY <2>1, <2>3, <1>a, FetchUntouched
  <2> QED BY <2>1, <2>2, <2>3
<1>5. CASE execUnimplemented
  BY <1>5 DEF execUnimplemented, FetchOrder
<1> QED BY <1>1, <1>2, <1>3, <1>4, <1>5 DEF exec

-----------------------------------------------------------------------------
(* decode: the instruction in DE is followed by what is predicted now.     *)
LEMMA DecodeOrder ==
  TypeInv /\ StallInv /\ FetchOrder /\ decodes => FetchOrder'
<1> SUFFICES ASSUME TypeInv, StallInv, FetchOrder, decodes
             PROVE  FetchOrder'
  OBVIOUS
<1>a. phase = "DE" /\ Status = "run" /\ phase' = "XC"
  BY DEF decodes, decode, decodeBranch, decodeNothing, At, Goto
<1>b. RedirectionsFlush /\ NextBehindIF /\ NextBehindDE /\ BranchPredPC = nullopt
  BY <1>a DEF FetchOrder, RedirectionsFlush
<1>c. ~Decoded
  BY <1>a DEF Decoded
<1>1. CASE decodeNothing
  BY <1>1, <1>a, FetchUntouched DEF decodeNothing, stages, control
<1>2. CASE decode
  <2>1. /\ UNCHANGED <<Insts, PCs, StalledStages, InvalidStages, PC, BranchPC,
                       BranchPredPC, PrevPred>>
        /\ ~(HasBP /\ Holds(DE, BTypeKinds))
    BY <1>2 DEF decode, stages, control
  <2>2. RedirectionsFlush'
    BY <1>a, <1>b, <2>1 DEF RedirectionsFlush
  <2>3. NextBehindIF'
    BY <1>b, <2>1 DEF NextBehindIF, Live, Empty
  <2>4. NextBehindDE'
    <3>1. Follow(DE)' = Wrap(PCs[DE] + 4)
      BY <2>1 DEF Follow, Holds
    <3>2. BehindDE' = BehindDE /\ (Live(DE)' => Live(DE)) /\ PCs'[DE] = PCs[DE]
      BY <2>1 DEF BehindDE, Live, Empty
    <3> QED BY <1>b, <1>c, <3>1, <3>2 DEF NextBehindDE
  <2>5. NextBehindEX'
    BY <1>a DEF NextBehindEX
  <2> QED BY <2>2, <2>3, <2>4, <2>5 DEF FetchOrder
<1>3. CASE decodeBranch
  <2> DEFINE target == Wrap(PCs[DE] + Imm(Insts[DE]))
  <2>1. PICK pred \in BOOLEAN :
          /\ PrevPred' = pred
          /\ IF pred THEN /\ BranchPredPC' = target
                          /\ InvalidStages' = InvalidStages \cup {IFs}
                     ELSE UNCHANGED <<BranchPredPC, InvalidStages>>
    BY <1>3 DEF decodeBranch
  <2>2. /\ UNCHANGED <<Insts, PCs, StalledStages, PC, BranchPC>>
        /\ HasBP /\ Holds(DE, BTypeKinds) /\ DE \notin StalledStages
    BY <1>3 DEF decodeBranch, Decodes
  <2>3. target \in Word /\ target # nullopt
    <3>1. PCs[DE] \in Word /\ Insts[DE] \in Code
      BY <1>3, ExecOperands DEF decodeBranch, Decodes, TypeInv, Empty
    <3>2. Imm(Insts[DE]) \in Word
      BY <3>1, FieldsType
    <3>3. \A a, b \in Word : Wrap(a + b) \in Word
      BY WrapType, WordFacts, SMT
    <3> QED BY <3>1, <3>2, <3>3, WordFacts
  <2>4. Decoded'
    BY <1>a, <2>2 DEF Decoded
  <2>5. NextBehindEX'
    BY <1>a DEF NextBehindEX
  <2> HIDE DEF target
  <2>6. CASE pred
    <3>1. /\ PrevPred' = TRUE /\ BranchPredPC' = target
          /\ InvalidStages' = InvalidStages \cup {IFs}
      BY <2>1, <2>6, Zenon
    <3>2. RedirectionsFlush'
      BY <1>a, <1>b, <2>2, <3>1 DEF RedirectionsFlush
    <3>3. ~Live(IFs)'
      BY <3>1 DEF Live
    <3>4. BehindDE' = target
      BY <2>3, <3>1, <3>3 DEF BehindDE
    <3>5. Follow(DE)' = target
      BY <2>2, <3>1 DEF Follow, Holds, target
    <3>6. NextBehindIF' /\ NextBehindDE'
      BY <2>4, <3>3, <3>4, <3>5 DEF NextBehindIF, NextBehindDE
    <3> QED BY <2>5, <3>2, <3>6 DEF FetchOrder
  <2>7. CASE ~pred
    <3>1. PrevPred' = FALSE /\ UNCHANGED <<BranchPredPC, InvalidStages>>
      BY <2>1, <2>7, Zenon
    <3>2. RedirectionsFlush'
      BY <1>a, <1>b, <2>2, <3>1 DEF RedirectionsFlush
    <3>3. NextBehindIF'
      BY <1>b, <2>2, <3>1 DEF NextBehindIF, Live, Empty
    <3>4. Follow(DE)' = Wrap(PCs[DE] + 4)
      BY <2>2, <3>1 DEF Follow
    <3>5. BehindDE' = BehindDE /\ (Live(DE)' => Live(DE)) /\ PCs'[DE] = PCs[DE]
      BY <2>2, <3>1 DEF BehindDE, Live, Empty
    <3>6. NextBehindDE'
      BY <1>b, <1>c, <2>4, <3>4, <3>5 DEF NextBehindDE
    <3> QED BY <2>5, <3>2, <3>3, <3>6 DEF FetchOrder
  <2> QED BY <2>6, <2>7
<1> QED BY <1>1, <1>2, <1>3 DEF decodes

\* A trap flushes what is behind it.
LEMMA HandleOrder == FetchOrder /\ handleException => FetchOrder'
<1> SUFFICES ASSUME FetchOrder, handleException PROVE FetchOrder'
  OBVIOUS
<1>1. CASE NoException
  BY <1>1, FetchUntouched DEF NoException, At, Goto, stages, control
<1>2. CASE EnterEpilogue \/ Trap
  BY <1>2, FetchFlushed DEF EnterEpilogue, Trap, At, Goto, Flush
<1>3. CASE Break \/ TrapFails
  BY <1>3 DEF Break, TrapFails, FetchOrder
<1> QED BY <1>1, <1>2, <1>3 DEF handleException

(* The end of the cycle: the redirection becomes the fetch address when    *)
(* the instructions it jumps over are removed.                             *)
LEMMA RedirectOrder == TypeInv /\ FetchOrder /\ Redirect => FetchOrder'
<1> SUFFICES ASSUME TypeInv, FetchOrder, Redirect, Status' = "run"
             PROVE  RedirectionsFlush' /\ NextBehindIF' /\ NextBehindDE' /\ NextBehindEX'
  BY DEF FetchOrder
<1>a. /\ phase = "PC" /\ phase' = "IF" /\ BranchPC' = nullopt /\ BranchPredPC' = nullopt
      /\ InvalidStages' = {} /\ UNCHANGED <<PCs, StalledStages, PrevPred>>
  BY DEF Redirect, At, Goto
<1>b. RedirectionsFlush /\ NextBehindIF /\ NextBehindDE
  BY DEF Redirect, At, FetchOrder
<1>c. \A s \in STAGES :
        /\ Live(s)' <=> Live(s)
        /\ Live(s) => Insts'[s] = Insts[s]
  BY DEF Redirect, Live, Empty
<1>d. /\ BranchPC # nullopt => PC' = BranchPC
      /\ BranchPC = nullopt /\ BranchPredPC # nullopt => PC' = BranchPredPC
      /\ BranchPC = nullopt /\ BranchPredPC = nullopt => PC' = PC
  BY DEF Redirect
<1>e. IFs \in STAGES /\ DE \in STAGES
  BY DEF STAGES, IFs, DE
<1>f. /\ BranchPC # nullopt => ~Live(DE) /\ ~Live(IFs)
      /\ BranchPredPC # nullopt => ~Live(IFs)
  BY <1>b DEF RedirectionsFlush, Live
<1>1. RedirectionsFlush'
  BY <1>a DEF RedirectionsFlush
<1>2. NextBehindIF'
  BY <1>a, <1>b, <1>c, <1>d, <1>e, <1>f DEF NextBehindIF
<1>3. NextBehindDE'
  <2> SUFFICES ASSUME Live(DE)
               PROVE  BehindDE' = IF Decoded' THEN Follow(DE)' ELSE Wrap(PCs'[DE] + 4)
    BY <1>c, <1>e DEF NextBehindDE
  <2>1. Decoded' <=> Decoded
    BY <1>a DEF Decoded
  <2>2. Follow(DE)' = Follow(DE)
    BY <1>a, <1>c, <1>e DEF Follow, Holds
  <2>3. BehindDE' = BehindDE
    BY <1>a, <1>c, <1>d, <1>e, <1>f DEF BehindDE
  <2> QED BY <1>a, <1>b, <2>1, <2>2, <2>3 DEF NextBehindDE
<1>4. NextBehindEX'
  BY <1>a DEF NextBehindEX
<1> QED BY <1>1, <1>2, <1>3, <1>4

\* Every step keeps the order of the fetched instructions.
LEMMA StepFetchOrder ==
  TypeInv /\ StallInv /\ FetchOrder /\ [Next]_vars => FetchOrder'
<1> SUFFICES ASSUME TypeInv, StallInv, FetchOrder, [Next]_vars PROVE FetchOrder'
  OBVIOUS
<1>1. CASE fetch
  <2>1. CASE FetchFails
    BY <2>1 DEF FetchFails, Access, FetchOrder
  <2> QED BY <1>1, <2>1, FetchStalledOrder, FetchesOrder DEF fetch
<1>2. CASE writeback
  BY <1>2, FetchUntouched DEF writeback, At, Goto, stages, control
<1>3. CASE memory
  <2>1. CASE MemoryAccess \/ NoMemoryAccess
    BY <2>1, FetchUntouched DEF MemoryAccess, NoMemoryAccess, At, Goto, stages, control
  <2>2. CASE MemoryAccessFails
    BY <2>2 DEF MemoryAccessFails, MemFails, Access, FetchOrder
  <2> QED BY <1>3, <2>1, <2>2 DEF memory
<1>4. CASE Stopped \/ UNCHANGED vars
  BY <1>4, FetchUntouched DEF Stopped, vars, stages, control
<1> QED
  BY <1>1, <1>2, <1>3, <1>4, ExecOrder, DecodeOrder, HandleOrder, RedirectOrder
     DEF Next, proceedNStage

\* What is fetched is in the order that was predicted.
LEMMA FetchOrderInvariant == Spec => []FetchOrder
<1>1. TypeInv /\ StallInv /\ FetchOrder /\ [Next]_vars => FetchOrder'
  BY StepFetchOrder
<1> QED BY InitFetchOrder, <1>1, TypeInvariant, StallInvariant, PTL DEF Spec

(* Whatever the program and the predictor, when exec comes to a branch     *)
(* PrevPred is the prediction of that very branch, and what was fetched    *)
(* behind it is the path it predicted: stalls, flushes and the younger     *)
(* branches decoded meanwhile cannot part them, so that comparing PrevPred *)
(* with the outcome (lines 385-395) tells whether the path is the right    *)
(* one.                                                                    *)
THEOREM PredictionFollowed == Spec => []FetchFollowsPrediction
<1>1. FetchOrder => FetchFollowsPrediction
  BY DEF FetchOrder, NextBehindEX, FetchFollowsPrediction, Follow
<1> QED BY <1>1, FetchOrderInvariant, PTL
=============================================================================
