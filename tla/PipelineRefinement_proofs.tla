-------------------------- MODULE PipelineRefinement_proofs --------------------------
(***************************************************************************)
(* Proofs that the pipeline implements the instruction-level simulator.    *)
(*                                                                         *)
(*   - exec works on the values that all earlier instructions leave, for   *)
(*     every program that does not have x0 forwarded (OperandsForwarded);  *)
(*   - that is every program that discards no result (OperandsCorrect);    *)
(*   - for programs that are Comparable every step of the pipeline is one  *)
(*     of the golden model, the instruction exec runs, the exception that  *)
(*     is handled or the fetch that ends the program, or a stutter         *)
(*     (PipelineCorrect);                                                  *)
(*   - a program is Comparable if its words say so and if it does not      *)
(*     write over them (TextComparable, TextCorrect).                      *)
(***************************************************************************)
EXTENDS PipelineRefinement, Pipeline_proofs

(* The instruction in stage s writes register r, x0 being none.            *)
Produces(s, r) == ~Empty(s) /\ HasRd(Insts[s]) /\ r = Rd(Insts[s]) /\ r # 0
Sets(s, c) == Holds(s, CSR_INSTs) /\ CsrOf(Imm(Insts[s])) = c

(* The value of register r behind everything exec has run, wherever it is  *)
(* now: decode computes it by forwarding, and until exec needs it one      *)
(* latch after the other hands it down to the register file.               *)
RegBehind(r) ==
  CASE phase = "WB" -> IF Produces(MA, r) THEN EXVal.rd
                       ELSE IF Produces(WB, r) THEN MAVal.rd ELSE GPRegs[r]
    [] phase = "MA" -> IF Produces(MA, r) THEN EXVal.rd ELSE GPRegs[r]
    [] phase = "EX" -> IF Produces(MA, r) THEN MAVal.rd ELSE GPRegs[r]
    [] OTHER        -> IF Produces(EX, r) THEN EXVal.rd
                       ELSE IF Produces(MA, r) THEN MAVal.rd ELSE GPRegs[r]

CsrBehind(c) ==
  CASE phase = "WB" -> IF Sets(MA, c) THEN EXVal.csr
                       ELSE IF Sets(WB, c) THEN MAVal.csr ELSE States[c]
    [] phase = "MA" -> IF Sets(MA, c) THEN EXVal.csr ELSE States[c]
    [] phase = "EX" -> IF Sets(MA, c) THEN MAVal.csr ELSE States[c]
    [] OTHER        -> IF Sets(EX, c) THEN EXVal.csr
                       ELSE IF Sets(MA, c) THEN MAVal.csr ELSE States[c]

(* What decode left for the instruction w.                                 *)
OperandsOf(w) ==
  /\ ReadsRs1(w) => DEVal.rs1 = RegBehind(Rs1(w))
  /\ ReadsRs2(w) => DEVal.rs2 = RegBehind(Rs2(w))
  /\ Mnemo(w) \in CSR_INSTs => DEVal.csr = CsrBehind(CsrOf(Imm(w)))
  /\ Mnemo(w) \notin RTypeKinds => DEVal.imm = Imm(w)
  /\ Mnemo(w) \in CSRImm => DEVal.rs1 = Rs1(w)

(* The stage whose operands are in DEVal, if exec will use them.           *)
DecodedDE == phase \in {"XC", "PC", "IF"} /\ Live(DE) /\ DE \notin StalledStages
               /\ Except = nullopt
DecodedEX == phase \in {"WB", "MA", "EX"} /\ ~Empty(EX)

OperandsReady == (DecodedDE => OperandsOf(Insts[DE])) /\ (DecodedEX => OperandsOf(Insts[EX]))

(* A CSR instruction carries the number of its CSR along.                  *)
CsrNumbers ==
  /\ phase \in {"DE", "XC", "PC", "IF"} /\ Holds(EX, CSR_INSTs) =>
       EXVal.imm = Imm(Insts[EX])
  /\ phase \in {"WB", "MA"} /\ Holds(MA, CSR_INSTs) => EXVal.imm = Imm(Insts[MA])
  /\ phase \in {"EX", "DE", "XC", "PC", "IF"} /\ Holds(MA, CSR_INSTs) =>
       MAVal.imm = Imm(Insts[MA])
  /\ phase = "WB" /\ Holds(WB, CSR_INSTs) => MAVal.imm = Imm(Insts[WB])

(* What is decoded behind a load does not need it.                         *)
LoadsApart ==
  /\ phase \in {"DE", "XC", "PC", "IF"} /\ StalledStages = {} /\ Live(DE)
       /\ Holds(EX, Loads) => ~LoadUse(Insts[EX], Insts[DE])
  /\ phase \in {"WB", "MA"} /\ ~Empty(EX) /\ Holds(MA, Loads) =>
       ~LoadUse(Insts[MA], Insts[EX])

FlushesYoung == InvalidStages \subseteq {DE, IFs}

OperandInv ==
  FlushesYoung /\ (Status = "run" => LoadsApart /\ CsrNumbers /\ OperandsReady)

-----------------------------------------------------------------------------

\* There are no operands yet.
LEMMA InitOperands == Init => OperandInv
<1> SUFFICES ASSUME Init PROVE OperandInv
  OBVIOUS
<1>1. \A s \in STAGES : Insts[s] = nullptr
  BY DEF Init
<1> QED
  BY <1>1, StageFacts DEF Init, OperandInv, FlushesYoung, LoadsApart, CsrNumbers,
     OperandsReady, DecodedDE, DecodedEX, Live, Empty, Holds

(* Only the two youngest stages are ever flushed.                          *)
LEMMA StepFlushes == FlushesYoung /\ [Next]_vars => FlushesYoung'
<1> SUFFICES ASSUME FlushesYoung, [Next]_vars PROVE FlushesYoung'
  OBVIOUS
<1> USE DEF FlushesYoung
<1>1. CASE fetch \/ writeback \/ memory
  BY <1>1 DEF fetch, FetchStalled, Fetch, FetchFails, writeback, memory, MemoryAccess,
     NoMemoryAccess, MemoryAccessFails, stages
<1>2. CASE exec
  BY <1>2 DEF exec, execNothing, execData, execUpper, execJump, execLoad, execStore,
     execCsr, execBranch, execRaise, execMret, execUnimplemented, Flush, stages
<1>3. CASE decodes \/ handleException \/ Redirect
  BY <1>3 DEF decodes, decode, decodeBranch, decodeNothing, handleException, NoException,
     Break, EnterEpilogue, Trap, TrapFails, Flush, Redirect, stages
<1>4. CASE Stopped \/ UNCHANGED vars
  BY <1>4 DEF Stopped, vars, stages
<1> QED BY <1>1, <1>2, <1>3, <1>4 DEF Next, proceedNStage

-----------------------------------------------------------------------------
(* The shift moves an instruction together with what is latched for it.    *)
LEMMA FetchOperands ==
  ASSUME TypeInv, StallInv, OperandInv, fetch, Status' = "run"
  PROVE  LoadsApart' /\ CsrNumbers' /\ OperandsReady'
<1>a. /\ phase = "IF" /\ phase' = "WB" /\ Status = "run" /\ InvalidStages = {}
      /\ Except = nullopt
      /\ UNCHANGED <<GPRegs, States, DEVal, EXVal, MAVal>>
  BY DEF fetch, FetchStalled, Fetch, FetchFails, Access, At, StartCycle, Goto, StallInv,
     StallProtocol, TypeInv, ExceptionInEX, arch, latches
<1>b. LoadsApart /\ CsrNumbers /\ OperandsReady
  BY <1>a DEF OperandInv
<1>1. PICK inst, pc : Proceed(inst) /\ ProceedPC(pc) /\ (StalledStages # {} => inst = nullptr)
  <2>1. CASE FetchStalled
    BY <2>1 DEF FetchStalled
  <2>2. CASE Fetch
    <3>1. StalledStages = {}
      BY <2>2 DEF Fetch, StallInv, StallOnlyForLoadUse
    <3> QED BY <2>2, <3>1 DEF Fetch
  <2>3. CASE FetchFails
    BY <2>3 DEF FetchFails, Access
  <2> QED BY <2>1, <2>2, <2>3 DEF fetch
<1>2. Insts'[MA] = Insts[EX] /\ Insts'[WB] = Insts[MA]
  BY <1>1, ShiftOld
<1>3. CsrNumbers'
  BY <1>a, <1>b, <1>2 DEF CsrNumbers, Holds
<1>4. CASE StalledStages = {}
  <2>1. Insts'[EX] = Insts[DE]
    BY <1>1, <1>4, ShiftAll
  <2>2. Live(DE) <=> ~Empty(DE)
    BY <1>a DEF Live
  <2>3. LoadsApart'
    BY <1>a, <1>b, <1>2, <1>4, <2>1, <2>2 DEF LoadsApart, Holds, Empty
  <2>4. \A r : RegBehind(r)' = RegBehind(r)
    BY <1>a, <1>2 DEF RegBehind, Produces, Empty
  <2>5. \A c : CsrBehind(c)' = CsrBehind(c)
    BY <1>a, <1>2 DEF CsrBehind, Sets, Holds
  <2>6. DecodedEX' => OperandsOf(Insts[DE])
    BY <1>a, <1>b, <1>4, <2>1, <2>2 DEF OperandsReady, DecodedDE, DecodedEX, Empty
  <2>7. OperandsReady'
    BY <1>a, <2>1, <2>4, <2>5, <2>6 DEF OperandsReady, OperandsOf, DecodedDE
  <2> QED BY <1>3, <2>3, <2>7
<1>5. CASE StalledStages # {}
  <2>1. StalledStages = {DE, IFs} /\ inst = nullptr
    BY <1>1, <1>5 DEF StallInv, StallOnlyForLoadUse
  <2>2. Insts'[EX] = nullptr
    BY <1>1, <2>1, ShiftStalled
  <2> QED
    BY <1>3, <1>a, <2>2 DEF LoadsApart, OperandsReady, DecodedEX, DecodedDE, Empty
<1> QED BY <1>4, <1>5

(* What is written back is what was read past the register file before.    *)
LEMMA WritebackOperands ==
  ASSUME TypeInv, OperandInv, writeback
  PROVE  LoadsApart' /\ CsrNumbers' /\ OperandsReady'
<1>a. /\ phase = "WB" /\ phase' = "MA" /\ Status = "run"
      /\ UNCHANGED <<Insts, StalledStages, InvalidStages, DEVal, EXVal, MAVal, Except>>
  BY DEF writeback, At, Goto, stages, latches, control
<1>b. LoadsApart /\ CsrNumbers /\ OperandsReady
  BY <1>a DEF OperandInv
<1>c. GPRegs \in [Reg -> Word] /\ States \in [CSRAddress -> Word]
      /\ Insts \in [STAGES -> Code \cup {nullptr}]
  BY DEF TypeInv, TypeOK
<1>1. \A r \in Reg : GPRegs'[r] = IF Produces(WB, r) THEN MAVal.rd ELSE GPRegs[r]
  <2>1. CASE Empty(WB) \/ Holds(WB, BTypeKinds \cup STypeKinds)
    BY <2>1 DEF writeback, Produces, HasRd, Holds
  <2>2. CASE ~(Empty(WB) \/ Holds(WB, BTypeKinds \cup STypeKinds))
    <3>1. HasRd(Insts[WB]) /\ ~Empty(WB)
      BY <2>2 DEF HasRd, Holds, Empty
    <3>2. GPRegs' = IF Rd(Insts[WB]) = 0 THEN GPRegs
                    ELSE [GPRegs EXCEPT ![Rd(Insts[WB])] = MAVal.rd]
      BY <2>2 DEF writeback, write
    <3> QED BY <1>c, <3>1, <3>2 DEF Produces
  <2> QED BY <2>1, <2>2
<1>2. \A c \in CSRAddress : States'[c] = IF Sets(WB, c) THEN MAVal.csr ELSE States[c]
  <2>1. CASE Holds(WB, CSR_INSTs)
    <3>1. ~(Empty(WB) \/ Holds(WB, BTypeKinds \cup STypeKinds))
      BY <2>1 DEF Holds, Empty, CSR_INSTs, CSRImm, BTypeKinds, STypeKinds
    <3>2. MAVal.imm = Imm(Insts[WB])
      BY <1>a, <1>b, <2>1 DEF CsrNumbers
    <3>3. States' = [States EXCEPT ![CsrOf(Imm(Insts[WB]))] = MAVal.csr]
      BY <2>1, <3>1, <3>2 DEF writeback
    <3> QED BY <1>c, <2>1, <3>3 DEF Sets
  <2>2. CASE ~Holds(WB, CSR_INSTs)
    <3>1. States' = States
      BY <2>2 DEF writeback
    <3> QED BY <2>2, <3>1 DEF Sets
  <2> QED BY <2>1, <2>2
<1>3. \A r \in Reg : RegBehind(r)' = RegBehind(r)
  BY <1>a, <1>1 DEF RegBehind, Produces, Empty
<1>4. \A c \in CSRAddress : CsrBehind(c)' = CsrBehind(c)
  BY <1>a, <1>2 DEF CsrBehind, Sets, Holds
<1>5. LoadsApart' /\ CsrNumbers'
  BY <1>a, <1>b DEF LoadsApart, CsrNumbers, Holds, Empty, LoadUse
<1>6. OperandsReady'
  <2>1. ~DecodedDE' /\ (DecodedEX' => DecodedEX)
    BY <1>a DEF DecodedDE, DecodedEX, Empty
  <2> SUFFICES ASSUME DecodedEX PROVE OperandsOf(Insts[EX])'
    BY <2>1 DEF OperandsReady
  <2>2. Insts[EX] \in Code
    BY <1>c, StageFacts DEF DecodedEX, Empty
  <2>3. Rs1(Insts[EX]) \in Reg /\ Rs2(Insts[EX]) \in Reg
        /\ CsrOf(Imm(Insts[EX])) \in CSRAddress
    BY <2>2, FieldsType, WordFacts
  <2>4. OperandsOf(Insts[EX])
    BY <1>b DEF OperandsReady
  <2> QED BY <1>a, <1>3, <1>4, <2>3, <2>4 DEF OperandsOf
<1> QED BY <1>5, <1>6

(* A loaded value replaces its address, but nobody has decoded with that.  *)
LEMMA MemoryOperands ==
  ASSUME TypeInv, OperandInv, memory, Status' = "run"
  PROVE  LoadsApart' /\ CsrNumbers' /\ OperandsReady'
<1>a. /\ phase = "MA" /\ phase' = "EX" /\ Status = "run"
      /\ UNCHANGED <<GPRegs, States, Insts, StalledStages, InvalidStages, DEVal, EXVal,
                     Except>>
  BY DEF memory, MemoryAccess, NoMemoryAccess, MemoryAccessFails, MemFails, Access, At,
     Goto, stages, latches, control, arch
<1>b. LoadsApart /\ CsrNumbers /\ OperandsReady
  BY <1>a DEF OperandInv
<1>c. /\ ~Empty(MA) => MAVal' = [rd |-> MemResult(Insts[MA], EXVal),
                                csr |-> EXVal.csr, imm |-> EXVal.imm]
  BY <1>a DEF memory, MemoryAccess, NoMemoryAccess, MemoryAccessFails, MemFails, Access,
     At
<1>1. LoadsApart'
  BY <1>a DEF LoadsApart
<1>2. CsrNumbers'
  BY <1>a, <1>b, <1>c DEF CsrNumbers, Holds, Empty
<1>3. ASSUME NEW r, ~(Holds(MA, Loads) /\ Rd(Insts[MA]) = r)
      PROVE  RegBehind(r)' = RegBehind(r)
  BY <1>a, <1>c, <1>3 DEF RegBehind, Produces, MemResult, Holds, Empty
<1>4. \A c : CsrBehind(c)' = CsrBehind(c)
  BY <1>a, <1>c DEF CsrBehind, Sets, Holds, Empty
<1>5. OperandsReady'
  <2>1. ~DecodedDE' /\ (DecodedEX' => DecodedEX)
    BY <1>a DEF DecodedDE, DecodedEX, Empty
  <2> SUFFICES ASSUME DecodedEX PROVE OperandsOf(Insts[EX])'
    BY <2>1 DEF OperandsReady
  <2>2. OperandsOf(Insts[EX])
    BY <1>b DEF OperandsReady
  <2>3. Holds(MA, Loads) => ~LoadUse(Insts[MA], Insts[EX])
    BY <1>a, <1>b DEF LoadsApart, DecodedEX
  <2> PICK w : w = Insts[EX]
    OBVIOUS
  <2>4. ReadsRs1(w) => RegBehind(Rs1(w))' = RegBehind(Rs1(w))
    BY <1>3, <2>3 DEF LoadUse, ReadsRs1
  <2>5. ReadsRs2(w) => RegBehind(Rs2(w))' = RegBehind(Rs2(w))
    BY <1>3, <2>3 DEF LoadUse, ReadsRs2
  <2> QED BY <1>a, <1>4, <2>2, <2>4, <2>5 DEF OperandsOf
<1> QED BY <1>1, <1>2, <1>5

(* exec stalls what needs its load, and hands on the CSR's number.         *)
LEMMA ExecOperandsReady ==
  ASSUME TypeInv, StallInv, OperandInv, exec, Status' = "run"
  PROVE  LoadsApart' /\ CsrNumbers' /\ OperandsReady'
<1>a. /\ phase = "EX" /\ phase' = "DE" /\ Status = "run"
      /\ UNCHANGED <<Insts, DEVal, MAVal>>
      /\ StalledStages = {}
  BY DEF exec, execNothing, execData, execUpper, execJump, execLoad, execStore, execCsr,
       execBranch, execRaise, execMret, execUnimplemented, Exec, At, Goto, stages,
       latches, StallInv, StallProtocol
<1>b. LoadsApart /\ CsrNumbers /\ OperandsReady
  BY <1>a DEF OperandInv
<1>c. Insts[EX] \in Code \cup {nullptr}
  BY StageFacts DEF TypeInv, TypeOK
<1>1. OperandsReady'
  BY <1>a DEF OperandsReady, DecodedDE, DecodedEX
<1>2. CsrNumbers'
  <2> SUFFICES ASSUME Holds(EX, CSR_INSTs) PROVE EXVal'.imm = Imm(Insts[EX])
    BY <1>a, <1>b DEF CsrNumbers, Holds
  <2>1. execCsr
    BY DEF exec, execNothing, execData, execUpper, execJump, execLoad, execStore,
       execBranch, execRaise, execMret, execUnimplemented, Exec, Holds, Empty, CSR_INSTs,
       CSRImm, AluImm, RTypeKinds, UTypeKinds, Loads, STypeKinds, BTypeKinds
  <2>2. EXVal'.imm = DEVal.imm
    <3>1. EXVal \in [rd : Word, rs2 : Word, csr : Word, imm : Word]
      BY DEF TypeInv, TypeOK
    <3>2. PICK rd, csr : EXVal' = [EXVal EXCEPT !.rd = rd, !.csr = csr, !.imm = DEVal.imm]
      BY <2>1 DEF execCsr, Latch
    <3> QED BY <3>1, <3>2
  <2>3. Mnemo(Insts[EX]) \notin RTypeKinds /\ DecodedEX
    BY <1>a DEF Holds, DecodedEX, Empty, CSR_INSTs, CSRImm, RTypeKinds
  <2> QED BY <1>b, <2>2, <2>3 DEF OperandsReady, OperandsOf
<1>3. LoadsApart'
  <2> SUFFICES ASSUME StalledStages' = {}, Live(DE)', Holds(EX, Loads)
               PROVE  ~LoadUse(Insts[EX], Insts[DE])
    BY <1>a DEF LoadsApart, Holds
  <2>1. execLoad
    BY DEF exec, execNothing, execData, execUpper, execJump, execStore, execCsr,
       execBranch, execRaise, execMret, execUnimplemented, Exec, Holds, Empty, CSR_INSTs,
       CSRImm, AluImm, RTypeKinds, UTypeKinds, Loads, STypeKinds, BTypeKinds
  <2> QED BY <1>a, <2>1 DEF execLoad, Live, Empty
<1> QED BY <1>1, <1>2, <1>3

-----------------------------------------------------------------------------
(* Forwarding at decode: the youngest result wins.                         *)
LEMMA DecodeOperands ==
  ASSUME TypeInv, StallInv, OperandInv, ZeroFromFile, decodes
  PROVE  LoadsApart' /\ CsrNumbers' /\ OperandsReady'
<1>a. /\ phase = "DE" /\ phase' = "XC" /\ Status = "run"
      /\ UNCHANGED <<Insts, StalledStages, EXVal, MAVal, Except, GPRegs, States>>
      /\ InvalidStages \subseteq InvalidStages'
  BY DEF decodes, decode, decodeBranch, decodeNothing, At, Goto, stages, latches, arch,
     control
<1>b. LoadsApart /\ CsrNumbers
  BY <1>a DEF OperandInv
<1>1. LoadsApart' /\ CsrNumbers'
  BY <1>a, <1>b DEF LoadsApart, CsrNumbers, Holds, Live, Empty
<1>2. OperandsReady'
  <2>1. ~DecodedEX' /\ (DecodedDE' => Live(DE) /\ Decodes /\ Except = nullopt)
    BY <1>a DEF DecodedEX, DecodedDE, Live, Empty, Decodes
  <2> SUFFICES ASSUME Live(DE), Decodes, Except = nullopt PROVE OperandsOf(Insts[DE])'
    BY <2>1, <1>a DEF OperandsReady
  <2> PICK w : w = Insts[DE]
    OBVIOUS
  <2>2. DEVal' = Operands(w)
    BY DEF decodes, decode, decodeBranch, decodeNothing
  <2>3. w \in Code
    BY StageFacts DEF TypeInv, TypeOK, Decodes, Empty
  <2>4. \A r : r # 0 => forwardOnDE(r) = RegBehind(r)'
    BY <1>a DEF forwardOnDE, RegBehind, Produces, Empty
  <2>5. RegBehind(0)' = GPRegs[0]
    BY <1>a DEF RegBehind, Produces
  <2>6. (ReadsRs1(w) /\ Rs1(w) = 0) \/ (ReadsRs2(w) /\ Rs2(w) = 0)
          => forwardOnDE(0) = RegBehind(0)'
    BY <1>a, <2>5 DEF ZeroFromFile
  <2>7. \A c : forwardCSROnDE(c) = CsrBehind(c)'
    BY <1>a DEF forwardCSROnDE, Forwarded, CsrBehind, Sets, Holds
  <2>8. ReadsRs1(w) => Operands(w).rs1 = forwardOnDE(Rs1(w))
    BY DEF Operands, ReadsRs1
  <2>9. ReadsRs2(w) => Operands(w).rs2 = forwardOnDE(Rs2(w))
    BY DEF Operands, ReadsRs2
  <2>10. Mnemo(w) \in CSR_INSTs => Operands(w).csr = forwardCSROnDE(CsrOf(Imm(w)))
    BY DEF Operands
  <2>11. Mnemo(w) \notin RTypeKinds => Operands(w).imm = Imm(w)
    BY DEF Operands
  <2>12. Insts'[DE] = w
    BY <1>a
  <2>13. /\ ReadsRs1(w) => DEVal'.rs1 = RegBehind(Rs1(w))'
         /\ ReadsRs2(w) => DEVal'.rs2 = RegBehind(Rs2(w))'
    BY <2>2, <2>4, <2>6, <2>8, <2>9
  <2>14. /\ Mnemo(w) \in CSR_INSTs => DEVal'.csr = CsrBehind(CsrOf(Imm(w)))'
         /\ Mnemo(w) \notin RTypeKinds => DEVal'.imm = Imm(w)
    BY <2>2, <2>7, <2>10, <2>11
  <2>15. Mnemo(w) \in CSRImm => DEVal'.rs1 = Rs1(w)
    BY <2>2 DEF Operands
  <2> QED BY <2>12, <2>13, <2>14, <2>15 DEF OperandsOf
<1> QED BY <1>1, <1>2

\* A trap writes CSRs only behind a flushed DE.
LEMMA HandleOperands ==
  ASSUME OperandInv, handleException, Status' = "run"
  PROVE  LoadsApart' /\ CsrNumbers' /\ OperandsReady'
<1>a. /\ phase = "XC" /\ phase' = "PC" /\ Status = "run"
      /\ UNCHANGED <<GPRegs, Insts, StalledStages, DEVal, EXVal, MAVal>>
      /\ InvalidStages \subseteq InvalidStages'
  BY DEF handleException, NoException, Break, EnterEpilogue, Trap, TrapFails, At, Goto,
     stages, latches, arch, control, Flush
<1>b. LoadsApart /\ CsrNumbers /\ OperandsReady
  BY <1>a DEF OperandInv
<1>1. LoadsApart' /\ CsrNumbers'
  BY <1>a, <1>b DEF LoadsApart, CsrNumbers, Holds, Live, Empty
<1>2. CASE NoException
  <2>1. UNCHANGED <<States, InvalidStages, Except>>
    BY <1>2 DEF NoException, arch, stages, control
  <2>2. \A r : RegBehind(r)' = RegBehind(r)
    BY <1>a DEF RegBehind, Produces, Empty
  <2>3. \A c : CsrBehind(c)' = CsrBehind(c)
    BY <1>a, <2>1 DEF CsrBehind, Sets, Holds
  <2>4. DecodedDE' = DecodedDE /\ ~DecodedEX'
    BY <1>a, <2>1 DEF DecodedDE, DecodedEX, Live, Empty
  <2>5. OperandsReady'
    BY <1>a, <1>b, <2>2, <2>3, <2>4 DEF OperandsReady, OperandsOf
  <2> QED BY <1>1, <2>5
<1>3. CASE EnterEpilogue \/ Trap
  <2>1. ~Live(DE)'
    BY <1>3 DEF EnterEpilogue, Trap, Flush, Live
  <2> QED BY <1>1, <1>a, <2>1 DEF OperandsReady, DecodedDE, DecodedEX
<1>4. CASE Break \/ TrapFails
  BY <1>4 DEF Break, TrapFails
<1> QED BY <1>2, <1>3, <1>4 DEF handleException

\* Flushing takes operands away, never changes them.
LEMMA RedirectOperands ==
  ASSUME OperandInv, Redirect
  PROVE  LoadsApart' /\ CsrNumbers' /\ OperandsReady'
<1>a. /\ phase = "PC" /\ phase' = "IF" /\ Status = "run" /\ InvalidStages' = {}
      /\ UNCHANGED <<GPRegs, States, StalledStages, DEVal, EXVal, MAVal, Except>>
  BY DEF Redirect, At, Goto, latches, arch
<1>b. LoadsApart /\ CsrNumbers /\ OperandsReady
  BY <1>a DEF OperandInv
<1>1. Insts'[EX] = Insts[EX] /\ Insts'[MA] = Insts[MA]
  BY StageFacts DEF Redirect, OperandInv, FlushesYoung
<1>2. Live(DE)' => Live(DE) /\ Insts'[DE] = Insts[DE]
  BY StageFacts DEF Redirect, Live, Empty
<1>3. LoadsApart' /\ CsrNumbers'
  BY <1>a, <1>b, <1>1, <1>2 DEF LoadsApart, CsrNumbers, Holds
<1>4. \A r : RegBehind(r)' = RegBehind(r)
  BY <1>a, <1>1 DEF RegBehind, Produces, Empty
<1>5. \A c : CsrBehind(c)' = CsrBehind(c)
  BY <1>a, <1>1 DEF CsrBehind, Sets, Holds
<1>6. ~DecodedEX' /\ (DecodedDE' => DecodedDE /\ Insts'[DE] = Insts[DE])
  BY <1>a, <1>2 DEF DecodedDE, DecodedEX
<1>7. OperandsReady'
  BY <1>a, <1>b, <1>4, <1>5, <1>6 DEF OperandsReady, OperandsOf
<1> QED BY <1>3, <1>7

\* Every step keeps the operands those of program order.
LEMMA StepOperands ==
  TypeInv /\ StallInv /\ OperandInv /\ ZeroFromFile /\ [Next]_vars => OperandInv'
<1> SUFFICES ASSUME TypeInv, StallInv, OperandInv, ZeroFromFile, [Next]_vars,
                    Status' = "run"
             PROVE  LoadsApart' /\ CsrNumbers' /\ OperandsReady'
  BY StepFlushes DEF OperandInv
<1>1. CASE Stopped \/ UNCHANGED vars
  <2>1. UNCHANGED vars /\ LoadsApart /\ CsrNumbers /\ OperandsReady
    BY <1>1 DEF Stopped, OperandInv, vars, control
  <2> QED
    BY <2>1 DEF vars, arch, stages, latches, control, LoadsApart, CsrNumbers, LoadUse,
       OperandsReady, OperandsOf, DecodedDE, DecodedEX, RegBehind, CsrBehind, Produces,
       Sets, Holds, Live, Empty
<1> QED
  BY <1>1, FetchOperands, WritebackOperands, MemoryOperands, ExecOperandsReady,
     DecodeOperands, HandleOperands, RedirectOperands DEF Next, proceedNStage

(* The register file as the golden model has it is what exec works on.     *)
LEMMA OperandsImplied ==
  TypeInv /\ OperandInv => OperandsArchitectural
<1> SUFFICES ASSUME TypeInv, OperandInv, phase = "EX", ~Empty(EX), Status = "run"
             PROVE  LET w == Insts[EX] IN
                      /\ HasRs1(w) /\ Mnemo(w) \notin CSRImm => DEVal.rs1 = ArchGPRegs[Rs1(w)]
                      /\ HasRs2(w) => DEVal.rs2 = ArchGPRegs[Rs2(w)]
                      /\ Mnemo(w) \in CSR_INSTs => DEVal.csr = ArchStates[CsrOf(Imm(w))]
  BY DEF OperandsArchitectural
<1>a. GPRegs \in [Reg -> Word] /\ States \in [CSRAddress -> Word]
      /\ Insts[EX] \in Code
  BY StageFacts DEF TypeInv, TypeOK, Empty
<1>b. /\ Rs1(Insts[EX]) \in Reg /\ Rs2(Insts[EX]) \in Reg
      /\ CsrOf(Imm(Insts[EX])) \in CSRAddress
  BY <1>a, FieldsType, WordFacts
<1>1. InEX = nullptr /\ InMA = Insts[MA] /\ ~WillFail
  BY DEF InEX, InMA, WillFail
<1>2. ASSUME NEW r \in Reg PROVE ArchGPRegs[r] = RegBehind(r)
  <2>1. ArchGPRegs = Overlay(GPRegs, WritesRd(Insts[MA]), Rd(Insts[MA]), MAVal.rd)
    BY <1>1 DEF ArchGPRegs, Overlay, WritesRd
  <2>2. WritesRd(Insts[MA]) /\ r = Rd(Insts[MA]) <=> Produces(MA, r)
    BY DEF WritesRd, Produces, HasRd, Empty
  <2> QED BY <1>a, <2>1, <2>2 DEF Overlay, RegBehind
<1>3. ASSUME NEW c \in CSRAddress PROVE ArchStates[c] = CsrBehind(c)
  <2>1. ArchStates = Overlay(States, WritesCsr(Insts[MA]), CsrOf(MAVal.imm), MAVal.csr)
    BY <1>1 DEF ArchStates, Overlay, WritesCsr
  <2>2. WritesCsr(Insts[MA]) <=> Holds(MA, CSR_INSTs)
    BY DEF WritesCsr, Holds
  <2>3. Holds(MA, CSR_INSTs) => MAVal.imm = Imm(Insts[MA])
    BY DEF OperandInv, CsrNumbers
  <2> QED BY <1>a, <2>1, <2>2, <2>3 DEF Overlay, CsrBehind, Sets
<1>4. OperandsOf(Insts[EX])
  BY DEF OperandInv, OperandsReady, DecodedEX
<1> QED BY <1>b, <1>2, <1>3, <1>4 DEF OperandsOf, ReadsRs1, ReadsRs2

(* For every program: as long as no operand that names x0 is taken from an *)
(* instruction in flight (run ClaimZero shows what happens then), exec     *)
(* works on the values that all earlier instructions leave; the forwarding *)
(* of registers and CSRs (lines 433-493), the writeback earlier in the     *)
(* cycle and the load-use stall (lines 165-176) hide the pipeline.         *)
THEOREM OperandsForwarded == Spec /\ []ZeroFromFile => []OperandsArchitectural
<1>1. TypeInv /\ StallInv /\ OperandInv /\ ZeroFromFile /\ [Next]_vars => OperandInv'
  BY StepOperands
<1>2. TypeInv /\ OperandInv => OperandsArchitectural
  BY OperandsImplied
<1> QED BY InitOperands, <1>1, <1>2, TypeInvariant, StallInvariant, PTL DEF Spec

-----------------------------------------------------------------------------
(* Jumps and system instructions run alone: what was fetched behind them   *)
(* is flushed, so that they have left MA before decode sees a successor.   *)
Serial == System \cup {"jal", "jalr"}

NothingBehindSerial ==
  /\ phase \in {"DE", "XC"} /\ Holds(EX, Serial) =>
       Except # nullopt \/ {DE, IFs} \subseteq InvalidStages
  /\ phase = "PC" /\ Holds(EX, Serial) => {DE, IFs} \subseteq InvalidStages
  /\ phase = "IF" /\ Holds(EX, Serial) => Empty(DE) /\ Empty(IFs)
  /\ phase # "IF" /\ Holds(MA, Serial) => Empty(DE)

SerialInv == Status = "run" => NothingBehindSerial

\* Every step keeps jumps and system instructions alone.
LEMMA StepSerial ==
  TypeInv /\ StallInv /\ FlushesYoung /\ SerialInv /\ [Next]_vars => SerialInv'
<1> SUFFICES ASSUME TypeInv, StallInv, FlushesYoung, SerialInv, [Next]_vars,
                    Status' = "run"
             PROVE  NothingBehindSerial'
  BY DEF SerialInv
<1> USE DEF NothingBehindSerial
<1>1. CASE fetch
  <2>1. /\ phase = "IF" /\ phase' = "WB" /\ NothingBehindSerial
    BY <1>1 DEF fetch, FetchStalled, Fetch, FetchFails, Access, At, StartCycle, Goto,
       SerialInv
  <2>2. PICK inst, pc : Proceed(inst) /\ ProceedPC(pc)
    BY <1>1 DEF fetch, FetchStalled, Fetch, FetchFails, Access
  <2>3. Insts'[MA] = Insts[EX]
    BY <2>2, ShiftOld
  <2>4. Holds(EX, Serial) => StalledStages = {}
    BY DEF StallInv, StallOnlyForLoadUse, Holds, Loads, Serial, System
  <2>5. StalledStages = {} => Insts'[DE] = Insts[IFs]
    BY <2>2, ShiftAll
  <2> QED BY <2>1, <2>3, <2>4, <2>5 DEF Holds, Empty
<1>2. CASE writeback \/ memory
  <2>1. /\ phase \in {"WB", "MA"} /\ phase' \in {"MA", "EX"} /\ UNCHANGED Insts
        /\ NothingBehindSerial
    BY <1>2 DEF writeback, memory, MemoryAccess, NoMemoryAccess, MemoryAccessFails, MemFails,
       Access, At, Goto, stages, SerialInv
  <2> QED BY <2>1 DEF Holds, Empty
<1>3. CASE exec
  <2>1. /\ phase = "EX" /\ phase' = "DE" /\ UNCHANGED Insts /\ NothingBehindSerial
    BY <1>3 DEF exec, execNothing, execData, execUpper, execJump, execLoad, execStore,
       execCsr, execBranch, execRaise, execMret, execUnimplemented, Exec, At, Goto,
       stages, SerialInv
  <2>2. Holds(EX, Serial) => execJump \/ execRaise \/ execMret
    BY <1>3, <2>1 DEF exec, execNothing, execData, execUpper, execLoad, execStore, execCsr,
       execBranch, execUnimplemented, Exec, Holds, Empty, Serial, System, CSR_INSTs, CSRImm,
       AluImm, RTypeKinds, UTypeKinds, Loads, STypeKinds, BTypeKinds, At
  <2>3. execRaise => Except' # nullopt
    BY SMT DEF execRaise, EcallCause, EnvCallU, EnvCallS, EnvCallM, IllegalInstruction,
       Breakpoint, R0, R1, nullopt
  <2>4. execJump \/ execMret => {DE, IFs} \subseteq InvalidStages'
    BY DEF execJump, execMret, Flush
  <2> QED BY <2>1, <2>2, <2>3, <2>4 DEF Holds, Empty
<1>4. CASE decodes
  <2>1. /\ phase = "DE" /\ phase' = "XC" /\ UNCHANGED <<Insts, Except>>
        /\ InvalidStages \subseteq InvalidStages' /\ NothingBehindSerial
    BY <1>4 DEF decodes, decode, decodeBranch, decodeNothing, At, Goto, stages, control,
       SerialInv
  <2> QED BY <2>1 DEF Holds, Empty
<1>5. CASE handleException
  <2>1. /\ phase = "XC" /\ phase' = "PC" /\ UNCHANGED Insts /\ NothingBehindSerial
        /\ \/ Except = nullopt /\ UNCHANGED InvalidStages
           \/ {DE, IFs} \subseteq InvalidStages'
    BY <1>5 DEF handleException, NoException, Break, EnterEpilogue, Trap, TrapFails, At,
       Goto, stages, Flush, SerialInv
  <2> QED BY <2>1 DEF Holds, Empty
<1>6. CASE Redirect
  <2>1. /\ phase = "PC" /\ phase' = "IF" /\ NothingBehindSerial
        /\ Insts' = [s \in STAGES |-> IF s \in InvalidStages THEN nullptr ELSE Insts[s]]
    BY <1>6 DEF Redirect, At, Goto, SerialInv
  <2>2. Insts'[EX] = Insts[EX]
    BY <2>1, StageFacts DEF FlushesYoung
  <2> QED BY <2>1, <2>2, StageFacts DEF Holds, Empty
<1>7. CASE Stopped \/ UNCHANGED vars
  BY <1>7 DEF Stopped, vars, stages, control, SerialInv, Holds, Empty
<1> QED BY <1>1, <1>2, <1>3, <1>4, <1>5, <1>6, <1>7 DEF Next, proceedNStage

\* Nothing is decoded while a jump or system instruction is ahead of it.
LEMMA SerialInvariant == Spec => []SerialInv
<1>1. Init => SerialInv /\ FlushesYoung
  BY StageFacts DEF Init, SerialInv, NothingBehindSerial, FlushesYoung, Holds
<1>2. FlushesYoung /\ [Next]_vars => FlushesYoung'
  BY StepFlushes
<1>3. TypeInv /\ StallInv /\ FlushesYoung /\ SerialInv /\ [Next]_vars => SerialInv'
  BY StepSerial
<1> QED BY <1>1, <1>2, <1>3, TypeInvariant, StallInvariant, PTL DEF Spec

(* No instruction names x0 for its result, except jumps (j and ret are     *)
(* such) and the system instructions, whose encoding has zeros there.      *)
NamesResult(w) == HasRd(w) /\ Rd(w) = 0 => Mnemo(w) \in Serial
ResultsNamed   == \A w \in Code : NamesResult(w)

\* Then x0 is never forwarded.
LEMMA ZeroNeverForwarded ==
  ASSUME SerialInv, \A s \in {EX, MA} : ~Empty(s) => NamesResult(Insts[s])
  PROVE  ZeroFromFile
<1> SUFFICES ASSUME phase = "DE", Status = "run", Except = nullopt, Live(DE)
             PROVE  forwardOnDE(0) = GPRegs[0]
  BY DEF ZeroFromFile
<1>1. NothingBehindSerial
  BY DEF SerialInv
<1>2. ~Holds(EX, Serial) /\ ~Holds(MA, Serial)
  BY <1>1 DEF NothingBehindSerial, Live
<1>3. \A s \in {EX, MA} : ~(~Empty(s) /\ HasRd(Insts[s]) /\ 0 = Rd(Insts[s]))
  BY <1>2 DEF NamesResult, Holds, Empty
<1> QED BY <1>3 DEF forwardOnDE

(* Forwarding is right for every program in which no result is discarded   *)
(* into x0 by anything but a jump: jumps and system instructions flush     *)
(* what is behind them (lines 147-163, 219-251), nothing is forwarded from *)
(* them.                                                                   *)
THEOREM OperandsCorrect ==
  ASSUME ResultsNamed
  PROVE  Spec => []OperandsArchitectural
<1>1. TypeInv /\ SerialInv => ZeroFromFile
  <2>1. TypeInv => \A s \in {EX, MA} : ~Empty(s) => Insts[s] \in Code
    BY StageFacts DEF TypeInv, TypeOK, Empty
  <2> QED
    BY <2>1, ZeroNeverForwarded DEF ResultsNamed
<1> QED BY <1>1, TypeInvariant, SerialInvariant, OperandsForwarded, PTL

-----------------------------------------------------------------------------
(* A word that was fetched is still the one at its address.                *)
FetchedWords ==
  \A s \in {IFs, DE, EX} : ~Empty(s) => readWord(Mem, PCs[s]) = Insts[s]

WordsInv == Status = "run" => FetchedWords

\* Steps that write no memory and fetch nothing leave the words alone.
LEMMA RestWords ==
  ASSUME FetchedWords, UNCHANGED <<Mem, PCs>>,
         \A s \in STAGES : Insts'[s] \in {nullptr, Insts[s]}
  PROVE  FetchedWords'
  BY StageFacts DEF FetchedWords, Empty

\* Nothing has been fetched at the start.
LEMMA InitWords == Init => WordsInv
  BY StageFacts DEF Init, WordsInv, FetchedWords, Empty

\* Only a store could change a word behind the fetch, and none does.
LEMMA StepWords == WordsInv /\ Comparable /\ [Next]_vars => WordsInv'
<1> SUFFICES ASSUME WordsInv, Comparable, [Next]_vars, Status' = "run" PROVE FetchedWords'
  BY DEF WordsInv
<1>1. CASE fetch
  <2>1. FetchedWords /\ UNCHANGED Mem
    BY <1>1 DEF fetch, FetchStalled, Fetch, FetchFails, At, arch, WordsInv
  <2>2. PICK inst, pc : /\ Proceed(inst) /\ ProceedPC(pc)
                        /\ inst # nullptr => readWord(Mem, pc) = inst
    BY <1>1 DEF fetch, FetchStalled, Fetch, FetchFails, Access
  <2>3. ASSUME NEW s \in {IFs, DE, EX}, Insts'[s] # nullptr
        PROVE  readWord(Mem, PCs'[s]) = Insts'[s]
    <3>1. \/ PCs'[s] = PCs[s] /\ Insts'[s] = Insts[s] /\ ~Empty(s)
          \/ s # IFs /\ PCs'[s] = PCs[s - 1] /\ Insts'[s] = Insts[s - 1] /\ ~Empty(s - 1)
          \/ s = IFs /\ PCs'[s] = pc /\ Insts'[s] = inst /\ inst # nullptr
      BY <2>2, <2>3, StageFacts DEF Proceed, ProceedPC, Empty
    <3>2. s # IFs => s - 1 \in {IFs, DE, EX}
      BY SMT DEF IFs, DE, EX
    <3> QED BY <2>1, <2>2, <3>1, <3>2 DEF FetchedWords
  <2> QED BY <2>1, <2>3 DEF FetchedWords, Empty
<1>2. CASE memory
  <2>1. /\ FetchedWords /\ StoresApart /\ UNCHANGED <<Insts, PCs>> /\ At("MA")
    BY <1>2 DEF memory, MemoryAccess, NoMemoryAccess, MemoryAccessFails, At, stages, WordsInv,
       Comparable
  <2>2. \/ UNCHANGED Mem
        \/ ~Empty(MA) /\ ~MemFails(Insts[MA], EXVal) /\ Mem' = MemWritten(Insts[MA], EXVal)
    BY <1>2 DEF memory, MemoryAccess, NoMemoryAccess, MemoryAccessFails, arch
  <2> QED BY <2>1, <2>2 DEF StoresApart, FetchedWords, Empty
<1>3. CASE writeback \/ exec \/ decodes \/ handleException
  <2>1. FetchedWords /\ UNCHANGED <<Mem, Insts, PCs>>
    BY <1>3 DEF writeback, exec, execNothing, execData, execUpper, execJump, execLoad, execStore,
       execCsr, execBranch, execRaise, execMret, execUnimplemented, Exec, decodes, decode,
       decodeBranch, decodeNothing, handleException, NoException, Break, EnterEpilogue, Trap,
       TrapFails, At, arch, stages, WordsInv
  <2> QED BY <2>1, RestWords
<1>4. CASE Redirect
  <2>1. /\ FetchedWords /\ UNCHANGED <<Mem, PCs>>
        /\ \A s \in STAGES : Insts'[s] \in {nullptr, Insts[s]}
    BY <1>4 DEF Redirect, At, arch, WordsInv
  <2> QED BY <2>1, RestWords
<1>5. CASE Stopped \/ UNCHANGED vars
  BY <1>5 DEF Stopped, vars, arch, stages, control, WordsInv, FetchedWords, Empty
<1> QED BY <1>1, <1>2, <1>3, <1>4, <1>5 DEF Next, proceedNStage

\* What the golden model is about to execute is the word in EX.
CodeUntouched ==
  phase \in {"EX", "XC"} /\ ~Empty(EX) => readWord(Mem, PCs[EX]) = Insts[EX]

-----------------------------------------------------------------------------
(* What the simulation needs of the cycle besides: where instructions come *)
(* from, what an exception has left alone, and what flushes and            *)
(* redirections leave standing.                                            *)

\* What is in a stage has passed the memory check.
FetchedInDRAM == \A s \in STAGES : ~Empty(s) => Access(PCs[s], 4) = "ok"

\* A pending exception is that of the instruction in EX, which redirects nothing.
Raised ==
  Except # nullopt =>
    /\ Holds(EX, {"ecall", "ebreak", "ext", "extx"})
    /\ Except = CASE Op = "ecall"  -> EcallCause(Mode)
                  [] Op = "ebreak" -> Breakpoint
                  [] Op = "ext"    -> R0
                  [] OTHER         -> R1
    /\ BranchPC = nullopt
    /\ DE \notin InvalidStages
    /\ Upcoming = Wrap(PCs[EX] + 4)

\* A flush leaves what it was decided for.
FlushedBehind ==
  /\ DE \in InvalidStages => ~Empty(EX)
  /\ IFs \in InvalidStages => ~Empty(EX) \/ ~Empty(DE)

\* With a predictor exec flushes only to redirect.
FlushRedirects ==
  HasBP /\ phase = "DE" /\ Except = nullopt /\ InvalidStages # {} => BranchPC # nullopt

\* A predicted redirection stands behind its branch, or is overruled.
PredictionBehind == BranchPredPC # nullopt => BranchPC # nullopt \/ Live(DE)

\* Within a cycle there is an instruction somewhere: proceedNStage has tested isEmpty.
NotDrained == phase # "IF" => \E s \in STAGES : ~Empty(s)

\* The parts together: while the simulator runs, every step keeps them.
CycleInv ==
  Status = "run" => /\ FetchedInDRAM /\ Raised /\ FlushedBehind
                    /\ FlushRedirects /\ PredictionBehind /\ NotDrained

\* They hold of the empty pipeline.
LEMMA InitCycle == Init => CycleInv
<1> SUFFICES ASSUME Init PROVE CycleInv
  OBVIOUS
<1>1. /\ \A s \in STAGES : Empty(s)
      /\ phase = "IF" /\ InvalidStages = {} /\ BranchPredPC = nullopt /\ Except = nullopt
  BY DEF Init, Empty
<1> QED
  BY <1>1 DEF CycleInv, FetchedInDRAM, Raised, FlushedBehind, FlushRedirects,
     PredictionBehind, NotDrained

\* Only words whose address is in DRAM are fetched.
LEMMA FetchCycle ==
  ASSUME TypeInv, StallInv, FetchOrder, CycleInv, fetch, Status' = "run"
  PROVE  CycleInv'
<1>a. /\ phase = "IF" /\ phase' = "WB" /\ Status = "run" /\ InvalidStages = {}
      /\ Except = nullopt /\ BranchPredPC = nullopt
      /\ UNCHANGED <<InvalidStages, Except, BranchPredPC>>
      /\ ~(\A s \in STAGES : Insts'[s] = nullptr)
  <2>1. phase = "IF" /\ Status = "run" /\ UNCHANGED <<InvalidStages, Except, BranchPredPC>>
        /\ StartCycle
    BY DEF fetch, FetchStalled, Fetch, FetchFails, Access, At
  <2> QED
    BY <2>1 DEF StartCycle, Goto, StallInv, StallProtocol, TypeInv, ExceptionInEX, FetchOrder,
       RedirectionsFlush
<1>1. PICK inst, pc : Proceed(inst) /\ ProceedPC(pc)
                      /\ (inst # nullptr => Access(pc, 4) = "ok")
  BY DEF fetch, FetchStalled, Fetch, FetchFails, Access
<1>2. \A s \in STAGES : s # IFs => s - 1 \in STAGES
  BY SMT DEF STAGES, IFs
<1>3. \A s \in STAGES : ~Empty(s) => Access(PCs[s], 4) = "ok"
  BY <1>a DEF CycleInv, FetchedInDRAM
<1>4. ASSUME NEW s \in STAGES, Insts'[s] # nullptr PROVE Access(PCs'[s], 4) = "ok"
  <2>1. \/ PCs'[s] = PCs[s] /\ ~Empty(s)
        \/ s # IFs /\ PCs'[s] = PCs[s - 1] /\ ~Empty(s - 1)
        \/ s = IFs /\ PCs'[s] = pc /\ inst # nullptr
    BY <1>1, <1>4, ShiftKeepsAddress
  <2> QED BY <1>1, <1>2, <1>3, <2>1
<1>5. FetchedInDRAM'
  BY <1>4 DEF FetchedInDRAM, Empty
<1> QED
  BY <1>a, <1>5 DEF CycleInv, Raised, FlushedBehind, FlushRedirects, PredictionBehind,
     NotDrained, Empty

\* Steps that leave stages and redirections alone leave all of it alone.
LEMMA RestCycle ==
  ASSUME CycleInv, Status = "run",
         UNCHANGED <<Insts, PCs, InvalidStages, PC, BranchPC, BranchPredPC, Except, Mode>>,
         phase # "IF", phase' # "DE"
  PROVE  CycleInv'
<1>1. \A s : Empty(s)' = Empty(s) /\ Live(s)' = Live(s)
  BY DEF Empty, Live
<1>2. FetchedInDRAM' /\ FlushedBehind' /\ PredictionBehind' /\ NotDrained'
  BY <1>1 DEF CycleInv, FetchedInDRAM, FlushedBehind, PredictionBehind, NotDrained
<1>3. FlushRedirects'
  BY DEF FlushRedirects
<1>4. Upcoming' = Upcoming
  BY <1>1 DEF Upcoming
<1>5. Raised'
  BY <1>4 DEF CycleInv, Raised, Holds, Op
<1> QED BY <1>2, <1>3, <1>5 DEF CycleInv

\* Where exec redirects to.
LEMMA StepTargets ==
  ASSUME TypeOK
  PROVE  /\ Wrap(PCs[EX] + 4) \in Word /\ Wrap(PCs[EX] + DEVal.imm) \in Word
         /\ Wrap(DEVal.rs1 + DEVal.imm) \in Word
<1>1. PCs[EX] \in Word /\ DEVal.imm \in Word /\ DEVal.rs1 \in Word
  BY ExecOperands
<1>2. \A a, b \in Word : Wrap(a + b) \in Word /\ Wrap(a + 4) \in Word
  BY WrapType, WordFacts, SMT
<1> QED BY <1>1, <1>2

\* A forwarded CSR is a word.
LEMMA ForwardedType ==
  ASSUME TypeOK, NEW c \in CSRAddress
  PROVE  Forwarded(c) \in Word
<1>1. States[c] \in Word /\ MAVal.csr \in Word
  BY DEF TypeOK
<1> QED BY <1>1 DEF Forwarded

\* exec flushes what it jumps over; what only raises an exception flushes nothing.
LEMMA ExecCycle ==
  ASSUME TypeInv, StallInv, FetchOrder, CycleInv, SameExecution, exec, Status' = "run"
  PROVE  CycleInv'
<1>a. /\ phase = "EX" /\ phase' = "DE" /\ Status = "run" /\ UNCHANGED <<Insts, PCs, BranchPredPC>>
      /\ InvalidStages = {} /\ BranchPC = nullopt /\ BranchPredPC = nullopt
      /\ Except = nullopt
  <2>1. phase = "EX" /\ phase' = "DE" /\ Status = "run" /\ UNCHANGED <<Insts, PCs, BranchPredPC>>
    BY DEF exec, execNothing, execData, execUpper, execJump, execLoad, execStore, execCsr,
       execBranch, execRaise, execMret, execUnimplemented, Exec, At, Goto, stages, control
  <2> QED
    BY <2>1 DEF StallInv, StallProtocol, TypeInv, ExceptionInEX, FetchOrder, RedirectionsFlush
<1>b. \A s : Empty(s)' = Empty(s)
  BY <1>a DEF Empty
<1>1. FetchedInDRAM' /\ NotDrained' /\ PredictionBehind'
  BY <1>a, <1>b DEF CycleInv, FetchedInDRAM, NotDrained, PredictionBehind
<1>2. FlushedBehind'
  <2>1. InvalidStages' = {} \/ ~Empty(EX)
    BY <1>a DEF exec, execNothing, execData, execUpper, execJump, execLoad, execStore, execCsr,
       execBranch, execRaise, execMret, execUnimplemented, Exec, Holds, Empty, stages
  <2> QED BY <1>b, <2>1 DEF FlushedBehind
<1>3. BranchPC' \in Word \cup {nullopt}
  BY ExecType DEF TypeInv, TypeOK
<1>4. FlushRedirects'
  <2>1. CASE execJump \/ execMret
    <3>1. BranchPC' \in Word
      <4>1. CASE execJump
        BY <4>1, StepTargets DEF execJump, TypeInv
      <4>2. CASE execMret
        BY <4>2, ForwardedType DEF execMret, TypeInv, MEPC, CSRAddress, CSR_SIZE
      <4> QED BY <2>1, <4>1, <4>2
    <3> QED BY <3>1, WordFacts DEF FlushRedirects
  <2>2. CASE execBranch
    <3>1. HasBP => BranchPC' \in {Wrap(PCs[EX] + DEVal.imm), Wrap(PCs[EX] + 4)}
                     \/ InvalidStages' = {}
      BY <1>a, <2>2 DEF execBranch
    <3> QED BY <3>1, StepTargets, WordFacts DEF FlushRedirects, TypeInv
  <2>3. CASE ~(execJump \/ execMret \/ execBranch)
    <3>1. InvalidStages' = {}
      BY <1>a, <2>3 DEF exec, execNothing, execData, execUpper, execLoad, execStore, execCsr,
         execRaise, execUnimplemented, stages
    <3> QED BY <3>1 DEF FlushRedirects
  <2> QED BY <2>1, <2>2, <2>3
<1>5. Raised'
  <2>1. CASE execRaise
    <3>1. /\ Holds(EX, {"ecall", "ebreak", "ext", "extx"})
          /\ UNCHANGED <<Mode, InvalidStages, PC, BranchPC>>
          /\ Except' = CASE Op = "ecall"  -> EcallCause(Mode)
                         [] Op = "ebreak" -> Breakpoint
                         [] Op = "ext"    -> R0
                         [] OTHER         -> R1
      BY <2>1 DEF execRaise, Exec, arch, stages
    <3>2. Upcoming = Wrap(PCs[EX] + 4)
      <4>1. ~Holds(EX, BTypeKinds) /\ ~Empty(EX)
        BY <3>1 DEF Holds, Empty, BTypeKinds
      <4> QED BY <1>a, <4>1 DEF FetchOrder, NextBehindEX, Follow
    <3>3. Upcoming' = Upcoming
      BY <1>a, <1>b, <3>1 DEF Upcoming, Live
    <3> QED BY <1>a, <3>1, <3>2, <3>3 DEF Raised, Holds, Op
  <2>2. CASE execMret
    <3>1. Holds(EX, {"mret"})
      BY <2>2 DEF execMret, Exec
    <3>2. Forwarded(MSTATUS) = States[MSTATUS] /\ getMPP(States[MSTATUS]) # Hypervisor
      BY <1>a, <3>1 DEF SameExecution, NotPending, Forwarded
    <3>3. Except' = nullopt
      BY <1>a, <2>2, <3>2 DEF execMret
    <3> QED BY <3>3 DEF Raised
  <2>3. CASE ~execRaise /\ ~execMret
    <3>1. Except' = nullopt
      BY <1>a, <2>3 DEF exec, execNothing, execData, execUpper, execJump, execLoad, execStore,
         execCsr, execBranch, execUnimplemented, control
    <3> QED BY <3>1 DEF Raised
  <2> QED BY <2>1, <2>2, <2>3
<1> QED BY <1>1, <1>2, <1>4, <1>5 DEF CycleInv

\* A predicted redirection is decided only for a branch that stays.
LEMMA DecodeCycle ==
  ASSUME TypeInv, StallInv, FetchOrder, CycleInv, decodes
  PROVE  CycleInv'
<1>a. /\ phase = "DE" /\ phase' = "XC" /\ Status = "run"
      /\ UNCHANGED <<Insts, PCs, PC, BranchPC, Except, Mode>>
      /\ BranchPredPC = nullopt
  <2>1. /\ phase = "DE" /\ phase' = "XC" /\ Status = "run"
        /\ UNCHANGED <<Insts, PCs, PC, BranchPC, Except, Mode>>
    BY DEF decodes, decode, decodeBranch, decodeNothing, At, Goto, stages, control, arch
  <2> QED BY <2>1 DEF FetchOrder, RedirectionsFlush
<1>b. \A s : Empty(s)' = Empty(s)
  BY <1>a DEF Empty
<1>c. FetchedInDRAM /\ Raised /\ FlushedBehind /\ FlushRedirects /\ NotDrained
  BY <1>a DEF CycleInv
<1>1. CASE UNCHANGED <<InvalidStages, BranchPredPC>>
  BY <1>1, <1>a, RestCycle
<1>2. CASE decodeBranch /\ InvalidStages' = InvalidStages \cup {IFs}
  <2>1. FetchedInDRAM' /\ NotDrained' /\ FlushRedirects' /\ FlushedBehind'
    BY <1>a, <1>b, <1>c, <1>2, StageFacts DEF FetchedInDRAM, NotDrained, FlushRedirects,
       FlushedBehind, decodeBranch, Decodes
  <2>2. Except # nullopt => Live(DE) /\ Live(DE)'
    BY <1>2, <1>b, <1>c, StageFacts DEF Raised, Live, decodeBranch, Decodes
  <2>3. Raised'
    <3>1. Except # nullopt => Upcoming' = Upcoming
      BY <1>a, <2>2 DEF Upcoming
    <3>2. Except # nullopt => DE \notin InvalidStages'
      BY <2>2 DEF Live
    <3> QED BY <1>a, <1>c, <3>1, <3>2 DEF Raised, Holds, Op
  <2>4. BranchPC = nullopt => Live(DE)'
    <3>1. CASE InvalidStages = {}
      BY <1>2, <1>b, <3>1, StageFacts DEF Live, decodeBranch, Decodes
    <3>2. CASE InvalidStages # {}
      BY <1>a, <1>2, <1>c, <2>2, <3>2 DEF FlushRedirects, decodeBranch
    <3> QED BY <3>1, <3>2
  <2> QED BY <1>a, <2>1, <2>3, <2>4 DEF CycleInv, PredictionBehind
<1> QED
  BY <1>1, <1>2 DEF decodes, decode, decodeBranch, decodeNothing, stages, control

\* An exception finds no prediction pending.
LEMMA HandleCycle ==
  ASSUME TypeInv, CycleInv, SameTrap, ExtxLast, handleException, Status' = "run"
  PROVE  CycleInv'
<1>1. CASE NoException
  BY <1>1, RestCycle DEF NoException, At, Goto, stages, control, arch
<1>2. CASE EnterEpilogue \/ Trap
  <2>1. /\ phase = "XC" /\ phase' = "PC" /\ Status = "run" /\ Except # nullopt /\ Except' = nullopt
        /\ UNCHANGED <<Insts, PCs, BranchPC, BranchPredPC>>
        /\ ~Empty(EX)
    BY <1>2, SMT DEF EnterEpilogue, Trap, Traps, At, Goto, R1, nullopt, TypeInv, ExceptionInEX
  <2>2. BranchPredPC = nullopt
    <3>1. CASE EnterEpilogue
      BY <2>1, <3>1 DEF EnterEpilogue, ExtxLast, CycleInv, Raised, PredictionBehind
    <3>2. CASE Trap
      BY <2>1, <3>2 DEF Trap, SameTrap
    <3> QED BY <1>2, <3>1, <3>2
  <2> QED
    BY <2>1, <2>2 DEF CycleInv, FetchedInDRAM, Raised, FlushedBehind, FlushRedirects,
       PredictionBehind, NotDrained, Empty
<1>3. CASE Break \/ TrapFails
  BY <1>3 DEF Break, TrapFails
<1> QED BY <1>1, <1>2, <1>3 DEF handleException

\* fillBubble empties stages and decides nothing.
LEMMA RedirectCycle ==
  ASSUME TypeInv, CycleInv, Redirect
  PROVE  CycleInv'
<1>1. /\ phase' = "IF" /\ Status = "run" /\ Except = nullopt /\ Except' = nullopt
      /\ InvalidStages' = {} /\ BranchPredPC' = nullopt /\ UNCHANGED PCs
      /\ \A s \in STAGES : Insts'[s] \in {nullptr, Insts[s]}
  BY DEF Redirect, At, Goto, TypeInv, ExceptionInEX
<1>2. FetchedInDRAM'
  BY <1>1 DEF CycleInv, FetchedInDRAM, Empty
<1> QED
  BY <1>1, <1>2 DEF CycleInv, Raised, FlushedBehind, FlushRedirects, PredictionBehind,
     NotDrained

\* Every step of a comparable program keeps the parts.
LEMMA StepCycle ==
  TypeInv /\ StallInv /\ FetchOrder /\ CycleInv /\ Comparable /\ [Next]_vars => CycleInv'
<1> SUFFICES ASSUME TypeInv, StallInv, FetchOrder, CycleInv, Comparable, [Next]_vars,
                    Status' = "run"
             PROVE  CycleInv'
  BY DEF CycleInv
<1>1. CASE Stopped \/ UNCHANGED vars
  <2>1. UNCHANGED vars
    BY <1>1 DEF Stopped
  <2> QED
    BY <2>1 DEF vars, arch, stages, control, CycleInv, FetchedInDRAM, Raised, FlushedBehind,
       FlushRedirects, PredictionBehind, NotDrained, Empty, Live, Holds, Op, Upcoming
<1>2. CASE writeback \/ memory
  BY <1>2, RestCycle DEF writeback, memory, MemoryAccess, NoMemoryAccess, MemoryAccessFails,
     MemFails, Access, At, Goto, stages, control, arch
<1>3. CASE exec \/ handleException
  <2>1. Status = "run"
    BY <1>3 DEF exec, execNothing, execData, execUpper, execJump, execLoad, execStore, execCsr,
       execBranch, execRaise, execMret, execUnimplemented, Exec, At, handleException,
       NoException, Break, EnterEpilogue, Trap, TrapFails
  <2>2. SameExecution /\ SameTrap /\ ExtxLast
    BY <2>1 DEF Comparable
  <2> QED BY <1>3, <2>2, ExecCycle, HandleCycle
<1> QED
  BY <1>1, <1>2, <1>3, FetchCycle, DecodeCycle, RedirectCycle DEF Next, proceedNStage

(* The instruction-level simulator runs on the same machine.               *)
LEMMA SameDecoding ==
  /\ Golden!Code = Code
  /\ \A w : /\ Golden!Mnemo(w) = Mnemo(w) /\ Golden!Rd(w) = Rd(w)
            /\ Golden!Rs1(w) = Rs1(w) /\ Golden!Rs2(w) = Rs2(w) /\ Golden!Imm(w) = Imm(w)
  BY DEF Golden!Code, Golden!Mnemo, Golden!Rd, Golden!Rs1, Golden!Rs2, Golden!Imm,
     Code, Mnemo, Rd, Rs1, Rs2, Imm, Golden!Wrap, Wrap, Golden!WordSize, WordSize

\* The kinds of instructions are the same sets in both simulators.
LEMMA SameKinds ==
  /\ Golden!AluImm = AluImm /\ Golden!Loads = Loads /\ Golden!CSRImm = CSRImm
  /\ Golden!CSR_INSTs = CSR_INSTs /\ Golden!STypeKinds = STypeKinds
  /\ Golden!BTypeKinds = BTypeKinds /\ Golden!UTypeKinds = UTypeKinds
  /\ Golden!RTypeKinds = RTypeKinds
  BY DEF Golden!AluImm, AluImm, Golden!Loads, Loads, Golden!CSRImm, CSRImm, Golden!CSR_INSTs,
     CSR_INSTs, Golden!STypeKinds, STypeKinds, Golden!BTypeKinds, BTypeKinds,
     Golden!UTypeKinds, UTypeKinds, Golden!RTypeKinds, RTypeKinds

\* Both reach memory through the same operators of RiscvIsa.
LEMMA SameMemory ==
  /\ \A op : Golden!Width(op) = Width(op)
  /\ \A a, n : Golden!Access(a, n) = Access(a, n)
  /\ \A m, a : Golden!readWord(m, a) = readWord(m, a)
  /\ \A op, m, a : Golden!LoadValue(op, m, a) = LoadValue(op, m, a)
  /\ \A op, m, a, v : Golden!StoreValue(op, m, a, v) = StoreValue(op, m, a, v)
<1>1. \A op : Golden!Width(op) = Width(op)
  BY Zenon DEF Golden!Width, Width
<1>2. \A a, n : Golden!Access(a, n) = Access(a, n)
  BY Zenon DEF Golden!Access, Access
<1>3. \A m, a : Golden!readHalfWord(m, a) = readHalfWord(m, a)
  BY Zenon DEF Golden!readHalfWord, readHalfWord
<1>4. \A m, a : Golden!readWord(m, a) = readWord(m, a)
  BY Zenon, <1>3 DEF Golden!readWord, readWord
<1>5. \A v, n : Golden!SignedLoad(v, n) = SignedLoad(v, n)
  BY Zenon DEF Golden!SignedLoad, SignedLoad, Golden!Wrap, Wrap, Golden!WordSize, WordSize
<1>6. \A op, m, a : Golden!LoadValue(op, m, a) = LoadValue(op, m, a)
  BY Zenon, <1>3, <1>4, <1>5 DEF Golden!LoadValue, LoadValue
<1>7. \A v, k : Golden!ByteOf(v, k) = ByteOf(v, k)
  BY Zenon DEF Golden!ByteOf, ByteOf
<1>8. \A op, m, a, v : Golden!StoreValue(op, m, a, v) = StoreValue(op, m, a, v)
  BY <1>1, <1>7 DEF Golden!StoreValue, StoreValue, Golden!DRAM, DRAM
<1> QED BY <1>1, <1>2, <1>4, <1>6, <1>8

\* So are words, branches, mstatus and exceptions.
LEMMA SameValues ==
  /\ \A v : Golden!Wrap(v) = Wrap(v) /\ Golden!ClearBit0(v) = ClearBit0(v)
  /\ \A op, a, b : Golden!Taken(op, a, b) = Taken(op, a, b)
  /\ \A v : Golden!getMPP(v) = getMPP(v) /\ Golden!getMPIE(v) = getMPIE(v)
  /\ \A v, b : /\ Golden!setMIE(v, b) = setMIE(v, b) /\ Golden!setMPIE(v, b) = setMPIE(v, b)
               /\ Golden!setMPP(v, b) = setMPP(v, b)
  /\ \A e, w : Golden!trap_val(e, w) = trap_val(e, w)
  /\ \A m : Golden!EcallCause(m) = EcallCause(m)
<1>1. \A v : Golden!Wrap(v) = Wrap(v) /\ Golden!ClearBit0(v) = ClearBit0(v)
  BY Zenon DEF Golden!Wrap, Wrap, Golden!WordSize, WordSize, Golden!ClearBit0, ClearBit0
<1>2. \A v : Golden!Signed(v) = Signed(v)
  BY Zenon DEF Golden!Signed, Signed, Golden!WordSize, WordSize
<1>3. \A op, a, b : Golden!Taken(op, a, b) = Taken(op, a, b)
  BY Zenon, <1>2 DEF Golden!Taken, Taken
<1>4. \A v : Golden!getMPP(v) = getMPP(v) /\ Golden!getMPIE(v) = getMPIE(v)
             /\ Golden!getMIE(v) = getMIE(v)
  BY Zenon DEF Golden!getMPP, getMPP, Golden!getMPIE, getMPIE, Golden!getMIE, getMIE
<1>5. \A v, b : /\ Golden!setMIE(v, b) = setMIE(v, b) /\ Golden!setMPIE(v, b) = setMPIE(v, b)
               /\ Golden!setMPP(v, b) = setMPP(v, b)
  BY Zenon, <1>4 DEF Golden!setMIE, setMIE, Golden!setMPIE, setMPIE, Golden!setMPP, setMPP
<1>6. \A e, w : Golden!trap_val(e, w) = trap_val(e, w)
  BY Zenon DEF Golden!trap_val, trap_val, Golden!IllegalInstruction, IllegalInstruction
<1>7. \A m : Golden!EcallCause(m) = EcallCause(m)
  BY Zenon DEF Golden!EcallCause, EcallCause, Golden!User, User, Golden!Supervisor, Supervisor,
     Golden!Machine, Machine, Golden!EnvCallU, EnvCallU, Golden!EnvCallS, EnvCallS,
     Golden!EnvCallM, EnvCallM, Golden!IllegalInstruction, IllegalInstruction
<1> QED BY <1>1, <1>3, <1>4, <1>5, <1>6, <1>7

\* Nothing of the architectural state changes.
Stutters == UNCHANGED <<ArchPC, Mode, ArchGPRegs, ArchStates, ArchMem, ArchStatus>>

\* Then the golden model stutters.
LEMMA StuttersGolden == Stutters => UNCHANGED Golden!vars
  BY DEF Stutters, Golden!vars

\* The simulators start alike.
LEMMA InitGolden == Init => Golden!Init
<1> SUFFICES ASSUME Init PROVE Golden!Init
  OBVIOUS
<1>1. /\ \A s \in STAGES : Insts[s] = nullptr
      /\ phase = "IF" /\ InvalidStages = {} /\ BranchPC = nullopt /\ Except = nullopt
      /\ Status = "run" /\ PC = DRAMBase
      /\ Mode = Machine /\ States = [a \in CSRAddress |-> 0]
  BY DEF Init
<1>2. InEX = nullptr /\ InMA = nullptr
  BY <1>1, StageFacts DEF InEX, InMA
<1>3. ~WillFail /\ ~WritesRd(InMA) /\ ~WritesRd(InEX) /\ ~WritesCsr(InMA) /\ ~WritesCsr(InEX)
  BY <1>2 DEF WillFail, WritesRd, WritesCsr
<1>4. ArchStatus = "run" /\ ArchMem = Mem /\ ArchGPRegs = GPRegs /\ ArchStates = States
  BY <1>1, <1>2, <1>3 DEF ArchStatus, ArchMem, ArchGPRegs, ArchStates, Overlay
<1>5. ArchPC = PC
  <2>1. Upcoming = PC
    BY <1>1, StageFacts DEF Upcoming, Live, Empty
  <2> QED BY <1>1, <1>3, <2>1 DEF ArchPC
<1>6. GPRegs \in [Reg -> Word] /\ Mem \in [DRAM -> Byte]
  BY InitType DEF TypeInv, TypeOK
<1> QED
  BY <1>1, <1>4, <1>5, <1>6 DEF Golden!Init, Golden!CSRAddress, CSRAddress, Golden!CSR_SIZE,
     CSR_SIZE, Golden!Machine, Machine

-----------------------------------------------------------------------------
\* What was latched moves on with its instruction.
LEMMA FetchSimulates ==
  ASSUME TypeInv, StallInv, FetchOrder, Comparable, fetch
  PROVE  Stutters \/ Golden!Stop \/ Golden!Fail
<1>a. /\ phase = "IF" /\ Status = "run" /\ Except = nullopt /\ BranchPC = nullopt
      /\ InvalidStages = {}
      /\ UNCHANGED <<Mode, GPRegs, States, Mem, EXVal, MAVal, InvalidStages, Except, BranchPC>>
  <2>1. /\ phase = "IF" /\ Status = "run"
        /\ UNCHANGED <<Mode, GPRegs, States, Mem, EXVal, MAVal, InvalidStages, Except, BranchPC>>
    BY DEF fetch, FetchStalled, Fetch, FetchFails, At, arch, latches, stages
  <2> QED
    BY <2>1 DEF StallInv, StallProtocol, TypeInv, ExceptionInEX, FetchOrder, RedirectionsFlush
<1>b. InMA = Insts[MA] /\ InEX = Insts[EX]
  BY <1>a DEF InMA, InEX
<1>c. ArchPC = IF WillFail THEN PCs[EX] ELSE Upcoming
  BY <1>a DEF ArchPC
<1>1. ASSUME NEW inst, NEW pc, Proceed(inst), ProceedPC(pc), StartCycle
      PROVE  UNCHANGED <<ArchGPRegs, ArchStates, ArchMem>> /\ WillFail' = WillFail
             /\ (Status' = "run" => phase' = "WB" /\ UNCHANGED ArchStatus)
             /\ InEX' = InEX /\ PCs'[MA] = PCs[EX]
  <2>1. Insts'[MA] = Insts[EX] /\ Insts'[WB] = Insts[MA] /\ PCs'[MA] = PCs[EX]
    BY <1>1, ShiftOld
  <2>2. \/ phase' = "WB" /\ Status' = "run"
        \/ Insts'[MA] = nullptr /\ Insts'[WB] = nullptr /\ Insts'[EX] = nullptr /\ phase' = "IF"
           /\ Status' # "run"
    BY <1>a, <1>1, StageFacts DEF StartCycle, Goto
  <2>3. InMA' = InMA /\ InEX' = InEX
    BY <1>a, <1>b, <2>1, <2>2 DEF InMA, InEX
  <2>4. WillFail' = WillFail
    BY <1>a, <2>3 DEF WillFail, MemFails, Printed
  <2>5. UNCHANGED <<ArchGPRegs, ArchStates, ArchMem>>
    BY <1>a, <2>3, <2>4 DEF ArchGPRegs, ArchStates, ArchMem, MemResult, MemWritten, Printed
  <2>6. Status' = "run" => UNCHANGED ArchStatus
    BY <1>a, <2>3, <2>4 DEF ArchStatus
  <2> QED BY <2>1, <2>2, <2>3, <2>4, <2>5, <2>6
<1>2. CASE FetchStalled
  <2>1. StalledStages = {DE, IFs} /\ ~Empty(EX)
    BY <1>2 DEF FetchStalled, StallInv, StallOnlyForLoadUse, Holds, Empty
  <2>2. Proceed(nullptr) /\ ProceedPC(Wrap(-1)) /\ StartCycle /\ PC' = PC
    BY <1>2 DEF FetchStalled
  <2>3. /\ Insts'[IFs] = Insts[IFs] /\ Insts'[DE] = Insts[DE] /\ Insts'[EX] = nullptr
        /\ PCs'[IFs] = PCs[IFs] /\ PCs'[DE] = PCs[DE]
    BY <2>1, <2>2, ShiftStalled
  <2>4. Status' = "run"
    <3>1. Insts'[MA] # nullptr
      BY <2>1, <2>2, ShiftOld DEF Empty
    <3> QED BY <1>a, <2>2, <3>1, StageFacts DEF StartCycle
  <2>5. Upcoming' = Upcoming
    BY <1>a, <2>2, <2>3 DEF Upcoming, Live, Empty
  <2>6. /\ UNCHANGED <<ArchGPRegs, ArchStates, ArchMem, ArchStatus>> /\ WillFail' = WillFail
        /\ phase' = "WB" /\ PCs'[MA] = PCs[EX]
    BY <1>1, <2>2, <2>4
  <2>7. ArchPC' = ArchPC
    BY <1>c, <2>3, <2>4, <2>5, <2>6 DEF ArchPC, Empty
  <2> QED BY <1>a, <2>6, <2>7 DEF Stutters
<1>3. CASE Fetch
  <2> DEFINE w    == readWord(Mem, PC)
             inst == IF w \in Code THEN w ELSE nullptr
  <2>1. /\ Proceed(inst) /\ ProceedPC(PC) /\ StartCycle /\ StalledStages = {}
        /\ PC' = IF w \in Code THEN Wrap(PC + 4) ELSE PC
        /\ Access(PC, 4) = "ok"
    BY <1>3 DEF Fetch, StallInv, StallOnlyForLoadUse
  <2>2. (inst = nullptr <=> w \notin Code) /\ (inst = nullptr => PC' = PC)
    <3>1. nullptr \notin Code
      BY DecodeAssumption, PipelineAssumption
    <3> QED BY <2>1, <3>1
  <2> HIDE DEF inst
  <2>3. /\ Insts'[IFs] = inst /\ Insts'[DE] = Insts[IFs] /\ Insts'[EX] = Insts[DE]
        /\ PCs'[IFs] = PC /\ PCs'[DE] = PCs[IFs] /\ PCs'[EX] = PCs[DE]
    BY <2>1, ShiftAll
  <2>4. /\ UNCHANGED <<ArchGPRegs, ArchStates, ArchMem>> /\ WillFail' = WillFail
        /\ (Status' = "run" => phase' = "WB" /\ UNCHANGED ArchStatus)
        /\ PCs'[MA] = PCs[EX] /\ InEX' = InEX
    BY <1>1, <2>1
  <2>5. (IF Empty(EX)' THEN Upcoming' ELSE PCs'[EX]) = Upcoming
    BY <1>a, <2>2, <2>3 DEF Upcoming, Live, Empty
  <2>6. CASE Status' = "run"
    <3>1. ArchPC' = ArchPC
      BY <1>c, <2>4, <2>5, <2>6 DEF ArchPC
    <3> QED BY <1>a, <2>4, <2>6, <3>1 DEF Stutters
  <2>7. CASE Status' # "run"
    <3>1. /\ \A s \in STAGES : Insts'[s] = nullptr
          /\ Status' = "empty" /\ phase' = "IF"
      BY <1>a, <2>1, <2>7 DEF StartCycle
    <3>2. InEX' = nullptr /\ InEX = nullptr
      BY <1>a, <2>4, <3>1, StageFacts DEF InEX
    <3>3. ~WillFail /\ ~WillFail'
      BY <3>2 DEF WillFail
    <3>4. w \notin Code /\ PC' = PC
      BY <2>2, <2>3, <3>1, StageFacts
    <3>5. ArchStatus = "run" /\ ArchStatus' = "empty"
      BY <1>a, <3>1, <3>3 DEF ArchStatus
    <3>6. ArchPC = PC /\ ArchPC' = PC
      <4>1. Empty(DE) /\ Empty(IFs) /\ Empty(DE)' /\ Empty(IFs)'
        <5>1. Insts'[EX] = nullptr /\ Insts'[DE] = nullptr /\ Insts'[IFs] = nullptr
          BY <3>1, StageFacts
        <5> QED BY <2>3, <5>1, <3>1 DEF Empty
      <4>2. Upcoming = PC /\ Upcoming' = PC
        BY <3>4, <4>1 DEF Upcoming, Live
      <4> QED BY <1>a, <1>c, <3>1, <3>3, <4>2 DEF ArchPC
    <3>7. ArchMem = Mem
      BY <3>2 DEF ArchMem
    <3>8. Golden!Stop
      BY <1>a, <2>1, <2>4, <3>4, <3>5, <3>6, <3>7, SameMemory, SameDecoding
         DEF Golden!Stop, Golden!Inst
    <3> QED BY <3>8
  <2> QED BY <2>6, <2>7
<1>4. CASE FetchFails
  <2>1. Access(PC, 4) # "ok" /\ IFs \notin StalledStages /\ Status' = Access(PC, 4)
        /\ UNCHANGED <<phase, Insts, PCs, PC>> /\ Status' \in {"abort", "undefined"}
    BY <1>4 DEF FetchFails, stages, Access
  <2>2. InMA' = InMA /\ InEX' = InEX
    BY <1>a, <2>1 DEF InMA, InEX
  <2>3. WillFail' = WillFail
    BY <1>a, <2>2 DEF WillFail, MemFails, Printed
  <2>4. UNCHANGED <<ArchGPRegs, ArchStates, ArchMem>>
    BY <1>a, <2>2, <2>3 DEF ArchGPRegs, ArchStates, ArchMem, MemResult, MemWritten, Printed
  <2>5. Upcoming' = Upcoming
    BY <1>a, <2>1 DEF Upcoming, Live, Empty
  <2>6. ArchPC' = ArchPC
    BY <1>a, <1>c, <2>1, <2>3, <2>5 DEF ArchPC
  <2>7. CASE WillFail
    <3>1. ArchStatus' = ArchStatus
      BY <1>a, <2>2, <2>3, <2>7 DEF ArchStatus
    <3> QED BY <1>a, <2>4, <2>6, <3>1 DEF Stutters
  <2>8. CASE ~WillFail
    <3>1. ArchStatus = "run" /\ ArchStatus' = Access(PC, 4)
      BY <1>a, <2>1, <2>3, <2>8 DEF ArchStatus
    <3>2. ArchPC = PC
      <4>1. Empty(DE) /\ Empty(IFs)
        BY <1>a, <2>1 DEF Comparable, FetchInDRAM, At
      <4> QED BY <1>c, <2>8, <4>1 DEF Upcoming, Live
    <3>3. Golden!Fail
      BY <1>a, <2>1, <2>4, <2>6, <3>1, <3>2, SameMemory DEF Golden!Fail
    <3> QED BY <3>3
  <2> QED BY <2>7, <2>8
<1> QED BY <1>2, <1>3, <1>4 DEF fetch

\* What is written back was counted as written since exec.
LEMMA WritebackStutters == ASSUME writeback PROVE Stutters
<1>a. /\ phase = "WB" /\ phase' = "MA" /\ Status = "run" /\ Status' = "run"
      /\ UNCHANGED <<Mode, Mem, Insts, PCs, InvalidStages, EXVal, MAVal, PC>>
  BY DEF writeback, At, Goto, stages, latches, control
<1>b. InMA = Insts[WB] /\ InEX = Insts[MA] /\ InMA' = nullptr /\ InEX' = InEX
  BY <1>a DEF InMA, InEX
<1>1. WillFail' = WillFail
  BY <1>a, <1>b DEF WillFail, MemFails, Printed
<1>2. GPRegs' = Overlay(GPRegs, WritesRd(InMA), Rd(InMA), MAVal.rd)
  BY <1>b DEF writeback, write, Overlay, WritesRd, Holds, Empty
<1>3. States' = Overlay(States, WritesCsr(InMA), CsrOf(MAVal.imm), MAVal.csr)
  BY <1>b DEF writeback, Overlay, WritesCsr, Holds, Empty, CSR_INSTs, CSRImm, BTypeKinds,
     STypeKinds
<1>4. ~WritesRd(InMA)' /\ ~WritesCsr(InMA)'
  BY <1>b DEF WritesRd, WritesCsr
<1>5. ArchGPRegs' = ArchGPRegs
  BY <1>a, <1>b, <1>1, <1>2, <1>4 DEF ArchGPRegs, MemResult, Printed, Overlay
<1>6. ArchStates' = ArchStates
  BY <1>a, <1>b, <1>3, <1>4 DEF ArchStates, Overlay
<1>7. ArchMem' = ArchMem /\ ArchStatus' = ArchStatus
  BY <1>a, <1>b, <1>1 DEF ArchMem, ArchStatus, MemWritten, Printed
<1>8. ArchPC' = ArchPC
  <2>1. Upcoming' = Upcoming
    BY <1>a DEF Upcoming, Live, Empty
  <2> QED BY <1>a, <1>1, <2>1 DEF ArchPC, Empty
<1> QED BY <1>a, <1>5, <1>6, <1>7, <1>8 DEF Stutters

\* An access takes effect as it was bound to since exec, and so does its failure.
LEMMA MemoryStutters == ASSUME memory PROVE Stutters
<1>a. /\ phase = "MA" /\ Status = "run"
      /\ UNCHANGED <<Mode, GPRegs, States, Insts, PCs, InvalidStages, EXVal, PC>>
  BY DEF memory, MemoryAccess, NoMemoryAccess, MemoryAccessFails, At, Goto, stages, latches,
     control, arch
<1>b. InMA = nullptr /\ InEX = Insts[MA]
  BY <1>a DEF InMA, InEX
<1>c. ~WritesRd(nullptr) /\ ~WritesCsr(nullptr)
  BY DEF WritesRd, WritesCsr
<1>d. Upcoming' = Upcoming
  BY <1>a DEF Upcoming, Live, Empty
<1>1. CASE MemoryAccessFails
  <2>1. /\ UNCHANGED <<phase, Mem, MAVal>>
        /\ Status' = Access(EXVal.rd, Width(Mnemo(InEX)))
        /\ Status' # "break"
    BY <1>1, <1>b DEF MemoryAccessFails, latches, arch, Access
  <2>2. WillFail
    BY <1>1, <1>b DEF MemoryAccessFails, WillFail, Empty
  <2>3. InMA' = InMA /\ InEX' = InEX
    BY <1>a, <2>1 DEF InMA, InEX
  <2>4. WillFail'
    BY <1>a, <2>2, <2>3 DEF WillFail, MemFails, Printed
  <2>5. UNCHANGED <<ArchGPRegs, ArchStates, ArchMem, ArchStatus>>
    BY <1>a, <2>1, <2>2, <2>3, <2>4 DEF ArchGPRegs, ArchStates, ArchMem, ArchStatus
  <2>6. ArchPC' = ArchPC
    BY <1>a, <2>1, <2>2, <2>4 DEF ArchPC
  <2> QED BY <1>a, <2>5, <2>6 DEF Stutters
<1>2. CASE MemoryAccess \/ NoMemoryAccess
  <2>1. phase' = "EX" /\ Status' = "run"
    BY <1>2, <1>a DEF MemoryAccess, NoMemoryAccess, Goto, control
  <2>2. InMA' = Insts[MA] /\ InEX' = nullptr
    BY <1>a, <2>1 DEF InMA, InEX
  <2>3. ~WillFail /\ ~WillFail'
    BY <1>2, <1>b, <2>2 DEF WillFail, MemoryAccess, NoMemoryAccess, Empty
  <2>4. ArchPC' = ArchPC /\ ArchStatus' = ArchStatus
    BY <1>a, <1>d, <2>1, <2>3 DEF ArchPC, ArchStatus, Empty
  <2>5. CASE MemoryAccess
    <3>1. /\ Insts[MA] # nullptr
          /\ Mem' = MemWritten(Insts[MA], EXVal)
          /\ MAVal' = [rd  |-> MemResult(Insts[MA], EXVal), csr |-> EXVal.csr, imm |-> EXVal.imm]
      BY <2>5 DEF MemoryAccess, Empty
    <3>2. ArchGPRegs' = ArchGPRegs
      BY <1>a, <1>b, <1>c, <2>2, <2>3, <3>1 DEF ArchGPRegs, Overlay, WritesRd
    <3>3. ArchStates' = ArchStates
      BY <1>a, <1>b, <1>c, <2>2, <3>1 DEF ArchStates, Overlay, WritesCsr
    <3>4. ArchMem' = ArchMem
      BY <1>b, <2>2, <2>3, <3>1 DEF ArchMem
    <3> QED BY <1>a, <2>4, <3>2, <3>3, <3>4 DEF Stutters
  <2>6. CASE NoMemoryAccess
    <3>1. Insts[MA] = nullptr /\ Mem' = Mem
      BY <2>6 DEF NoMemoryAccess, Empty, arch
    <3>2. ~WritesRd(InMA) /\ ~WritesRd(InEX) /\ ~WritesCsr(InMA) /\ ~WritesCsr(InEX)
      BY <1>b, <1>c, <3>1
    <3>3. ~WritesRd(InMA)' /\ ~WritesRd(InEX)' /\ ~WritesCsr(InMA)' /\ ~WritesCsr(InEX)'
      BY <2>2, <3>1 DEF WritesRd, WritesCsr
    <3>4. ArchGPRegs = GPRegs /\ ArchGPRegs' = GPRegs' /\ ArchStates = States /\ ArchStates' = States'
      BY <3>2, <3>3 DEF ArchGPRegs, ArchStates, Overlay
    <3>5. ArchMem' = ArchMem
      BY <1>b, <2>2, <3>1 DEF ArchMem
    <3> QED BY <1>a, <2>4, <3>4, <3>5 DEF Stutters
  <2> QED BY <1>2, <2>5, <2>6
<1> QED BY <1>1, <1>2 DEF memory

\* In the rest of the cycle nothing moves on that exec has run.
LEMMA RestSame ==
  ASSUME Status = "run", Status' = "run",
         phase \in {"EX", "DE", "XC", "PC", "IF"}, phase' \in {"DE", "XC", "PC", "IF"},
         InEX' = InEX,
         UNCHANGED <<Mode, GPRegs, States, Mem, EXVal, MAVal>>, Insts'[MA] = Insts[MA]
  PROVE  UNCHANGED <<ArchGPRegs, ArchStates, ArchMem, ArchStatus>> /\ WillFail' = WillFail
<1>1. InMA' = InMA
  BY DEF InMA
<1>2. WillFail' = WillFail
  BY DEF WillFail, MemFails, Printed
<1>3. UNCHANGED <<ArchGPRegs, ArchStates, ArchMem, ArchStatus>>
  BY <1>1, <1>2 DEF ArchGPRegs, ArchStates, ArchMem, ArchStatus, MemResult, MemWritten, Printed
<1> QED BY <1>2, <1>3

\* A prediction takes effect behind the instruction it belongs to.
LEMMA DecodeStutters ==
  ASSUME TypeInv, StallInv, FetchOrder, CycleInv, decodes
  PROVE  Stutters
<1>a. /\ phase = "DE" /\ phase' = "XC" /\ Status = "run" /\ Status' = "run"
      /\ UNCHANGED <<Mode, GPRegs, States, Mem, Insts, PCs, EXVal, MAVal, PC, BranchPC, Except>>
  BY DEF decodes, decode, decodeBranch, decodeNothing, At, Goto, stages, control, arch, latches
<1>1. InEX' = InEX
  BY <1>a DEF InEX
<1>2. UNCHANGED <<ArchGPRegs, ArchStates, ArchMem, ArchStatus>> /\ WillFail' = WillFail
  BY <1>a, <1>1, RestSame
<1>3. Except = nullopt /\ BranchPC = nullopt => Upcoming' = Upcoming
  <2>1. CASE UNCHANGED InvalidStages
    BY <1>a, <2>1 DEF Upcoming, Live, Empty
  <2>2. CASE decodeBranch /\ InvalidStages' = InvalidStages \cup {IFs}
    <3>1. Except = nullopt /\ BranchPC = nullopt => InvalidStages = {}
      BY <1>a, <2>2 DEF CycleInv, FlushRedirects, decodeBranch
    <3> QED BY <1>a, <2>2, <3>1, StageFacts DEF Upcoming, Live, Empty, decodeBranch, Decodes
  <2> QED BY <2>1, <2>2 DEF decodes, decode, decodeBranch, decodeNothing, stages
<1>4. ArchPC' = ArchPC
  BY <1>a, <1>2, <1>3 DEF ArchPC
<1> QED BY <1>a, <1>2, <1>4 DEF Stutters

\* The redirection happens to instructions exec has not run.
LEMMA RedirectStutters ==
  ASSUME TypeInv, StallInv, FetchOrder, OperandInv, CycleInv, EndAddress = nullopt, Redirect
  PROVE  Stutters
<1>a. /\ phase = "PC" /\ phase' = "IF" /\ Status = "run"
      /\ Except = nullopt /\ Except' = nullopt /\ BranchPC' = nullopt /\ InvalidStages' = {}
      /\ UNCHANGED <<Mode, GPRegs, States, Mem, PCs, EXVal, MAVal>>
      /\ \A s \in STAGES : Insts'[s] = IF s \in InvalidStages THEN nullptr ELSE Insts[s]
  BY DEF Redirect, At, Goto, latches, arch, TypeInv, ExceptionInEX
<1>b. InvalidStages \subseteq {DE, IFs}
  BY DEF OperandInv, FlushesYoung
<1>c. Insts'[MA] = Insts[MA] /\ Insts'[EX] = Insts[EX]
  BY <1>a, <1>b, StageFacts
<1>1. Status' = "run"
  <2>1. \E s \in STAGES : Insts[s] # nullptr /\ s \notin InvalidStages
    <3>1. /\ \E s \in STAGES : ~Empty(s)
          /\ DE \in InvalidStages => ~Empty(EX)
          /\ IFs \in InvalidStages => ~Empty(EX) \/ ~Empty(DE)
      BY <1>a DEF CycleInv, NotDrained, FlushedBehind
    <3> QED BY <1>b, <3>1, StageFacts DEF Empty
  <2>2. \E s \in STAGES : Insts'[s] # nullptr
    BY <1>a, <2>1
  <2>3. PC' # EndAddress
    <3>1. PC' \in Word
      BY RedirectType DEF TypeInv, TypeOK
    <3> QED BY <3>1, WordFacts
  <2> QED BY <2>2, <2>3 DEF Redirect
<1>2. InEX' = InEX
  BY <1>a, <1>c DEF InEX
<1>3. UNCHANGED <<ArchGPRegs, ArchStates, ArchMem, ArchStatus>> /\ WillFail' = WillFail
  BY <1>a, <1>1, <1>2, <1>c, RestSame
<1>4. Upcoming' = IF BranchPC # nullopt THEN BranchPC ELSE Upcoming
  <2>1. /\ BranchPC # nullopt => {DE, IFs} \subseteq InvalidStages
        /\ BranchPredPC # nullopt => BranchPC # nullopt \/ Live(DE)
    BY <1>a DEF FetchOrder, RedirectionsFlush, CycleInv, PredictionBehind
  <2>2. /\ BranchPC # nullopt => PC' = BranchPC
        /\ BranchPC = nullopt /\ BranchPredPC = nullopt => PC' = PC
    BY DEF Redirect
  <2>3. \A s \in {DE, IFs} : Live(s)' = Live(s)
    BY <1>a, StageFacts DEF Live, Empty
  <2> QED BY <1>a, <2>1, <2>2, <2>3 DEF Upcoming, Live
<1>5. ArchPC' = ArchPC
  BY <1>a, <1>1, <1>3, <1>4 DEF ArchPC
<1> QED BY <1>a, <1>3, <1>5 DEF Stutters

(* exec at an instruction finds the golden model in front of the same one. *)
LEMMA GoldenAt ==
  ASSUME TypeInv, CycleInv, CodeUntouched, Status = "run", ~Empty(EX),
         phase = "EX" \/ (phase = "XC" /\ Except # nullopt), NEW w, w = Insts[EX]
  PROVE  /\ w \in Code /\ InEX = nullptr /\ InMA = Insts[MA] /\ ~WillFail
         /\ ArchStatus = "run" /\ ArchPC = PCs[EX] /\ ArchMem = Mem
         /\ Golden!Inst = w
         /\ \A kinds : Mnemo(w) \in kinds => Golden!Fetched(kinds)
         /\ Golden!NextPC = Wrap(PCs[EX] + 4)
         /\ Golden!Rs1Val = ArchGPRegs[Rs1(w)] /\ Golden!Rs2Val = ArchGPRegs[Rs2(w)]
         /\ Golden!Ad = Wrap(ArchGPRegs[Rs1(w)] + Imm(w))
<1>1. InEX = nullptr /\ InMA = Insts[MA]
  BY DEF InEX, InMA
<1>2. ~WillFail /\ ArchStatus = "run" /\ ArchMem = Mem
  BY <1>1 DEF WillFail, ArchStatus, ArchMem
<1>3. ArchPC = PCs[EX]
  BY <1>2 DEF ArchPC
<1>4. w \in Code /\ Access(PCs[EX], 4) = "ok"
  BY StageFacts DEF TypeInv, TypeOK, Empty, CycleInv, FetchedInDRAM
<1>5. readWord(Mem, PCs[EX]) = w
  BY DEF CodeUntouched
<1>6. Golden!Inst = w
  BY <1>2, <1>3, <1>5, SameMemory DEF Golden!Inst
<1>7. \A kinds : Mnemo(w) \in kinds => Golden!Fetched(kinds)
  BY <1>2, <1>3, <1>4, <1>6, SameMemory, SameDecoding DEF Golden!Fetched
<1>8. Golden!NextPC = Wrap(PCs[EX] + 4)
  BY <1>3, SameValues DEF Golden!NextPC
<1>9. Golden!Rs1Val = ArchGPRegs[Rs1(w)] /\ Golden!Rs2Val = ArchGPRegs[Rs2(w)]
  BY <1>6, SameDecoding DEF Golden!Rs1Val, Golden!Rs2Val
<1>10. Golden!Ad = Wrap(ArchGPRegs[Rs1(w)] + Imm(w))
  BY <1>6, <1>9, SameDecoding, SameValues DEF Golden!Ad
<1> QED BY <1>1, <1>2, <1>3, <1>4, <1>6, <1>7, <1>8, <1>9, <1>10

(* What exec latches is what the instruction does.                         *)
LEMMA ExecEffect ==
  ASSUME TypeInv, phase = "EX", phase' = "DE", Status = "run", ~Empty(EX),
         NEW w, w = Insts[EX],
         UNCHANGED <<Mode, GPRegs, Mem, Insts, PCs, MAVal, Status, Except>>
  PROVE  /\ MemFails(w, EXVal') =>
              /\ UNCHANGED <<ArchGPRegs, ArchMem>> /\ ArchPC' = PCs[EX]
              /\ ArchStatus' = Access(EXVal'.rd, Width(Mnemo(w)))
         /\ ~MemFails(w, EXVal') =>
              /\ ArchGPRegs' = Overlay(ArchGPRegs, WritesRd(w), Rd(w), MemResult(w, EXVal'))
              /\ ArchMem' = MemWritten(w, EXVal')
              /\ ArchPC' = IF BranchPC' # nullopt THEN BranchPC' ELSE Upcoming'
              /\ ArchStatus' = "run"
         /\ States' = States =>
              ArchStates' = Overlay(ArchStates, WritesCsr(w), CsrOf(EXVal'.imm), EXVal'.csr)
<1>1. Except = nullopt /\ Except' = nullopt /\ Status' = "run"
  BY DEF TypeInv, ExceptionInEX
<1>2. InEX = nullptr /\ InMA = Insts[MA] /\ InEX' = w /\ InMA' = Insts[MA] /\ w # nullptr
  BY <1>1 DEF InEX, InMA, Empty
<1>3. ~WillFail /\ (WillFail' <=> MemFails(w, EXVal'))
  BY <1>2 DEF WillFail, MemFails, Printed
<1>4. ~WritesRd(InEX) /\ ~WritesCsr(InEX)
  BY <1>2 DEF WritesRd, WritesCsr
<1>5. ArchGPRegs = Overlay(GPRegs, WritesRd(InMA), Rd(InMA), MAVal.rd)
  BY <1>3, <1>4 DEF ArchGPRegs, Overlay
<1>6. ArchGPRegs' = IF MemFails(w, EXVal') THEN ArchGPRegs
                    ELSE Overlay(ArchGPRegs, WritesRd(w), Rd(w), MemResult(w, EXVal'))
  BY <1>2, <1>3, <1>5 DEF ArchGPRegs, MemResult, Printed
<1>7. ArchMem = Mem /\ ArchMem' = IF MemFails(w, EXVal') THEN Mem ELSE MemWritten(w, EXVal')
  BY <1>2, <1>3 DEF ArchMem, MemWritten, Printed
<1>8. ArchStatus' = IF MemFails(w, EXVal') THEN Access(EXVal'.rd, Width(Mnemo(w))) ELSE "run"
  BY <1>1, <1>2, <1>3 DEF ArchStatus
<1>9. ArchPC' = IF MemFails(w, EXVal') THEN PCs[EX]
                ELSE IF BranchPC' # nullopt THEN BranchPC' ELSE Upcoming'
  BY <1>1, <1>3 DEF ArchPC
<1>10. ASSUME States' = States
       PROVE  ArchStates' = Overlay(ArchStates, WritesCsr(w), CsrOf(EXVal'.imm), EXVal'.csr)
  <2>1. ArchStates = Overlay(States, WritesCsr(InMA), CsrOf(MAVal.imm), MAVal.csr)
    BY <1>4 DEF ArchStates, Overlay
  <2> QED BY <1>2, <1>10, <2>1 DEF ArchStates
<1> QED BY <1>6, <1>7, <1>8, <1>9, <1>10

\* Behind an instruction that redirects nothing comes the next word.
LEMMA NextInstruction ==
  ASSUME FetchOrder, phase = "EX", Status = "run", ~Empty(EX), ~Holds(EX, BTypeKinds),
         UNCHANGED <<Insts, PCs, InvalidStages, PC, BranchPC>>
  PROVE  BranchPC' = nullopt /\ Upcoming' = Wrap(PCs[EX] + 4)
<1>1. BranchPC = nullopt /\ Upcoming = Wrap(PCs[EX] + 4)
  BY DEF FetchOrder, RedirectionsFlush, NextBehindEX, Follow
<1> QED BY <1>1 DEF Upcoming, Live, Empty

\* What exec works on is what the golden model reads.
ExecInv == TypeInv /\ FetchOrder /\ CycleInv /\ OperandInv /\ OperandsArchitectural

\* The operands in DEVal are the golden model's (OperandsArchitectural), the immediate too.
LEMMA ExecReads ==
  ASSUME ExecInv, phase = "EX", Status = "run", ~Empty(EX), NEW w, w = Insts[EX]
  PROVE  /\ DEVal.rs1 \in Word /\ DEVal.rs2 \in Word /\ DEVal.imm \in Word
         /\ ReadsRs1(w) => DEVal.rs1 = ArchGPRegs[Rs1(w)]
         /\ ReadsRs2(w) => DEVal.rs2 = ArchGPRegs[Rs2(w)]
         /\ Mnemo(w) \notin RTypeKinds => DEVal.imm = Imm(w)
         /\ Mnemo(w) \in CSR_INSTs => DEVal.csr = ArchStates[CsrOf(Imm(w))]
         /\ Mnemo(w) \in CSRImm => DEVal.rs1 = Rs1(w)
<1>1. OperandsOf(w)
  BY DEF ExecInv, OperandInv, OperandsReady, DecodedEX
<1>2. DEVal.rs1 \in Word /\ DEVal.rs2 \in Word /\ DEVal.imm \in Word
  BY ExecOperands DEF ExecInv, TypeInv
<1> QED BY <1>1, <1>2 DEF ExecInv, OperandsArchitectural, OperandsOf, ReadsRs1, ReadsRs2

\* The latches of a result.
LEMMA Latched ==
  ASSUME TypeOK, NEW rd, NEW csr, Latch(rd, csr)
  PROVE  EXVal'.rd = rd /\ EXVal'.csr = csr /\ EXVal'.imm = DEVal.imm
  BY DEF Latch, TypeOK

\* memoryaccess passes the results of all other kinds on.
LEMMA NoAccess ==
  ASSUME NEW w, NEW v, Mnemo(w) \notin Loads \cup STypeKinds
  PROVE  ~MemFails(w, v) /\ MemResult(w, v) = v.rd /\ MemWritten(w, v) = Mem
  BY DEF MemFails, MemResult, MemWritten

-----------------------------------------------------------------------------
\* execData is Data: one result, the same arithmetic, on to the next word.
LEMMA DataSimulates ==
  ASSUME ExecInv, CodeUntouched, SameArithmetic, execData
  PROVE  Golden!Data
<1> PICK w : w = Insts[EX]
  OBVIOUS
<1>a. /\ phase = "EX" /\ phase' = "DE" /\ Status = "run" /\ ~Empty(EX)
      /\ Mnemo(w) \in AluImm \cup RTypeKinds
      /\ UNCHANGED <<Mode, GPRegs, States, Mem, Insts, PCs, InvalidStages, MAVal, Status, Except,
                     PC, BranchPC>>
  BY DEF execData, Exec, Holds, At, Goto, Empty, arch, stages, control
<1>b. TypeInv /\ TypeOK /\ FetchOrder /\ CycleInv
  BY DEF ExecInv, TypeInv
<1>c. /\ w \in Code /\ ArchStatus = "run" /\ ArchPC = PCs[EX] /\ ArchMem = Mem
      /\ Golden!Inst = w /\ Golden!Fetched(Golden!AluImm \cup Golden!RTypeKinds)
      /\ Golden!NextPC = Wrap(PCs[EX] + 4)
      /\ Golden!Rs1Val = ArchGPRegs[Rs1(w)] /\ Golden!Rs2Val = ArchGPRegs[Rs2(w)]
  BY <1>a, <1>b, GoldenAt, SameKinds
<1>d. /\ Mnemo(w) \notin Loads \cup STypeKinds \cup BTypeKinds \cup CSR_INSTs
      /\ HasRs1(w) /\ Mnemo(w) \notin CSRImm
      /\ Mnemo(w) \in RTypeKinds <=> HasRs2(w)
  BY <1>a DEF AluImm, RTypeKinds, Loads, STypeKinds, BTypeKinds, CSR_INSTs, CSRImm, HasRs1,
     HasRs2, ITypeKinds, UTypeKinds, JTypeKinds, System
<1> DEFINE b == IF Mnemo(w) \in RTypeKinds THEN DEVal.rs2 ELSE DEVal.imm
<1>1. /\ DEVal.rs1 = ArchGPRegs[Rs1(w)]
      /\ b = IF Mnemo(w) \in RTypeKinds THEN ArchGPRegs[Rs2(w)] ELSE Imm(w)
      /\ DEVal.rs1 \in Word /\ b \in Word
  BY <1>a, <1>d, ExecReads DEF ReadsRs1, ReadsRs2
<1>2. EXVal'.rd = Alu(Mnemo(w), DEVal.rs1, b)
  <2>1. Latch(Alu(Mnemo(w), DEVal.rs1, b), 0)
    BY DEF execData, Op
  <2> QED BY <1>b, <2>1, Latched
<1> HIDE DEF b
<1>3. SimAlu(Mnemo(w), DEVal.rs1, b) = Alu(Mnemo(w), DEVal.rs1, b)
  BY <1>1, <1>a, <1>c DEF SameArithmetic
<1>4. /\ ArchGPRegs' = Overlay(ArchGPRegs, WritesRd(w), Rd(w), EXVal'.rd)
      /\ ArchMem' = ArchMem /\ ArchStatus' = "run" /\ ArchPC' = Wrap(PCs[EX] + 4)
      /\ ArchStates' = ArchStates
  <2>1. ~MemFails(w, EXVal') /\ MemResult(w, EXVal') = EXVal'.rd /\ MemWritten(w, EXVal') = Mem
    BY <1>d, NoAccess
  <2>2. BranchPC' = nullopt /\ Upcoming' = Wrap(PCs[EX] + 4)
    BY <1>a, <1>b, <1>d, NextInstruction DEF Holds
  <2>3. ~WritesCsr(w)
    BY <1>d DEF WritesCsr
  <2> QED BY <1>a, <1>b, <1>c, <2>1, <2>2, <2>3, ExecEffect DEF Overlay
<1>5. WritesRd(w) <=> Rd(w) # 0
  BY <1>a, <1>d DEF WritesRd, Empty
<1>6. Golden!write(Rd(w), SimAlu(Mnemo(w), DEVal.rs1, b))
  BY <1>2, <1>3, <1>4, <1>5 DEF Golden!write, Overlay
<1> QED
  BY <1>a, <1>c, <1>1, <1>4, <1>6, SameDecoding, SameKinds DEF Golden!Data

\* execUpper is Upper: auipc and lui.
LEMMA UpperSimulates ==
  ASSUME ExecInv, CodeUntouched, execUpper
  PROVE  Golden!Upper
<1> PICK w : w = Insts[EX]
  OBVIOUS
<1>a. /\ phase = "EX" /\ phase' = "DE" /\ Status = "run" /\ ~Empty(EX)
      /\ Mnemo(w) \in UTypeKinds
      /\ UNCHANGED <<Mode, GPRegs, States, Mem, Insts, PCs, InvalidStages, MAVal, Status, Except,
                     PC, BranchPC>>
  BY DEF execUpper, Exec, Holds, At, Goto, Empty, arch, stages, control
<1>b. TypeInv /\ TypeOK /\ FetchOrder /\ CycleInv
  BY DEF ExecInv, TypeInv
<1>c. /\ w \in Code /\ ArchStatus = "run" /\ ArchPC = PCs[EX] /\ ArchMem = Mem
      /\ Golden!Inst = w /\ Golden!Fetched(Golden!UTypeKinds)
      /\ Golden!NextPC = Wrap(PCs[EX] + 4)
  BY <1>a, <1>b, GoldenAt, SameKinds
<1>d. /\ Mnemo(w) \notin Loads \cup STypeKinds \cup BTypeKinds \cup CSR_INSTs
      /\ Mnemo(w) \notin RTypeKinds
  BY <1>a DEF UTypeKinds, RTypeKinds, Loads, STypeKinds, BTypeKinds, CSR_INSTs, CSRImm
<1>1. DEVal.imm = Imm(w)
  BY <1>a, <1>d, ExecReads
<1>2. EXVal'.rd = Wrap((IF Mnemo(w) = "auipc" THEN PCs[EX] ELSE 0) + Imm(w) * UImmUnit)
  <2>1. Latch(Wrap((IF Mnemo(w) = "auipc" THEN PCs[EX] ELSE 0) + Imm(w) * UImmUnit), 0)
    BY <1>1 DEF execUpper, Op
  <2> QED BY <1>b, <2>1, Latched
<1>3. /\ ArchGPRegs' = Overlay(ArchGPRegs, WritesRd(w), Rd(w), EXVal'.rd)
      /\ ArchMem' = ArchMem /\ ArchStatus' = "run" /\ ArchPC' = Wrap(PCs[EX] + 4)
      /\ ArchStates' = ArchStates
  <2>1. ~MemFails(w, EXVal') /\ MemResult(w, EXVal') = EXVal'.rd /\ MemWritten(w, EXVal') = Mem
    BY <1>d, NoAccess
  <2>2. BranchPC' = nullopt /\ Upcoming' = Wrap(PCs[EX] + 4)
    BY <1>a, <1>b, <1>d, NextInstruction DEF Holds
  <2>3. ~WritesCsr(w)
    BY <1>d DEF WritesCsr
  <2> QED BY <1>a, <1>b, <1>c, <2>1, <2>2, <2>3, ExecEffect DEF Overlay
<1>4. WritesRd(w) <=> Rd(w) # 0
  BY <1>a, <1>d DEF WritesRd, Empty
<1>5. Golden!write(Rd(w), EXVal'.rd)
  BY <1>3, <1>4 DEF Golden!write, Overlay
<1> QED
  BY <1>a, <1>c, <1>2, <1>3, <1>5, SameDecoding, SameKinds, SameValues DEF Golden!Upper

\* execJump is Jal or Jalr: its redirection is the next program counter.
LEMMA JumpSimulates ==
  ASSUME ExecInv, CodeUntouched, SameExecution, execJump
  PROVE  Golden!Jal \/ Golden!Jalr
<1> PICK w : w = Insts[EX]
  OBVIOUS
<1>a. /\ phase = "EX" /\ phase' = "DE" /\ Status = "run" /\ ~Empty(EX)
      /\ Mnemo(w) \in {"jal", "jalr"}
      /\ UNCHANGED <<Mode, GPRegs, States, Mem, Insts, PCs, MAVal, Status, Except>>
  BY DEF execJump, Exec, Holds, At, Goto, Empty, arch
<1>b. TypeInv /\ TypeOK /\ FetchOrder /\ CycleInv
  BY DEF ExecInv, TypeInv
<1>c. /\ w \in Code /\ ArchStatus = "run" /\ ArchPC = PCs[EX] /\ ArchMem = Mem
      /\ Golden!Inst = w /\ Golden!Fetched({Mnemo(w)})
      /\ Golden!NextPC = Wrap(PCs[EX] + 4)
      /\ Golden!Ad = Wrap(ArchGPRegs[Rs1(w)] + Imm(w))
  BY <1>a, <1>b, GoldenAt
<1>d. /\ Mnemo(w) \notin Loads \cup STypeKinds \cup BTypeKinds \cup CSR_INSTs
      /\ Mnemo(w) \notin RTypeKinds
      /\ Mnemo(w) = "jalr" => ReadsRs1(w)
  BY <1>a DEF UTypeKinds, JTypeKinds, RTypeKinds, Loads, STypeKinds, BTypeKinds, CSR_INSTs,
     CSRImm, ReadsRs1, HasRs1
<1>1. DEVal.imm = Imm(w) /\ (Mnemo(w) = "jalr" => DEVal.rs1 = ArchGPRegs[Rs1(w)])
  BY <1>a, <1>d, ExecReads
<1>2. EXVal'.rd = Wrap(PCs[EX] + 4)
  <2>1. Latch(Wrap(PCs[EX] + 4), 0)
    BY DEF execJump
  <2> QED BY <1>b, <2>1, Latched
<1>3. /\ ArchGPRegs' = Overlay(ArchGPRegs, WritesRd(w), Rd(w), EXVal'.rd)
      /\ ArchMem' = ArchMem /\ ArchStatus' = "run" /\ ArchPC' = BranchPC'
      /\ ArchStates' = ArchStates
  <2>1. ~MemFails(w, EXVal') /\ MemResult(w, EXVal') = EXVal'.rd /\ MemWritten(w, EXVal') = Mem
    BY <1>d, NoAccess
  <2>2. BranchPC' # nullopt
    BY <1>b, StepTargets, WordFacts DEF execJump
  <2>3. ~WritesCsr(w)
    BY <1>d DEF WritesCsr
  <2> QED BY <1>a, <1>b, <1>c, <2>1, <2>2, <2>3, ExecEffect DEF Overlay
<1>4. WritesRd(w) <=> Rd(w) # 0
  BY <1>a, <1>d DEF WritesRd, Empty
<1>5. Golden!write(Rd(w), Wrap(PCs[EX] + 4))
  BY <1>2, <1>3, <1>4 DEF Golden!write, Overlay
<1>6. CASE Mnemo(w) = "jal"
  <2>1. BranchPC' = Wrap(PCs[EX] + Imm(w))
    BY <1>1, <1>6 DEF execJump, Op
  <2> QED
    BY <1>a, <1>c, <1>3, <1>5, <1>6, <2>1, SameDecoding, SameValues DEF Golden!Jal
<1>7. CASE Mnemo(w) = "jalr"
  <2>1. BranchPC' = Wrap(DEVal.rs1 + DEVal.imm)
    BY <1>7 DEF execJump, Op
  <2>2. ClearBit0(Wrap(DEVal.rs1 + DEVal.imm)) = Wrap(DEVal.rs1 + DEVal.imm)
    BY <1>a, <1>7 DEF SameExecution, Holds, Empty
  <2>3. BranchPC' = ClearBit0(Golden!Ad)
    BY <1>c, <1>1, <1>7, <2>1, <2>2
  <2> QED
    BY <1>a, <1>c, <1>3, <1>5, <1>7, <2>3, SameDecoding, SameValues DEF Golden!Jalr
<1> QED BY <1>a, <1>6, <1>7

\* execLoad is Load, or Fail where memoryaccess is going to fail.
LEMMA LoadSimulates ==
  ASSUME ExecInv, CodeUntouched, SameExecution, execLoad
  PROVE  Golden!Load \/ Golden!Fail
<1> PICK w : w = Insts[EX]
  OBVIOUS
<1>a. /\ phase = "EX" /\ phase' = "DE" /\ Status = "run" /\ ~Empty(EX)
      /\ Mnemo(w) \in Loads
      /\ UNCHANGED <<Mode, GPRegs, States, Mem, Insts, PCs, InvalidStages, MAVal, Status, Except,
                     PC, BranchPC>>
  BY DEF execLoad, Exec, Holds, At, Goto, Empty, arch, control
<1>b. TypeInv /\ TypeOK /\ FetchOrder /\ CycleInv
  BY DEF ExecInv, TypeInv
<1>c. /\ w \in Code /\ ArchStatus = "run" /\ ArchPC = PCs[EX] /\ ArchMem = Mem
      /\ Golden!Inst = w /\ Golden!Fetched(Golden!Loads)
      /\ Golden!Fetched(Golden!Loads \cup Golden!STypeKinds)
      /\ Golden!NextPC = Wrap(PCs[EX] + 4)
      /\ Golden!Ad = Wrap(ArchGPRegs[Rs1(w)] + Imm(w))
  BY <1>a, <1>b, GoldenAt, SameKinds
<1>d. /\ Mnemo(w) \notin STypeKinds \cup BTypeKinds \cup CSR_INSTs
      /\ Mnemo(w) \notin RTypeKinds /\ ReadsRs1(w)
  BY <1>a DEF UTypeKinds, JTypeKinds, RTypeKinds, Loads, STypeKinds, BTypeKinds, CSR_INSTs,
     CSRImm, ReadsRs1, HasRs1
<1> PICK ad : ad = Golden!Ad
  OBVIOUS
<1>1. ad = Wrap(DEVal.rs1 + DEVal.imm)
  BY <1>a, <1>c, <1>d, ExecReads
<1>2. EXVal'.rd = ad
  <2>1. Latch(ad, 0)
    BY <1>1 DEF execLoad
  <2> QED BY <1>b, <2>1, Latched
<1>3. ~Printed(ad)
  BY <1>a, <1>1 DEF SameExecution, Holds, Empty
<1>4. /\ MemFails(w, EXVal') <=> Access(ad, Width(Mnemo(w))) # "ok"
      /\ MemResult(w, EXVal') = LoadValue(Mnemo(w), Mem, ad)
      /\ MemWritten(w, EXVal') = Mem
  BY <1>a, <1>d, <1>2, <1>3 DEF MemFails, MemResult, MemWritten
<1>5. ~WritesCsr(w) /\ (WritesRd(w) <=> Rd(w) # 0)
  BY <1>a, <1>d DEF WritesCsr, WritesRd, Empty
<1>6. ArchStates' = ArchStates
  BY <1>a, <1>b, <1>5, ExecEffect DEF Overlay
<1>7. CASE Access(ad, Width(Mnemo(w))) = "ok"
  <2>1. BranchPC' = nullopt /\ Upcoming' = Wrap(PCs[EX] + 4)
    BY <1>a, <1>b, <1>d, NextInstruction DEF Holds
  <2>2. /\ ArchGPRegs' = Overlay(ArchGPRegs, WritesRd(w), Rd(w), LoadValue(Mnemo(w), Mem, ad))
        /\ ArchMem' = ArchMem /\ ArchStatus' = "run" /\ ArchPC' = Wrap(PCs[EX] + 4)
    BY <1>a, <1>b, <1>c, <1>4, <1>7, <2>1, ExecEffect
  <2>3. Golden!write(Rd(w), LoadValue(Mnemo(w), Mem, ad))
    BY <1>5, <2>2 DEF Golden!write, Overlay
  <2>4. Golden!Load
    BY <1>a, <1>c, <1>6, <1>7, <2>2, <2>3, SameDecoding, SameMemory DEF Golden!Load
  <2> QED BY <2>4
<1>8. CASE Access(ad, Width(Mnemo(w))) # "ok"
  <2>1. /\ UNCHANGED <<ArchGPRegs, ArchMem, ArchPC>>
        /\ ArchStatus' = Access(ad, Width(Mnemo(w)))
    BY <1>a, <1>b, <1>c, <1>2, <1>4, <1>8, ExecEffect
  <2>2. Golden!Fail
    BY <1>a, <1>c, <1>d, <1>6, <1>8, <2>1, SameDecoding, SameMemory, SameKinds DEF Golden!Fail
  <2> QED BY <2>2
<1> QED BY <1>7, <1>8

\* execStore is Store or StorePrinted, or Fail where memoryaccess is going to fail.
LEMMA StoreSimulates ==
  ASSUME ExecInv, CodeUntouched, execStore
  PROVE  Golden!Store \/ Golden!StorePrinted \/ Golden!Fail
<1> PICK w : w = Insts[EX]
  OBVIOUS
<1>a. /\ phase = "EX" /\ phase' = "DE" /\ Status = "run" /\ ~Empty(EX)
      /\ Mnemo(w) \in STypeKinds
      /\ UNCHANGED <<Mode, GPRegs, States, Mem, Insts, PCs, InvalidStages, MAVal, Status, Except,
                     PC, BranchPC>>
  BY DEF execStore, Exec, Holds, At, Goto, Empty, arch, control, stages
<1>b. TypeInv /\ TypeOK /\ FetchOrder /\ CycleInv
  BY DEF ExecInv, TypeInv
<1>c. /\ w \in Code /\ ArchStatus = "run" /\ ArchPC = PCs[EX] /\ ArchMem = Mem
      /\ Golden!Inst = w /\ Golden!Fetched(Golden!STypeKinds)
      /\ Golden!Fetched(Golden!Loads \cup Golden!STypeKinds)
      /\ Golden!NextPC = Wrap(PCs[EX] + 4)
      /\ Golden!Ad = Wrap(ArchGPRegs[Rs1(w)] + Imm(w)) /\ Golden!Rs2Val = ArchGPRegs[Rs2(w)]
  BY <1>a, <1>b, GoldenAt, SameKinds
<1>d. /\ Mnemo(w) \notin Loads \cup BTypeKinds \cup CSR_INSTs
      /\ Mnemo(w) \notin RTypeKinds /\ ReadsRs1(w) /\ ReadsRs2(w)
  BY <1>a DEF UTypeKinds, JTypeKinds, RTypeKinds, Loads, STypeKinds, BTypeKinds, CSR_INSTs,
     CSRImm, ReadsRs1, HasRs1, ReadsRs2, HasRs2, ITypeKinds, AluImm, System
<1> PICK ad, v : ad = Golden!Ad /\ v = Golden!Rs2Val
  OBVIOUS
<1>1. ad = Wrap(DEVal.rs1 + DEVal.imm) /\ v = DEVal.rs2
  BY <1>a, <1>c, <1>d, ExecReads
<1>2. EXVal'.rd = ad /\ EXVal'.rs2 = v
  BY <1>1 DEF execStore
<1>3. /\ MemFails(w, EXVal') <=> ~Printed(ad) /\ Access(ad, Width(Mnemo(w))) # "ok"
      /\ MemResult(w, EXVal') = ad
      /\ MemWritten(w, EXVal') = IF Printed(ad) THEN Mem ELSE StoreValue(Mnemo(w), Mem, ad, v)
  BY <1>a, <1>d, <1>2 DEF MemFails, MemResult, MemWritten
<1>4. ~WritesCsr(w) /\ ~WritesRd(w)
  BY <1>a, <1>d DEF WritesCsr, WritesRd
<1>5. ArchStates' = ArchStates
  BY <1>a, <1>b, <1>4, ExecEffect DEF Overlay
<1>6. Printed(ad) <=> ad = MMIO \/ Mode = Golden!Epilogue
  BY DEF Printed, Epilogue, Golden!Epilogue
<1>7. CASE ~MemFails(w, EXVal')
  <2>1. BranchPC' = nullopt /\ Upcoming' = Wrap(PCs[EX] + 4)
    BY <1>a, <1>b, <1>d, NextInstruction DEF Holds
  <2>2. /\ ArchGPRegs' = ArchGPRegs
        /\ ArchMem' = IF Printed(ad) THEN Mem ELSE StoreValue(Mnemo(w), Mem, ad, v)
        /\ ArchStatus' = "run" /\ ArchPC' = Wrap(PCs[EX] + 4)
    BY <1>a, <1>b, <1>3, <1>4, <1>7, <2>1, ExecEffect DEF Overlay
  <2>3. CASE Printed(ad)
    BY <1>a, <1>c, <1>5, <1>6, <2>2, <2>3 DEF Golden!StorePrinted
  <2>4. CASE ~Printed(ad)
    BY <1>a, <1>c, <1>3, <1>5, <1>6, <1>7, <2>2, <2>4, SameDecoding, SameMemory
       DEF Golden!Store
  <2> QED BY <2>3, <2>4
<1>8. CASE MemFails(w, EXVal')
  <2>1. /\ UNCHANGED <<ArchGPRegs, ArchMem, ArchPC>>
        /\ ArchStatus' = Access(ad, Width(Mnemo(w)))
    BY <1>a, <1>b, <1>c, <1>2, <1>8, ExecEffect
  <2>2. Golden!Fail
    BY <1>a, <1>c, <1>3, <1>5, <1>6, <1>8, <2>1, SameDecoding, SameMemory DEF Golden!Fail
  <2> QED BY <2>2
<1> QED BY <1>7, <1>8

\* CSR numbers are the same before and after the cast of the immediate.
LEMMA CsrOfWrapped == \A v \in Int : CsrOf(Wrap(v)) = v % CSR_SIZE
<1> SUFFICES ASSUME NEW v \in Int PROVE CsrOf(Wrap(v)) = v % CSR_SIZE
  OBVIOUS
<1>1. WordSize \in Nat \ {0} /\ WordSize % 32 = 0
  BY Sizes, ByteAssumption
<1>2. PICK k \in Nat : WordSize = 32 * k
  BY <1>1, SMT
<1>3. PICK q \in Int, r \in Nat : v = (32 * k) * q + r /\ r = v % WordSize
  <2>1. v = WordSize * (v \div WordSize) + (v % WordSize)
    <3> HIDE DEF WordSize
    <3> QED BY <1>1, SMT
  <2>2. v \div WordSize \in Int /\ v % WordSize \in Nat
    <3> HIDE DEF WordSize
    <3> QED BY <1>1, SMT
  <2> QED BY <1>2, <2>1, <2>2
<1>4. PICK m \in Int : m = k * q
  BY SMT
<1>5. v = 32 * m + r
  BY <1>3, <1>4, SMT
<1>6. v % 8 = r % 8
  BY <1>5, SMT
<1> QED BY <1>3, <1>6 DEF CsrOf, Wrap, CSR_SIZE

\* execCsr is Csr: old value to rd, new value to the CSR.
LEMMA CsrSimulates ==
  ASSUME ExecInv, CodeUntouched, SameArithmetic, SameExecution, execCsr
  PROVE  Golden!Csr
<1> PICK w : w = Insts[EX]
  OBVIOUS
<1>a. /\ phase = "EX" /\ phase' = "DE" /\ Status = "run" /\ ~Empty(EX)
      /\ Mnemo(w) \in CSR_INSTs
      /\ UNCHANGED <<Mode, GPRegs, States, Mem, Insts, PCs, InvalidStages, MAVal, Status, Except,
                     PC, BranchPC>>
  BY DEF execCsr, Exec, Holds, At, Goto, Empty, arch, stages, control
<1>b. TypeInv /\ TypeOK /\ FetchOrder /\ CycleInv
  BY DEF ExecInv, TypeInv
<1>c. /\ w \in Code /\ ArchStatus = "run" /\ ArchPC = PCs[EX] /\ ArchMem = Mem
      /\ Golden!Inst = w /\ Golden!Fetched(Golden!CSR_INSTs)
      /\ Golden!NextPC = Wrap(PCs[EX] + 4)
      /\ Golden!Rs1Val = ArchGPRegs[Rs1(w)]
  BY <1>a, <1>b, GoldenAt, SameKinds
<1>d. /\ Mnemo(w) \notin Loads \cup STypeKinds \cup BTypeKinds \cup RTypeKinds
      /\ HasRs1(w) /\ (Mnemo(w) \notin CSRImm => ReadsRs1(w))
  BY <1>a DEF RTypeKinds, Loads, STypeKinds, BTypeKinds, CSR_INSTs, CSRImm, HasRs1, ReadsRs1,
     UTypeKinds, JTypeKinds
<1>e. Mnemo(w) \in {"csrrw", "csrrwi", "csrrs", "csrrsi"}
  BY <1>a DEF SameExecution, Holds, Empty, CSR_INSTs, CSRImm
<1> DEFINE src == IF Mnemo(w) \in CSRImm THEN Rs1(w) ELSE ArchGPRegs[Rs1(w)]
           cv  == ArchStates[CsrOf(Imm(w))]
           new == IF Mnemo(w) \in {"csrrw", "csrrwi"} THEN src ELSE Alu("csrrs", cv, src)
<1>1. /\ DEVal.rs1 = src /\ DEVal.csr = cv /\ DEVal.imm = Imm(w)
      /\ src \in Word /\ cv \in Word
  <2>1. DEVal.csr \in Word
    BY <1>b, ExecOperands
  <2> QED BY <1>a, <1>d, <2>1, ExecReads
<1>2. EXVal'.rd = cv /\ EXVal'.csr = new /\ EXVal'.imm = Imm(w)
  <2>1. Latch(cv, new)
    BY <1>1, <1>e DEF execCsr, Op
  <2> HIDE DEF new
  <2> QED BY <1>b, <1>1, <2>1, Latched
<1>3. new = Golden!CsrWritten(Mnemo(w), cv, src)
  <2>1. SimAlu("csrrs", cv, src) = Alu("csrrs", cv, src)
    BY <1>1 DEF SameArithmetic
  <2> HIDE DEF cv, src
  <2> QED BY <1>e, <2>1 DEF Golden!CsrWritten
<1>4. CsrOf(Imm(w)) = Decode[w].imm % Golden!CSR_SIZE
  <2>1. Decode[w].imm \in Int
    BY <1>c, DecodeAssumption
  <2> QED BY <2>1, CsrOfWrapped DEF Imm, Golden!CSR_SIZE, CSR_SIZE
<1> HIDE DEF cv, src, new
<1>5. /\ ArchGPRegs' = Overlay(ArchGPRegs, WritesRd(w), Rd(w), cv)
      /\ ArchMem' = ArchMem /\ ArchStatus' = "run" /\ ArchPC' = Wrap(PCs[EX] + 4)
      /\ ArchStates' = [ArchStates EXCEPT ![CsrOf(Imm(w))] = new]
  <2>1. ~MemFails(w, EXVal') /\ MemResult(w, EXVal') = EXVal'.rd /\ MemWritten(w, EXVal') = Mem
    BY <1>d, NoAccess
  <2>2. BranchPC' = nullopt /\ Upcoming' = Wrap(PCs[EX] + 4)
    BY <1>a, <1>b, <1>d, NextInstruction DEF Holds
  <2>3. WritesCsr(w)
    BY <1>a DEF WritesCsr, Empty
  <2> QED BY <1>a, <1>b, <1>c, <1>2, <2>1, <2>2, <2>3, ExecEffect DEF Overlay
<1>6. WritesRd(w) <=> Rd(w) # 0
  BY <1>a, <1>d DEF WritesRd, Empty
<1>7. Golden!write(Rd(w), cv)
  BY <1>5, <1>6 DEF Golden!write, Overlay
<1> QED
  BY <1>a, <1>c, <1>3, <1>4, <1>5, <1>7, SameDecoding, SameKinds DEF Golden!Csr, cv, src

\* A branch goes where the golden model goes, whatever was predicted.
LEMMA BranchSimulates ==
  ASSUME ExecInv, CodeUntouched, execBranch
  PROVE  Golden!Branch
<1> PICK w : w = Insts[EX]
  OBVIOUS
<1>a. /\ phase = "EX" /\ phase' = "DE" /\ Status = "run" /\ ~Empty(EX)
      /\ Mnemo(w) \in BTypeKinds
      /\ UNCHANGED <<Mode, GPRegs, States, Mem, Insts, PCs, MAVal, Status, Except>>
  BY DEF execBranch, Exec, Holds, At, Goto, Empty, arch
<1>b. TypeInv /\ TypeOK /\ FetchOrder /\ CycleInv
  BY DEF ExecInv, TypeInv
<1>c. /\ w \in Code /\ ArchStatus = "run" /\ ArchPC = PCs[EX] /\ ArchMem = Mem
      /\ Golden!Inst = w /\ Golden!Fetched(Golden!BTypeKinds)
      /\ Golden!NextPC = Wrap(PCs[EX] + 4)
      /\ Golden!Rs1Val = ArchGPRegs[Rs1(w)] /\ Golden!Rs2Val = ArchGPRegs[Rs2(w)]
  BY <1>a, <1>b, GoldenAt, SameKinds
<1>d. /\ Mnemo(w) \notin Loads \cup STypeKinds \cup CSR_INSTs \cup RTypeKinds
      /\ ReadsRs1(w) /\ ReadsRs2(w)
  BY <1>a DEF UTypeKinds, JTypeKinds, RTypeKinds, Loads, STypeKinds, BTypeKinds, CSR_INSTs,
     CSRImm, ReadsRs1, HasRs1, ReadsRs2, HasRs2, ITypeKinds, AluImm, System
<1> PICK cond \in BOOLEAN : cond = Taken(Mnemo(w), DEVal.rs1, DEVal.rs2)
  BY TakenType
<1>1. /\ cond = Golden!Taken(Golden!Mnemo(Golden!Inst), Golden!Rs1Val, Golden!Rs2Val)
      /\ DEVal.imm = Imm(w)
  BY <1>a, <1>c, <1>d, ExecReads, SameValues, SameDecoding
<1> DEFINE target == Wrap(PCs[EX] + Imm(w))
           next   == Wrap(PCs[EX] + 4)
<1>2. IF HasBP
      THEN IF PrevPred # cond
           THEN /\ BranchPC' = IF cond THEN target ELSE next
                /\ Flush
                /\ UNCHANGED PC
           ELSE UNCHANGED <<BranchPC, InvalidStages, PC>>
      ELSE IF cond
           THEN PC' = target /\ Flush /\ UNCHANGED BranchPC
           ELSE UNCHANGED <<BranchPC, InvalidStages, PC>>
  BY <1>1 DEF execBranch, Op
<1>3. /\ BranchPC = nullopt
      /\ Upcoming = IF HasBP /\ PrevPred THEN target ELSE next
  BY <1>a, <1>b DEF FetchOrder, RedirectionsFlush, NextBehindEX, Follow, Holds, Empty
<1>4. target \in Word /\ next \in Word
  BY <1>b, <1>1, StepTargets
<1>5. PrevPred \in BOOLEAN
  BY <1>b DEF TypeOK
<1> HIDE DEF target, next
<1>6. (IF BranchPC' # nullopt THEN BranchPC' ELSE Upcoming') = IF cond THEN target ELSE next
  <2>1. UNCHANGED <<InvalidStages, PC>> => Upcoming' = Upcoming
    BY <1>a DEF Upcoming, Live, Empty
  <2>2. Flush => Upcoming' = PC'
    BY DEF Flush, Upcoming, Live
  <2>3. CASE HasBP /\ PrevPred # cond
    BY <1>2, <1>4, <2>3, WordFacts
  <2>4. CASE HasBP /\ PrevPred = cond
    BY <1>2, <1>3, <2>1, <2>4
  <2>5. CASE ~HasBP /\ cond
    BY <1>2, <1>3, <2>2, <2>5
  <2>6. CASE ~HasBP /\ ~cond
    BY <1>2, <1>3, <2>1, <2>6
  <2> QED BY <1>5, <2>3, <2>4, <2>5, <2>6
<1>7. /\ ArchGPRegs' = ArchGPRegs /\ ArchStates' = ArchStates
      /\ ArchMem' = ArchMem /\ ArchStatus' = "run"
      /\ ArchPC' = IF cond THEN target ELSE next
  <2>1. ~MemFails(w, EXVal') /\ MemWritten(w, EXVal') = Mem
    BY <1>d, NoAccess
  <2>2. ~WritesCsr(w) /\ ~WritesRd(w)
    BY <1>a, <1>d DEF WritesCsr, WritesRd
  <2> QED BY <1>a, <1>b, <1>c, <1>6, <2>1, <2>2, ExecEffect DEF Overlay
<1>8. ArchPC' = IF cond THEN Golden!Wrap(ArchPC + Golden!Imm(Golden!Inst)) ELSE Golden!NextPC
  BY <1>c, <1>7, SameDecoding, SameValues DEF target, next
<1>9. ArchPC' = IF Golden!Taken(Golden!Mnemo(Golden!Inst), Golden!Rs1Val, Golden!Rs2Val)
                THEN Golden!Wrap(ArchPC + Golden!Imm(Golden!Inst)) ELSE Golden!NextPC
  BY <1>1, <1>8, Zenon
<1> QED BY <1>a, <1>c, <1>7, <1>9 DEF Golden!Branch

(* The CSRs as the golden model has them, with nothing in EX.              *)
LEMMA ArchCsr ==
  ASSUME TypeInv, OperandInv, Status = "run", phase = "EX" \/ phase = "XC",
         InEX = nullptr, InMA = Insts[MA]
  PROVE  /\ ArchStates = Overlay(States, Holds(MA, CSR_INSTs), CsrOf(Imm(Insts[MA])), MAVal.csr)
         /\ \A c \in CSRAddress : ArchStates[c] = Forwarded(c)
<1>1. ArchStates = Overlay(States, WritesCsr(Insts[MA]), CsrOf(MAVal.imm), MAVal.csr)
  BY DEF ArchStates, Overlay, WritesCsr
<1>2. WritesCsr(Insts[MA]) <=> Holds(MA, CSR_INSTs)
  BY DEF WritesCsr, Holds
<1>3. Holds(MA, CSR_INSTs) => MAVal.imm = Imm(Insts[MA])
  BY DEF OperandInv, CsrNumbers
<1>4. ArchStates = Overlay(States, Holds(MA, CSR_INSTs), CsrOf(Imm(Insts[MA])), MAVal.csr)
  BY <1>1, <1>2, <1>3 DEF Overlay
<1>5. States \in [CSRAddress -> Word]
  BY DEF TypeInv, TypeOK
<1> QED BY <1>4, <1>5 DEF Overlay, Forwarded

\* execMret is Mret: the forwarded mepc and mstatus are the architectural ones.
LEMMA MretSimulates ==
  ASSUME ExecInv, CodeUntouched, SameExecution, execMret
  PROVE  Golden!Mret
<1> PICK w : w = Insts[EX]
  OBVIOUS
<1>a. /\ phase = "EX" /\ phase' = "DE" /\ Status = "run" /\ Status' = "run" /\ ~Empty(EX)
      /\ Mnemo(w) = "mret" /\ Holds(EX, {"mret"})
      /\ UNCHANGED <<GPRegs, Mem, Insts, PCs, MAVal>>
  BY DEF execMret, Exec, Holds, At, Goto, Empty
<1>b. TypeInv /\ TypeOK /\ FetchOrder /\ CycleInv /\ OperandInv
  BY DEF ExecInv, TypeInv
<1>c. /\ w \in Code /\ ArchStatus = "run" /\ ArchPC = PCs[EX] /\ ArchMem = Mem
      /\ InEX = nullptr /\ InMA = Insts[MA] /\ ~WillFail
      /\ Golden!Inst = w /\ Golden!Fetched({"mret"})
  BY <1>a, <1>b, GoldenAt
<1>d. MSTATUS \in CSRAddress /\ MEPC \in CSRAddress /\ MSTATUS # MEPC
  BY SMT DEF MSTATUS, MEPC, CSRAddress, CSR_SIZE
<1> PICK v : v = States[MSTATUS]
  OBVIOUS
<1>1. /\ ~(Holds(MA, CSR_INSTs) /\ CsrOf(Imm(Insts[MA])) = MSTATUS)
      /\ getMPP(v) # Hypervisor /\ setMPREV(v, 0) = v
  BY <1>a DEF SameExecution, NotPending
<1>2. Forwarded(MSTATUS) = v /\ ArchStates[MSTATUS] = v /\ ArchStates[MEPC] = Forwarded(MEPC)
  BY <1>a, <1>b, <1>c, <1>d, <1>1, ArchCsr DEF Forwarded
<1> DEFINE new == setMPP(setMPIE(setMIE(v, getMPIE(v)), 1), User)
<1>3. /\ Mode' = IF getMPP(v) = User THEN Mode ELSE getMPP(v)
      /\ States' = [States EXCEPT ![MSTATUS] = new]
      /\ BranchPC' = Forwarded(MEPC) /\ Except' = Except
  BY <1>1, <1>2 DEF execMret
<1> HIDE DEF new
<1>4. Except = nullopt /\ Except' = nullopt
  BY <1>a, <1>b, <1>3 DEF TypeInv, ExceptionInEX
<1>5. InEX' = w /\ InMA' = Insts[MA]
  BY <1>a, <1>4 DEF InEX, InMA
<1>6. /\ Mnemo(w) \notin Loads \cup STypeKinds \cup CSR_INSTs
      /\ Rd(w) = 0
  BY <1>a, <1>c, DecodeAssumption DEF Loads, STypeKinds, CSR_INSTs, CSRImm, System
<1>7. /\ ~WillFail' /\ ~WritesRd(InEX)' /\ ~WritesCsr(InEX)'
      /\ ~WritesRd(InEX) /\ ~WritesCsr(InEX)
  BY <1>c, <1>5, <1>6 DEF WillFail, MemFails, WritesRd, WritesCsr
<1>8. ArchStatus' = "run" /\ ArchMem' = ArchMem
  BY <1>a, <1>c, <1>5, <1>6, <1>7 DEF ArchStatus, ArchMem, MemWritten
<1>9. ArchGPRegs' = ArchGPRegs
  BY <1>a, <1>c, <1>5, <1>7 DEF ArchGPRegs, Overlay
<1>10. ArchPC' = ArchStates[MEPC]
  <2>1. BranchPC' # nullopt
    BY <1>b, <1>d, <1>3, ForwardedType, WordFacts
  <2> QED BY <1>a, <1>2, <1>3, <1>4, <1>7, <2>1 DEF ArchPC
<1>11. ArchStates' = [ArchStates EXCEPT ![MSTATUS] = new]
  <2>1. /\ ArchStates = Overlay(States, WritesCsr(Insts[MA]), CsrOf(MAVal.imm), MAVal.csr)
        /\ ArchStates' = Overlay(States', WritesCsr(Insts[MA]), CsrOf(MAVal.imm), MAVal.csr)
    BY <1>a, <1>c, <1>5, <1>7 DEF ArchStates, Overlay
  <2>2. WritesCsr(Insts[MA]) => CsrOf(MAVal.imm) # MSTATUS
    BY <1>a, <1>b, <1>1 DEF WritesCsr, OperandInv, CsrNumbers, Holds
  <2>3. States \in [CSRAddress -> Word]
    BY <1>b DEF TypeOK
  <2> PICK f, c, x : f = States /\ c = CsrOf(MAVal.imm) /\ x = MAVal.csr
    OBVIOUS
  <2>4. c # MSTATUS => [[f EXCEPT ![MSTATUS] = new] EXCEPT ![c] = x]
                         = [[f EXCEPT ![c] = x] EXCEPT ![MSTATUS] = new]
    OBVIOUS
  <2> QED BY <1>3, <2>1, <2>2, <2>4 DEF Overlay
<1>12. /\ Golden!MSTATUS = MSTATUS /\ Golden!MEPC = MEPC /\ Golden!Hypervisor = Hypervisor
       /\ Golden!User = User
  BY DEF Golden!MSTATUS, MSTATUS, Golden!MEPC, MEPC, Golden!Hypervisor, Hypervisor,
     Golden!User, User
<1>13. new = Golden!setMPP(Golden!setMPIE(Golden!setMIE(v, Golden!getMPIE(v)), 1), 0)
  BY SameValues DEF new, User
<1> QED
  BY <1>c, <1>1, <1>2, <1>3, <1>8, <1>9, <1>10, <1>11, <1>12, <1>13, SameValues
     DEF Golden!Mret

\* The instructions that wait for the end of the cycle, and the bubbles.
LEMMA ExecStutters ==
  ASSUME TypeInv, FetchOrder, execNothing \/ execRaise
  PROVE  Stutters
<1>a. /\ phase = "EX" /\ phase' = "DE" /\ Status = "run" /\ Status' = "run"
      /\ Except = nullopt /\ BranchPC = nullopt
      /\ UNCHANGED <<Mode, GPRegs, States, Mem, Insts, PCs, InvalidStages, EXVal, MAVal, PC, BranchPC>>
  <2>1. /\ phase = "EX" /\ phase' = "DE" /\ Status = "run" /\ Status' = "run"
        /\ UNCHANGED <<Mode, GPRegs, States, Mem, Insts, PCs, InvalidStages, EXVal, MAVal, PC, BranchPC>>
    BY DEF execNothing, execRaise, Exec, At, Goto, arch, stages, latches, control
  <2> QED BY <2>1 DEF TypeInv, ExceptionInEX, FetchOrder, RedirectionsFlush
<1>1. \/ Empty(EX) /\ Except' = nullopt
      \/ ~Empty(EX) /\ Except' # nullopt
  <2>1. execNothing => Empty(EX) /\ Except' = nullopt
    BY <1>a DEF execNothing, control
  <2>2. execRaise => ~Empty(EX) /\ Except' # nullopt
    BY SMT DEF execRaise, Exec, Holds, Empty, EcallCause, EnvCallU, EnvCallS, EnvCallM,
       IllegalInstruction, Breakpoint, R0, R1, nullopt
  <2> QED BY <2>1, <2>2
<1>2. InEX = nullptr /\ InEX' = nullptr
  BY <1>a, <1>1 DEF InEX, Empty
<1>3. UNCHANGED <<ArchGPRegs, ArchStates, ArchMem, ArchStatus>> /\ WillFail' = WillFail
  BY <1>a, <1>2, RestSame
<1>4. ~WillFail
  BY <1>2 DEF WillFail
<1>5. Upcoming' = Upcoming
  BY <1>a DEF Upcoming, Live, Empty
<1>6. ArchPC' = ArchPC
  BY <1>a, <1>1, <1>3, <1>4, <1>5 DEF ArchPC, Empty
<1> QED BY <1>a, <1>3, <1>6 DEF Stutters

\* What only stops the simulator in EX or XC.
LEMMA StopsSame ==
  ASSUME ~WillFail, InEX = nullptr, Status = "run", Status' = "abort",
         phase = "EX" \/ (phase = "XC" /\ Except # nullopt),
         UNCHANGED <<phase, arch, stages, latches, PC, BranchPC, Except>>
  PROVE  UNCHANGED <<ArchPC, Mode, ArchGPRegs, ArchStates, ArchMem>>
         /\ ArchStatus = "run" /\ ArchStatus' = "abort"
<1>a. UNCHANGED <<Mode, GPRegs, States, Mem, Insts, PCs, InvalidStages, EXVal, MAVal>>
  BY DEF arch, stages, latches
<1>1. InEX' = nullptr /\ InMA' = InMA
  BY <1>a DEF InEX, InMA
<1>2. ~WillFail'
  BY <1>1 DEF WillFail
<1>3. Upcoming' = Upcoming
  BY <1>a DEF Upcoming, Live, Empty
<1>4. ~WritesRd(InEX) /\ ~WritesCsr(InEX) /\ ~WritesRd(InEX)' /\ ~WritesCsr(InEX)'
  BY <1>1 DEF WritesRd, WritesCsr
<1>5. UNCHANGED <<ArchGPRegs, ArchStates, ArchMem>>
  BY <1>a, <1>1, <1>2, <1>4 DEF ArchGPRegs, ArchStates, ArchMem, Overlay
<1>6. ArchPC' = ArchPC
  BY <1>a, <1>2, <1>3 DEF ArchPC, Empty
<1>7. ArchStatus = "run" /\ ArchStatus' = "abort"
  BY <1>2 DEF ArchStatus
<1> QED BY <1>a, <1>5, <1>6, <1>7

\* uret and sret stop both simulators.
LEMMA UnimplementedSimulates ==
  ASSUME TypeInv, CycleInv, CodeUntouched, execUnimplemented
  PROVE  Golden!Fail
<1>a. /\ phase = "EX" /\ Status = "run" /\ Status' = "abort" /\ ~Empty(EX)
      /\ Mnemo(Insts[EX]) \in {"uret", "sret"}
      /\ UNCHANGED <<phase, arch, stages, latches, PC, BranchPC, Except>>
  BY DEF execUnimplemented, Holds, At, Empty
<1>b. ~WillFail /\ InEX = nullptr /\ Golden!Fetched({"uret", "sret"})
  BY <1>a, GoldenAt
<1>1. UNCHANGED <<ArchPC, Mode, ArchGPRegs, ArchStates, ArchMem>>
      /\ ArchStatus = "run" /\ ArchStatus' = "abort"
  BY <1>a, <1>b, StopsSame
<1> QED BY <1>b, <1>1 DEF Golden!Fail

\* The exception is that of the instruction in EX.
LEMMA RaisedBy ==
  ASSUME Except # nullopt, Raised, NEW w, w = Insts[EX]
  PROVE  /\ ~Empty(EX) /\ BranchPC = nullopt /\ Upcoming = Wrap(PCs[EX] + 4)
         /\ Except \in {Breakpoint, R0} => Mnemo(w) \in {"ebreak", "ext"}
         /\ Except = R1 => Mnemo(w) = "extx"
         /\ Traps => Mnemo(w) = "ecall" /\ Except = EcallCause(Mode)
<1>1. /\ Insts[EX] # nullptr /\ Mnemo(w) \in {"ecall", "ebreak", "ext", "extx"}
      /\ Except = CASE Mnemo(w) = "ecall"  -> EcallCause(Mode)
                    [] Mnemo(w) = "ebreak" -> Breakpoint
                    [] Mnemo(w) = "ext"    -> R0
                    [] OTHER               -> R1
      /\ BranchPC = nullopt /\ Upcoming = Wrap(PCs[EX] + 4)
  BY DEF Raised, Holds, Op
<1>2. EcallCause(Mode) \in {EnvCallU, EnvCallS, EnvCallM, IllegalInstruction}
  BY DEF EcallCause
<1>3. /\ {EnvCallU, EnvCallS, EnvCallM, IllegalInstruction} \cap {Breakpoint, R0, R1} = {}
      /\ R1 \notin {Breakpoint, R0}
  BY SMT DEF EnvCallU, EnvCallS, EnvCallM, IllegalInstruction, Breakpoint, R0, R1
<1>4. CASE Mnemo(w) = "ecall"
  BY <1>1, <1>2, <1>3, <1>4 DEF Empty
<1>5. CASE Mnemo(w) = "ebreak"
  BY <1>1, <1>3, <1>5 DEF Empty, Traps
<1>6. CASE Mnemo(w) = "ext"
  BY <1>1, <1>3, <1>6 DEF Empty, Traps
<1>7. CASE Mnemo(w) = "extx"
  BY <1>1, <1>3, <1>7 DEF Empty, Traps
<1> QED BY <1>1, <1>4, <1>5, <1>6, <1>7

\* Break is Ebreak: ebreak stops in front of itself, ext behind.
LEMMA BreakSimulates ==
  ASSUME TypeInv, CycleInv, CodeUntouched, Break
  PROVE  Golden!Ebreak
<1> PICK w : w = Insts[EX]
  OBVIOUS
<1>a. /\ phase = "XC" /\ Status = "run" /\ Status' = "break" /\ Except \in {Breakpoint, R0}
      /\ Except # nullopt
      /\ UNCHANGED <<phase, Mode, GPRegs, States, Mem, Insts, PCs, EXVal, MAVal, PC, BranchPC,
                     Except>>
  BY SMT DEF Break, At, arch, latches, Breakpoint, R0, nullopt
<1>b. ~Empty(EX) /\ Mnemo(w) \in {"ebreak", "ext"}
  BY <1>a, RaisedBy DEF CycleInv
<1>c. /\ InEX = nullptr /\ InMA = Insts[MA] /\ ~WillFail
      /\ ArchStatus = "run" /\ ArchPC = PCs[EX] /\ ArchMem = Mem
      /\ Golden!Inst = w /\ Golden!Fetched({"ebreak", "ext"})
      /\ Golden!NextPC = Wrap(PCs[EX] + 4)
  BY <1>a, <1>b, GoldenAt
<1>1. InEX' = nullptr /\ InMA' = InMA
  BY <1>a, <1>c DEF InEX, InMA
<1>2. ~WillFail' /\ ~WritesRd(InEX) /\ ~WritesCsr(InEX) /\ ~WritesRd(InEX)' /\ ~WritesCsr(InEX)'
  BY <1>c, <1>1 DEF WillFail, WritesRd, WritesCsr
<1>3. UNCHANGED <<ArchGPRegs, ArchStates, ArchMem>>
  BY <1>a, <1>c, <1>1, <1>2 DEF ArchGPRegs, ArchStates, ArchMem, Overlay
<1>4. ArchStatus' = "break"
  BY <1>a, <1>2 DEF ArchStatus
<1>5. ArchPC' = IF Mnemo(w) = "ext" THEN Golden!NextPC ELSE ArchPC
  <2>1. Holds(EX, {"ext"})' <=> Mnemo(w) = "ext"
    BY <1>a, <1>b DEF Holds, Empty
  <2>2. ArchPC' = IF Holds(EX, {"ext"})' THEN Wrap(PCs[EX] + 4) ELSE PCs[EX]
    BY <1>a, <1>2 DEF ArchPC
  <2> QED BY <1>c, <2>1, <2>2
<1> QED BY <1>a, <1>c, <1>3, <1>4, <1>5, SameDecoding DEF Golden!Ebreak

\* What the end of the cycle does for the instruction that raised the exception.
LEMMA HandledEffect ==
  ASSUME Status = "run", Status' = "run", phase = "XC", phase' = "PC",
         NEW w \in Code, w = Insts[EX], w # nullptr, Except # nullopt, Except' = nullopt,
         Mnemo(w) \in System, BranchPC = nullopt, Flush,
         UNCHANGED <<GPRegs, Mem, Insts, PCs, EXVal, MAVal, BranchPC>>
  PROVE  /\ UNCHANGED <<ArchGPRegs, ArchMem>> /\ ArchStatus' = "run" /\ ArchPC' = PC'
         /\ ArchStates  = Overlay(States, WritesCsr(Insts[MA]), CsrOf(MAVal.imm), MAVal.csr)
         /\ ArchStates' = Overlay(States', WritesCsr(Insts[MA]), CsrOf(MAVal.imm), MAVal.csr)
<1>1. InEX = nullptr /\ InMA = Insts[MA] /\ InEX' = w /\ InMA' = Insts[MA]
  BY DEF InEX, InMA
<1>2. Mnemo(w) \notin Loads \cup STypeKinds \cup CSR_INSTs /\ Rd(w) = 0
  BY DecodeAssumption DEF System, Loads, STypeKinds, CSR_INSTs, CSRImm
<1>3. /\ ~WillFail /\ ~WritesRd(InEX) /\ ~WritesCsr(InEX)
      /\ ~WillFail' /\ ~WritesRd(InEX)' /\ ~WritesCsr(InEX)'
  BY <1>1, <1>2 DEF WillFail, MemFails, WritesRd, WritesCsr
<1>4. UNCHANGED <<ArchGPRegs, ArchMem>> /\ ArchStatus' = "run"
  BY <1>1, <1>2, <1>3 DEF ArchGPRegs, ArchMem, ArchStatus, Overlay, MemWritten
<1>5. Upcoming' = PC'
  BY DEF Flush, Upcoming, Live
<1>6. ArchPC' = PC'
  BY <1>3, <1>5 DEF ArchPC
<1>7. /\ ArchStates  = Overlay(States, WritesCsr(Insts[MA]), CsrOf(MAVal.imm), MAVal.csr)
      /\ ArchStates' = Overlay(States', WritesCsr(Insts[MA]), CsrOf(MAVal.imm), MAVal.csr)
  BY <1>1, <1>3 DEF ArchStates, Overlay
<1> QED BY <1>4, <1>6, <1>7

\* EnterEpilogue is Extx where nothing follows the instruction.
LEMMA ExtxSimulates ==
  ASSUME TypeInv, CycleInv, CodeUntouched, ExtxLast, EnterEpilogue
  PROVE  Golden!Extx
<1> PICK w : w = Insts[EX]
  OBVIOUS
<1>a. /\ phase = "XC" /\ phase' = "PC" /\ Status = "run" /\ Status' = "run" /\ Except = R1
      /\ Except # nullopt /\ Except' = nullopt /\ Mode' = Epilogue /\ Flush
      /\ UNCHANGED <<GPRegs, States, Mem, Insts, PCs, EXVal, MAVal, PC, BranchPC>>
  BY SMT DEF EnterEpilogue, At, Goto, latches, R1, nullopt
<1>b. ~Empty(EX) /\ Mnemo(w) = "extx" /\ BranchPC = nullopt /\ Upcoming = Wrap(PCs[EX] + 4)
  BY <1>a, RaisedBy DEF CycleInv
<1>c. /\ w \in Code /\ ArchPC = PCs[EX] /\ Golden!Inst = w /\ Golden!Fetched({"extx"})
      /\ ArchStatus = "run" /\ Golden!NextPC = Wrap(PCs[EX] + 4)
  BY <1>a, <1>b, GoldenAt
<1>1. PC = Wrap(PCs[EX] + 4)
  BY <1>a, <1>b DEF ExtxLast, Upcoming
<1>2. UNCHANGED <<ArchGPRegs, ArchMem, ArchStates>> /\ ArchStatus' = "run" /\ ArchPC' = PC
  BY <1>a, <1>b, <1>c, HandledEffect DEF System, Empty
<1> QED BY <1>a, <1>c, <1>1, <1>2 DEF Golden!Extx, Golden!Epilogue, Epilogue

\* Two writes to different CSRs can be swapped.
LEMMA WritesSwap ==
  ASSUME NEW f, NEW a, NEW x, NEW b, NEW y, a # b
  PROVE  [[f EXCEPT ![a] = x] EXCEPT ![b] = y] = [[f EXCEPT ![b] = y] EXCEPT ![a] = x]
  OBVIOUS

\* Trap is Ecall: same CSRs, same handler.
LEMMA TrapSimulates ==
  ASSUME TypeInv, OperandInv, CycleInv, CodeUntouched, SameTrap, Trap
  PROVE  Golden!Ecall
<1> PICK w : w = Insts[EX]
  OBVIOUS
<1>a. /\ phase = "XC" /\ phase' = "PC" /\ Status = "run" /\ Status' = "run"
      /\ Traps /\ Except # nullopt /\ Except' = nullopt /\ Mode = Machine /\ Mode' = Mode /\ Flush
      /\ UNCHANGED <<GPRegs, Mem, Insts, PCs, EXVal, MAVal, BranchPC>>
      /\ PC' = ClearBit0(Forwarded(MTVEC))
  BY DEF Trap, Traps, At, Goto, latches
<1>b. ~Empty(EX) /\ Mnemo(w) = "ecall" /\ BranchPC = nullopt /\ Except = EcallCause(Mode)
  BY <1>a, RaisedBy DEF CycleInv
<1>c. /\ w \in Code /\ ArchPC = PCs[EX] /\ Golden!Inst = w /\ Golden!Fetched({"ecall"})
      /\ ArchStatus = "run" /\ InEX = nullptr /\ InMA = Insts[MA]
  BY <1>a, <1>b, GoldenAt
<1>d. /\ {MSTATUS, MTVEC, MEPC, MCAUSE, MTVAL} \subseteq CSRAddress
      /\ MSTATUS \notin {MEPC, MCAUSE, MTVAL}
  BY SMT DEF MSTATUS, MTVEC, MEPC, MCAUSE, MTVAL, CSRAddress, CSR_SIZE
<1>1. /\ UNCHANGED <<ArchGPRegs, ArchMem>> /\ ArchStatus' = "run" /\ ArchPC' = PC'
      /\ ArchStates  = Overlay(States, WritesCsr(Insts[MA]), CsrOf(MAVal.imm), MAVal.csr)
      /\ ArchStates' = Overlay(States', WritesCsr(Insts[MA]), CsrOf(MAVal.imm), MAVal.csr)
  BY <1>a, <1>b, <1>c, HandledEffect DEF System, Empty
<1>2. \A c \in CSRAddress : ArchStates[c] = Forwarded(c)
  BY <1>a, <1>c, ArchCsr
<1>3. ArchPC' = ClearBit0(ArchStates[MTVEC])
  BY <1>a, <1>d, <1>1, <1>2
<1> PICK v : v = States[MSTATUS]
  OBVIOUS
<1>4. /\ Holds(MA, CSR_INSTs) => CsrOf(Imm(Insts[MA])) \notin {MSTATUS, MEPC, MCAUSE, MTVAL}
      /\ getMIE(v) = 0 /\ getMPIE(v) = 0
  BY <1>a DEF SameTrap, NotPending
<1>5. ArchStates[MSTATUS] = v
  BY <1>2, <1>4, <1>d DEF Forwarded
<1>6. setMIE(setMPIE(v, getMIE(v)), 0) = v
  <2>1. v \in Word
    BY <1>d DEF TypeInv, TypeOK
  <2>2. v \in Nat
    BY <2>1, WordFacts
  <2>3. setMPIE(v, getMIE(v)) = v
    BY <1>4, <2>2, SMT DEF setMPIE
  <2>4. setMIE(v, 0) = v
    BY <1>4, <2>2, SMT DEF setMIE
  <2> QED BY <2>3, <2>4
<1> DEFINE epc == ClearBit0(PCs[EX])
           val == trap_val(Except, w)
           new == setMPP(v, Mode)
<1>7. States' = [States EXCEPT ![MEPC] = epc, ![MCAUSE] = Except, ![MTVAL] = val,
                               ![MSTATUS] = new]
  BY <1>6 DEF Trap
<1> HIDE DEF epc, val, new
<1>8. ArchStates' = [ArchStates EXCEPT ![MEPC] = epc, ![MCAUSE] = Except, ![MTVAL] = val,
                                       ![MSTATUS] = new]
  <2>1. WritesCsr(Insts[MA]) => CsrOf(MAVal.imm) \notin {MSTATUS, MEPC, MCAUSE, MTVAL}
    BY <1>a, <1>4 DEF WritesCsr, OperandInv, CsrNumbers, Holds
  <2> PICK f, c, x, cause : f = States /\ c = CsrOf(MAVal.imm) /\ x = MAVal.csr /\ cause = Except
    OBVIOUS
  <2>2. ASSUME c \notin {MSTATUS, MEPC, MCAUSE, MTVAL}
        PROVE  [[f EXCEPT ![MEPC] = epc, ![MCAUSE] = cause, ![MTVAL] = val, ![MSTATUS] = new]
                  EXCEPT ![c] = x]
                 = [[f EXCEPT ![c] = x]
                     EXCEPT ![MEPC] = epc, ![MCAUSE] = cause, ![MTVAL] = val, ![MSTATUS] = new]
    BY <2>2, WritesSwap
  <2> QED BY <1>1, <1>7, <2>1, <2>2 DEF Overlay
<1>9. /\ Golden!MSTATUS = MSTATUS /\ Golden!MEPC = MEPC /\ Golden!MTVEC = MTVEC
      /\ Golden!MCAUSE = MCAUSE /\ Golden!MTVAL = MTVAL /\ Golden!Machine = Machine
  BY DEF Golden!MSTATUS, MSTATUS, Golden!MEPC, MEPC, Golden!MTVEC, MTVEC, Golden!MCAUSE,
     MCAUSE, Golden!MTVAL, MTVAL, Golden!Machine, Machine
<1>10. /\ epc = Golden!ClearBit0(ArchPC) /\ val = Golden!trap_val(Except, Golden!Inst)
       /\ new = Golden!TrapStatus(v)
  BY <1>c, SameValues DEF epc, val, new, Golden!TrapStatus
<1>11. Golden!TrapStatus([ArchStates EXCEPT ![MEPC] = epc, ![MCAUSE] = Except,
                                            ![MTVAL] = val][MSTATUS]) = new
  <2>1. [ArchStates EXCEPT ![MEPC] = epc, ![MCAUSE] = Except, ![MTVAL] = val][MSTATUS] = v
    <3>1. DOMAIN ArchStates = CSRAddress
      BY <1>1 DEF TypeInv, TypeOK, Overlay
    <3> QED BY <1>d, <1>5, <3>1
  <2> QED BY <1>10, <2>1
<1>12. Golden!Trap(Except)
  BY <1>a, <1>1, <1>3, <1>5, <1>8, <1>9, <1>10, <1>11, <1>c, SameValues DEF Golden!Trap
<1> QED BY <1>b, <1>c, <1>12, SameValues DEF Golden!Ecall

\* A trap outside Machine mode stops both simulators.
LEMMA TrapFailsSimulates ==
  ASSUME TypeInv, CycleInv, CodeUntouched, TrapFails
  PROVE  Golden!Ecall
<1>a. /\ phase = "XC" /\ Status = "run" /\ Status' = "abort" /\ Traps /\ Except # nullopt
      /\ Mode # Machine
      /\ UNCHANGED <<phase, arch, stages, latches, PC, BranchPC, Except>>
  BY DEF TrapFails, Traps, At
<1>b. ~Empty(EX) /\ Mnemo(Insts[EX]) = "ecall"
  BY <1>a, RaisedBy DEF CycleInv
<1>c. ~WillFail /\ InEX = nullptr /\ Golden!Fetched({"ecall"})
  BY <1>a, <1>b, GoldenAt
<1>1. UNCHANGED <<ArchPC, Mode, ArchGPRegs, ArchStates, ArchMem>> /\ ArchStatus' = "abort"
  BY <1>a, <1>c, StopsSame
<1> QED BY <1>a, <1>c, <1>1 DEF Golden!Ecall, Golden!Trap, Golden!Machine, Machine

\* A cycle without exception is none for the golden model.
LEMMA NoExceptionStutters ==
  ASSUME NoException
  PROVE  Stutters
<1>a. /\ phase = "XC" /\ phase' = "PC" /\ Status = "run" /\ Status' = "run" /\ Except = nullopt
      /\ UNCHANGED <<Mode, GPRegs, States, Mem, Insts, PCs, InvalidStages, EXVal, MAVal, PC,
                     BranchPC, Except>>
  BY DEF NoException, At, Goto, stages, control, arch, latches
<1>1. InEX' = InEX
  BY <1>a DEF InEX
<1>2. UNCHANGED <<ArchGPRegs, ArchStates, ArchMem, ArchStatus>> /\ WillFail' = WillFail
  BY <1>a, <1>1, RestSame
<1>3. Upcoming' = Upcoming
  BY <1>a DEF Upcoming, Live, Empty
<1>4. ArchPC' = ArchPC
  BY <1>a, <1>2, <1>3 DEF ArchPC
<1> QED BY <1>a, <1>2, <1>4 DEF Stutters

\* The pipeline that has stopped stays what it was.
LEMMA IdleStutters == UNCHANGED vars => Stutters
<1> SUFFICES ASSUME UNCHANGED vars PROVE Stutters
  OBVIOUS
<1>a. UNCHANGED <<phase, Status, Mode, GPRegs, States, Mem, Insts, PCs, InvalidStages, EXVal,
                  MAVal, PC, BranchPC, Except>>
  BY DEF vars, arch, stages, latches, control
<1>1. InEX' = InEX /\ InMA' = InMA
  BY <1>a DEF InEX, InMA
<1>2. WillFail' = WillFail
  BY <1>a, <1>1 DEF WillFail, MemFails, Printed
<1>3. UNCHANGED <<ArchGPRegs, ArchStates, ArchMem, ArchStatus>>
  BY <1>a, <1>1, <1>2 DEF ArchGPRegs, ArchStates, ArchMem, ArchStatus, MemResult, MemWritten,
     Printed
<1>4. Upcoming' = Upcoming
  BY <1>a DEF Upcoming, Live, Empty
<1>5. ArchPC' = ArchPC
  <2>1. (Holds(EX, {"ext"})' <=> Holds(EX, {"ext"})) /\ Empty(EX)' = Empty(EX)
    BY <1>a DEF Holds, Empty
  <2> QED BY <1>a, <1>2, <1>4, <2>1 DEF ArchPC
<1> QED BY <1>a, <1>3, <1>5 DEF Stutters

\* The steps of exec are the instructions of the golden model.
LEMMA ExecSimulates ==
  ASSUME ExecInv, CodeUntouched, SameExecution, SameArithmetic, exec
  PROVE  Stutters \/ Golden!Next
<1>a. TypeInv /\ FetchOrder /\ CycleInv
  BY DEF ExecInv
<1>1. CASE execNothing \/ execRaise
  BY <1>1, <1>a, ExecStutters
<1>2. CASE execData
  BY <1>2, DataSimulates DEF Golden!Next
<1>3. CASE execUpper
  BY <1>3, UpperSimulates DEF Golden!Next
<1>4. CASE execJump
  BY <1>4, JumpSimulates DEF Golden!Next
<1>5. CASE execLoad
  BY <1>5, LoadSimulates DEF Golden!Next
<1>6. CASE execStore
  BY <1>6, StoreSimulates DEF Golden!Next
<1>7. CASE execCsr
  BY <1>7, CsrSimulates DEF Golden!Next
<1>8. CASE execBranch
  BY <1>8, BranchSimulates DEF Golden!Next
<1>9. CASE execMret
  BY <1>9, MretSimulates DEF Golden!Next
<1>10. CASE execUnimplemented
  BY <1>10, <1>a, UnimplementedSimulates DEF Golden!Next
<1> QED BY <1>1, <1>2, <1>3, <1>4, <1>5, <1>6, <1>7, <1>8, <1>9, <1>10 DEF exec

\* Exceptions are executed when they are handled, at the end of the cycle.
LEMMA HandleSimulates ==
  ASSUME TypeInv, OperandInv, CycleInv, CodeUntouched, SameTrap, ExtxLast, handleException
  PROVE  Stutters \/ Golden!Next
<1>1. CASE NoException
  BY <1>1, NoExceptionStutters
<1>2. CASE Break
  BY <1>2, BreakSimulates DEF Golden!Next
<1>3. CASE EnterEpilogue
  BY <1>3, ExtxSimulates DEF Golden!Next
<1>4. CASE Trap
  BY <1>4, TrapSimulates DEF Golden!Next
<1>5. CASE TrapFails
  BY <1>5, TrapFailsSimulates DEF Golden!Next
<1> QED BY <1>1, <1>2, <1>3, <1>4, <1>5 DEF handleException

\* The strengthening of TypeInv that every step keeps and the simulation needs.
SimInv == TypeInv /\ StallInv /\ FetchOrder /\ OperandInv /\ CycleInv /\ WordsInv

\* Every step of the pipeline is one of the golden model or a stutter.
LEMMA StepSimulates ==
  ASSUME EndAddress = nullopt, SameArithmetic, SimInv, Comparable, [Next]_vars
  PROVE  [Golden!Next]_Golden!vars
<1>a. TypeInv /\ StallInv /\ FetchOrder /\ OperandInv /\ CycleInv /\ WordsInv
  BY DEF SimInv
<1>1. CASE Stopped \/ UNCHANGED vars
  BY <1>1, IdleStutters, StuttersGolden DEF Stopped
<1>2. CASE proceedNStage
  <2>1. Status = "run"
    BY <1>2 DEF proceedNStage, fetch, FetchStalled, Fetch, FetchFails, writeback, memory,
       MemoryAccess, NoMemoryAccess, MemoryAccessFails, exec, execNothing, execData, execUpper,
       execJump, execLoad, execStore, execCsr, execBranch, execRaise, execMret,
       execUnimplemented, Exec, decodes, decode, decodeBranch, decodeNothing, handleException,
       NoException, Break, EnterEpilogue, Trap, TrapFails, Redirect, At
  <2>2. CodeUntouched /\ SameExecution /\ SameTrap /\ ExtxLast
    BY <1>a, <2>1 DEF Comparable, CodeUntouched, WordsInv, FetchedWords
  <2>3. ExecInv
    BY <1>a, OperandsImplied DEF ExecInv
  <2>4. CASE fetch
    BY <1>a, <2>4, FetchSimulates, StuttersGolden DEF Golden!Next
  <2>5. CASE writeback \/ memory
    BY <2>5, WritebackStutters, MemoryStutters, StuttersGolden
  <2>6. CASE exec
    BY <2>2, <2>3, <2>6, ExecSimulates, StuttersGolden
  <2>7. CASE decodes
    BY <1>a, <2>7, DecodeStutters, StuttersGolden
  <2>8. CASE handleException
    BY <1>a, <2>2, <2>8, HandleSimulates, StuttersGolden
  <2>9. CASE Redirect
    BY <1>a, <2>9, RedirectStutters, StuttersGolden
  <2> QED BY <1>2, <2>4, <2>5, <2>6, <2>7, <2>8, <2>9 DEF proceedNStage
<1> QED BY <1>1, <1>2 DEF Next

\* Comparable programs keep the simulation's invariant.
LEMMA SimInvariant == Spec /\ []Comparable => []SimInv
<1>1. Init => SimInv
  BY InitType, InitStall, InitFetchOrder, InitOperands, InitCycle, InitWords DEF SimInv
<1>2. SimInv /\ Comparable /\ [Next]_vars => SimInv'
  <2> SUFFICES ASSUME SimInv, Comparable, [Next]_vars PROVE SimInv'
    OBVIOUS
  <2>1. ZeroFromFile
    BY DEF Comparable, ZeroFromFile
  <2> QED
    BY <2>1, StepType, StepStall, StepFetchOrder, StepOperands, StepCycle, StepWords DEF SimInv
<1> QED BY <1>1, <1>2, PTL DEF Spec

(* The pipeline implements the instruction-level simulator, whatever the   *)
(* branch predictor answers, for every program on which the two agree how  *)
(* an instruction is executed: in order, each instruction once, none on a  *)
(* mispredicted path, each on the operands its predecessors left           *)
(* (proceedNStage, RIPSimulator.cpp:647-728).                              *)
THEOREM PipelineCorrect ==
  ASSUME EndAddress = nullopt, SameArithmetic
  PROVE  Spec /\ []Comparable => ImplementsGolden
<1>1. Init => Golden!Init
  BY InitGolden
<1>2. SimInv /\ Comparable /\ [Next]_vars => [Golden!Next]_Golden!vars
  BY StepSimulates
<1> QED BY <1>1, <1>2, SimInvariant, PTL DEF Spec, ImplementsGolden, Golden!Spec

-----------------------------------------------------------------------------
(* Which programs are Comparable can be read off their words.  T is where  *)
(* the program stands: the addresses the fetch may come to.                *)

\* The simulators agree on this instruction, and nothing is forwarded from x0.
PlainWord(w) ==
  /\ Mnemo(w) \notin {"csrrc", "csrrci", "ecall", "mret", "extx"}
  /\ NamesResult(w)

\* No word leads the fetch out of T, taken or not: the last one does not decode.
Closed(T, m) ==
  \A a \in T : LET w == readWord(m, a) IN w \in Code =>
    /\ PlainWord(w)
    /\ Wrap(a + 4) \in T
    /\ Mnemo(w) \in BTypeKinds \cup JTypeKinds => Wrap(a + Imm(w)) \in T

\* Every program starts in T, and stays there as far as its words can tell.
IsText(T) ==
  /\ DRAMBase \in T
  /\ \A a \in T : Access(a, 4) = "ok"
  /\ \A m \in InitMems : Closed(T, m)

\* What the words cannot tell: where the instructions that are executed jump
\* to through a register, load from and store to.
KeepsToText(T) ==
  Status = "run" =>
    /\ phase = "EX" =>
         LET target == Wrap(DEVal.rs1 + DEVal.imm) IN
           /\ Holds(EX, {"jalr"}) => target \in T /\ ClearBit0(target) = target
           /\ Holds(EX, Loads) => target # MMIO
    /\ phase = "MA" /\ ~Empty(MA) /\ ~MemFails(Insts[MA], EXVal) =>
         \A a \in T : readWord(MemWritten(Insts[MA], EXVal), a) = readWord(Mem, a)

\* The word at the address of stage s.
FromText(T, s) == PCs[s] \in T /\ readWord(Mem, PCs[s]) = Insts[s]

(* Everything in the pipeline comes from the text, wrong paths included,   *)
(* and goes on in it.                                                      *)
InText(T) ==
  /\ Closed(T, Mem)
  /\ Mode = Machine
  /\ PC \in T /\ BranchPC \in T \cup {nullopt} /\ BranchPredPC \in T \cup {nullopt}
  /\ Except \in {nullopt, Breakpoint, R0}
  /\ \A s \in {IFs, DE, EX} : ~Empty(s) => FromText(T, s)
  /\ ~Empty(MA) => PlainWord(Insts[MA])

TextInv(T) == Status = "run" => InText(T)

\* What stands in the stages fetched is plain and leads back into the text.
LEMMA TextWords ==
  ASSUME NEW T, InText(T), TypeInv, NEW s \in {IFs, DE, EX}, ~Empty(s)
  PROVE  /\ Insts[s] \in Code /\ PlainWord(Insts[s])
         /\ Wrap(PCs[s] + 4) \in T
         /\ Holds(s, BTypeKinds \cup JTypeKinds) => Wrap(PCs[s] + Imm(Insts[s])) \in T
<1>1. s \in STAGES
  BY StageFacts
<1>2. Insts[s] \in Code
  BY <1>1 DEF TypeInv, TypeOK, Empty
<1>3. PCs[s] \in T /\ readWord(Mem, PCs[s]) = Insts[s]
  BY DEF InText, FromText
<1> QED
  BY <1>2, <1>3 DEF InText, Closed, Holds

\* The program starts in its text.
LEMMA InitText == ASSUME NEW T, IsText(T), Init PROVE TextInv(T)
<1>1. \A s \in STAGES : Empty(s)
  BY DEF Init, Empty
<1>2. /\ PC = DRAMBase /\ Mem \in InitMems /\ Mode = Machine
      /\ BranchPC = nullopt /\ BranchPredPC = nullopt /\ Except = nullopt
  BY DEF Init
<1> QED
  BY <1>1, <1>2, StageFacts DEF TextInv, InText, IsText

\* The next word comes from the text, and the one behind it is in the text.
LEMMA FetchText ==
  ASSUME NEW T, IsText(T), InText(T), TypeInv, StallInv, fetch, Status' = "run"
  PROVE  InText(T)'
<1>1. /\ UNCHANGED <<Mem, Mode, BranchPC, BranchPredPC, Except>>
  BY DEF fetch, FetchStalled, Fetch, FetchFails, Access, arch
<1>2. PICK inst, pc : /\ Proceed(inst) /\ ProceedPC(pc)
                      /\ inst # nullptr => pc \in T /\ readWord(Mem, pc) = inst
                      /\ PC' \in T
  <2>1. CASE FetchStalled
    BY <2>1 DEF FetchStalled, InText
  <2>2. CASE Fetch
    <3>1. PC \in T /\ (readWord(Mem, PC) \in Code => Wrap(PC + 4) \in T)
      BY DEF InText, Closed
    <3> QED
      BY <2>2, <3>1 DEF Fetch
  <2> QED
    BY <2>1, <2>2 DEF fetch, FetchFails, Access
<1>3. ASSUME NEW s \in {IFs, DE, EX}, Insts'[s] # nullptr
      PROVE  PCs'[s] \in T /\ readWord(Mem, PCs'[s]) = Insts'[s]
  <2>1. \/ PCs'[s] = PCs[s] /\ Insts'[s] = Insts[s] /\ ~Empty(s)
        \/ s # IFs /\ PCs'[s] = PCs[s - 1] /\ Insts'[s] = Insts[s - 1] /\ ~Empty(s - 1)
        \/ s = IFs /\ PCs'[s] = pc /\ Insts'[s] = inst /\ inst # nullptr
    BY <1>2, <1>3, StageFacts DEF Proceed, ProceedPC, Empty
  <2>2. s # IFs => s - 1 \in {IFs, DE, EX}
    BY SMT DEF IFs, DE, EX
  <2> QED
    BY <1>2, <2>1, <2>2 DEF InText, FromText
<1>4. Insts'[MA] # nullptr => PlainWord(Insts'[MA])
  BY <1>2, ShiftOld, TextWords DEF Empty
<1> QED
  BY <1>1, <1>2, <1>3, <1>4 DEF InText, FromText, Closed, Empty

\* A store leaves the text as it is.
LEMMA MemoryText ==
  ASSUME NEW T, InText(T), KeepsToText(T), memory
  PROVE  InText(T)'
<1>1. /\ UNCHANGED <<Mode, PC, BranchPC, BranchPredPC, Except, Insts, PCs>> /\ At("MA")
  BY DEF memory, MemoryAccess, NoMemoryAccess, MemoryAccessFails, arch, stages, control
<1>2. \/ UNCHANGED Mem
      \/ ~Empty(MA) /\ ~MemFails(Insts[MA], EXVal) /\ Mem' = MemWritten(Insts[MA], EXVal)
  BY DEF memory, MemoryAccess, NoMemoryAccess, MemoryAccessFails, arch
<1>3. \A a \in T : readWord(Mem', a) = readWord(Mem, a)
  BY <1>1, <1>2 DEF KeepsToText, At
<1>4. Closed(T, Mem)'
  BY <1>3 DEF InText, Closed
<1> QED
  BY <1>1, <1>3, <1>4 DEF InText, FromText, Empty

\* A jump or a branch goes on in the text, whichever way it was predicted.
LEMMA ExecText ==
  ASSUME NEW T, InText(T), KeepsToText(T), TypeInv, OperandInv, exec, Status' = "run"
  PROVE  InText(T)'
<1>1. UNCHANGED <<Insts, PCs, Mem>> /\ phase = "EX" /\ Status = "run"
      /\ UNCHANGED <<BranchPredPC>>
  BY DEF exec, execNothing, execData, execUpper, execJump, execLoad, execStore,
     execCsr, execBranch, execRaise, execMret, execUnimplemented, Exec, At, arch, stages, control
<1>2. CASE execJump
  <2>1. Holds(EX, {"jal", "jalr"}) /\ ~Empty(EX)
    BY <1>2 DEF execJump, Exec, Holds, Empty
  <2>2. OperandsOf(Insts[EX])
    BY <1>1, <2>1 DEF OperandInv, OperandsReady, DecodedEX
  <2>3. Op = "jal" => DEVal.imm = Imm(Insts[EX])
    BY <2>2 DEF OperandsOf, Op, RTypeKinds
  <2>4. Op = "jal" => Wrap(PCs[EX] + Imm(Insts[EX])) \in T
    BY <2>1, TextWords DEF Holds, Op, JTypeKinds
  <2>5. Op # "jal" => Wrap(DEVal.rs1 + DEVal.imm) \in T
    BY <1>1, <2>1 DEF KeepsToText, Holds, Op
  <2>6. BranchPC' = Wrap((IF Op = "jal" THEN PCs[EX] ELSE DEVal.rs1) + DEVal.imm)
        /\ UNCHANGED <<Mode, PC, Except>>
    BY <1>2 DEF execJump, arch
  <2>7. BranchPC' \in T
    BY <2>3, <2>4, <2>5, <2>6
  <2> QED
    BY <1>1, <2>6, <2>7 DEF InText, FromText, Closed, Empty
<1>3. CASE execBranch
  <2>1. Holds(EX, BTypeKinds) /\ ~Empty(EX)
    BY <1>3 DEF execBranch, Exec, Holds, Empty
  <2>2. OperandsOf(Insts[EX])
    BY <1>1, <2>1 DEF OperandInv, OperandsReady, DecodedEX
  <2>3. DEVal.imm = Imm(Insts[EX])
    BY <2>1, <2>2 DEF OperandsOf, Holds, RTypeKinds, BTypeKinds
  <2>4. Wrap(PCs[EX] + DEVal.imm) \in T /\ Wrap(PCs[EX] + 4) \in T
    BY <2>1, <2>3, TextWords DEF Holds
  <2>5. /\ BranchPC' \in {BranchPC, Wrap(PCs[EX] + DEVal.imm), Wrap(PCs[EX] + 4)}
        /\ PC' \in {PC, Wrap(PCs[EX] + DEVal.imm)}
        /\ UNCHANGED <<Mode, Except>>
    BY <1>3 DEF execBranch, arch
  <2>6. BranchPC' \in T \cup {nullopt} /\ PC' \in T
    BY <2>4, <2>5 DEF InText
  <2> QED
    BY <1>1, <2>5, <2>6 DEF InText, FromText, Closed, Empty
<1>4. CASE execRaise
  <2>1. Holds(EX, {"ecall", "ebreak", "ext", "extx"}) /\ ~Empty(EX)
    BY <1>4 DEF execRaise, Exec, Holds, Empty
  <2>2. Op \in {"ebreak", "ext"}
    BY <2>1, TextWords DEF Holds, Op, PlainWord
  <2>3. Except' \in {Breakpoint, R0} /\ UNCHANGED <<Mode, PC, BranchPC>>
    BY <1>4, <2>2 DEF execRaise, arch
  <2> QED
    BY <1>1, <2>3 DEF InText, FromText, Closed, Empty
<1>5. ~execMret /\ ~execUnimplemented
  BY TextWords DEF execMret, execUnimplemented, Exec, Holds, Empty, PlainWord
<1>6. CASE UNCHANGED <<Mode, PC, BranchPC, Except>>
  BY <1>1, <1>6 DEF InText, FromText, Closed, Empty
<1>7. execJump \/ execBranch \/ execRaise \/ UNCHANGED <<Mode, PC, BranchPC, Except>>
  BY <1>5 DEF exec, execNothing, execData, execUpper, execLoad, execStore, execCsr,
     control, arch
<1> QED
  BY <1>2, <1>3, <1>4, <1>6, <1>7

\* A predicted branch leads to its target, also in the text.
LEMMA DecodeText ==
  ASSUME NEW T, InText(T), TypeInv, decodes
  PROVE  InText(T)'
<1>1. UNCHANGED <<Insts, PCs, Mem, Mode, PC, BranchPC, Except>>
  BY DEF decodes, decode, decodeBranch, decodeNothing, arch, stages, control
<1>2. BranchPredPC' \in T \cup {nullopt}
  <2>1. CASE decodeBranch
    <3>1. ~Empty(DE) /\ Holds(DE, BTypeKinds)
      BY <2>1 DEF decodeBranch, Decodes
    <3>2. Wrap(PCs[DE] + Imm(Insts[DE])) \in T
      BY <3>1, TextWords DEF Holds
    <3>3. BranchPredPC' \in {BranchPredPC, Wrap(PCs[DE] + Imm(Insts[DE]))}
      BY <2>1 DEF decodeBranch
    <3> QED
      BY <3>2, <3>3 DEF InText
  <2>2. CASE UNCHANGED BranchPredPC
    BY <2>2 DEF InText
  <2> QED
    BY <2>1, <2>2 DEF decodes, decode, decodeNothing, control
<1> QED
  BY <1>1, <1>2 DEF InText, FromText, Closed, Empty

\* No instruction of the text traps, and those that stop the program stop it.
LEMMA HandleText ==
  ASSUME NEW T, InText(T), handleException, Status' = "run"
  PROVE  InText(T)'
<1>1. NoException
  BY SMT DEF handleException, NoException, Break, EnterEpilogue, Trap, TrapFails, Traps, InText,
     Breakpoint, R0, R1, nullopt
<1>2. UNCHANGED <<arch, stages, latches, control>>
  BY <1>1 DEF NoException
<1> QED
  BY <1>2 DEF arch, stages, control, InText, FromText, Closed, Empty

\* The fetch is redirected to one of these addresses.
LEMMA RedirectText ==
  ASSUME NEW T, InText(T), Redirect
  PROVE  InText(T)'
<1>1. /\ UNCHANGED <<PCs, Mem, Mode, Except>> /\ BranchPC' = nullopt /\ BranchPredPC' = nullopt
      /\ \A s \in STAGES : Insts'[s] \in {nullptr, Insts[s]}
  BY DEF Redirect, arch
<1>2. PC' \in T
  BY DEF Redirect, InText
<1> QED
  BY <1>1, <1>2, StageFacts DEF InText, FromText, Closed, Empty

\* A program that keeps to its text has nothing else in the pipeline.
LEMMA StepText ==
  ASSUME NEW T, IsText(T), TextInv(T), KeepsToText(T), TypeInv, StallInv, OperandInv,
         [Next]_vars
  PROVE  TextInv(T)'
<1> SUFFICES ASSUME Status' = "run" PROVE InText(T)'
  BY DEF TextInv
<1>1. CASE proceedNStage
  <2>1. Status = "run"
    BY <1>1 DEF proceedNStage, fetch, FetchStalled, Fetch, FetchFails, writeback, memory,
       MemoryAccess, NoMemoryAccess, MemoryAccessFails, exec, execNothing, execData, execUpper,
       execJump, execLoad, execStore, execCsr, execBranch, execRaise, execMret,
       execUnimplemented, Exec, decodes, decode, decodeBranch, decodeNothing, handleException,
       NoException, Break, EnterEpilogue, Trap, TrapFails, Redirect, At
  <2>2. InText(T)
    BY <2>1 DEF TextInv
  <2>3. CASE writeback
    BY <2>2, <2>3 DEF writeback, stages, control, InText, FromText, Closed, Empty
  <2> QED
    BY <1>1, <2>2, <2>3, FetchText, MemoryText, ExecText, DecodeText, HandleText, RedirectText
       DEF proceedNStage
<1>2. CASE Stopped \/ UNCHANGED vars
  <2>1. UNCHANGED vars /\ InText(T)
    BY <1>2 DEF Stopped, TextInv, vars, control
  <2> QED
    BY <2>1 DEF vars, arch, stages, control, InText, FromText, Closed, Empty
<1> QED
  BY <1>1, <1>2 DEF Next

\* x0 is not forwarded from a word of the text.
LEMMA TextZero ==
  ASSUME NEW T, TextInv(T), TypeInv, SerialInv
  PROVE  ZeroFromFile
<1> SUFFICES ASSUME Status = "run" PROVE ZeroFromFile
  BY DEF ZeroFromFile
<1>1. InText(T)
  BY DEF TextInv
<1>2. \A s \in {EX, MA} : ~Empty(s) => PlainWord(Insts[s])
  BY <1>1, TextWords DEF InText
<1> QED
  BY <1>2, ZeroNeverForwarded DEF PlainWord

\* With nothing else in the pipeline, each condition of Comparable is met.
LEMMA TextIsComparable ==
  ASSUME NEW T, IsText(T), TextInv(T), KeepsToText(T), TypeInv, SerialInv
  PROVE  Comparable
<1> SUFFICES ASSUME Status = "run"
             PROVE  ZeroFromFile /\ StoresApart /\ FetchInDRAM /\ SameExecution /\ SameTrap
                    /\ ExtxLast
  BY DEF Comparable
<1>1. InText(T)
  BY DEF TextInv
<1>2. ZeroFromFile
  BY TextZero
<1>3. StoresApart
  BY <1>1 DEF StoresApart, At, KeepsToText, InText, FromText
<1>4. FetchInDRAM
  BY <1>1 DEF FetchInDRAM, InText, IsText
<1>5. SameExecution
  <2> SUFFICES ASSUME phase = "EX"
               PROVE  LET target == Wrap(DEVal.rs1 + DEVal.imm)
                          status == States[MSTATUS]
                      IN /\ ~Holds(EX, {"csrrc", "csrrci"})
                         /\ Holds(EX, {"jalr"}) => ClearBit0(target) = target
                         /\ Holds(EX, Loads) => ~Printed(target)
                         /\ ~Holds(EX, {"mret"})
    BY DEF SameExecution
  <2>1. ~Holds(EX, {"csrrc", "csrrci", "mret"})
    BY <1>1, TextWords DEF Holds, Empty, PlainWord
  <2>2. Mode # Epilogue
    BY <1>1, SMT DEF InText, Machine, Epilogue
  <2> QED
    BY <2>1, <2>2 DEF KeepsToText, Printed, Holds
<1>6. SameTrap /\ ExtxLast
  BY <1>1, SMT DEF InText, SameTrap, ExtxLast, Traps, nullopt, Breakpoint, R0, R1
<1> QED
  BY <1>2, <1>3, <1>4, <1>5, <1>6

(* Which programs the comparison is about, without looking into the        *)
(* pipeline: those whose words stay in their text, know no traps and name  *)
(* their results, as long as what is executed jumps into the text, does    *)
(* not write over it and does not load from the console.  Whatever the     *)
(* predictor makes the pipeline fetch besides (proceedNStage,              *)
(* RIPSimulator.cpp:647-728) then needs no condition of its own.           *)
THEOREM TextComparable ==
  ASSUME NEW CONSTANT T, IsText(T)
  PROVE  Spec /\ []KeepsToText(T) => []Comparable
<1>1. Init => OperandInv /\ TextInv(T)
  BY InitOperands, InitText
<1>2. TypeInv /\ StallInv /\ SerialInv /\ OperandInv /\ TextInv(T) /\ KeepsToText(T) /\ [Next]_vars
        => OperandInv' /\ TextInv(T)'
  BY StepOperands, StepText, TextZero
<1>3. TypeInv /\ SerialInv /\ TextInv(T) /\ KeepsToText(T) => Comparable
  BY TextIsComparable
<1> QED
  BY <1>1, <1>2, <1>3, TypeInvariant, StallInvariant, SerialInvariant, PTL DEF Spec

(* For these programs, every step of the pipeline is one of the            *)
(* instruction-level simulator or a stutter (proceedNStage,                *)
(* RIPSimulator.cpp:647-728, against Simulator::run).                      *)
THEOREM TextCorrect ==
  ASSUME EndAddress = nullopt, SameArithmetic, NEW CONSTANT T, IsText(T)
  PROVE  Spec /\ []KeepsToText(T) => ImplementsGolden
BY TextComparable, PipelineCorrect, PTL
=============================================================================
