------------------------- MODULE PipelineRefinement -------------------------
(***************************************************************************)
(* The pipeline implements the instruction-level simulator: an instruction *)
(* takes effect when exec runs it, everything else is a stutter.           *)
(*                                                                         *)
(* The refinement mapping reads the architectural state off the pipeline.  *)
(* Instructions that exec has run but that have not reached memory or the  *)
(* registers yet are applied on top of GPRegs, States and Mem, older first;*)
(* the program counter is the address of the oldest instruction exec has   *)
(* still to run, or of the redirection exec has decided.                   *)
(***************************************************************************)
EXTENDS Pipeline

CONSTANT SimAlu(_, _, _)   \* Alu of the instruction-level simulator.

(* Executed instructions whose effects are still in the latches.  Before   *)
(* memoryaccess runs, the older one is in WB; afterwards it is in MA.      *)
InMA == CASE phase = "WB" -> Insts[WB]
          [] phase = "MA" -> nullptr
          [] OTHER        -> Insts[MA]
InEX == CASE phase \in {"WB", "MA"} -> Insts[MA]
          [] phase = "EX"           -> nullptr
          [] OTHER -> IF Except = nullopt THEN Insts[EX] ELSE nullptr

WritesRd(inst) == /\ inst # nullptr
                  /\ Mnemo(inst) \notin STypeKinds \cup BTypeKinds
                  /\ Rd(inst) # 0
WritesCsr(inst) == inst # nullptr /\ Mnemo(inst) \in CSR_INSTs

Overlay(f, defined, key, v) == IF defined THEN [f EXCEPT ![key] = v] ELSE f

\* The access in EX will fail when memoryaccess comes to it.
WillFail == InEX # nullptr /\ MemFails(InEX, EXVal)

ArchGPRegs ==
  LET old == Overlay(GPRegs, WritesRd(InMA), Rd(InMA), MAVal.rd)
  IN IF WillFail THEN old
     ELSE Overlay(old, WritesRd(InEX), Rd(InEX), MemResult(InEX, EXVal))

ArchStates ==
  LET old == Overlay(States, WritesCsr(InMA), CsrOf(MAVal.imm), MAVal.csr)
  IN Overlay(old, WritesCsr(InEX), CsrOf(EXVal.imm), EXVal.csr)

ArchMem == IF InEX # nullptr /\ ~WillFail THEN MemWritten(InEX, EXVal) ELSE Mem

ArchPC ==
  CASE WillFail -> PCs[IF phase \in {"WB", "MA"} THEN MA ELSE EX]
    [] ~WillFail /\ Status = "break" /\ Holds(EX, {"ext"}) -> Wrap(PCs[EX] + 4)
    [] ~WillFail /\ Status = "break" /\ ~Holds(EX, {"ext"}) -> PCs[EX]
    [] ~WillFail /\ Status # "break" /\ phase \in {"WB", "MA", "EX"} ->
         IF Empty(EX) THEN Upcoming ELSE PCs[EX]
    [] OTHER ->
         IF Except # nullopt THEN PCs[EX]
         ELSE IF BranchPC # nullopt THEN BranchPC ELSE Upcoming

ArchStatus == IF WillFail THEN Access(EXVal.rd, Width(Mnemo(InEX))) ELSE Status

Golden == INSTANCE InstructionSim
            WITH PC     <- ArchPC,
                 Mode   <- Mode,
                 GPRegs <- ArchGPRegs,
                 States <- ArchStates,
                 Mem    <- ArchMem,
                 Status <- ArchStatus,
                 Alu    <- SimAlu,
                 InitMems <- [DRAM -> Byte],
                 InitGPRs <- [Reg -> Word]

(* Every behaviour of the pipeline is one of the instruction-level         *)
(* simulator, whatever the branch predictor answers: no instruction is     *)
(* lost, executed twice, executed on a mispredicted path, or executed on   *)
(* operands other than those its predecessors left (proceedNStage,         *)
(* RIPSimulator.cpp:647-728, against Simulator::run).                      *)
ImplementsGolden == Golden!Spec

(* Operands are the values all earlier instructions leave, however far      *)
(* they have come: decode's forwarding from EX and MA (lines 433-493), the  *)
(* writeback earlier in the cycle and the load-use stall together hide the  *)
(* pipeline from exec.                                                      *)
OperandsArchitectural ==
  phase = "EX" /\ ~Empty(EX) /\ Status = "run" =>
    LET w == Insts[EX] IN
      /\ HasRs1(w) /\ Mnemo(w) \notin CSRImm => DEVal.rs1 = ArchGPRegs[Rs1(w)]
      /\ HasRs2(w) => DEVal.rs2 = ArchGPRegs[Rs2(w)]
      /\ Mnemo(w) \in CSR_INSTs => DEVal.csr = ArchStates[CsrOf(Imm(w))]

-----------------------------------------------------------------------------
(* Where the two simulators differ, and nothing in the repository says     *)
(* which is right, the comparison is about programs that do not go there.  *)

ReadsRs1(w) == HasRs1(w) /\ Mnemo(w) \notin CSRImm
ReadsRs2(w) == HasRs2(w)

\* An operand that names x0 is read from the register file (see ZeroRegister).
ZeroFromFile ==
  phase = "DE" /\ Status = "run" /\ Except = nullopt /\ Live(DE) /\ Decodes =>
    LET w == Insts[DE] IN
      (ReadsRs1(w) /\ Rs1(w) = 0) \/ (ReadsRs2(w) /\ Rs2(w) = 0) =>
        forwardOnDE(0) = GPRegs[0]

\* No store hits an instruction that has been fetched already.
StoresApart ==
  At("MA") /\ ~Empty(MA) /\ ~MemFails(Insts[MA], EXVal) =>
    \A s \in {IFs, DE, EX} : ~Empty(s) =>
      readWord(MemWritten(Insts[MA], EXVal), PCs[s]) = readWord(Mem, PCs[s])

\* The fetch does not leave DRAM before the execution does.
FetchInDRAM ==
  At("IF") /\ IFs \notin StalledStages /\ Access(PC, 4) # "ok" => Empty(DE) /\ Empty(IFs)

\* The CSR instruction in MA writes none of these CSRs.
NotPending(csrs) == Holds(MA, CSR_INSTs) => CsrOf(Imm(Insts[MA])) \notin csrs

\* exec meets none of the instructions the two simulators execute differently.
SameExecution ==
  phase = "EX" =>
    LET target == Wrap(DEVal.rs1 + DEVal.imm)
        status == States[MSTATUS]
    IN /\ ~Holds(EX, {"csrrc", "csrrci"})
       /\ Holds(EX, {"jalr"}) => ClearBit0(target) = target
       /\ Holds(EX, Loads) => ~Printed(target)
       /\ Holds(EX, {"mret"}) => /\ NotPending({MSTATUS})
                                 /\ getMPP(status) # Hypervisor
                                 /\ setMPREV(status, 0) = status

\* A trap finds interrupts disabled, and nothing that its handler has to outrun.
SameTrap ==
  phase = "XC" /\ Traps /\ Mode = Machine =>
    /\ NotPending({MSTATUS, MEPC, MCAUSE, MTVAL})
    /\ getMIE(States[MSTATUS]) = 0 /\ getMPIE(States[MSTATUS]) = 0
    /\ BranchPredPC = nullopt

\* Nothing stands behind an extx.
ExtxLast == phase = "XC" /\ Except = R1 => ~Live(DE) /\ ~Live(IFs)

(* The programs the comparison is about keep to this. *)
Comparable ==
  Status = "run" => /\ ZeroFromFile /\ StoresApart /\ FetchInDRAM
                    /\ SameExecution /\ SameTrap /\ ExtxLast

(* The arithmetic of the two simulators is the same where the programs use *)
(* it.  csrrc is left out: they do not have it (SameExecution).            *)
SameArithmetic ==
  \A op \in ({Mnemo(w) : w \in Code} \cap (AluImm \cup RTypeKinds)) \cup {"csrrs"} :
    \A a, b \in Word : SimAlu(op, a, b) = Alu(op, a, b)
=============================================================================
