------------------------------ MODULE Pipeline ------------------------------
(***************************************************************************)
(* The five-stage pipeline of class RIPSimulator.                          *)
(*                                                                         *)
(* A clock cycle is one call of proceedNStage(1).  The model takes it in   *)
(* the steps of that function, in its order: phase is the place reached.   *)
(*                                                                         *)
(*   "IF"  fetch and shift the stages   "MA" memoryaccess   "DE" decode    *)
(*   "WB"  writeback                    "EX" exec           "XC" exception *)
(*                                                          "PC" redirect  *)
(*                                                                         *)
(* Within a cycle the stages run from the oldest instruction to the        *)
(* youngest: this is what lets a value written back be read by decode in   *)
(* the same cycle, and what forwarding, stalls and flushes rely on.        *)
(***************************************************************************)
EXTENDS RiscvIsa

CONSTANTS
  HasBP,         \* TRUE when the simulator was given a branch predictor.
  EndAddress,    \* run's EndAddress, or nullopt.
  InitMems,      \* Memory images the simulator may be started on.
  InitGPRs,      \* Register files it may be started with (x2 is the stack pointer).
  Garbage,       \* Values an uninitialised field of PipelineStates may hold.
  nullptr        \* An empty stage.

ASSUME PipelineAssumption ==
  /\ HasBP \in BOOLEAN
  /\ EndAddress \in Word \cup {nullopt}
  /\ InitMems \subseteq [DRAM -> Byte]
  /\ InitGPRs \subseteq [Reg -> Word]
  /\ Garbage \subseteq Word
  /\ nullptr \notin Word

VARIABLES
  phase,         \* Where proceedNStage is.
  Status,        \* "run", or why the simulator stopped.
  PC,            \* Fetch address.
  Mode,          \* Privilege mode.
  GPRegs,        \* General purpose registers.
  States,        \* Control and status registers.
  Mem,           \* DRAM.
  Insts,         \* Instruction in each stage.
  PCs,           \* Its address.
  StalledStages, \* Stages that keep their instruction in the next shift.
  InvalidStages, \* Stages to be emptied at the end of the cycle.
  DEVal,         \* Values decode leaves for exec: rs1, rs2, csr, imm.
  EXVal,         \* Values exec leaves for memoryaccess: rd, rs2, csr, imm.
  MAVal,         \* Values memoryaccess leaves for writeback: rd, csr, imm.
  BranchPC,      \* Redirection decided by exec, or nullopt.
  BranchPredPC,  \* Redirection predicted by decode, or nullopt.
  PrevPred,      \* Last prediction of the branch predictor.
  Except         \* Exception exec returned, or nullopt.

arch    == <<Mode, GPRegs, States, Mem>>
stages  == <<Insts, PCs, StalledStages, InvalidStages>>
latches == <<DEVal, EXVal, MAVal>>
control == <<PC, BranchPC, BranchPredPC, PrevPred, Except, Status>>
vars    == <<phase, arch, stages, latches, control>>

\* The enum STAGES.  IF is a reserved word.
IFs == 0
DE  == 1
EX  == 2
MA  == 3
WB  == 4
STAGES == 0 .. 4

Phases == {"IF", "WB", "MA", "EX", "DE", "XC", "PC"}

Init ==
  /\ phase = "IF"
  /\ Status = "run"
  /\ PC = DRAMBase
  /\ Mode = Machine
  /\ GPRegs \in InitGPRs
  /\ States = [a \in CSRAddress |-> 0]
  /\ Mem \in InitMems
  /\ Insts = [s \in STAGES |-> nullptr]
  /\ StalledStages = {} /\ InvalidStages = {}
  /\ \E g \in Garbage :
       /\ PCs = [s \in STAGES |-> g]
       /\ DEVal = [rs1 |-> g, rs2 |-> 0, csr |-> 0, imm |-> 0]
  /\ EXVal = [rd |-> 0, rs2 |-> 0, csr |-> 0, imm |-> 0]
  /\ MAVal = [rd |-> 0, csr |-> 0, imm |-> 0]
  /\ BranchPC = nullopt /\ BranchPredPC = nullopt
  /\ PrevPred = FALSE
  /\ Except = nullopt

At(p)     == phase = p /\ Status = "run"
Goto(p)   == phase' = p
Empty(s)  == Insts[s] = nullptr
Holds(s, kinds) == Insts[s] # nullptr /\ Mnemo(Insts[s]) \in kinds

\* The CSR an instruction names: its immediate, & 0xfff.
CsrOf(imm) == imm % CSR_SIZE

-----------------------------------------------------------------------------
(* Fetch: proceedPC and proceed shift the stages from WB down and stop at  *)
(* the first stage whose predecessor is stalled.                           *)

\* Stage s takes over what its predecessor held (for IFs: the fetched word).
Advances(s) == \A t \in StalledStages : ~(s - 1 <= t /\ t < WB)

Proceed(inst) ==
  Insts' = [s \in STAGES |->
              CASE Advances(s) /\ s = IFs -> inst
                [] Advances(s) /\ s # IFs -> Insts[s - 1]
                \* the instruction was moved on and nothing took its place
                [] ~Advances(s) /\ s # WB /\ Advances(s + 1) -> nullptr
                [] OTHER -> Insts[s]]

\* Mutant: PC is advanced before proceedPC is told of it.
ProceedPCLate(pc) ==
  PCs' = [s \in STAGES |-> CASE ~Advances(s) -> PCs[s]
                             [] Advances(s) /\ s = IFs -> Wrap(pc + 4)
                             [] OTHER -> PCs[s - 1]]

ProceedPC(pc) ==
  PCs' = [s \in STAGES |-> CASE ~Advances(s) -> PCs[s]
                             [] Advances(s) /\ s = IFs -> pc
                             [] OTHER -> PCs[s - 1]]

\* isEmpty after the shift ends the simulation.
StartCycle == IF \A s \in STAGES : Insts'[s] = nullptr
              THEN Status' = "empty" /\ UNCHANGED phase
              ELSE UNCHANGED Status /\ Goto("WB")

\* Mutant: the stall is never cleared.
FetchStalledForever ==
  /\ At("IF") /\ IFs \in StalledStages
  /\ Proceed(nullptr) /\ ProceedPC(Wrap(-1))
  /\ StartCycle
  /\ UNCHANGED <<arch, latches, StalledStages, PC, InvalidStages, BranchPC,
                 BranchPredPC, PrevPred, Except>>

FetchStalled ==
  /\ At("IF") /\ IFs \in StalledStages
  /\ Proceed(nullptr) /\ ProceedPC(Wrap(-1))
  /\ StalledStages' = {}
  /\ StartCycle
  /\ UNCHANGED <<arch, latches, PC, InvalidStages, BranchPC, BranchPredPC,
                 PrevPred, Except>>

Fetch ==
  /\ At("IF") /\ IFs \notin StalledStages
  /\ Access(PC, 4) = "ok"
  /\ LET w == readWord(Mem, PC)
     IN /\ Proceed(IF w \in Code THEN w ELSE nullptr)
        /\ PC' = IF w \in Code THEN Wrap(PC + 4) ELSE PC
  /\ ProceedPC(PC)
  /\ StartCycle
  /\ UNCHANGED <<arch, latches, StalledStages, InvalidStages, BranchPC,
                 BranchPredPC, PrevPred, Except>>

FetchFails ==
  /\ At("IF") /\ IFs \notin StalledStages
  /\ Access(PC, 4) # "ok"
  /\ Status' = Access(PC, 4)
  /\ UNCHANGED <<phase, arch, stages, latches, PC, BranchPC, BranchPredPC,
                 PrevPred, Except>>

-----------------------------------------------------------------------------
(* Writeback. *)

write(r, v) == GPRegs' = IF r = 0 THEN GPRegs ELSE [GPRegs EXCEPT ![r] = v]

writeback ==
  /\ At("WB")
  /\ IF Empty(WB) \/ Holds(WB, BTypeKinds \cup STypeKinds)
     THEN UNCHANGED <<GPRegs, States>>
     ELSE /\ write(Rd(Insts[WB]), MAVal.rd)
          /\ States' = IF Holds(WB, CSR_INSTs)
                       THEN [States EXCEPT ![CsrOf(MAVal.imm)] = MAVal.csr]
                       ELSE States
  /\ Goto("MA")
  /\ UNCHANGED <<Mode, Mem, stages, latches, control>>

-----------------------------------------------------------------------------
(* Memory access.  A result that equals the console address is printed     *)
(* and everything is printed in the epilogue: neither reaches the memory.  *)

Printed(rd) == rd = MMIO \/ Mode = Epilogue

\* Mutant: the address is checked also when the value is only printed.
MemFailsPrinting(inst, v) == /\ Mnemo(inst) \in Loads \cup STypeKinds
                             /\ Access(v.rd, Width(Mnemo(inst))) # "ok"

\* What memoryaccess does with EXVal = v for the instruction inst.
MemFails(inst, v) == /\ Mnemo(inst) \in Loads \cup STypeKinds
                     /\ ~Printed(v.rd)
                     /\ Access(v.rd, Width(Mnemo(inst))) # "ok"
MemResult(inst, v) == IF Mnemo(inst) \in Loads /\ ~Printed(v.rd)
                      THEN LoadValue(Mnemo(inst), Mem, v.rd) ELSE v.rd
\* Mutant: every store writes a word.
MemWrittenWide(inst, v) == IF Mnemo(inst) \in STypeKinds /\ ~Printed(v.rd)
                           THEN StoreValue("sw", Mem, v.rd, v.rs2) ELSE Mem
MemWritten(inst, v) == IF Mnemo(inst) \in STypeKinds /\ ~Printed(v.rd)
                       THEN StoreValue(Mnemo(inst), Mem, v.rd, v.rs2) ELSE Mem

MemoryAccess ==
  /\ At("MA") /\ ~Empty(MA) /\ ~MemFails(Insts[MA], EXVal)
  /\ Mem' = MemWritten(Insts[MA], EXVal)
  /\ MAVal' = [rd  |-> MemResult(Insts[MA], EXVal),
               csr |-> EXVal.csr, imm |-> EXVal.imm]
  /\ Goto("EX")
  /\ UNCHANGED <<Mode, GPRegs, States, stages, DEVal, EXVal, control>>

NoMemoryAccess ==
  /\ At("MA") /\ Empty(MA)
  /\ Goto("EX")
  /\ UNCHANGED <<arch, stages, latches, control>>

MemoryAccessFails ==
  /\ At("MA") /\ ~Empty(MA) /\ MemFails(Insts[MA], EXVal)
  /\ Status' = Access(EXVal.rd, Width(Mnemo(Insts[MA])))
  /\ UNCHANGED <<phase, arch, stages, latches, PC, BranchPC, BranchPredPC,
                 PrevPred, Except>>

-----------------------------------------------------------------------------
(* Execution: one action per kind of instruction. *)

Exec(kinds) == At("EX") /\ Holds(EX, kinds) /\ Goto("DE")

Op == Mnemo(Insts[EX])

\* The last assignments of exec.
Latch(rd, csr) ==
  EXVal' = [EXVal EXCEPT !.rd = rd, !.csr = csr, !.imm = DEVal.imm]

\* Mutant: the instruction in IF survives.
FlushDE == InvalidStages' = InvalidStages \cup {DE}

Flush == InvalidStages' = InvalidStages \cup {DE, IFs}

execNothing ==
  /\ At("EX") /\ Empty(EX) /\ Goto("DE")
  /\ UNCHANGED <<arch, stages, latches, control>>

execData ==
  /\ Exec(AluImm \cup RTypeKinds)
  /\ Latch(Alu(Op, DEVal.rs1, IF Op \in RTypeKinds THEN DEVal.rs2 ELSE DEVal.imm), 0)
  /\ UNCHANGED <<arch, stages, DEVal, MAVal, control>>

execUpper ==
  /\ Exec(UTypeKinds)
  /\ Latch(Wrap((IF Op = "auipc" THEN PCs[EX] ELSE 0) + DEVal.imm * UImmUnit), 0)
  /\ UNCHANGED <<arch, stages, DEVal, MAVal, control>>

execJump ==
  /\ Exec({"jal", "jalr"})
  /\ Latch(Wrap(PCs[EX] + 4), 0)
  /\ BranchPC' = Wrap((IF Op = "jal" THEN PCs[EX] ELSE DEVal.rs1) + DEVal.imm)
  /\ Flush
  /\ UNCHANGED <<arch, Insts, PCs, StalledStages, DEVal, MAVal, PC,
                 BranchPredPC, PrevPred, Except, Status>>

\* Mutant: the second operand is forgotten.
LoadUseRs1(load, user) == HasRs1(user) /\ Rd(load) = Rs1(user)

\* The instruction in DE reads the register a load in EX is about to fill.
LoadUse(load, user) ==
  \/ HasRs1(user) /\ Rd(load) = Rs1(user)
  \/ HasRs2(user) /\ Rd(load) = Rs2(user)

execLoad ==
  /\ Exec(Loads)
  /\ Latch(Wrap(DEVal.rs1 + DEVal.imm), 0)
  /\ StalledStages' = IF ~Empty(DE) /\ LoadUse(Insts[EX], Insts[DE])
                      THEN StalledStages \cup {DE, IFs} ELSE StalledStages
  /\ UNCHANGED <<arch, Insts, PCs, InvalidStages, DEVal, MAVal, control>>

execStore ==
  /\ Exec(STypeKinds)
  /\ EXVal' = [rd |-> Wrap(DEVal.rs1 + DEVal.imm), rs2 |-> DEVal.rs2,
               csr |-> 0, imm |-> DEVal.imm]
  /\ UNCHANGED <<arch, stages, DEVal, MAVal, control>>

execCsr ==
  /\ Exec(CSR_INSTs)
  /\ LET new == CASE Op \in {"csrrw", "csrrwi"} -> DEVal.rs1
                  [] Op \in {"csrrs", "csrrsi"} -> Alu("csrrs", DEVal.csr, DEVal.rs1)
                  [] OTHER                      -> Alu("csrrc", DEVal.csr, DEVal.rs1)
     IN Latch(DEVal.csr, new)
  /\ UNCHANGED <<arch, stages, DEVal, MAVal, control>>

\* Mutant: a taken branch without predictor leaves what was fetched behind it.
execBranchUnflushed ==
  /\ Exec(BTypeKinds)
  /\ Latch(0, 0)
  /\ PC' = IF Taken(Op, DEVal.rs1, DEVal.rs2) THEN Wrap(PCs[EX] + DEVal.imm) ELSE PC
  /\ UNCHANGED <<arch, Insts, PCs, StalledStages, InvalidStages, DEVal, MAVal,
                 BranchPC, BranchPredPC, PrevPred, Except, Status>>

execBranch ==
  /\ Exec(BTypeKinds)
  /\ Latch(0, 0)
  /\ LET cond   == Taken(Op, DEVal.rs1, DEVal.rs2)
         target == Wrap(PCs[EX] + DEVal.imm)
     IN IF HasBP
        THEN IF PrevPred # cond
             THEN /\ BranchPC' = IF cond THEN target ELSE Wrap(PCs[EX] + 4)
                  /\ Flush
                  /\ UNCHANGED PC
             ELSE UNCHANGED <<BranchPC, InvalidStages, PC>>
        ELSE IF cond
             THEN PC' = target /\ Flush /\ UNCHANGED BranchPC
             ELSE UNCHANGED <<BranchPC, InvalidStages, PC>>
  /\ UNCHANGED <<arch, Insts, PCs, StalledStages, DEVal, MAVal, BranchPredPC,
                 PrevPred, Except, Status>>

EcallCause(mode) == CASE mode = User       -> EnvCallU
                      [] mode = Supervisor -> EnvCallS
                      [] mode = Machine    -> EnvCallM
                      [] OTHER             -> IllegalInstruction

\* Instructions that only return an exception; the latches keep their values.
execRaise ==
  /\ Exec({"ecall", "ebreak", "ext", "extx"})
  /\ Except' = CASE Op = "ecall"  -> EcallCause(Mode)
                 [] Op = "ebreak" -> Breakpoint
                 [] Op = "ext"    -> R0
                 [] OTHER         -> R1
  /\ UNCHANGED <<arch, stages, latches, PC, BranchPC, BranchPredPC, PrevPred,
                 Status>>

\* Mutant: nothing is forwarded.
ForwardedNone(csr) == States[csr]

\* A CSR as mret and the traps read it: the write waiting in MA is forwarded.
Forwarded(csr) == IF Holds(MA, CSR_INSTs) /\ CsrOf(Imm(Insts[MA])) = csr
                  THEN MAVal.csr ELSE States[csr]

execMret ==
  /\ Exec({"mret"})
  /\ BranchPC' = Forwarded(MEPC)
  /\ Flush
  /\ LET mpp  == getMPP(Forwarded(MSTATUS))
         mpie == getMPIE(Forwarded(MSTATUS))
         cur  == IF mpp = Machine THEN States[MSTATUS]
                                  ELSE setMPREV(States[MSTATUS], 0)
     IN IF mpp = Hypervisor
        THEN Except' = IllegalInstruction /\ UNCHANGED <<Mode, States, EXVal>>
        ELSE /\ Mode' = IF mpp = User THEN Mode ELSE mpp
             /\ States' = [States EXCEPT
                  ![MSTATUS] = setMPP(setMPIE(setMIE(cur, mpie), 1), User)]
             /\ Latch(0, 0)
             /\ UNCHANGED Except
  /\ UNCHANGED <<GPRegs, Mem, Insts, PCs, StalledStages, DEVal, MAVal, PC,
                 BranchPredPC, PrevPred, Status>>

execUnimplemented ==
  /\ At("EX") /\ Holds(EX, {"uret", "sret"})
  /\ Status' = "abort"
  /\ UNCHANGED <<phase, arch, stages, latches, PC, BranchPC, BranchPredPC,
                 PrevPred, Except>>

-----------------------------------------------------------------------------
(* Decode: read the operands, forwarding from EX, then from MA. *)

\* Mutant: the older result wins.
forwardOldest(r) ==
  CASE ~Empty(MA) /\ HasRd(Insts[MA]) /\ r = Rd(Insts[MA]) -> MAVal.rd
    [] ~Empty(EX) /\ HasRd(Insts[EX]) /\ r = Rd(Insts[EX]) /\
       ~(~Empty(MA) /\ HasRd(Insts[MA]) /\ r = Rd(Insts[MA])) -> EXVal.rd
    [] OTHER -> GPRegs[r]

forwardOnDE(r) ==
  CASE ~Empty(EX) /\ HasRd(Insts[EX]) /\ r = Rd(Insts[EX]) -> EXVal.rd
    [] ~Empty(MA) /\ HasRd(Insts[MA]) /\ r = Rd(Insts[MA]) /\
       ~(~Empty(EX) /\ HasRd(Insts[EX]) /\ r = Rd(Insts[EX])) -> MAVal.rd
    [] OTHER -> GPRegs[r]

\* Mutant: the older write wins.
forwardCSROldest(csr) ==
  IF Holds(MA, CSR_INSTs) /\ csr = CsrOf(Imm(Insts[MA])) THEN MAVal.csr
  ELSE IF Holds(EX, CSR_INSTs) /\ csr = CsrOf(Imm(Insts[EX])) THEN EXVal.csr
  ELSE States[csr]

forwardCSROnDE(csr) ==
  IF Holds(EX, CSR_INSTs) /\ csr = CsrOf(Imm(Insts[EX])) THEN EXVal.csr
  ELSE Forwarded(csr)

\* Mutant: rs2 is read from the register file only.
OperandsRs2Late(w) ==
  [rs1 |-> CASE Mnemo(w) \in CSRImm -> Rs1(w)
             [] HasRs1(w) /\ Mnemo(w) \notin CSRImm -> forwardOnDE(Rs1(w))
             [] OTHER -> DEVal.rs1,
   rs2 |-> IF HasRs2(w) THEN GPRegs[Rs2(w)] ELSE DEVal.rs2,
   csr |-> IF Mnemo(w) \in CSR_INSTs THEN forwardCSROnDE(CsrOf(Imm(w))) ELSE DEVal.csr,
   imm |-> IF Mnemo(w) \in RTypeKinds THEN 0 ELSE Imm(w)]

Operands(w) ==
  [rs1 |-> CASE Mnemo(w) \in CSRImm -> Rs1(w)
             [] HasRs1(w) /\ Mnemo(w) \notin CSRImm -> forwardOnDE(Rs1(w))
             [] OTHER -> DEVal.rs1,
   rs2 |-> IF HasRs2(w) THEN forwardOnDE(Rs2(w)) ELSE DEVal.rs2,
   csr |-> IF Mnemo(w) \in CSR_INSTs THEN forwardCSROnDE(CsrOf(Imm(w))) ELSE DEVal.csr,
   imm |-> IF Mnemo(w) \in RTypeKinds THEN 0 ELSE Imm(w)]

\* Mutant: a stalled instruction is decoded, too.
DecodesStalled == ~Empty(DE)

Decodes == ~Empty(DE) /\ DE \notin StalledStages

decode ==
  /\ At("DE") /\ Decodes
  /\ ~(HasBP /\ Holds(DE, BTypeKinds))
  /\ DEVal' = Operands(Insts[DE])
  /\ Goto("XC")
  /\ UNCHANGED <<arch, stages, EXVal, MAVal, control>>

\* Mutant: a branch predicted taken leaves the next word in IF.
decodeBranchUnflushed ==
  /\ At("DE") /\ Decodes
  /\ HasBP /\ Holds(DE, BTypeKinds)
  /\ DEVal' = Operands(Insts[DE])
  /\ \E pred \in BOOLEAN :
       /\ PrevPred' = pred
       /\ BranchPredPC' = IF pred THEN Wrap(PCs[DE] + Imm(Insts[DE])) ELSE BranchPredPC
  /\ Goto("XC")
  /\ UNCHANGED <<arch, stages, EXVal, MAVal, PC, BranchPC, Except, Status>>

\* The predictor's answer is any Boolean: BranchPredictors.tla says which.
decodeBranch ==
  /\ At("DE") /\ Decodes
  /\ HasBP /\ Holds(DE, BTypeKinds)
  /\ DEVal' = Operands(Insts[DE])
  /\ \E pred \in BOOLEAN :
       /\ PrevPred' = pred
       /\ IF pred
          THEN /\ BranchPredPC' = Wrap(PCs[DE] + Imm(Insts[DE]))
               /\ InvalidStages' = InvalidStages \cup {IFs}
          ELSE UNCHANGED <<BranchPredPC, InvalidStages>>
  /\ Goto("XC")
  /\ UNCHANGED <<arch, Insts, PCs, StalledStages, EXVal, MAVal, PC, BranchPC,
                 Except, Status>>

decodeNothing ==
  /\ At("DE") /\ ~Decodes
  /\ Goto("XC")
  /\ UNCHANGED <<arch, stages, latches, control>>

-----------------------------------------------------------------------------
(* Exceptions, at the end of the cycle in which exec returned them. *)

NoException ==
  /\ At("XC") /\ Except = nullopt
  /\ Goto("PC")
  /\ UNCHANGED <<arch, stages, latches, control>>

\* Breakpoint and R0 stop the simulator where it is.
Break ==
  /\ At("XC") /\ Except \in {Breakpoint, R0}
  /\ Flush
  /\ Status' = "break"
  /\ UNCHANGED <<phase, arch, Insts, PCs, StalledStages, latches, PC, BranchPC,
                 BranchPredPC, PrevPred, Except>>

EnterEpilogue ==
  /\ At("XC") /\ Except = R1
  /\ Flush
  /\ Mode' = Epilogue
  /\ Except' = nullopt
  /\ Goto("PC")
  /\ UNCHANGED <<GPRegs, States, Mem, Insts, PCs, StalledStages, latches, PC,
                 BranchPC, BranchPredPC, PrevPred, Status>>

Traps == Except \notin {nullopt, Breakpoint, R0, R1}

\* The exception in EX is no CSR instruction: only MA can forward mtvec.  The
\* forwarded mstatus is computed too, and overwritten by a second read.
Trap ==
  /\ At("XC") /\ Traps /\ Mode = Machine
  /\ Flush
  /\ PC' = ClearBit0(Forwarded(MTVEC))
  /\ LET v == States[MSTATUS] IN
       States' = [States EXCEPT ![MEPC] = ClearBit0(PCs[EX]), ![MCAUSE] = Except,
                    ![MTVAL] = trap_val(Except, Insts[EX]),
                    ![MSTATUS] = setMPP(setMIE(setMPIE(v, getMIE(v)), 0), Mode)]
  /\ Except' = nullopt
  /\ Goto("PC")
  /\ UNCHANGED <<Mode, GPRegs, Mem, Insts, PCs, StalledStages, latches, BranchPC,
                 BranchPredPC, PrevPred, Status>>

TrapFails ==
  /\ At("XC") /\ Traps /\ Mode # Machine
  /\ Status' = "abort"
  /\ UNCHANGED <<phase, arch, stages, latches, PC, BranchPC, BranchPredPC,
                 PrevPred, Except>>

-----------------------------------------------------------------------------
(* The end of the cycle: redirect the fetch, fill the bubbles, and the     *)
(* tests of proceedNStage and run that end the simulation.                 *)

\* Mutant: the optional redirection of exec is not tested.
RedirectUnchecked ==
  /\ At("PC")
  /\ PC' = BranchPC
  /\ BranchPC' = nullopt /\ BranchPredPC' = nullopt
  /\ Insts' = [s \in STAGES |-> IF s \in InvalidStages THEN nullptr ELSE Insts[s]]
  /\ InvalidStages' = {}
  /\ Goto("IF")
  /\ UNCHANGED <<arch, PCs, StalledStages, latches, PrevPred, Except, Status>>

\* Mutant: run compares with the address before the redirection.
RedirectOldPC ==
  /\ At("PC")
  /\ PC' = CASE BranchPC # nullopt -> BranchPC
             [] BranchPC = nullopt /\ BranchPredPC # nullopt -> BranchPredPC
             [] OTHER -> PC
  /\ BranchPC' = nullopt /\ BranchPredPC' = nullopt
  /\ Insts' = [s \in STAGES |-> IF s \in InvalidStages THEN nullptr ELSE Insts[s]]
  /\ InvalidStages' = {}
  /\ Status' = CASE \A s \in STAGES : Insts'[s] = nullptr -> "empty"
                 [] EndAddress = PC /\ \E s \in STAGES : Insts'[s] # nullptr -> "end"
                 [] OTHER -> "run"
  /\ Goto("IF")
  /\ UNCHANGED <<arch, PCs, StalledStages, latches, PrevPred, Except>>

Redirect ==
  /\ At("PC")
  /\ PC' = CASE BranchPC # nullopt -> BranchPC
             [] BranchPC = nullopt /\ BranchPredPC # nullopt -> BranchPredPC
             [] OTHER -> PC
  /\ BranchPC' = nullopt /\ BranchPredPC' = nullopt
  /\ Insts' = [s \in STAGES |-> IF s \in InvalidStages THEN nullptr ELSE Insts[s]]
  /\ InvalidStages' = {}
  /\ Status' = CASE \A s \in STAGES : Insts'[s] = nullptr -> "empty"
                 [] EndAddress = PC' /\ \E s \in STAGES : Insts'[s] # nullptr -> "end"
                 [] OTHER -> "run"
  /\ Goto("IF")
  /\ UNCHANGED <<arch, PCs, StalledStages, latches, PrevPred, Except>>

Stopped == Status # "run" /\ UNCHANGED vars

fetch  == FetchStalled \/ Fetch \/ FetchFails
memory == MemoryAccess \/ NoMemoryAccess \/ MemoryAccessFails
exec   == \/ execNothing \/ execData \/ execUpper \/ execJump \/ execLoad
          \/ execStore \/ execCsr \/ execBranch \/ execRaise \/ execMret
          \/ execUnimplemented
decodes == decode \/ decodeBranch \/ decodeNothing
handleException == NoException \/ Break \/ EnterEpilogue \/ Trap \/ TrapFails

proceedNStage == \/ fetch \/ writeback \/ memory \/ exec \/ decodes
                 \/ handleException \/ Redirect

Next == proceedNStage \/ Stopped

Spec == Init /\ [][Next]_vars

\* run calls proceedNStage in a loop on one thread: it keeps going.
FairSpec == Spec /\ WF_vars(proceedNStage)

-----------------------------------------------------------------------------
(* Types: the one type invariant of the module. *)
TypeOK ==
  /\ phase \in Phases
  /\ Status \in {"run", "empty", "end", "break", "abort", "undefined"}
  /\ PC \in Word
  /\ Mode \in ModeKind
  /\ GPRegs \in [Reg -> Word]
  /\ States \in [CSRAddress -> Word]
  /\ Mem \in [DRAM -> Byte]
  /\ Insts \in [STAGES -> Code \cup {nullptr}]
  /\ PCs \in [STAGES -> Word]
  /\ StalledStages \subseteq STAGES
  /\ InvalidStages \subseteq STAGES
  /\ DEVal \in [rs1 : Word, rs2 : Word, csr : Word, imm : Word]
  /\ EXVal \in [rd : Word, rs2 : Word, csr : Word, imm : Word]
  /\ MAVal \in [rd : Word, csr : Word, imm : Word]
  /\ BranchPC \in Word \cup {nullopt}
  /\ BranchPredPC \in Word \cup {nullopt}
  /\ PrevPred \in BOOLEAN
  /\ Except \in Exception \cup {nullopt}

(* The stall protocol of exec (lines 165-176) and proceed (lines 144-151): *)
(* only a load in EX stalls, it stalls exactly DE and IF, and it does so   *)
(* for an instruction that is there and reads the loaded register.         *)
StallOnlyForLoadUse ==
  StalledStages # {} =>
    /\ StalledStages = {DE, IFs}
    /\ phase \in {"DE", "XC", "PC", "IF"}
    /\ Holds(EX, Loads)
    /\ ~Empty(DE)
    /\ LoadUse(Insts[EX], Insts[DE])

(* proceed keeps a stalled stage and fillBubble (lines 161-168) empties an *)
(* invalid one: were a stage ever both, the stalled instruction would be   *)
(* lost.                                                                   *)
StalledNeverFlushed == StalledStages \cap InvalidStages = {}

(* The address exec runs on after the instruction in EX, as long as that   *)
(* instruction does not redirect the fetch itself.                         *)
Live(s) == ~Empty(s) /\ s \notin InvalidStages
Upcoming == CASE Live(DE)               -> PCs[DE]
              [] ~Live(DE) /\ Live(IFs) -> PCs[IFs]
              [] OTHER                  -> PC

(* When exec comes to a branch, what was fetched behind it is what the     *)
(* recorded prediction says: PrevPred, a single field of the predictor,    *)
(* still belongs to that branch, although a younger branch may have been   *)
(* decoded, stalled or flushed meanwhile (decode, lines 530-541, exec,     *)
(* lines 385-395).  Behind any other instruction it is the next word.      *)
FetchFollowsPrediction ==
  phase = "EX" /\ ~Empty(EX) /\ Status = "run" =>
    Upcoming = IF HasBP /\ Holds(EX, BTypeKinds) /\ PrevPred
               THEN Wrap(PCs[EX] + Imm(Insts[EX])) ELSE Wrap(PCs[EX] + 4)

(* The program ends in front of EndAddress: run tests the fetch address     *)
(* once a cycle (line 636), after stalls, redirections and predictions     *)
(* have had their say, and the instruction that stands there never enters  *)
(* the pipeline, not even on a wrong path.                                 *)
EndNeverFetched ==
  EndAddress # DRAMBase =>
    \A s \in STAGES : ~Empty(s) => PCs[s] # EndAddress

(* The loop never spins on an empty pipeline: it goes on bringing          *)
(* instructions to exec until the simulator stops (proceedNStage and       *)
(* run, lines 629-728).                                                    *)
KeepsExecuting == []<>(Status # "run" \/ (phase = "EX" /\ ~Empty(EX)))
=============================================================================
