--------------------------- MODULE InstructionSim ---------------------------
(***************************************************************************)
(* The instruction-level simulator (class Simulator): the machine that     *)
(* executes one instruction per step.  It is the golden model of the       *)
(* repository, and the abstract specification the pipeline is compared     *)
(* with in PipelineRefinement.                                             *)
(*                                                                         *)
(* Each action is one round of Simulator::run for one kind of instruction: *)
(* decode at PC, exec, and the handling of the exception exec returned.    *)
(***************************************************************************)
EXTENDS RiscvIsa

CONSTANTS
  InitMems,     \* Memory images the simulator may be started on.
  InitGPRs      \* Register files it may be started with (x2 is the stack pointer).

VARIABLES
  PC,           \* Address of the next instruction.
  Mode,         \* Privilege mode.
  GPRegs,       \* General purpose registers.
  States,       \* Control and status registers.
  Mem,          \* DRAM.
  Status        \* "run", or why the simulator stopped.

vars == <<PC, Mode, GPRegs, States, Mem, Status>>

Init ==
  /\ PC = DRAMBase
  /\ Mode = Machine
  /\ GPRegs \in InitGPRs
  /\ States = [a \in CSRAddress |-> 0]
  /\ Mem \in InitMems
  /\ Status = "run"

-----------------------------------------------------------------------------
Inst   == readWord(Mem, PC)
Rs1Val == GPRegs[Rs1(Inst)]
Rs2Val == GPRegs[Rs2(Inst)]
Ad     == Wrap(Rs1Val + Imm(Inst))                  \* address of a load or a store
NextPC == Wrap(PC + 4)

Fetched(kinds) ==
  /\ Status = "run"
  /\ Access(PC, 4) = "ok"
  /\ Inst \in Code
  /\ Mnemo(Inst) \in kinds

write(r, v) == GPRegs' = IF r = 0 THEN GPRegs ELSE [GPRegs EXCEPT ![r] = v]

Data ==
  /\ Fetched(AluImm \cup RTypeKinds)
  /\ write(Rd(Inst), Alu(Mnemo(Inst), Rs1Val,
                         IF Mnemo(Inst) \in RTypeKinds THEN Rs2Val ELSE Imm(Inst)))
  /\ PC' = NextPC
  /\ UNCHANGED <<Mode, States, Mem, Status>>

Upper ==
  /\ Fetched(UTypeKinds)
  /\ write(Rd(Inst), Wrap((IF Mnemo(Inst) = "auipc" THEN PC ELSE 0)
                            + Imm(Inst) * UImmUnit))
  /\ PC' = NextPC
  /\ UNCHANGED <<Mode, States, Mem, Status>>

Jal ==
  /\ Fetched({"jal"})
  /\ write(Rd(Inst), NextPC)
  /\ PC' = Wrap(PC + Imm(Inst))
  /\ UNCHANGED <<Mode, States, Mem, Status>>

Jalr ==
  /\ Fetched({"jalr"})
  /\ PC' = ClearBit0(Ad)
  /\ write(Rd(Inst), NextPC)
  /\ UNCHANGED <<Mode, States, Mem, Status>>

Branch ==
  /\ Fetched(BTypeKinds)
  /\ PC' = IF Taken(Mnemo(Inst), Rs1Val, Rs2Val) THEN Wrap(PC + Imm(Inst)) ELSE NextPC
  /\ UNCHANGED <<Mode, GPRegs, States, Mem, Status>>

Load ==
  /\ Fetched(Loads)
  /\ Access(Ad, Width(Mnemo(Inst))) = "ok"
  /\ write(Rd(Inst), LoadValue(Mnemo(Inst), Mem, Ad))
  /\ PC' = NextPC
  /\ UNCHANGED <<Mode, States, Mem, Status>>

Store ==
  /\ Fetched(STypeKinds)
  /\ Ad # MMIO /\ Mode # Epilogue
  /\ Access(Ad, Width(Mnemo(Inst))) = "ok"
  /\ Mem' = StoreValue(Mnemo(Inst), Mem, Ad, Rs2Val)
  /\ PC' = NextPC
  /\ UNCHANGED <<Mode, GPRegs, States, Status>>

\* Stores that only print: to the console address, and all of them once in the epilogue.
StorePrinted ==
  /\ Fetched(STypeKinds)
  /\ Ad = MMIO \/ Mode = Epilogue
  /\ PC' = NextPC
  /\ UNCHANGED <<Mode, GPRegs, States, Mem, Status>>

\* exec uses the logical negation !CV (lines 97 and 118), not the complement.
CsrWritten(op, cv, src) ==
  LET Not(v) == IF v = 0 THEN 1 ELSE 0
  IN CASE op \in {"csrrw", "csrrwi"} -> src
       [] op \in {"csrrs", "csrrsi"} -> Alu("csrrs", cv, src)
       [] op = "csrrc"               -> Alu("and", src, Not(cv))
       [] OTHER                      -> Alu("and", cv, Not(src))

Csr ==
  /\ Fetched(CSR_INSTs)
  /\ LET ca == Decode[Inst].imm % CSR_SIZE
         cv == States[ca]
         src == IF Mnemo(Inst) \in CSRImm THEN Rs1(Inst) ELSE Rs1Val
     IN /\ States' = [States EXCEPT ![ca] = CsrWritten(Mnemo(Inst), cv, src)]
        /\ write(Rd(Inst), cv)
  /\ PC' = NextPC
  /\ UNCHANGED <<Mode, Mem, Status>>

-----------------------------------------------------------------------------
(* Exceptions. *)

\* The three writes to mstatus all start from the value read first: the last one stays.
TrapStatus(v) == setMPP(v, Mode)

Trap(cause) ==
  IF Mode = Machine
  THEN /\ PC' = ClearBit0(States[MTVEC])
       /\ States' = [States EXCEPT ![MEPC] = ClearBit0(PC), ![MCAUSE] = cause,
                                   ![MTVAL] = trap_val(cause, Inst),
                                   ![MSTATUS] = TrapStatus(@)]
       /\ UNCHANGED <<Mode, GPRegs, Mem, Status>>
  ELSE Status' = "abort" /\ UNCHANGED <<PC, Mode, GPRegs, States, Mem>>

EcallCause(mode) == CASE mode = User       -> EnvCallU
                      [] mode = Supervisor -> EnvCallS
                      [] mode = Machine    -> EnvCallM
                      [] OTHER             -> IllegalInstruction

Ecall == Fetched({"ecall"}) /\ Trap(EcallCause(Mode))

Mret ==
  /\ Fetched({"mret"})
  /\ LET v == States[MSTATUS] IN
       IF getMPP(v) = Hypervisor
       \* exec has set PC to mepc when it returns IllegalInstruction.
       THEN LET epc == States[MEPC] IN
            IF Mode = Machine
            THEN /\ PC' = ClearBit0(States[MTVEC])
                 /\ States' = [States EXCEPT ![MEPC] = ClearBit0(epc),
                                             ![MCAUSE] = IllegalInstruction,
                                             ![MTVAL] = Inst,
                                             ![MSTATUS] = TrapStatus(@)]
                 /\ UNCHANGED <<Mode, GPRegs, Mem, Status>>
            ELSE Status' = "abort" /\ PC' = epc
                 /\ UNCHANGED <<Mode, GPRegs, States, Mem>>
       ELSE /\ PC' = States[MEPC]
            /\ Mode' = IF getMPP(v) = User THEN Mode ELSE getMPP(v)
            /\ States' = [States EXCEPT
                 ![MSTATUS] = setMPP(setMPIE(setMIE(v, getMPIE(v)), 1), 0)]
            /\ UNCHANGED <<GPRegs, Mem, Status>>

Ebreak ==
  /\ Fetched({"ebreak", "ext"})
  /\ Status' = "break"
  /\ PC' = IF Mnemo(Inst) = "ext" THEN NextPC ELSE PC
  /\ UNCHANGED <<Mode, GPRegs, States, Mem>>

Extx ==
  /\ Fetched({"extx"})
  /\ Mode' = Epilogue
  /\ PC' = NextPC
  /\ UNCHANGED <<GPRegs, States, Mem, Status>>

\* run stops at the first word that does not decode.
Stop ==
  /\ Status = "run"
  /\ Access(PC, 4) = "ok"
  /\ Inst \notin Code
  /\ Status' = "empty"
  /\ UNCHANGED <<PC, Mode, GPRegs, States, Mem>>

\* A failing memory check or an unimplemented instruction is an assertion failure.
Fail ==
  /\ Status = "run"
  /\ \/ Access(PC, 4) # "ok" /\ Status' = Access(PC, 4)
     \/ /\ Fetched({"uret", "sret"})
        /\ Status' = "abort"
     \/ /\ Fetched(Loads \cup STypeKinds)
        /\ ~(Mnemo(Inst) \in STypeKinds /\ (Ad = MMIO \/ Mode = Epilogue))
        /\ Access(Ad, Width(Mnemo(Inst))) # "ok"
        /\ Status' = Access(Ad, Width(Mnemo(Inst)))
  /\ UNCHANGED <<PC, Mode, GPRegs, States, Mem>>

Stopped == Status # "run" /\ UNCHANGED vars

Next == \/ Data \/ Upper \/ Jal \/ Jalr \/ Branch \/ Load \/ Store
        \/ StorePrinted \/ Csr \/ Ecall \/ Mret \/ Ebreak \/ Extx \/ Stop
        \/ Fail \/ Stopped

Spec == Init /\ [][Next]_vars

\* run is a loop on one thread.
FairSpec == Spec /\ WF_vars(Next)
=============================================================================
