----------------------------- MODULE MCPipeline -----------------------------
(***************************************************************************)
(* Instances of the pipeline for TLC: a set of programs for each question. *)
(***************************************************************************)
EXTENDS RepositoryClaims, MCPrograms

InstructionAluOf8Bits == INSTANCE InstructionAlu WITH XLEN <- 8
MCSimAlu(op, a, b) == InstructionAluOf8Bits!ExecData(op, a, b)

NoAddress == nullopt

\* Both execution units compute the same: an assumption of PipelineCorrect.
ASSUME SameArithmetic

-----------------------------------------------------------------------------
(* Results read one, two and three instructions later: of registers, and   *)
(* of CSRs.  csrrc and csrrci are left out: the instruction-level simulator *)
(* negates the wrong way (Instructions.cpp:97 and 118).                    *)
DataAlphabet == <<I("addi", 1, 1, 3), R("sub", 3, 1, 2), R("mulhsu", 1, 3, 1),
                  U("auipc", 3, 1), U("lui", 1, 2), R("sra", 3, 2, 1),
                  I("slti", 1, 3, 5)>>
CsrAlphabet == <<I("csrrw", 1, 2, MTVEC), I("csrrs", 3, 1, MTVEC),
                 I("csrrwi", 1, 3, MCAUSE), I("csrrsi", 3, 2, MCAUSE),
                 I("addi", 1, 3, 5), I("csrrs", 1, 3, MCAUSE)>>

(* Loads and stores of each width, and the uses that stall on a load. *)
MemAlphabet == <<S("sw", 1, -4, 2), I("lw", 3, 2, -4), I("lb", 1, 2, -3),
                 S("sb", 3, -3, 2), I("addi", 1, 3, 93), I("lhu", 3, 2, -4),
                 S("sh", 1, -2, 2)>>
HazardPrograms == AllPrograms(1 .. 7, 4) \cup AllPrograms(8 .. 13, 4)
                    \cup AllPrograms(14 .. 20, 4)

(* Branches and jumps, forward and backward, the instructions they skip,   *)
(* and a branch that waits for a load.  The backward branch is not the     *)
(* first word: its target is in DRAM.                                      *)
BranchAlphabet == <<B("bne", 1, 3, 8), B("bltu", 1, 2, -4), I("jal", 3, 0, 12),
                    I("jalr", 3, 1, 28), I("addi", 1, 1, 8), I("lw", 1, 2, -4)>>
BranchPrograms ==
  {Loaded(p) : p \in {q \in Programs(1 .. 6, 4) : q[1] # 2}}

(* Returns from a trap, also with the mepc write still on its way; mstatus *)
(* is not read directly in front of mret, which writes it.  Address 28 is  *)
(* the fourth word.                                                        *)
MretAlphabet == <<I("addi", 1, 1, 28), I("csrrw", 3, 1, MEPC), N("mret"),
                  I("csrrs", 3, 0, MSTATUS), B("bltu", 1, 2, 8)>>
MretPrograms == {Loaded(<<7>> \o p) :
                   p \in {q \in Programs(7 .. 11, 4) : Apart(q, {10}, {9})}}

ControlDecode   == DecodeOf(BranchAlphabet \o MretAlphabet)
ControlPrograms == BranchPrograms \cup MretPrograms

(* Traps to a handler in the program, branches around them, and the CSRs   *)
(* the handler reads.  An access to a CSR the trap writes does not stand   *)
(* directly in front of the ecall: the trap and the access would both      *)
(* write it, in the wrong order.                                           *)
TrapAlphabet == <<I("addi", 1, 1, 28), I("csrrw", 3, 1, MTVEC), N("ecall"),
                  I("csrrs", 1, 0, MEPC), I("csrrs", 3, 1, MTVAL),
                  B("bne", 1, 3, 8)>>
TrapPrograms == {Loaded(<<21, 22>> \o p) :
                   p \in {q \in Programs(21 .. 26, 4) : Apart(q, {24, 25}, {23})}}

(* Programs that stop in every way the simulator can: at an instruction    *)
(* that asks for it, in an unimplemented one, in a failed memory check.    *)
(* The byte store writes the console when MMIO is 236.  extx is the last   *)
(* word: see ExtxIsNop.                                                    *)
StopAlphabet == <<I("addi", 1, 1, 20), S("sw", 1, 28, 1), N("ebreak"), N("ext"),
                  N("sret"), I("lw", 3, 1, 16), N("ecall"), I("jalr", 3, 1, 4),
                  S("sb", 2, -20, 1), N("extx")>>
StopPrograms == {Loaded(p) : p \in {q \in Programs(27 .. 36, 3) :
                                        q[1] # 36 /\ q[2] # 36}}

(* The branches of Control again, for a simulator without predictor. *)
SkipPrograms == {Loaded(p) : p \in {q \in Programs(37 .. 42, 4) : q[1] # 38}}

(* The instructions that stop the simulator, in Supervisor mode: mret goes  *)
(* to the sixth word, 36, which as mstatus makes it return to that mode.   *)
LeaveAlphabet == <<I("addi", 1, 1, 36), I("csrrw", 3, 1, MSTATUS),
                   I("csrrw", 3, 1, MEPC), N("mret")>>
LeavePrograms == {Loaded(<<43, 44, 45, 46, 27>> \o p) :
                    p \in {q \in Programs(27 .. 36, 2) : q[1] # 36}}

DataDecode   == DecodeOf(DataAlphabet \o CsrAlphabet \o MemAlphabet \o TrapAlphabet
                           \o StopAlphabet \o BranchAlphabet \o LeaveAlphabet)
DataPrograms == HazardPrograms \cup TrapPrograms \cup StopPrograms \cup SkipPrograms
                  \cup LeavePrograms

(* The programs that contradict the claims of RepositoryClaims. *)
ClaimAlphabet == <<I("addi", 0, 0, 5), I("addi", 1, 0, 28),
                   I("csrrw", 3, 1, MTVEC), N("ecall"), B("beq", 0, 0, 8),
                   N("extx"), N("ebreak")>>
ClaimDecode == DecodeOf(ClaimAlphabet)

ZeroPrograms    == {Loaded(<<1, 2>>)}
HandlerPrograms == {Loaded(<<2, 3, 2, 4, 5>>)}
ExtxPrograms    == {Loaded(<<6, 2, 2, 2>>)}
FullPrograms    == {Loaded(<<2, 7>>)}
=============================================================================
