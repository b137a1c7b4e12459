--------------------------- MODULE ExecutionUnits ---------------------------
(***************************************************************************)
(* The first instruction of a loaded program, if it computes on data, in   *)
(* the execution units of both simulators: what its mnemonic makes of any  *)
(* two operands.                                                           *)
(***************************************************************************)
EXTENDS Toolchain

CONSTANT XLEN    \* Bits of the operands, 32 in the code.

ASSUME XLENAssumption == XLEN \in 1 .. 8

Pipe   == INSTANCE RvAlu
Inst   == INSTANCE InstructionAlu
Spec32 == INSTANCE ArithmeticSpec

VARIABLE Result  \* Operands of the instruction and its results.

UnitsInit == Init /\ Result = <<>>

DataInsts == DOMAIN RTypeKinds \cup {"addi", "slti", "sltiu", "xori", "ori", "andi",
                                     "slli", "srli", "srai"}
Operand == 0 .. 2^XLEN - 1

\* A shift by an immediate is below the width of a word.
Execute ==
  /\ At("running") /\ Result = <<>> /\ InMem(Sim.pc)
  /\ LET op == decode(readWord(Sim.pc)).op IN
       /\ op \in DataInsts
       /\ \E a, b \in Operand :
            /\ op \in Shifts => b < XLEN
            /\ Result' = [op |-> op, a |-> a, b |-> b,
                          pipeline |-> Pipe!ExecData(op, a, b),
                          instruction |-> Inst!ExecData(op, a, b)]
  /\ UNCHANGED vars

UnitsNext == \/ Execute
             \/ Next /\ UNCHANGED Result

UnitsSpec == UnitsInit /\ [][UnitsNext]_<<vars, Result>>

-----------------------------------------------------------------------------
(* Both execution units compute what RV32IM asks for, on every pair of      *)
(* operands: division by zero, the overflowing division, mixed products,    *)
(* shifts by more than a word, comparison of either sign                    *)
(* (RIPSimulator.cpp:139-345, Instructions.cpp:8-75, 193-311).              *)
ArithmeticAsSpecified ==
  Result # <<>> =>
    /\ Spec32!Computes(Result.op, Result.a, Result.b, Result.pipeline)
    /\ Spec32!Computes(Result.op, Result.a, Result.b, Result.instruction)
=============================================================================
