---------------------- MODULE PredictedPipeline_proofs ----------------------
(***************************************************************************)
(* Proofs about the pipeline and its branch predictor: the pipeline calls  *)
(* the predictor in the order BranchPredictors asks for, whatever the      *)
(* program, the kind of predictor and its widths.                          *)
(***************************************************************************)
EXTENDS PredictedPipeline, Pipeline_proofs

\* Branches are no other kind of instruction.
LEMMA BranchKinds ==
  /\ BTypeKinds \cap Loads = {} /\ BTypeKinds \cap CSR_INSTs = {}
  /\ BTypeKinds \cap (AluImm \cup RTypeKinds) = {} /\ BTypeKinds \cap UTypeKinds = {}
  /\ BTypeKinds \cap STypeKinds = {}
  /\ BTypeKinds \cap {"jal", "jalr", "ecall", "ebreak", "ext", "extx", "mret", "uret",
                      "sret"} = {}
  BY DEF BTypeKinds, Loads, CSR_INSTs, CSRImm, AluImm, RTypeKinds, UTypeKinds, STypeKinds

(* A stage never holds a stale address: PCs of a branch is a word.         *)
LEMMA PendingType == TypeOK => Pending \in Word \cup {nullopt}
<1> SUFFICES ASSUME TypeOK PROVE Pending \in Word \cup {nullopt}
  OBVIOUS
<1>1. PCs[DE] \in Word /\ PCs[EX] \in Word
  BY ExecOperands
<1> QED BY <1>1 DEF Pending

(* The shift carries the pending branch from DE to EX.                     *)
LEMMA FetchPending == TypeInv /\ StallInv /\ fetch => Pending' = Pending
<1> SUFFICES ASSUME TypeInv, StallInv, fetch PROVE Pending' = Pending
  OBVIOUS
<1>a. phase = "IF"
  BY DEF fetch, FetchStalled, Fetch, FetchFails, At
<1>1. CASE FetchFails
  BY <1>1 DEF FetchFails, stages, Pending, Decodes, Holds, Empty
<1>2. CASE FetchStalled
  <2>1. StalledStages = {DE, IFs}
    BY <1>2 DEF FetchStalled, StallInv, StallOnlyForLoadUse
  <2>2. Insts'[EX] = nullptr
    BY <1>2, <2>1, ShiftStalled DEF FetchStalled
  <2>3. Pending = nullopt
    BY <1>a, <2>1 DEF Pending, Decodes
  <2>4. phase' \in {"IF", "WB"} /\ (phase' = "IF" => Insts'[DE] = nullptr)
    BY <1>2, <1>a, StageFacts DEF FetchStalled, StartCycle, Goto
  <2> QED BY <2>2, <2>3, <2>4 DEF Pending, Decodes, Holds, Empty
<1>3. CASE Fetch
  <2>1. StalledStages = {}
    BY <1>3 DEF Fetch, StallInv, StallOnlyForLoadUse
  <2>2. Insts'[EX] = Insts[DE] /\ PCs'[EX] = PCs[DE]
    BY <1>3, <2>1, ShiftAll DEF Fetch
  <2>3. \/ phase' = "WB"
        \/ phase' = "IF" /\ Insts'[DE] = nullptr /\ Insts'[EX] = nullptr
    BY <1>3, <1>a, StageFacts DEF Fetch, StartCycle, Goto
  <2> QED BY <1>a, <2>1, <2>2, <2>3 DEF Pending, Decodes, Holds, Empty
<1> QED BY <1>1, <1>2, <1>3 DEF fetch

(* Every step that neither asks nor tells leaves the pending branch alone  *)
(* or forgets it.                                                          *)
LEMMA RestPending ==
  ASSUME TypeInv, StallInv, HasBP, Next, ~Asks, ~Tells
  PROVE  UNCHANGED PrevPred /\ Pending' \in {Pending, nullopt}
<1>1. CASE fetch
  BY <1>1, FetchPending DEF fetch, FetchStalled, Fetch, FetchFails
<1>2. CASE writeback \/ memory
  BY <1>2 DEF writeback, memory, MemoryAccess, NoMemoryAccess, MemoryAccessFails, At, Goto,
     stages, control, Pending, Holds, Decodes, Empty
<1>3. CASE exec
  <2>1. ~Holds(EX, BTypeKinds)
    BY <1>3 DEF Tells, At, exec, execNothing, execData, execUpper, execJump, execLoad,
       execStore, execCsr, execBranch, execRaise, execMret, execUnimplemented, Exec
  <2>2. phase = "EX" /\ phase' \in {"EX", "DE"} /\ UNCHANGED <<Insts, PrevPred>>
    BY <1>3 DEF exec, execNothing, execData, execUpper, execJump, execLoad, execStore,
       execCsr, execBranch, execRaise, execMret, execUnimplemented, Exec, At, Goto,
       stages, control
  <2> QED BY <2>1, <2>2 DEF Pending, Holds
<1>4. CASE decodes
  <2>1. ~decodeBranch /\ phase = "DE" /\ phase' = "XC"
    BY <1>4 DEF Asks, decodes, decode, decodeBranch, decodeNothing, At, Goto
  <2>2. UNCHANGED <<Insts, StalledStages, PrevPred>>
    BY <1>4, <2>1 DEF decodes, decode, decodeNothing, stages, control
  <2>3. ~(Decodes /\ Holds(DE, BTypeKinds))
    BY <1>4 DEF Asks, decodes, decode, decodeBranch, decodeNothing
  <2> QED BY <2>1, <2>2, <2>3 DEF Pending, Decodes, Holds, Empty
<1>5. CASE handleException
  BY <1>5 DEF handleException, NoException, Break, EnterEpilogue, Trap, TrapFails, At,
     Goto, stages, control, Pending, Decodes, Holds, Empty
<1>6. CASE Redirect
  <2>1. phase = "PC" /\ phase' = "IF" /\ UNCHANGED <<PCs, StalledStages, PrevPred>>
        /\ Insts'[DE] \in {nullptr, Insts[DE]}
    BY <1>6, StageFacts DEF Redirect, At, Goto
  <2> QED BY <2>1 DEF Pending, Decodes, Holds, Empty
<1>7. CASE Stopped
  BY <1>7 DEF Stopped, vars, stages, control, Pending, Decodes, Holds, Empty
<1> QED BY <1>1, <1>2, <1>3, <1>4, <1>5, <1>6, <1>7 DEF Next, proceedNStage

-----------------------------------------------------------------------------
(* Every step of the pipeline is one of BranchPredictors, or none.         *)
LEMMA LessonStep ==
  ASSUME HasBP, TypeInv, StallInv, [PredNext]_allvars
  PROVE  [BP!Next]_BP!vars
<1>a. \A v : v \in Word => v # nullopt
  BY WordFacts
<1>b. PCs[DE] \in Word /\ PCs[EX] \in Word
  BY ExecOperands DEF TypeInv
<1>1. CASE decodeBranch /\ BP!Predict(PCs[DE])
  <2>1. Pending' = PCs[DE]
    BY <1>1 DEF decodeBranch, Pending, Decodes, Holds, Empty, Goto
  <2>2. BP!Decoded(PCs[DE])
    BY <1>1, <2>1 DEF BP!Decoded
  <2> QED BY <1>b, <2>2 DEF BP!Next
<1>2. CASE execBranch /\ Tells /\ Teaches
  <2>1. Pending = PCs[EX] /\ Pending' = nullopt
    BY <1>2 DEF execBranch, Exec, Tells, At, Pending, Goto
  <2>2. PICK cond \in BOOLEAN : cond = Taken(Op, DEVal.rs1, DEVal.rs2)
    BY TakenType
  <2>3. BP!Executed(cond)
    BY <1>2, <2>1, <2>2, <1>a, <1>b DEF Teaches, BP!Executed, BP!None, nullopt
  <2> QED BY <2>3 DEF BP!Next
<1>3. CASE Next /\ ~Asks /\ ~Tells /\ UNCHANGED predictor
  <2>1. UNCHANGED PrevPred /\ Pending' \in {Pending, nullopt}
    BY <1>3, RestPending
  <2>2. UNCHANGED <<BP!tables, y, PrevPred>>
    BY <1>3, <2>1 DEF predictor, BP!tables
  <2>3. CASE Pending' = Pending
    BY <2>2, <2>3 DEF BP!vars
  <2>4. CASE Pending' # Pending
    <3>1. Pending # nullopt /\ Pending' = nullopt
      BY <2>1, <2>4
    <3>2. BP!Squashed
      BY <2>2, <3>1 DEF BP!Squashed, BP!None, nullopt
    <3> QED BY <3>2 DEF BP!Next
  <2> QED BY <2>3, <2>4
<1>4. CASE UNCHANGED allvars
  BY <1>4 DEF allvars, predictor, vars, stages, control, Pending, Decodes, Holds, Empty,
     BP!vars, BP!tables
<1> QED BY <1>1, <1>2, <1>3, <1>4 DEF PredNext

\* With a predictor the pipeline takes its own steps.
LEMMA PredStepsNext == [PredNext]_allvars => [Next]_vars
  BY DEF PredNext, allvars, decodeBranch, execBranch, Next, proceedNStage, exec, decodes

LEMMA PredTypeInvariant == PredSpec => [](TypeInv /\ StallInv)
<1>1. PredInit => TypeInv /\ StallInv
  BY InitType, InitStall DEF PredInit
<1>2. TypeInv /\ StallInv /\ [PredNext]_allvars => (TypeInv /\ StallInv)'
  BY PredStepsNext, StepType, StepStall
<1> QED BY <1>1, <1>2, PTL DEF PredSpec

(* Whatever the program, the kind of predictor and its widths: exec        *)
(* teaches the branch that decode asked for last, before decode asks for   *)
(* the next one, and squashes come in between without a lesson (decode,    *)
(* lines 530-541, exec, lines 385-406).                                    *)
THEOREM LessonsInStep ==
  ASSUME HasBP
  PROVE  PredSpec => LessonsMatchPredictions
<1>1. PredInit => BP!Init
  BY DEF PredInit
<1>2. TypeInv /\ StallInv /\ [PredNext]_allvars => [BP!Next]_BP!vars
  BY LessonStep
<1> QED BY <1>1, <1>2, PredTypeInvariant, PTL DEF PredSpec, LessonsMatchPredictions, BP!Spec

-----------------------------------------------------------------------------
(* As long as a branch is pending, nothing the predictor answered with has *)
(* changed: this is PredictionStands in every phase of the cycle.          *)
AnswerStands ==
  Pending # nullopt =>
    /\ PrevPred = BP!Answer(Pending)
    /\ Kind = "perceptron" => y = BP!Score(Pending)

\* Until its lesson, no step changes what a prediction was made from.
LEMMA StepAnswer ==
  ASSUME AnswerStands, [BP!Next]_BP!vars
  PROVE  AnswerStands'
<1>1. CASE \E pc \in Word : BP!Decoded(pc)
  <2>1. PICK pc \in Word : BP!Decoded(pc)
    BY <1>1
  <2>2. /\ Pending' = pc /\ PrevPred' = BP!Answer(pc)
        /\ Kind = "perceptron" => y' = BP!Score(pc)
        /\ UNCHANGED <<Kind, BranchHistoryTable, BranchHistory, WeightArray>>
    BY <2>1 DEF BP!Decoded, BP!Predict, BP!tables
  <2>3. BP!Score(pc)' = BP!Score(pc) /\ BP!Answer(pc)' = BP!Answer(pc)
    BY <2>2 DEF BP!Score, BP!Answer, BP!BHTIndex
  <2> QED BY <2>2, <2>3 DEF AnswerStands
<1>2. CASE (\E cond \in BOOLEAN : BP!Executed(cond)) \/ BP!Squashed
  <2>1. Pending' = nullopt
    BY <1>2 DEF BP!Executed, BP!Squashed, BP!None, nullopt
  <2> QED BY <2>1 DEF AnswerStands
<1>3. CASE UNCHANGED BP!vars
  <2>1. UNCHANGED <<Kind, BranchHistoryTable, BranchHistory, WeightArray, y, PrevPred, Pending>>
    BY <1>3 DEF BP!vars, BP!tables
  <2> QED
    BY <2>1 DEF AnswerStands, BP!Score, BP!Answer, BP!BHTIndex
<1> QED BY <1>1, <1>2, <1>3 DEF BP!Next

(* When exec judges a branch, the tables and the history are those its     *)
(* prediction was made with, and the perceptron's y is the sum of that     *)
(* branch: Learn (BranchPredictor.h:125-155, 196-249) finds what Predict   *)
(* left, whatever was stalled, flushed and predicted in between.           *)
THEOREM PredictionsStand ==
  ASSUME HasBP
  PROVE  PredSpec => []PredictionStands
<1>1. PredInit => AnswerStands
  <2> SUFFICES ASSUME Init PROVE Pending = nullopt
    BY DEF PredInit, AnswerStands
  <2>1. phase = "IF" /\ Insts[DE] = nullptr
    BY StageFacts DEF Init
  <2> QED BY <2>1 DEF Pending, Decodes, Empty
<1>2. TypeInv /\ StallInv /\ AnswerStands /\ [PredNext]_allvars => AnswerStands'
  BY LessonStep, StepAnswer
<1>3. TypeInv /\ AnswerStands => PredictionStands
  <2> SUFFICES ASSUME TypeInv, AnswerStands, At("EX"), Holds(EX, BTypeKinds)
               PROVE  /\ PrevPred = BP!Answer(PCs[EX])
                      /\ Kind = "perceptron" => y = BP!Score(PCs[EX])
    BY DEF PredictionStands
  <2>1. Pending = PCs[EX] /\ PCs[EX] # nullopt
    BY ExecOperands, WordFacts DEF Pending, At, TypeInv
  <2> QED BY <2>1 DEF AnswerStands
<1> QED BY <1>1, <1>2, <1>3, PredTypeInvariant, PTL DEF PredSpec
=============================================================================
