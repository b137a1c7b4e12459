------------------------- MODULE PredictedPipeline -------------------------
(***************************************************************************)
(* The pipeline with one of the simulator's own branch predictors: decode  *)
(* takes its answer, exec teaches it.                                      *)
(***************************************************************************)
EXTENDS Pipeline

CONSTANTS Kinds, IndexWidth, HistoryBitwidth, Xor(_, _)

VARIABLES Kind, BranchHistoryTable, BranchHistory, WeightArray, y

predictor == <<Kind, BranchHistoryTable, BranchHistory, WeightArray, y>>
allvars   == <<vars, predictor>>

(* The branch whose prediction is still to be judged, read off the stages: *)
(* in DE once decode has run, in EX until exec has.  A stalled branch has  *)
(* not been decoded.                                                       *)
Pending ==
  CASE phase \in {"XC", "PC", "IF"} /\ Decodes /\ Holds(DE, BTypeKinds) -> PCs[DE]
    [] phase \in {"WB", "MA", "EX"} /\ Holds(EX, BTypeKinds)            -> PCs[EX]
    [] OTHER -> nullopt

BP == INSTANCE BranchPredictors WITH BranchPCs <- Word, pending <- Pending

PredInit == Init /\ BP!Init

\* decode asks for the branch in DE, exec tells of the branch in EX.
Asks  == At("DE") /\ HasBP /\ Decodes /\ Holds(DE, BTypeKinds)
Tells == At("EX") /\ HasBP /\ Holds(EX, BTypeKinds)

\* Mutant: the lesson is filed under the address of the fetch.
TeachesFetch == BP!Learn(Taken(Op, DEVal.rs1, DEVal.rs2), PC)

Teaches == BP!Learn(Taken(Op, DEVal.rs1, DEVal.rs2), PCs[EX])

PredNext ==
  \/ decodeBranch /\ BP!Predict(PCs[DE])
  \/ execBranch /\ Tells /\ Teaches
  \/ Next /\ ~Asks /\ ~Tells /\ UNCHANGED predictor

PredSpec == PredInit /\ [][PredNext]_allvars

-----------------------------------------------------------------------------
(* Predictions and lessons keep in step: exec teaches the branch whose      *)
(* prediction is recorded, with the history it was made with, before       *)
(* decode asks for the next one, although branches are stalled, flushed and *)
(* predicted on wrong paths in between.  The perceptron, which trains on   *)
(* the sum of the last prediction, relies on it (BranchPredictor.h:231).   *)
LessonsMatchPredictions == BP!Spec

(* The same as a state: when exec judges a branch, the predictor would      *)
(* still give the answer that was acted on.                                *)
PredictionStands ==
  At("EX") /\ Holds(EX, BTypeKinds) =>
    /\ PrevPred = BP!Answer(PCs[EX])
    /\ Kind = "perceptron" => y = BP!Score(PCs[EX])
=============================================================================
