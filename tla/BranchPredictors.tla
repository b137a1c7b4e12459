-------------------------- MODULE BranchPredictors --------------------------
(***************************************************************************)
(* The branch predictors of BranchPredictor.h: onebit, twobit, gshare and  *)
(* perceptron.  The pipeline asks for the direction of a branch with       *)
(* Predict when it decodes it, and tells the outcome with Learn when it    *)
(* executes it, unless the branch was on a wrong path.  PredictedPipeline   *)
(* shows that the pipeline keeps to the order of Next.                     *)
(***************************************************************************)
EXTENDS Integers

CONSTANTS
  Kinds,            \* Predictors to choose from; a subset of AllKinds.
  IndexWidth,       \* Bits of a table index: BHTIndexWidth, EntryBitwidth.
  HistoryBitwidth,  \* Bits of the perceptron's history.
  BranchPCs,        \* Addresses of branches.
  Xor(_, _)         \* Exclusive or of two indices, bit by bit.

VARIABLES
  Kind,               \* The predictor the simulator was given.
  BranchHistoryTable, \* Its entries, or None where there is none yet.
  BranchHistory,      \* Last outcomes, the youngest in the lowest bit.
  WeightArray,        \* Weights of the perceptrons; the bias is number 0.
  y,                  \* Sum of the last prediction; Predict sets it before Learn reads it.
  PrevPred,           \* The last prediction.
  pending             \* Branch predicted and not yet executed, or None.

tables == <<Kind, BranchHistoryTable, BranchHistory, WeightArray>>
vars   == <<tables, y, PrevPred, pending>>

None     == -1
AllKinds == {"onebit", "twobit", "gshare", "perceptron"}
Index    == 0 .. 2^IndexWidth - 1

\* Bits of the history register.
HistoryWidth == CASE Kind = "gshare"     -> IndexWidth
                  [] Kind = "perceptron" -> HistoryBitwidth
                  [] OTHER               -> 0

\* The threshold of the training, floor(1.93 * HistoryBitwidth + 14), and half
\* the range of a weight, which has floor(log2(Theta)) + 1 bits.
Theta       == (193 * HistoryBitwidth + 1400) \div 100
WeightLimit == CHOOSE p \in {2^k : k \in 0 .. Theta} : p <= Theta /\ Theta < 2 * p

ASSUME PredictorAssumption ==
  /\ Kinds \subseteq AllKinds
  /\ IndexWidth \in Nat /\ HistoryBitwidth \in Nat
  /\ BranchPCs \subseteq Nat
  /\ \A i, j \in Index : Xor(i, j) \in Index

\* What is used of exponentiation: holds whatever the widths.
ASSUME PowersAssumption ==
  /\ 2^IndexWidth \in Nat \ {0}
  /\ \A k \in 0 .. Theta : 2^k \in Nat \ {0} /\ 2^(k + 1) = 2 * 2^k

Init ==
  /\ Kind \in Kinds
  /\ BranchHistoryTable = [i \in Index |-> None]
  /\ BranchHistory = 0
  /\ WeightArray = [i \in Index |-> [k \in 0 .. HistoryBitwidth |-> 0]]
  /\ y = 0
  /\ PrevPred = FALSE
  /\ pending = None

-----------------------------------------------------------------------------
(* Predict. *)

PerceptronIndex(pc) == (pc \div 4) % 2^IndexWidth
BHTIndex(pc) == IF Kind = "gshare" THEN Xor(PerceptronIndex(pc), BranchHistory)
                                   ELSE PerceptronIndex(pc)

\* The input of weight k >= 1: 1 for a taken branch in the history, else -1.
Input(h, k) == IF (h \div 2^(k - 1)) % 2 = 0 THEN -1 ELSE 1

Sum(weights, h) ==
  LET sum[k \in 0 .. HistoryBitwidth] ==
        IF k = 0 THEN weights[0] ELSE sum[k - 1] + weights[k] * Input(h, k)
  IN sum[HistoryBitwidth]

\* What the predictor makes of a branch: an entry of the table, or the sum.
Score(pc) == IF Kind = "perceptron"
             THEN Sum(WeightArray[PerceptronIndex(pc)], BranchHistory)
             ELSE BranchHistoryTable[BHTIndex(pc)]

Answer(pc) == CASE Kind = "perceptron" -> Score(pc) >= 0
                [] Kind = "onebit"     -> Score(pc) = 1
                [] OTHER               -> Score(pc) >= 2

\* Mutant: the history is updated with the prediction.
PredictShifting(pc) ==
  /\ PrevPred' = Answer(pc)
  /\ y' = IF Kind = "perceptron" THEN Score(pc) ELSE y
  /\ BranchHistory' = (2 * BranchHistory + (IF Answer(pc) THEN 1 ELSE 0))
                        % 2^HistoryWidth
  /\ UNCHANGED <<Kind, BranchHistoryTable, WeightArray>>

Predict(pc) ==
  /\ PrevPred' = Answer(pc)
  /\ y' = IF Kind = "perceptron" THEN Score(pc) ELSE y
  /\ UNCHANGED tables

-----------------------------------------------------------------------------
(* Learn. *)

Bit(cond) == IF cond THEN 1 ELSE 0

Clamp(v, lo, hi) == IF v < lo THEN lo ELSE IF v > hi THEN hi ELSE v

\* Mutant: the counter is not clamped.
CountedFreely(entry, cond) ==
  IF entry = None THEN 0 ELSE IF cond THEN entry + 1 ELSE entry - 1

\* Mutant: an entry of 0 is taken for none.
CountedFromOne(entry, cond) ==
  IF entry \in {None, 0} THEN 0 ELSE Clamp(IF cond THEN entry + 1 ELSE entry - 1, 0, 3)

\* An entry met for the first time starts at 0, whatever the outcome.
Counted(entry, cond) ==
  IF entry = None THEN 0 ELSE Clamp(IF cond THEN entry + 1 ELSE entry - 1, 0, 3)

Entry(entry, cond) == IF Kind = "onebit" THEN Bit(cond) ELSE Counted(entry, cond)

LearnTable(cond, pc) ==
  /\ BranchHistoryTable' = [BranchHistoryTable EXCEPT ![BHTIndex(pc)] = Entry(@, cond)]
  /\ UNCHANGED WeightArray

\* The perceptron trains after a wrong or a weak answer; y is the sum that
\* Predict left, whichever branch it was for.  The bias is not clamped.
Trains(cond) == ((0 < y) # cond) \/ (y <= Theta /\ -y <= Theta)

\* Mutant: the weights are trained towards the history, not the outcome.
TrainedUnsigned(weights, cond) ==
  [k \in 0 .. HistoryBitwidth |->
     IF k = 0 THEN weights[0] + (IF cond THEN 1 ELSE -1)
     ELSE Clamp(weights[k] + Input(BranchHistory, k), -WeightLimit, WeightLimit - 1)]

Trained(weights, cond) ==
  LET t == IF cond THEN 1 ELSE -1
  IN [k \in 0 .. HistoryBitwidth |->
        IF k = 0 THEN weights[0] + t
        ELSE Clamp(weights[k] + t * Input(BranchHistory, k),
                   -WeightLimit, WeightLimit - 1)]

LearnPerceptron(cond, pc) ==
  /\ WeightArray' = IF Trains(cond)
                    THEN [WeightArray EXCEPT ![PerceptronIndex(pc)] = Trained(@, cond)]
                    ELSE WeightArray
  /\ UNCHANGED BranchHistoryTable

Learn(cond, pc) ==
  /\ IF Kind = "perceptron" THEN LearnPerceptron(cond, pc) ELSE LearnTable(cond, pc)
  /\ BranchHistory' = (2 * BranchHistory + Bit(cond)) % 2^HistoryWidth
  /\ UNCHANGED <<Kind, y, PrevPred>>

-----------------------------------------------------------------------------
(* The order in which the pipeline calls them. *)

Decoded(pc)    == pending' = pc /\ Predict(pc)
Executed(cond) == pending # None /\ Learn(cond, pending) /\ pending' = None
Squashed       == pending # None /\ pending' = None /\ UNCHANGED <<tables, y, PrevPred>>

Next == \/ \E pc \in BranchPCs : Decoded(pc)
        \/ \E cond \in BOOLEAN : Executed(cond)
        \/ Squashed

Spec == Init /\ [][Next]_vars

-----------------------------------------------------------------------------
(* Types: counters and weights keep to their range, the bias to none. *)
TypeOK ==
  /\ Kind \in Kinds
  /\ BranchHistoryTable \in [Index -> -1 .. 3]
  /\ BranchHistory \in 0 .. 2^HistoryWidth - 1
  /\ WeightArray \in [Index -> [0 .. HistoryBitwidth -> Int]]
  /\ \A i \in Index : \A k \in 1 .. HistoryBitwidth :
       WeightArray[i][k] \in -WeightLimit .. WeightLimit - 1
  /\ y \in Int
  /\ PrevPred \in BOOLEAN
  /\ pending \in BranchPCs \cup {None}

(* A lesson never makes the predictor worse at what it was taught: asked   *)
(* again with the same history, it leans at least as much towards the      *)
(* outcome, and more than before if its answer was wrong.  Only the first  *)
(* lesson of a counter is lost (lines 113 and 152).                        *)
Relearned(pc) == IF Kind = "perceptron"
                 THEN Sum(WeightArray'[PerceptronIndex(pc)], BranchHistory)
                 ELSE BranchHistoryTable'[BHTIndex(pc)]

LearningHelps ==
  [][\A cond \in BOOLEAN : Executed(cond) =>
       LET forward == (IF cond THEN 1 ELSE -1) * (Relearned(pending) - Score(pending))
       IN Kind = "perceptron" \/ Score(pending) # None =>
            forward >= (IF PrevPred # cond THEN 1 ELSE 0)]_vars

(* A branch that always goes the same way, while no other lesson is given, *)
(* is in the end predicted to: for counters after the lost lesson, for     *)
(* gshare once the history is full of it, for the perceptron although the  *)
(* training stops at Theta.                                                *)
Converges ==
  \A pc \in BranchPCs, cond \in BOOLEAN :
    /\ <>[][\A c \in BOOLEAN : Executed(c) => pending = pc /\ c = cond]_vars
    /\ []<><<pending = pc /\ Executed(cond)>>_vars
    => <>[](pending = pc => PrevPred = cond)
=============================================================================
