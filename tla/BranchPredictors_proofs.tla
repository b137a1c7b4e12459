---------------------- MODULE BranchPredictors_proofs ----------------------
(***************************************************************************)
(* Proofs about the branch predictors: their types, among them the ranges  *)
(* of counters and weights, and that a lesson never makes a predictor      *)
(* worse at what it was taught.                                            *)
(***************************************************************************)
EXTENDS BranchPredictors, TLAPS, WellFoundedInduction

-----------------------------------------------------------------------------
(* Induction, in a form without an operator for a parameter: the numbers   *)
(* of which something holds are a set.                                     *)
LEMMA SetInduction ==
  ASSUME NEW S \in SUBSET Nat, 0 \in S, \A n \in S : n + 1 \in S
  PROVE  S = Nat
<1> DEFINE lt == OpToRel(<, Nat)
           T == Nat \ S
<1>1. IsWellFoundedOn(lt, Nat)
  BY NatLessThanWellFounded
<1>2. SUFFICES ASSUME T # {} PROVE FALSE
  OBVIOUS
<1>3. PICK m \in T : \A k \in T : <<k, m>> \notin lt
  <2> HIDE DEF lt
  <2>1. T \subseteq Nat
    OBVIOUS
  <2> HIDE DEF T
  <2> QED BY <1>1, <1>2, <2>1, WFMin
<1>4. m - 1 \in Nat /\ m - 1 < m /\ (m - 1) + 1 = m
  OBVIOUS
<1>5. <<m - 1, m>> \in lt
  BY <1>4 DEF OpToRel
<1>6. m - 1 \in S
  BY <1>3, <1>4, <1>5
<1>7. (m - 1) + 1 \in S
  BY <1>6
<1> QED BY <1>4, <1>7

\* The threshold and the range of the weights.
LEMMA ThetaType == HistoryBitwidth \in Nat /\ Theta \in Nat /\ Theta >= HistoryBitwidth
                   /\ Theta >= 14
  BY PredictorAssumption DEF Theta

\* A power of two exceeds its exponent: the weights can outgrow the threshold.
LEMMA BelowPower == \A n \in 0 .. Theta : n < 2^n
<1> DEFINE S == {n \in Nat : n <= Theta => n < 2^n}
<1>1. 0 \in S
  <2>1. 2^0 = 1
    OBVIOUS
  <2> QED BY <2>1
<1>2. ASSUME NEW n \in S PROVE n + 1 \in S
  <2> SUFFICES ASSUME n + 1 <= Theta PROVE n + 1 < 2^(n + 1)
    OBVIOUS
  <2>1. n \in Nat /\ n \in 0 .. Theta /\ n < 2^n
    BY ThetaType
  <2>2. PICK p \in Nat : p = 2^n /\ 2^(n + 1) = 2 * p
    BY <2>1, PowersAssumption
  <2> QED BY <2>1, <2>2
<1>3. S = Nat
  <2>1. S \in SUBSET Nat
    OBVIOUS
  <2> HIDE DEF S
  <2> QED BY <1>1, <1>2, <2>1, SetInduction
<1> QED BY <1>3, ThetaType

\* The weights have room for a lesson.
LEMMA LimitType == WeightLimit \in Nat /\ 1 <= WeightLimit
<1> DEFINE Fits(k) == 2^k <= Theta /\ Theta < 2 * 2^k
           S == {n \in Nat : n <= Theta => 2^n <= Theta \/ \E k \in 0 .. Theta : Fits(k)}
<1>1. 0 \in S
  <2>1. 2^0 = 1
    OBVIOUS
  <2> QED BY <2>1, ThetaType
<1>2. ASSUME NEW n \in S PROVE n + 1 \in S
  <2> SUFFICES ASSUME n + 1 <= Theta, ~ \E k \in 0 .. Theta : Fits(k)
               PROVE  2^(n + 1) <= Theta
    OBVIOUS
  <2>1. n \in Nat /\ n \in 0 .. Theta /\ 2^n <= Theta
    BY ThetaType
  <2>2. PICK p \in Nat : p = 2^n /\ 2^(n + 1) = 2 * p
    BY <2>1, PowersAssumption
  <2>3. ~(Theta < 2 * p)
    BY <2>1, <2>2
  <2> QED BY <2>2, <2>3, ThetaType
<1>3. S = Nat
  <2>1. S \in SUBSET Nat
    OBVIOUS
  <2> HIDE DEF S
  <2> QED BY <1>1, <1>2, <2>1, SetInduction
<1>4. Theta \in 0 .. Theta /\ 2^Theta \in Nat /\ Theta < 2^Theta
  BY ThetaType, BelowPower, PowersAssumption
<1>5. PICK k \in 0 .. Theta : Fits(k)
  BY <1>3, <1>4, ThetaType
<1>6. \E p \in {2^j : j \in 0 .. Theta} : p <= Theta /\ Theta < 2 * p
  BY <1>5
<1>7. WeightLimit \in {2^j : j \in 0 .. Theta}
  BY <1>6 DEF WeightLimit
<1>8. \A j \in 0 .. Theta : 2^j \in Nat \ {0}
  BY PowersAssumption
<1>9. WeightLimit \in Nat \ {0}
  BY <1>7, <1>8
<1> QED BY <1>9

-----------------------------------------------------------------------------
(* The sum of a perceptron.  Partial(s, w, h): s[k] is the sum of the bias *)
(* and the first k weights, each with the sign of its input.               *)
Partial(s, w, h) ==
  /\ s[0] = w[0]
  /\ \A k \in 1 .. HistoryBitwidth : s[k] = s[k - 1] + w[k] * Input(h, k)

\* There are partial sums, whatever the number of terms.
LEMMA PartialSums ==
  ASSUME NEW c \in Int, NEW n \in Nat, NEW d \in [1 .. n -> Int]
  PROVE  \E s \in [0 .. n -> Int] : s = [k \in 0 .. n |-> IF k = 0 THEN c ELSE s[k - 1] + d[k]]
<1> DEFINE Sums(m, s) == \A k \in 0 .. m : s[k] = IF k = 0 THEN c ELSE s[k - 1] + d[k]
           Summed(m) == \E s \in [0 .. m -> Int] : Sums(m, s)
           S == {m \in Nat : m <= n => Summed(m)}
<1>1. Summed(0)
  <2>1. [k \in 0 .. 0 |-> c] \in [0 .. 0 -> Int] /\ Sums(0, [k \in 0 .. 0 |-> c])
    OBVIOUS
  <2> QED BY <2>1
<1>2. ASSUME NEW m \in Nat, m + 1 <= n, Summed(m) PROVE Summed(m + 1)
  <2>1. PICK s \in [0 .. m -> Int] : Sums(m, s)
    BY <1>2
  <2> DEFINE r == [k \in 0 .. m + 1 |-> IF k = m + 1 THEN s[m] + d[m + 1] ELSE s[k]]
  <2>2. \A k \in 0 .. m : s[k] \in Int
    BY <2>1
  <2>3. m \in 0 .. m /\ m + 1 \in 1 .. n /\ d[m + 1] \in Int
    BY <1>2
  <2>4. s[m] + d[m + 1] \in Int
    BY <2>2, <2>3
  <2>5. \A k \in 0 .. m + 1 : k # m + 1 => k \in 0 .. m
    OBVIOUS
  <2>6. r \in [0 .. m + 1 -> Int]
    BY <2>2, <2>4, <2>5
  <2>7. \A k \in 0 .. m + 1 : r[k] = IF k = 0 THEN c ELSE r[k - 1] + d[k]
    <3> SUFFICES ASSUME NEW k \in 0 .. m + 1 PROVE r[k] = IF k = 0 THEN c ELSE r[k - 1] + d[k]
      OBVIOUS
    <3>1. CASE k = m + 1
      BY <3>1
    <3>2. CASE k # m + 1
      BY <3>2, <2>1
    <3> QED BY <3>1, <3>2
  <2> QED BY <2>6, <2>7
<1>3. S = Nat
  <2> HIDE DEF Summed
  <2>1. S \in SUBSET Nat /\ 0 \in S
    BY <1>1
  <2>2. ASSUME NEW m \in S PROVE m + 1 \in S
    BY <1>2
  <2> HIDE DEF S
  <2> QED BY <2>1, <2>2, SetInduction
<1>4. PICK s \in [0 .. n -> Int] : Sums(n, s)
  <2>1. Summed(n)
    <3> HIDE DEF Summed
    <3> QED BY <1>3
  <2> QED BY <2>1
<1>5. s = [k \in 0 .. n |-> IF k = 0 THEN c ELSE s[k - 1] + d[k]]
  BY <1>4
<1> QED BY <1>5

\* The recursive sum over the history satisfies its own equation.
LEMMA SumUnfolds ==
  ASSUME NEW w \in [0 .. HistoryBitwidth -> Int], NEW h
  PROVE  \E s \in [0 .. HistoryBitwidth -> Int] :
           Partial(s, w, h) /\ Sum(w, h) = s[HistoryBitwidth]
<1>a. HistoryBitwidth \in Nat
  BY PredictorAssumption
<1>b. \A k : Input(h, k) \in Int
  BY DEF Input
<1> DEFINE d == [k \in 1 .. HistoryBitwidth |-> w[k] * Input(h, k)]
           sum[k \in 0 .. HistoryBitwidth] ==
             IF k = 0 THEN w[0] ELSE sum[k - 1] + w[k] * Input(h, k)
<1>1. \A k \in 0 .. HistoryBitwidth : w[k] \in Int
  OBVIOUS
<1>2. w[0] \in Int /\ d \in [1 .. HistoryBitwidth -> Int]
  <2>1. \A k \in 1 .. HistoryBitwidth : w[k] * Input(h, k) \in Int
    BY <1>a, <1>b, <1>1
  <2> QED BY <1>a, <1>1, <2>1
<1>3. PICK s \in [0 .. HistoryBitwidth -> Int] :
        s = [k \in 0 .. HistoryBitwidth |-> IF k = 0 THEN w[0] ELSE s[k - 1] + d[k]]
  <2> HIDE DEF d
  <2> QED BY <1>a, <1>2, PartialSums
<1>4. s = [k \in 0 .. HistoryBitwidth |-> IF k = 0 THEN w[0] ELSE s[k - 1] + w[k] * Input(h, k)]
  <2>1. \A k \in 0 .. HistoryBitwidth : k # 0 => d[k] = w[k] * Input(h, k)
    BY <1>a
  <2> HIDE DEF d
  <2> QED BY <1>3, <2>1
<1>5. sum = [k \in 0 .. HistoryBitwidth |-> IF k = 0 THEN w[0] ELSE sum[k - 1] + w[k] * Input(h, k)]
  BY <1>4 DEF sum
<1>6. \A k \in 0 .. HistoryBitwidth : sum[k] = s[k]
  <2> DEFINE S == {n \in Nat : n <= HistoryBitwidth => sum[n] = s[n]}
  <2> HIDE DEF sum
  <2>1. 0 \in S
    BY <1>a, <1>4, <1>5
  <2>2. ASSUME NEW n \in S PROVE n + 1 \in S
    BY <1>a, <1>4, <1>5
  <2>3. S = Nat
    <3>1. S \in SUBSET Nat
      OBVIOUS
    <3> HIDE DEF S
    <3> QED BY <2>1, <2>2, <3>1, SetInduction
  <2> QED BY <2>3
<1>7. Sum(w, h) = sum[HistoryBitwidth]
  BY DEF Sum
<1>8. Partial(s, w, h)
  BY <1>a, <1>4 DEF Partial
<1> HIDE DEF sum
<1> QED BY <1>6, <1>7, <1>8, <1>a

-----------------------------------------------------------------------------
(* Types.  The counters of onebit are bits: LearningHelps needs it.        *)
OneBit == Kind = "onebit" => \A i \in Index : BranchHistoryTable[i] \in -1 .. 1

TypeInv == TypeOK /\ OneBit

\* The indices of a branch are in the tables.
LEMMA IndexType ==
  ASSUME TypeOK, NEW pc \in BranchPCs
  PROVE  PerceptronIndex(pc) \in Index /\ BHTIndex(pc) \in Index
<1>1. pc \div 4 \in Nat
  BY PredictorAssumption
<1>2. PICK p \in Nat \ {0} : p = 2^IndexWidth
  BY PowersAssumption
<1>3. PerceptronIndex(pc) \in Index
  BY <1>1, <1>2 DEF PerceptronIndex, Index
<1>4. CASE Kind = "gshare"
  <2>1. BranchHistory \in Index
    BY <1>4 DEF TypeOK, HistoryWidth, Index
  <2> QED BY <1>3, <1>4, <2>1, PredictorAssumption DEF BHTIndex
<1> QED BY <1>3, <1>4 DEF BHTIndex

\* The history register has a positive number of values.
LEMMA HistoryRange == ASSUME TypeOK PROVE 2^HistoryWidth \in Nat \ {0}
<1>1. 2^0 = 1 /\ HistoryBitwidth \in 0 .. Theta
  BY ThetaType
<1> QED BY <1>1, PowersAssumption DEF HistoryWidth

\* The perceptron's sum is a number.
LEMMA ScoreType ==
  ASSUME TypeOK, NEW pc \in BranchPCs
  PROVE  /\ Score(pc) \in Int
         /\ Kind # "perceptron" => Score(pc) \in -1 .. 3
<1>1. CASE Kind = "perceptron"
  <2>1. WeightArray[PerceptronIndex(pc)] \in [0 .. HistoryBitwidth -> Int]
    BY IndexType DEF TypeOK
  <2>2. PICK s \in [0 .. HistoryBitwidth -> Int] :
          Sum(WeightArray[PerceptronIndex(pc)], BranchHistory) = s[HistoryBitwidth]
    BY <2>1, SumUnfolds
  <2> QED BY <1>1, <2>2, ThetaType DEF Score
<1>2. CASE Kind # "perceptron"
  <2>1. BranchHistoryTable[BHTIndex(pc)] \in -1 .. 3
    BY IndexType DEF TypeOK
  <2> QED BY <1>2, <2>1 DEF Score
<1> QED BY <1>1, <1>2

\* A trained perceptron: the bias moves by one, the weights stay in range.
LEMMA TrainedType ==
  ASSUME NEW w \in [0 .. HistoryBitwidth -> Int], NEW cond \in BOOLEAN
  PROVE  /\ Trained(w, cond) \in [0 .. HistoryBitwidth -> Int]
         /\ \A k \in 1 .. HistoryBitwidth :
              Trained(w, cond)[k] \in -WeightLimit .. WeightLimit - 1
<1> DEFINE t == IF cond THEN 1 ELSE -1
           r == Trained(w, cond)
<1>1. PICK lim \in Nat : lim = WeightLimit /\ 1 <= lim
  BY LimitType
<1>2. HistoryBitwidth \in Nat
  BY PredictorAssumption
<1>3. r = [k \in 0 .. HistoryBitwidth |-> IF k = 0 THEN w[0] + t
             ELSE Clamp(w[k] + t * Input(BranchHistory, k), -lim, lim - 1)]
  BY <1>1 DEF Trained
<1>4. ASSUME NEW v \in Int PROVE Clamp(v, -lim, lim - 1) \in -lim .. lim - 1
  BY <1>1 DEF Clamp
<1>5. ASSUME NEW k \in 0 .. HistoryBitwidth
      PROVE  w[k] + t * Input(BranchHistory, k) \in Int /\ w[k] + t \in Int
  BY DEF Input
<1> HIDE DEF t, r
<1>6. r \in [0 .. HistoryBitwidth -> Int]
  <2>1. \A k \in 0 .. HistoryBitwidth :
          (IF k = 0 THEN w[0] + t
           ELSE Clamp(w[k] + t * Input(BranchHistory, k), -lim, lim - 1)) \in Int
    BY <1>2, <1>4, <1>5
  <2> QED BY <1>3, <2>1
<1>7. \A k \in 1 .. HistoryBitwidth : r[k] \in -lim .. lim - 1
  <2>1. ASSUME NEW k \in 1 .. HistoryBitwidth PROVE r[k] \in -lim .. lim - 1
    <3>1. k \in 0 .. HistoryBitwidth /\ k # 0
      BY <1>2
    <3>2. r[k] = Clamp(w[k] + t * Input(BranchHistory, k), -lim, lim - 1)
      BY <1>3, <3>1
    <3> QED BY <1>4, <1>5, <3>1, <3>2
  <2> QED BY <2>1
<1> QED BY <1>1, <1>6, <1>7 DEF r

\* The tables start empty, history and weights at zero.
LEMMA InitType == Init => TypeInv
<1> SUFFICES ASSUME Init PROVE TypeOK /\ OneBit
  BY DEF TypeInv
<1>1. PICK lim \in Nat : lim = WeightLimit /\ 1 <= lim
  BY LimitType
<1>2. 0 \in -WeightLimit .. WeightLimit - 1
  BY <1>1
<1>3. 2^HistoryWidth \in Nat \ {0}
  <2>1. 2^0 = 1 /\ HistoryBitwidth \in 0 .. Theta
    BY ThetaType
  <2> QED BY <2>1, PowersAssumption DEF HistoryWidth
<1>4. BranchHistoryTable = [i \in Index |-> -1] /\ BranchHistory = 0
      /\ WeightArray = [i \in Index |-> [k \in 0 .. HistoryBitwidth |-> 0]]
  BY DEF Init, None
<1>5. BranchHistory \in 0 .. 2^HistoryWidth - 1
  BY <1>3, <1>4
<1>6. WeightArray \in [Index -> [0 .. HistoryBitwidth -> Int]]
  BY <1>4
<1>7. \A i \in Index : \A k \in 1 .. HistoryBitwidth : WeightArray[i][k] = 0
  BY <1>4, PredictorAssumption
<1>8. \A i \in Index : \A k \in 1 .. HistoryBitwidth :
        WeightArray[i][k] \in -WeightLimit .. WeightLimit - 1
  BY <1>2, <1>7
<1>9. BranchHistoryTable \in [Index -> -1 .. 3] /\ OneBit
  BY <1>4 DEF OneBit
<1>10. Kind \in Kinds /\ y \in Int /\ pending \in BranchPCs \cup {None}
  BY DEF Init
<1>11. PrevPred \in BOOLEAN
  BY Zenon DEF Init
<1> QED BY <1>5, <1>6, <1>8, <1>9, <1>10, <1>11 DEF TypeOK

\* Every kind of predictor answers with a Boolean.
LEMMA AnswerType ==
  ASSUME TypeOK, NEW pc \in BranchPCs
  PROVE  /\ Answer(pc) \in BOOLEAN
         /\ Kind = "perceptron" => (Answer(pc) <=> Score(pc) >= 0)
         /\ Kind = "onebit" => (Answer(pc) <=> Score(pc) = 1)
         /\ Kind \notin {"perceptron", "onebit"} => (Answer(pc) <=> Score(pc) >= 2)
<1> DEFINE Positive == Score(pc) >= 0
           Upper    == Score(pc) >= 2
<1>a. Positive \in BOOLEAN /\ Upper \in BOOLEAN
  BY ScoreType
<1>0. "perceptron" # "onebit"
  OBVIOUS
<1>1. CASE Kind = "perceptron"
  <2>1. Kind # "onebit"
    BY <1>0, <1>1
  <2>2. CASE Positive
    <3>1. Answer(pc) = TRUE
      BY <1>1, <2>1, <2>2, Zenon DEF Answer
    <3> QED BY <1>1, <2>1, <2>2, <3>1
  <2>3. CASE ~Positive
    <3>1. Answer(pc) = FALSE
      BY <1>a, <1>1, <2>1, <2>3, Zenon DEF Answer
    <3> QED BY <1>1, <2>1, <2>3, <3>1
  <2> QED BY <2>2, <2>3
<1>2. CASE Kind = "onebit"
  <2>1. Kind # "perceptron"
    BY <1>0, <1>2
  <2>2. Answer(pc) = (Score(pc) = 1)
    BY <1>2, <2>1, Zenon DEF Answer
  <2> QED BY <1>2, <2>1, <2>2, Zenon
<1>3. CASE Kind # "perceptron" /\ Kind # "onebit"
  <2>2. CASE Upper
    <3>1. Answer(pc) = TRUE
      BY <1>3, <2>2, Zenon DEF Answer
    <3> QED BY <1>3, <2>2, <3>1
  <2>3. CASE ~Upper
    <3>1. Answer(pc) = FALSE
      BY <1>a, <1>3, <2>3, Zenon DEF Answer
    <3> QED BY <1>3, <2>3, <3>1
  <2> QED BY <2>2, <2>3
<1> QED BY <1>1, <1>2, <1>3

\* Predict keeps the types: it writes the answer and y only.
LEMMA PredictType == ASSUME TypeInv, NEW pc \in BranchPCs, Decoded(pc) PROVE TypeInv'
<1>1. UNCHANGED tables /\ pending' = pc
  BY DEF Decoded, Predict
<1>2. y' \in Int
  BY ScoreType DEF Decoded, Predict, TypeInv, TypeOK
<1>3. PrevPred' \in BOOLEAN
  <2>1. PrevPred' = Answer(pc)
    BY DEF Decoded, Predict
  <2>2. Answer(pc) \in BOOLEAN
    BY AnswerType DEF TypeInv
  <2> QED BY <2>1, <2>2, Zenon
<1> QED BY <1>1, <1>2, <1>3 DEF TypeInv, TypeOK, OneBit, tables, HistoryWidth

\* A two-bit counter stays between 0 and 3.
LEMMA CountedType ==
  ASSUME NEW entry \in -1 .. 3, NEW cond \in BOOLEAN
  PROVE  Entry(entry, cond) \in 0 .. 3 /\ (Kind = "onebit" => Entry(entry, cond) \in 0 .. 1)
  BY DEF Entry, Counted, Clamp, Bit, None

\* Learn keeps every counter and weight in its range.
LEMMA LearnType ==
  ASSUME TypeInv, NEW cond \in BOOLEAN, Executed(cond) PROVE TypeInv'
<1>a. pending \in BranchPCs /\ pending' = None /\ Learn(cond, pending) /\ TypeOK /\ OneBit
  BY DEF Executed, TypeInv, TypeOK
<1>b. PerceptronIndex(pending) \in Index /\ BHTIndex(pending) \in Index
  BY <1>a, IndexType
<1>1. Kind' = Kind /\ y' = y /\ PrevPred' = PrevPred /\ HistoryWidth' = HistoryWidth
  BY <1>a DEF Learn, HistoryWidth
<1>2. BranchHistory' \in 0 .. 2^HistoryWidth - 1
  <2>1. PICK p \in Nat \ {0} : p = 2^HistoryWidth
    BY <1>a, HistoryRange
  <2>2. 2 * BranchHistory + Bit(cond) \in Nat
    BY <1>a, <2>1 DEF TypeOK, Bit
  <2>3. BranchHistory' = (2 * BranchHistory + Bit(cond)) % p
    BY <1>a, <2>1 DEF Learn
  <2>4. \A v \in Nat : v % p \in 0 .. p - 1
    OBVIOUS
  <2> QED BY <2>1, <2>2, <2>3, <2>4
<1>3. BranchHistoryTable' \in [Index -> -1 .. 3] /\ OneBit'
  <2>1. CASE Kind = "perceptron"
    BY <1>a, <1>1, <2>1 DEF Learn, LearnPerceptron, TypeOK, OneBit
  <2>2. CASE Kind # "perceptron"
    <3>1. BranchHistoryTable' = [BranchHistoryTable EXCEPT
            ![BHTIndex(pending)] = Entry(BranchHistoryTable[BHTIndex(pending)], cond)]
      BY <1>a, <2>2 DEF Learn, LearnTable
    <3>2. BranchHistoryTable[BHTIndex(pending)] \in -1 .. 3
          /\ BranchHistoryTable \in [Index -> -1 .. 3]
      BY <1>a, <1>b DEF TypeOK
    <3>3. PICK e \in 0 .. 3 :
            /\ e = Entry(BranchHistoryTable[BHTIndex(pending)], cond)
            /\ Kind = "onebit" => e \in 0 .. 1
      BY <3>2, CountedType
    <3>4. BranchHistoryTable' = [BranchHistoryTable EXCEPT ![BHTIndex(pending)] = e]
      BY <3>1, <3>3
    <3>5. BranchHistoryTable' \in [Index -> -1 .. 3]
      <4>1. e \in -1 .. 3
        OBVIOUS
      <4> QED BY <3>2, <3>4, <4>1, Zenon
    <3>6. \A i \in Index : BranchHistoryTable'[i] \in {BranchHistoryTable[i], e}
      BY <3>2, <3>4
    <3> QED BY <1>a, <1>1, <3>3, <3>5, <3>6 DEF OneBit
  <2> QED BY <2>1, <2>2
<1>4. /\ WeightArray' \in [Index -> [0 .. HistoryBitwidth -> Int]]
      /\ \A i \in Index : \A k \in 1 .. HistoryBitwidth :
           WeightArray'[i][k] \in -WeightLimit .. WeightLimit - 1
  <2>a. /\ WeightArray \in [Index -> [0 .. HistoryBitwidth -> Int]]
        /\ \A i \in Index : \A k \in 1 .. HistoryBitwidth :
             WeightArray[i][k] \in -WeightLimit .. WeightLimit - 1
    BY <1>a DEF TypeOK
  <2>1. CASE WeightArray' = WeightArray
    BY <2>a, <2>1
  <2>2. CASE WeightArray' # WeightArray
    <3>1. WeightArray' = [WeightArray EXCEPT ![PerceptronIndex(pending)] =
                            Trained(WeightArray[PerceptronIndex(pending)], cond)]
      BY <1>a, <2>2 DEF Learn, LearnPerceptron, LearnTable
    <3>2. WeightArray[PerceptronIndex(pending)] \in [0 .. HistoryBitwidth -> Int]
      BY <1>b, <2>a
    <3>3. PICK w \in [0 .. HistoryBitwidth -> Int] :
            /\ w = Trained(WeightArray[PerceptronIndex(pending)], cond)
            /\ \A k \in 1 .. HistoryBitwidth : w[k] \in -WeightLimit .. WeightLimit - 1
      BY <3>2, TrainedType
    <3>4. WeightArray' = [WeightArray EXCEPT ![PerceptronIndex(pending)] = w]
      BY <3>1, <3>3
    <3>5. \A i \in Index : WeightArray'[i] \in {WeightArray[i], w}
      BY <2>a, <3>4
    <3>6. WeightArray' \in [Index -> [0 .. HistoryBitwidth -> Int]]
      BY <2>a, <3>4
    <3> QED BY <2>a, <3>3, <3>5, <3>6
  <2> QED BY <2>1, <2>2
<1> QED BY <1>a, <1>1, <1>2, <1>3, <1>4 DEF TypeInv, TypeOK

\* Every step keeps the types.
LEMMA StepType == TypeInv /\ [Next]_vars => TypeInv'
<1> SUFFICES ASSUME TypeInv, [Next]_vars PROVE TypeInv'
  OBVIOUS
<1>1. ASSUME NEW pc \in BranchPCs, Decoded(pc) PROVE TypeInv'
  BY <1>1, PredictType
<1>2. ASSUME NEW cond \in BOOLEAN, Executed(cond) PROVE TypeInv'
  BY <1>2, LearnType
<1>3. CASE Squashed
  BY <1>3 DEF Squashed, TypeInv, TypeOK, OneBit, HistoryWidth, tables
<1>4. CASE UNCHANGED vars
  BY <1>4 DEF vars, TypeInv, TypeOK, OneBit, HistoryWidth, tables
<1> QED BY <1>1, <1>2, <1>3, <1>4 DEF Next

\* The types, and the one-bit entries, always hold.
LEMMA TypeInvariant == Spec => []TypeInv
  BY InitType, StepType, PTL DEF Spec

(* Whatever the predictor, the width of its tables and of its history and  *)
(* the order of predictions, lessons and flushes: a two-bit counter never  *)
(* leaves 0 .. 3, a weight never leaves the range of its saturated type    *)
(* and every branch has an entry (BranchPredictor.h:94-247).               *)
THEOREM RangesKept == Spec => []TypeOK
<1>1. TypeInv => TypeOK
  BY DEF TypeInv
<1> QED BY <1>1, TypeInvariant, PTL

-----------------------------------------------------------------------------
(* What a lesson achieves.  The prediction that is judged still stands:    *)
(* nothing was learned since it was made.                                  *)
AnswerStands ==
  pending # None => /\ PrevPred = Answer(pending)
                    /\ Kind = "perceptron" => y = Score(pending)

\* Until the lesson, the answer is what the tables say.
LEMMA StepStands == TypeInv /\ AnswerStands /\ [Next]_vars => AnswerStands'
<1> SUFFICES ASSUME TypeInv, AnswerStands, [Next]_vars PROVE AnswerStands'
  OBVIOUS
<1>1. ASSUME NEW pc \in BranchPCs, Decoded(pc) PROVE AnswerStands'
  <2>1. UNCHANGED tables /\ pending' = pc
        /\ PrevPred' = Answer(pc) /\ (Kind = "perceptron" => y' = Score(pc))
    BY <1>1 DEF Decoded, Predict
  <2>2. Score(pc)' = Score(pc) /\ Answer(pc)' = Answer(pc)
    BY <2>1 DEF Score, Answer, BHTIndex, tables
  <2>3. pending' = pc => Answer(pending)' = Answer(pc)' /\ Score(pending)' = Score(pc)'
    BY DEF Score, Answer, BHTIndex
  <2> QED BY <2>1, <2>2, <2>3 DEF AnswerStands, tables
<1>2. ASSUME NEW cond \in BOOLEAN, Executed(cond) PROVE AnswerStands'
  BY <1>2 DEF Executed, AnswerStands
<1>3. CASE Squashed
  BY <1>3 DEF Squashed, AnswerStands
<1>4. CASE UNCHANGED vars
  BY <1>4 DEF vars, tables, AnswerStands, Score, Answer, BHTIndex
<1> QED BY <1>1, <1>2, <1>3, <1>4 DEF Next

\* A perceptron that trains moves its sum towards the outcome.
LEMMA TrainingHelps ==
  ASSUME NEW w \in [0 .. HistoryBitwidth -> Int], NEW cond \in BOOLEAN,
         \A k \in 1 .. HistoryBitwidth : w[k] \in -WeightLimit .. WeightLimit - 1
  PROVE  (IF cond THEN 1 ELSE -1)
           * (Sum(Trained(w, cond), BranchHistory) - Sum(w, BranchHistory)) >= 1
<1> DEFINE r == Trained(w, cond)
<1>1. PICK lim \in Nat : lim = WeightLimit /\ 1 <= lim
  BY LimitType
<1>2. HistoryBitwidth \in Nat
  BY PredictorAssumption
<1>3. r = [k \in 0 .. HistoryBitwidth |-> IF k = 0 THEN w[0] + (IF cond THEN 1 ELSE -1)
             ELSE Clamp(w[k] + (IF cond THEN 1 ELSE -1) * Input(BranchHistory, k), -lim, lim - 1)]
  BY <1>1 DEF Trained
<1>4. r \in [0 .. HistoryBitwidth -> Int]
  BY TrainedType
<1> HIDE DEF r
<1>5. PICK s \in [0 .. HistoryBitwidth -> Int] :
        Partial(s, w, BranchHistory) /\ Sum(w, BranchHistory) = s[HistoryBitwidth]
  BY SumUnfolds
<1>6. PICK q \in [0 .. HistoryBitwidth -> Int] :
        Partial(q, r, BranchHistory) /\ Sum(r, BranchHistory) = q[HistoryBitwidth]
  BY <1>4, SumUnfolds
<1>7. r[0] = w[0] + (IF cond THEN 1 ELSE -1)
  BY <1>2, <1>3
<1>8. ASSUME NEW k \in 1 .. HistoryBitwidth
      PROVE  (IF cond THEN 1 ELSE -1)
               * (r[k] * Input(BranchHistory, k) - w[k] * Input(BranchHistory, k)) >= 0
  <2>1. r[k] = Clamp(w[k] + (IF cond THEN 1 ELSE -1) * Input(BranchHistory, k), -lim, lim - 1)
    <3>1. k \in 0 .. HistoryBitwidth /\ k # 0
      BY <1>2
    <3> QED BY <1>3, <3>1
  <2>2. PICK v \in Int : v = w[k] /\ -lim <= v /\ v <= lim - 1
    BY <1>1, <1>2
  <2>3. CASE Input(BranchHistory, k) = 1
    BY <2>1, <2>2, <2>3, <1>1 DEF Clamp
  <2>4. CASE Input(BranchHistory, k) = -1
    BY <2>1, <2>2, <2>4, <1>1 DEF Clamp
  <2> QED BY <2>3, <2>4 DEF Input
<1> DEFINE Gains(k) == IF cond THEN q[k] - s[k] >= 1 ELSE s[k] - q[k] >= 1
           S == {n \in Nat : n <= HistoryBitwidth => Gains(n)}
<1>9. 0 \in S
  <2>1. w[0] \in Int /\ q[0] = r[0] /\ s[0] = w[0]
    BY <1>2, <1>5, <1>6 DEF Partial
  <2> QED BY <1>7, <2>1
<1>10. ASSUME NEW n \in S PROVE n + 1 \in S
  <2> SUFFICES ASSUME n + 1 <= HistoryBitwidth PROVE Gains(n + 1)
    OBVIOUS
  <2>1. n \in Nat /\ Gains(n) /\ n + 1 \in 1 .. HistoryBitwidth /\ (n + 1) - 1 = n
        /\ n \in 0 .. HistoryBitwidth /\ n + 1 \in 0 .. HistoryBitwidth
    BY <1>2
  <2>2. /\ q[n + 1] = q[n] + r[n + 1] * Input(BranchHistory, n + 1)
        /\ s[n + 1] = s[n] + w[n + 1] * Input(BranchHistory, n + 1)
    BY <1>5, <1>6, <2>1 DEF Partial
  <2>3. PICK a \in Int, b \in Int : /\ a = r[n + 1] * Input(BranchHistory, n + 1)
                                    /\ b = w[n + 1] * Input(BranchHistory, n + 1)
    <3>1. r[n + 1] \in Int /\ w[n + 1] \in Int /\ Input(BranchHistory, n + 1) \in Int
      BY <1>4, <2>1 DEF Input
    <3> QED BY <3>1
  <2>4. (IF cond THEN 1 ELSE -1) * (a - b) >= 0
    BY <1>8, <2>1, <2>3
  <2>5. q[n] \in Int /\ s[n] \in Int
    BY <2>1
  <2>6. q[n + 1] = q[n] + a /\ s[n + 1] = s[n] + b
    BY <2>2, <2>3
  <2>7. CASE cond
    BY <2>1, <2>4, <2>5, <2>6, <2>7
  <2>8. CASE ~cond
    BY <2>1, <2>4, <2>5, <2>6, <2>8
  <2> QED BY <2>7, <2>8
<1>11. Gains(HistoryBitwidth)
  <2>1. S = Nat
    <3>1. S \in SUBSET Nat
      OBVIOUS
    <3> HIDE DEF S
    <3> QED BY <1>9, <1>10, <3>1, SetInduction
  <2> HIDE DEF Gains
  <2> QED BY <1>2, <2>1
<1>12. q[HistoryBitwidth] \in Int /\ s[HistoryBitwidth] \in Int
  BY <1>2
<1> QED BY <1>5, <1>6, <1>11, <1>12 DEF r

\* An entry moves towards the outcome, and does if it gave the wrong answer.
LEMMA CountingHelps ==
  ASSUME NEW entry \in 0 .. 3, NEW cond \in BOOLEAN, Kind = "onebit" => entry \in 0 .. 1
  PROVE  LET forward == (IF cond THEN 1 ELSE -1) * (Entry(entry, cond) - entry)
         IN /\ forward >= 0
            /\ (IF Kind = "onebit" THEN entry = 1 ELSE entry >= 2) # cond => forward >= 1
  BY DEF Entry, Counted, Clamp, Bit, None

Helps(cond) ==
  LET forward == (IF cond THEN 1 ELSE -1) * (Relearned(pending) - Score(pending))
  IN Kind = "perceptron" \/ Score(pending) # None =>
       forward >= (IF PrevPred # cond THEN 1 ELSE 0)

\* A perceptron's lesson moves the sum towards the outcome.
LEMMA PerceptronHelps ==
  ASSUME TypeInv, AnswerStands, NEW cond \in BOOLEAN, Executed(cond), Kind = "perceptron"
  PROVE  Helps(cond)
<1> DEFINE i == PerceptronIndex(pending)
<1>a. pending \in BranchPCs /\ Learn(cond, pending) /\ TypeOK /\ PrevPred = Answer(pending)
      /\ y = Score(pending) /\ WeightArray \in [Index -> [0 .. HistoryBitwidth -> Int]]
  BY DEF Executed, TypeInv, TypeOK, AnswerStands
<1>b. i \in Index /\ y \in Int /\ Theta \in Nat /\ y = Sum(WeightArray[i], BranchHistory)
  BY <1>a, IndexType, ThetaType DEF TypeOK, Score
<1>c. Relearned(pending) = Sum(WeightArray'[i], BranchHistory)
  BY DEF Relearned
<1> HIDE DEF i
<1>1. CASE Trains(cond)
  <2>1. WeightArray'[i] = Trained(WeightArray[i], cond)
    BY <1>1, <1>a, <1>b DEF Learn, LearnPerceptron, i
  <2>2. WeightArray[i] \in [0 .. HistoryBitwidth -> Int]
        /\ \A k \in 1 .. HistoryBitwidth :
             WeightArray[i][k] \in -WeightLimit .. WeightLimit - 1
    BY <1>a, <1>b DEF TypeOK
  <2>3. (IF cond THEN 1 ELSE -1) * (Relearned(pending) - Score(pending)) >= 1
    BY <1>a, <1>b, <1>c, <2>1, <2>2, TrainingHelps
  <2>4. Trained(WeightArray[i], cond) \in [0 .. HistoryBitwidth -> Int]
    BY <2>2, TrainedType
  <2>5. Relearned(pending) \in Int /\ Score(pending) \in Int
    <3>1. PICK s \in [0 .. HistoryBitwidth -> Int] :
            Sum(Trained(WeightArray[i], cond), BranchHistory) = s[HistoryBitwidth]
      BY <2>4, SumUnfolds
    <3> QED BY <1>a, <1>b, <1>c, <2>1, <3>1, ThetaType
  <2> QED BY <2>3, <2>5 DEF Helps
<1>2. CASE ~Trains(cond)
  <2>1. Relearned(pending) = Score(pending) /\ Score(pending) \in Int
    BY <1>2, <1>a, <1>b, <1>c DEF Learn, LearnPerceptron
  <2>2. (0 < y <=> cond) /\ y # 0
    BY <1>2, <1>b DEF Trains
  <2>3. Answer(pending) <=> cond
    <3>1. Answer(pending) <=> Score(pending) >= 0
      BY <1>a, AnswerType
    <3>2. Score(pending) = y
      BY <1>a
    <3>3. y >= 0 <=> cond
      BY <1>b, <2>2
    <3> QED BY <3>1, <3>2, <3>3
  <2>4. ~(PrevPred # cond)
    BY <1>a, <2>3, AnswerType, Zenon
  <2> QED BY <2>1, <2>4 DEF Helps
<1> QED BY <1>1, <1>2

\* A lesson to a counter moves it towards the outcome.
LEMMA TableHelps ==
  ASSUME TypeInv, AnswerStands, NEW cond \in BOOLEAN, Executed(cond), Kind # "perceptron"
  PROVE  Helps(cond)
<1> DEFINE i == BHTIndex(pending)
<1>a. pending \in BranchPCs /\ Learn(cond, pending) /\ TypeOK /\ OneBit
      /\ PrevPred = Answer(pending)
  BY DEF Executed, TypeInv, TypeOK, AnswerStands
<1>b. i \in Index /\ BranchHistoryTable \in [Index -> -1 .. 3]
  BY <1>a, IndexType DEF TypeOK
<1>c. PICK e \in -1 .. 3 : e = BranchHistoryTable[i] /\ e = Score(pending)
  BY <1>b DEF Score
<1>d. Relearned(pending) = BranchHistoryTable'[i]
  BY DEF Relearned
<1>e. BranchHistoryTable' = [BranchHistoryTable EXCEPT ![i] = Entry(@, cond)]
  BY <1>a DEF Learn, LearnTable
<1> HIDE DEF i
<1>1. Relearned(pending) = Entry(e, cond)
  BY <1>b, <1>c, <1>d, <1>e
<1>2. SUFFICES ASSUME e # None PROVE Helps(cond)
  BY <1>c DEF Helps
<1>3. e \in 0 .. 3 /\ (Kind = "onebit" => e \in 0 .. 1)
  <2>1. Kind = "onebit" => e \in -1 .. 1
    BY <1>a, <1>b, <1>c DEF OneBit
  <2>2. e # -1
    BY <1>2 DEF None
  <2> QED BY <2>1, <2>2
<1>4. Entry(e, cond) \in 0 .. 3
  BY <1>3, CountedType
<1>5. PICK f \in Int : /\ f = (IF cond THEN 1 ELSE -1) * (Entry(e, cond) - e)
                       /\ f >= 0
                       /\ (IF Kind = "onebit" THEN e = 1 ELSE e >= 2) # cond => f >= 1
  BY <1>3, <1>4, CountingHelps
<1>6. PrevPred # cond => f >= 1
  <2>1. Answer(pending) <=> IF Kind = "onebit" THEN e = 1 ELSE e >= 2
    BY <1>a, <1>c, AnswerType
  <2>2. PrevPred \in BOOLEAN
    BY <1>a DEF TypeOK
  <2>3. PrevPred # cond => ~(Answer(pending) <=> cond)
    BY <1>a, <2>2, Zenon
  <2>4. ~(Answer(pending) <=> cond) => (IF Kind = "onebit" THEN e = 1 ELSE e >= 2) # cond
    BY <2>1
  <2> QED BY <1>5, <2>3, <2>4
<1> QED BY <1>1, <1>5, <1>6, <1>c DEF Helps

(* Whatever the predictor and whatever it was taught before, a lesson      *)
(* moves its score for the branch towards the outcome if its answer was    *)
(* wrong, and never away from it: for the perceptron because every weight  *)
(* is trained in the direction of its input, the clamped ones included,    *)
(* and the bias is never clamped (BranchPredictor.h:104-123, 143-164,      *)
(* 213-247).                                                               *)
THEOREM LessonsHelp == Spec => LearningHelps
<1>1. Init => AnswerStands
  BY DEF Init, AnswerStands
<1>2. TypeInv /\ AnswerStands /\ [Next]_vars => AnswerStands'
  BY StepStands
<1>3. TypeInv /\ AnswerStands =>
        [\A cond \in BOOLEAN : Executed(cond) =>
           LET forward == (IF cond THEN 1 ELSE -1) * (Relearned(pending) - Score(pending))
           IN Kind = "perceptron" \/ Score(pending) # None =>
                forward >= (IF PrevPred # cond THEN 1 ELSE 0)]_vars
  BY PerceptronHelps, TableHelps DEF Helps
<1> QED BY <1>1, <1>2, <1>3, TypeInvariant, PTL DEF Spec, LearningHelps

=============================================================================
