-------------------------- MODULE CountedPipeline --------------------------
(***************************************************************************)
(* The pipeline and what it counts: cycles, the branch predictor's hits    *)
(* and misses, the four counters of predictions among the CSRs, and the    *)
(* statistics printed for --stats.  The same executed instructions are     *)
(* counted as the instruction-level simulator counts them.                 *)
(***************************************************************************)
EXTENDS Pipeline, FiniteSetsExt

CONSTANT MaxCycles     \* Cycles looked at.

VARIABLES
  NumStages,   \* Cycles; CYCLE is incremented with it.
  Counters,    \* The CSRs BPTP, BPTN, BPFP and BPFN.
  HitNum, MissNum,
  Stats,       \* Statistics of RIPSimulator.
  SimStats     \* Statistics of Simulator on the instructions executed so far.

judgement == <<Counters, HitNum, MissNum>>
counted   == <<NumStages, judgement, Stats, SimStats>>

-----------------------------------------------------------------------------
(* Class Statistics. *)

NoStatistics == [InstCounts |-> <<>>, BDist |-> 0, BDists |-> <<>>]

\* A std::map from keys to counts: a key that is not there counts 0.
Count(map, key)     == IF key \in DOMAIN map THEN map[key] ELSE 0
Increment(map, key) == [k \in DOMAIN map \cup {key} |->
                          IF k = key THEN Count(map, key) + 1 ELSE map[k]]

incrementBDist(st)   == [st EXCEPT !.BDist = @ + 1]
addInst(st, op)      == [st EXCEPT !.InstCounts = Increment(@, op)]
addBDistAndReset(st) == [st EXCEPT !.BDists = Increment(@, st.BDist), !.BDist = 0]

Added(st, op) == IF op \in BTypeKinds THEN addBDistAndReset(addInst(st, op))
                                      ELSE incrementBDist(addInst(st, op))

-----------------------------------------------------------------------------
CountedInit ==
  /\ Init
  /\ NumStages = 0
  /\ Counters = [c \in {"BPTP", "BPTN", "BPFP", "BPFN"} |-> 0]
  /\ HitNum = 0 /\ MissNum = 0
  /\ Stats = NoStatistics /\ SimStats = NoStatistics

\* Mutant: a branch that was rightly not predicted taken counts as missed.
CounterSwapped(pred, cond) ==
  CASE pred /\ cond   -> "BPTP"
    [] pred /\ ~cond  -> "BPFP"
    [] ~pred /\ cond  -> "BPTN"
    [] ~pred /\ ~cond -> "BPFN"
Counter(pred, cond) ==
  CASE pred /\ cond   -> "BPTP"
    [] pred /\ ~cond  -> "BPFP"
    [] ~pred /\ cond  -> "BPFN"
    [] ~pred /\ ~cond -> "BPTN"

\* exec judges the prediction for the branch in EX.
StatsUpdate(cond, pred) ==
  IF cond # pred THEN MissNum' = MissNum + 1 /\ UNCHANGED HitNum
                 ELSE HitNum' = HitNum + 1 /\ UNCHANGED MissNum

Judge ==
  IF HasBP /\ Holds(EX, BTypeKinds)
  THEN LET cond == Taken(Op, DEVal.rs1, DEVal.rs2) IN
         /\ Counters' = [Counters EXCEPT ![Counter(PrevPred, cond)] = @ + 1]
         /\ StatsUpdate(cond, PrevPred)
  ELSE UNCHANGED judgement

\* Simulator::run counts an instruction unless it breaks off or goes on early.
SimCount ==
  SimStats' = IF Empty(EX) \/ Holds(EX, {"ebreak", "ext", "extx"})
              THEN SimStats ELSE Added(SimStats, Op)

Execute == exec /\ Judge /\ SimCount /\ UNCHANGED <<NumStages, Stats>>

\* Mutant: the instruction behind the executed one is counted.
FinishedDE == Insts'[DE]

\* What fillBubble leaves in EX.
Finished == Insts'[EX]

EndCycle ==
  /\ Redirect
  /\ NumStages' = NumStages + 1
  /\ Stats' = IF Finished = nullptr THEN Stats ELSE Added(Stats, Mnemo(Finished))
  /\ UNCHANGED <<judgement, SimStats>>

Rest ==
  /\ phase \notin {"EX", "PC"}
  /\ phase = "IF" => NumStages < MaxCycles
  /\ proceedNStage
  /\ UNCHANGED counted

\* The simulator stopped, or the bound is reached.
Halted == /\ Status # "run" \/ NumStages = MaxCycles
          /\ UNCHANGED <<vars, counted>>

CountedNext == Execute \/ EndCycle \/ Rest \/ Halted

CountedSpec == CountedInit /\ [][CountedNext]_<<vars, counted>>

-----------------------------------------------------------------------------
\* How many there are in a map, and how many of some kinds.
Total(map) == MapThenSumSet(LAMBDA k : map[k], DOMAIN map)
Times(st, kinds) == Total([op \in DOMAIN st.InstCounts \cap kinds |-> st.InstCounts[op]])

(* With --stats both simulators print the same table and the same branch   *)
(* distances for the same execution, although the pipeline reads them off  *)
(* EX once a cycle (RIPSimulator.cpp:714-723) and has bubbles, stalls and  *)
(* wrong paths, and the other one counts in its loop (Simulator.cpp:81-87). *)
(* extx is the exception: only the pipeline counts it.                     *)
StatisticsAgree ==
  phase = "IF" /\ Status \notin {"break", "abort", "undefined"} =>
    /\ \A op \in Mnemonics \ {"extx"} :
         Count(Stats.InstCounts, op) = Count(SimStats.InstCounts, op)
    /\ Count(Stats.InstCounts, "extx") = 0 => Stats = SimStats

(* The accuracy is that of the branches the program executes: each of them *)
(* is judged once, those on wrong paths never are, and the predictor's own *)
(* count, the counters among the CSRs and the table of instructions tell   *)
(* the same story (lines 385-406 and 714-723, BranchPredictor.h:45-56).    *)
AccuracyOfExecuted ==
  phase = "IF" /\ Status # "break" /\ HasBP =>
    /\ HitNum = Counters["BPTP"] + Counters["BPTN"]
    /\ MissNum = Counters["BPFP"] + Counters["BPFN"]
    /\ HitNum + MissNum = Times(Stats, BTypeKinds)
    /\ HitNum + MissNum = Total(Stats.BDists)
=============================================================================
