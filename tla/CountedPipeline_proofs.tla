----------------------- MODULE CountedPipeline_proofs -----------------------
(***************************************************************************)
(* Proofs about the counters of the pipeline: the statistics are those of  *)
(* the instruction-level simulator, and the predictor's hits and misses    *)
(* are the branches executed.                                              *)
(***************************************************************************)
EXTENDS CountedPipeline, Pipeline_proofs, FiniteSetTheorems, WellFoundedInduction

-----------------------------------------------------------------------------
(* Induction, in a form without an operator for a parameter: the numbers   *)
(* of which something holds are a set.                                     *)
LEMMA SetInduction ==
  ASSUME NEW S \in SUBSET Nat, 0 \in S, \A n \in S : n + 1 \in S
  PROVE  S = Nat
<1> DEFINE lt == OpToRel(<, Nat)
           T == Nat \ S
<1>1. IsWellFoundedOn(lt, Nat)
  BY NatLessThanWellFounded
<1>2. SUFFICES ASSUME T # {} PROVE FALSE
  OBVIOUS
<1>3. PICK m \in T : \A k \in T : <<k, m>> \notin lt
  <2> HIDE DEF lt
  <2>1. T \subseteq Nat
    OBVIOUS
  <2> HIDE DEF T
  <2> QED BY <1>1, <1>2, <2>1, WFMin
<1>4. m - 1 \in Nat /\ m - 1 < m /\ (m - 1) + 1 = m
  OBVIOUS
<1>5. <<m - 1, m>> \in lt
  BY <1>4 DEF OpToRel
<1>6. m - 1 \in S
  BY <1>3, <1>4, <1>5
<1>7. (m - 1) + 1 \in S
  BY <1>6
<1> QED BY <1>4, <1>7

-----------------------------------------------------------------------------
(* Sums over finite maps.  Sums(f, D, it): it[s] is the sum of f over the  *)
(* subset s of D, taken in the order of CHOOSE, as MapThenSumSet does.     *)
First(s) == CHOOSE x \in s : TRUE

Sums(f, D, it) ==
  it = [s \in SUBSET D |-> IF s = {} THEN 0 ELSE f[First(s)] + it[s \ {First(s)}]]

\* All that is asked of the sums of a finite map.
SumsOf(f, D, it) == /\ IsFiniteSet(D) /\ f \in [D -> Nat]
                    /\ it \in [SUBSET D -> Nat] /\ Sums(f, D, it)

\* Taking the first element off a finite set.
LEMMA Smaller ==
  ASSUME NEW s, IsFiniteSet(s), NEW x \in s
  PROVE  /\ IsFiniteSet(s \ {x}) /\ Cardinality(s) \in Nat
         /\ Cardinality(s \ {x}) \in Nat /\ Cardinality(s \ {x}) = Cardinality(s) - 1
         /\ Cardinality(s) >= 1
<1>1. IsFiniteSet(s \ {x}) /\ Cardinality(s \ {x}) = Cardinality(s) - 1
  BY FS_RemoveElement
<1>2. Cardinality(s) \in Nat /\ Cardinality(s \ {x}) \in Nat
  BY <1>1, FS_CardinalityType
<1> QED BY <1>1, <1>2

\* The first of a set is one of its members.
LEMMA FirstIn == ASSUME NEW s, s # {} PROVE First(s) \in s
  BY DEF First

\* There are partial sums of a finite map.
LEMMA SumsExist ==
  ASSUME NEW D, IsFiniteSet(D), NEW f \in [D -> Nat]
  PROVE  \E it \in [SUBSET D -> Nat] : Sums(f, D, it)
<1> DEFINE Step(it, s) == it[s] = IF s = {} THEN 0 ELSE f[First(s)] + it[s \ {First(s)}]
           SumsUpTo(n) == \E it \in [SUBSET D -> Nat] :
                            \A s \in SUBSET D : Cardinality(s) <= n => Step(it, s)
           S == {n \in Nat : SumsUpTo(n)}
<1>a. \A s \in SUBSET D : IsFiniteSet(s) /\ Cardinality(s) \in Nat
                          /\ (Cardinality(s) = 0 <=> s = {})
  BY FS_Subset, FS_CardinalityType, FS_EmptySet
<1>1. SumsUpTo(0)
  <2> DEFINE z == [s \in SUBSET D |-> 0]
  <2>1. z \in [SUBSET D -> Nat]
    OBVIOUS
  <2>2. \A s \in SUBSET D : Cardinality(s) <= 0 => Step(z, s)
    BY <1>a
  <2> QED BY <2>1, <2>2
<1>2. ASSUME NEW n \in Nat, SumsUpTo(n) PROVE SumsUpTo(n + 1)
  <2>1. PICK it \in [SUBSET D -> Nat] :
          \A s \in SUBSET D : Cardinality(s) <= n => Step(it, s)
    BY <1>2
  <2> DEFINE New(s) == IF s = {} THEN 0 ELSE f[First(s)] + it[s \ {First(s)}]
             r == [s \in SUBSET D |-> New(s)]
  <2>2. \A s \in SUBSET D : s # {} => f[First(s)] \in Nat /\ it[s \ {First(s)}] \in Nat
    BY FirstIn
  <2>3. r \in [SUBSET D -> Nat]
    BY <2>2
  <2>4. ASSUME NEW s \in SUBSET D, Cardinality(s) <= n + 1 PROVE Step(r, s)
    <3>1. CASE s = {}
      BY <3>1
    <3>2. CASE s # {}
      <4>1. First(s) \in s /\ s \ {First(s)} \in SUBSET D
        BY <3>2, FirstIn
      <4>2. Cardinality(s \ {First(s)}) <= n
        BY <1>a, <2>4, <4>1, Smaller
      <4>3. it[s \ {First(s)}] = New(s \ {First(s)})
        BY <2>1, <4>1, <4>2
      <4> HIDE DEF New
      <4>4. r[s \ {First(s)}] = it[s \ {First(s)}]
        BY <4>1, <4>3
      <4>5. r[s] = f[First(s)] + it[s \ {First(s)}]
        BY <3>2 DEF New
      <4> QED BY <3>2, <4>4, <4>5
    <3> QED BY <3>1, <3>2
  <2> HIDE DEF r, Step
  <2> QED BY <2>3, <2>4
<1>3. S = Nat
  <2> HIDE DEF SumsUpTo
  <2>1. S \in SUBSET Nat /\ 0 \in S
    BY <1>1
  <2>2. ASSUME NEW n \in S PROVE n + 1 \in S
    BY <1>2
  <2> HIDE DEF S
  <2> QED BY <2>1, <2>2, SetInduction
<1>4. PICK n \in Nat : n = Cardinality(D)
  BY FS_CardinalityType
<1>5. SumsUpTo(n)
  <2> HIDE DEF SumsUpTo
  <2> QED BY <1>3
<1>6. PICK it \in [SUBSET D -> Nat] : \A s \in SUBSET D : Cardinality(s) <= n => Step(it, s)
  BY <1>5
<1>7. \A s \in SUBSET D : Cardinality(s) <= n
  BY <1>4, FS_Subset
<1>8. \A s \in SUBSET D : Step(it, s)
  BY <1>6, <1>7
<1>9. Sums(f, D, it)
  BY <1>8 DEF Sums
<1> QED BY <1>9

\* What MapThenSumSet computes.
LEMMA TotalUnfolds ==
  ASSUME NEW f, IsFiniteSet(DOMAIN f), f \in [DOMAIN f -> Nat]
  PROVE  \E it \in [SUBSET DOMAIN f -> Nat] : Sums(f, DOMAIN f, it) /\ Total(f) = it[DOMAIN f]
<1> DEFINE D == DOMAIN f
           iter[s \in SUBSET D] ==
             IF s = {} THEN 0 ELSE LET x == CHOOSE x \in s : TRUE IN f[x] + iter[s \ {x}]
<1>1. Total(f) = iter[D]
  BY DEF Total, MapThenSumSet, MapThenFoldSet
<1>2. PICK it \in [SUBSET D -> Nat] : Sums(f, D, it)
  BY SumsExist
<1>3. it = [s \in SUBSET D |-> IF s = {} THEN 0
              ELSE LET x == CHOOSE x \in s : TRUE IN f[x] + it[s \ {x}]]
  BY <1>2 DEF Sums, First
<1>4. iter = [s \in SUBSET D |-> IF s = {} THEN 0
                ELSE LET x == CHOOSE x \in s : TRUE IN f[x] + iter[s \ {x}]]
  BY <1>3 DEF iter
<1>5. Sums(f, D, iter)
  BY <1>4 DEF Sums, First
<1> HIDE DEF iter
<1> DEFINE Same(n) == \A s \in SUBSET D : Cardinality(s) <= n => iter[s] = it[s]
           S == {n \in Nat : Same(n)}
<1>6. \A s \in SUBSET D : IsFiniteSet(s) /\ Cardinality(s) \in Nat
                          /\ (Cardinality(s) = 0 <=> s = {})
  BY FS_Subset, FS_CardinalityType, FS_EmptySet
<1>7. Same(0)
  BY <1>2, <1>5, <1>6 DEF Sums
<1>8. ASSUME NEW n \in Nat, Same(n) PROVE Same(n + 1)
  <2> SUFFICES ASSUME NEW s \in SUBSET D, Cardinality(s) <= n + 1 PROVE iter[s] = it[s]
    OBVIOUS
  <2>1. CASE s = {}
    BY <2>1, <1>2, <1>5 DEF Sums
  <2>2. CASE s # {}
    <3>1. First(s) \in s /\ s \ {First(s)} \in SUBSET D
      BY <2>2, FirstIn
    <3>2. Cardinality(s \ {First(s)}) <= n
      BY <1>6, <3>1, Smaller
    <3>3. iter[s \ {First(s)}] = it[s \ {First(s)}]
      BY <1>8, <3>1, <3>2
    <3> QED BY <1>2, <1>5, <2>2, <3>3 DEF Sums
  <2> QED BY <2>1, <2>2
<1>9. S = Nat
  <2> HIDE DEF Same
  <2>1. S \in SUBSET Nat /\ 0 \in S
    BY <1>7
  <2>2. ASSUME NEW n \in S PROVE n + 1 \in S
    BY <1>8
  <2> HIDE DEF S
  <2> QED BY <2>1, <2>2, SetInduction
<1>10. iter[D] = it[D]
  <2>1. D \in SUBSET D /\ Cardinality(D) \in Nat
    BY <1>6
  <2>2. Same(Cardinality(D))
    <3> HIDE DEF Same
    <3> QED BY <1>9, <2>1
  <2> QED BY <2>1, <2>2
<1> QED BY <1>1, <1>2, <1>10

\* The order of the summands does not matter.
LEMMA AnyFirst ==
  ASSUME NEW D, NEW f, NEW it, SumsOf(f, D, it), NEW x \in D
  PROVE  it[D] = f[x] + it[D \ {x}]
<1> DEFINE Any(n) == \A s \in SUBSET D : Cardinality(s) <= n =>
                       \A e \in s : it[s] = f[e] + it[s \ {e}]
           S == {n \in Nat : Any(n)}
<1> USE DEF SumsOf
<1>a. \A s \in SUBSET D : IsFiniteSet(s) /\ Cardinality(s) \in Nat
                          /\ (Cardinality(s) = 0 <=> s = {})
  BY FS_Subset, FS_CardinalityType, FS_EmptySet
<1>b. \A s \in SUBSET D : s # {} => it[s] = f[First(s)] + it[s \ {First(s)}]
  BY DEF Sums
<1>1. Any(0)
  BY <1>a
<1>2. ASSUME NEW n \in Nat, Any(n) PROVE Any(n + 1)
  <2> SUFFICES ASSUME NEW s \in SUBSET D, Cardinality(s) <= n + 1, NEW e \in s
               PROVE  it[s] = f[e] + it[s \ {e}]
    OBVIOUS
  <2> DEFINE c == First(s)
  <2>1. c \in s /\ it[s] = f[c] + it[s \ {c}]
    BY <1>b, FirstIn
  <2> HIDE DEF c
  <2>2. CASE e = c
    BY <2>1, <2>2
  <2>3. CASE e # c
    <3>1. s \ {c} \in SUBSET D /\ s \ {e} \in SUBSET D /\ e \in s \ {c} /\ c \in s \ {e}
      BY <2>1, <2>3
    <3>2. Cardinality(s \ {c}) <= n /\ Cardinality(s \ {e}) <= n
      BY <1>a, <2>1, Smaller
    <3>3. it[s \ {c}] = f[e] + it[(s \ {c}) \ {e}]
      BY <1>2, <3>1, <3>2
    <3>4. it[s \ {e}] = f[c] + it[(s \ {e}) \ {c}]
      BY <1>2, <3>1, <3>2
    <3>5. (s \ {c}) \ {e} = (s \ {e}) \ {c}
      OBVIOUS
    <3>6. PICK k \in Nat : k = it[(s \ {e}) \ {c}]
      OBVIOUS
    <3>7. f[e] \in Nat /\ f[c] \in Nat
      BY <2>1
    <3>8. it[s \ {c}] = f[e] + k /\ it[s \ {e}] = f[c] + k
      BY <3>3, <3>4, <3>5, <3>6
    <3> QED BY <2>1, <3>6, <3>7, <3>8
  <2> QED BY <2>2, <2>3
<1>3. S = Nat
  <2> HIDE DEF Any
  <2>1. S \in SUBSET Nat /\ 0 \in S
    BY <1>1
  <2>2. ASSUME NEW n \in S PROVE n + 1 \in S
    BY <1>2
  <2> HIDE DEF S
  <2> QED BY <2>1, <2>2, SetInduction
<1>4. Any(Cardinality(D)) /\ Cardinality(D) \in Nat
  <2> HIDE DEF Any
  <2> QED BY <1>a, <1>3
<1> QED BY <1>4

\* Maps that agree have the same sums.
LEMMA SameSums ==
  ASSUME NEW D, NEW f, NEW it, SumsOf(f, D, it),
         NEW E, NEW g, NEW jt, SumsOf(g, E, jt),
         NEW R, R \subseteq D, R \subseteq E, \A x \in R : f[x] = g[x]
  PROVE  it[R] = jt[R]
<1> DEFINE Same(n) == \A s \in SUBSET R : Cardinality(s) <= n => it[s] = jt[s]
           S == {n \in Nat : Same(n)}
<1> USE DEF SumsOf
<1>a. \A s \in SUBSET R : IsFiniteSet(s) /\ Cardinality(s) \in Nat
                          /\ (Cardinality(s) = 0 <=> s = {})
  BY FS_Subset, FS_CardinalityType, FS_EmptySet
<1>b. \A s \in SUBSET R : /\ s = {} => it[s] = 0 /\ jt[s] = 0
                          /\ s # {} => /\ it[s] = f[First(s)] + it[s \ {First(s)}]
                                       /\ jt[s] = g[First(s)] + jt[s \ {First(s)}]
  BY DEF Sums
<1>1. Same(0)
  <2>1. \A s \in SUBSET R : Cardinality(s) <= 0 => s = {}
    BY <1>a
  <2> QED BY <1>b, <2>1
<1>2. ASSUME NEW n \in Nat, Same(n) PROVE Same(n + 1)
  <2> SUFFICES ASSUME NEW s \in SUBSET R, Cardinality(s) <= n + 1 PROVE it[s] = jt[s]
    OBVIOUS
  <2>1. CASE s = {}
    BY <1>b, <2>1
  <2>2. CASE s # {}
    <3>1. First(s) \in s /\ s \ {First(s)} \in SUBSET R
      BY <2>2, FirstIn
    <3>2. Cardinality(s \ {First(s)}) <= n
      BY <1>a, <3>1, Smaller
    <3>3. it[s \ {First(s)}] = jt[s \ {First(s)}]
      BY <1>2, <3>1, <3>2
    <3> QED BY <1>b, <2>2, <3>1, <3>3
  <2> QED BY <2>1, <2>2
<1>3. S = Nat
  <2> HIDE DEF Same
  <2>1. S \in SUBSET Nat /\ 0 \in S
    BY <1>1
  <2>2. ASSUME NEW n \in S PROVE n + 1 \in S
    BY <1>2
  <2> HIDE DEF S
  <2> QED BY <2>1, <2>2, SetInduction
<1>4. Same(Cardinality(R)) /\ Cardinality(R) \in Nat
  <2> HIDE DEF Same
  <2> QED BY <1>a, <1>3
<1> QED BY <1>4

\* A map that counts something.
IsCount(map) == IsFiniteSet(DOMAIN map) /\ map \in [DOMAIN map -> Nat]

\* A count incremented is a count.
LEMMA IncrementType ==
  ASSUME NEW map, NEW key, IsCount(map)
  PROVE  /\ IsCount(Increment(map, key))
         /\ DOMAIN Increment(map, key) = DOMAIN map \cup {key}
         /\ \A k \in DOMAIN map \cup {key} :
              Increment(map, key)[k] = IF k = key THEN Count(map, key) + 1 ELSE map[k]
<1>1. DOMAIN Increment(map, key) = DOMAIN map \cup {key}
  BY DEF Increment
<1>2. IsFiniteSet(DOMAIN map \cup {key})
  BY FS_AddElement DEF IsCount
<1>3. \A k \in DOMAIN map \cup {key} :
        Increment(map, key)[k] = IF k = key THEN Count(map, key) + 1 ELSE map[k]
  BY DEF Increment
<1>4. Count(map, key) \in Nat
  BY DEF Count, IsCount
<1>5. Increment(map, key) \in [DOMAIN map \cup {key} -> Nat]
  BY <1>4 DEF Increment, IsCount
<1> QED BY <1>1, <1>2, <1>3, <1>5 DEF IsCount

\* One more is counted.
LEMMA TotalIncrement ==
  ASSUME NEW map, NEW key, IsCount(map)
  PROVE  /\ Total(map) \in Nat
         /\ Total(Increment(map, key)) = Total(map) + 1
<1> DEFINE D == DOMAIN map
           g == Increment(map, key)
           E == D \cup {key}
           R == D \ {key}
<1>a. IsFiniteSet(D) /\ map \in [D -> Nat] /\ Count(map, key) \in Nat
  BY DEF IsCount, Count
<1>b. /\ IsFiniteSet(E) /\ g \in [E -> Nat] /\ DOMAIN g = E
      /\ \A k \in E : g[k] = IF k = key THEN Count(map, key) + 1 ELSE map[k]
  <2>1. IsCount(g) /\ DOMAIN g = E
    BY IncrementType
  <2>2. \A k \in E : g[k] = IF k = key THEN Count(map, key) + 1 ELSE map[k]
    BY IncrementType
  <2> QED BY <2>1, <2>2 DEF IsCount
<1> HIDE DEF g
<1>1. PICK it \in [SUBSET D -> Nat] : Sums(map, D, it) /\ Total(map) = it[D]
  BY <1>a, TotalUnfolds
<1>2. PICK jt \in [SUBSET E -> Nat] : Sums(g, E, jt) /\ Total(g) = jt[E]
  BY <1>b, TotalUnfolds
<1>c. /\ R \subseteq D /\ R \subseteq E /\ E \ {key} = R /\ key \in E
      /\ \A k \in R : map[k] = g[k]
  BY <1>b
<1>d. g[key] = Count(map, key) + 1
  BY <1>b
<1>e. key \in D => D \ {key} = R /\ Count(map, key) = map[key]
  BY DEF Count
<1>f. key \notin D => D = R /\ Count(map, key) = 0
  BY DEF Count
<1> HIDE DEF R, D, E
<1>g. SumsOf(map, D, it) /\ SumsOf(g, E, jt)
  BY <1>a, <1>b, <1>1, <1>2 DEF SumsOf
<1>3. it[R] = jt[R]
  BY <1>c, <1>g, SameSums
<1>4. jt[E] = g[key] + jt[R]
  <2>1. jt[E] = g[key] + jt[E \ {key}]
    BY <1>c, <1>g, AnyFirst
  <2> QED BY <1>c, <2>1
<1>5. it[D] = Count(map, key) + it[R]
  <2>1. CASE key \in D
    <3>1. it[D] = map[key] + it[D \ {key}]
      BY <1>g, <2>1, AnyFirst
    <3> QED BY <1>e, <2>1, <3>1
  <2>2. CASE key \notin D
    BY <1>f, <2>2
  <2> QED BY <2>1, <2>2
<1>6. it[R] \in Nat /\ it[D] \in Nat
  BY <1>c
<1>7. Total(g) = Total(map) + 1
  BY <1>a, <1>d, <1>1, <1>2, <1>3, <1>4, <1>5, <1>6
<1> QED BY <1>1, <1>6, <1>7 DEF g

-----------------------------------------------------------------------------
(* Steps of the counted pipeline are steps of the pipeline.                *)
LEMMA CountedIsPipeline == CountedSpec => Spec
<1>1. CountedInit => Init
  BY DEF CountedInit
<1>2. [CountedNext]_<<vars, counted>> => [Next]_vars
  BY DEF CountedNext, Execute, EndCycle, Rest, Halted, Next, proceedNStage
<1> QED BY <1>1, <1>2, PTL DEF CountedSpec, Spec

(* Only the front of the pipeline is ever flushed: the instruction in EX   *)
(* stays there from its execution to the end of the cycle.                 *)
OnlyFrontFlushed == InvalidStages \subseteq {DE, IFs}

\* Only DE and IF are ever flushed: preserved by every step.
LEMMA StepFront == OnlyFrontFlushed /\ [Next]_vars => OnlyFrontFlushed'
<1> SUFFICES ASSUME OnlyFrontFlushed, [Next]_vars PROVE OnlyFrontFlushed'
  OBVIOUS
<1> USE DEF OnlyFrontFlushed
<1>1. CASE fetch
  BY <1>1 DEF fetch, FetchStalled, Fetch, FetchFails, stages
<1>2. CASE writeback \/ memory
  BY <1>2 DEF writeback, memory, MemoryAccess, NoMemoryAccess, MemoryAccessFails, stages
<1>3. CASE exec
  BY <1>3 DEF exec, execNothing, execData, execUpper, execJump, execLoad, execStore,
     execCsr, execBranch, execRaise, execMret, execUnimplemented, Flush, stages
<1>4. CASE decodes
  BY <1>4 DEF decodes, decode, decodeBranch, decodeNothing, stages
<1>5. CASE handleException
  BY <1>5 DEF handleException, NoException, Break, EnterEpilogue, Trap, TrapFails, Flush,
     stages
<1>6. CASE Redirect
  BY <1>6 DEF Redirect
<1>7. CASE Stopped \/ UNCHANGED vars
  BY <1>7 DEF Stopped, vars, stages
<1> QED BY <1>1, <1>2, <1>3, <1>4, <1>5, <1>6, <1>7 DEF Next, proceedNStage

\* Only DE and IF are ever flushed.
LEMMA FrontFlushed == Spec => []OnlyFrontFlushed
<1>1. Init => OnlyFrontFlushed
  BY DEF Init, OnlyFrontFlushed
<1> QED BY <1>1, StepFront, PTL DEF Spec

\* The end of a cycle does not flush EX: what finishes is what stood there.
LEMMA FinishedIsExecuted ==
  ASSUME OnlyFrontFlushed, Redirect PROVE Finished = Insts[EX]
<1>1. EX \in STAGES /\ EX \notin InvalidStages
  BY StageFacts DEF OnlyFrontFlushed
<1> QED BY <1>1 DEF Redirect, Finished

-----------------------------------------------------------------------------
(* The pipeline counts an instruction at the end of the cycle, the other   *)
(* simulator when it executes it: in between, the pipeline's statistics    *)
(* are compared as they will be.                                           *)
StatsToBe == IF phase \in {"DE", "XC", "PC"} /\ ~Empty(EX) THEN Added(Stats, Op) ELSE Stats

\* Outside exec and the end of a cycle the statistics to be do not change.
LEMMA RestStats ==
  ASSUME Rest
  PROVE  /\ StatsToBe' = StatsToBe
         /\ Status' # "abort" => Status # "abort"
         /\ Except' \in {Except, nullopt}
         /\ Except' # Except => Except \notin {Breakpoint, R0}
<1>a. UNCHANGED <<Stats>> /\ phase \notin {"EX", "PC"} /\ proceedNStage
  BY DEF Rest, counted
<1>1. CASE fetch
  <2>1. phase = "IF" /\ phase' \in {"IF", "WB"} /\ Status = "run" /\ Except' = Except
    BY <1>1 DEF fetch, FetchStalled, Fetch, FetchFails, StartCycle, At, Goto
  <2> QED BY <1>a, <2>1 DEF StatsToBe
<1>2. CASE writeback \/ memory
  <2>1. phase \in {"WB", "MA"} /\ phase' \in {"MA", "EX"} /\ Status = "run" /\ Except' = Except
    BY <1>2 DEF writeback, memory, MemoryAccess, NoMemoryAccess, MemoryAccessFails, At, Goto,
       control
  <2> QED BY <1>a, <2>1 DEF StatsToBe
<1>3. CASE decodes
  <2>1. phase = "DE" /\ phase' = "XC" /\ Status = "run" /\ Except' = Except /\ Insts' = Insts
    BY <1>3 DEF decodes, decode, decodeBranch, decodeNothing, At, Goto, control, stages
  <2> QED BY <1>a, <2>1 DEF StatsToBe, Empty, Op
<1>4. CASE handleException
  <2>1. phase = "XC" /\ phase' \in {"XC", "PC"} /\ Status = "run" /\ Insts' = Insts
    BY <1>4 DEF handleException, NoException, Break, EnterEpilogue, Trap, TrapFails, At,
       Goto, stages
  <2>2. /\ Except' \in {Except, nullopt}
        /\ Except' # Except => Except \notin {Breakpoint, R0}
    <3>1. R1 \notin {Breakpoint, R0}
      BY DEF R1, R0, Breakpoint
    <3> QED BY <1>4, <3>1 DEF handleException, NoException, Break, EnterEpilogue, Trap,
               TrapFails, Traps, control
  <2> QED BY <1>a, <2>1, <2>2 DEF StatsToBe, Empty, Op
<1>5. CASE exec \/ Redirect
  BY <1>a, <1>5 DEF exec, execNothing, execData, execUpper, execJump, execLoad, execStore,
     execCsr, execBranch, execRaise, execMret, execUnimplemented, Exec, Redirect, At
<1> QED BY <1>a, <1>1, <1>2, <1>3, <1>4, <1>5 DEF proceedNStage

\* The end of a cycle makes the statistics to be those that are.
LEMMA EndCycleStats ==
  ASSUME EndCycle, OnlyFrontFlushed
  PROVE  StatsToBe' = StatsToBe /\ Except' = Except /\ Status = "run"
<1>1. Finished = Insts[EX] /\ phase = "PC" /\ phase' = "IF" /\ Except' = Except /\ Status = "run"
  BY FinishedIsExecuted DEF EndCycle, Redirect, At, Goto
<1> QED BY <1>1 DEF EndCycle, StatsToBe, Empty, Op

\* exec leaves the instruction where it is; uret and sret end the simulation.
LEMMA ExecuteStats ==
  ASSUME Execute
  PROVE  /\ StatsToBe = Stats /\ Status = "run"
         /\ \/ phase' = "DE" /\ ~Empty(EX) /\ StatsToBe' = Added(Stats, Op)
            \/ phase' = "DE" /\ Empty(EX) /\ StatsToBe' = Stats
            \/ Status' = "abort" /\ Holds(EX, {"uret", "sret"}) /\ StatsToBe' = Stats
<1>a. exec /\ Stats' = Stats
  BY DEF Execute
<1>1. phase = "EX" /\ Status = "run" /\ Insts' = Insts
  BY <1>a DEF exec, execNothing, execData, execUpper, execJump, execLoad, execStore,
     execCsr, execBranch, execRaise, execMret, execUnimplemented, Exec, At, stages
<1>2. \/ phase' = "DE"
      \/ phase' = "EX" /\ Status' = "abort" /\ Holds(EX, {"uret", "sret"})
  BY <1>a, <1>1 DEF exec, execNothing, execData, execUpper, execJump, execLoad, execStore,
     execCsr, execBranch, execRaise, execMret, execUnimplemented, Exec, At, Goto
<1> QED BY <1>a, <1>1, <1>2 DEF StatsToBe, Empty, Op

-----------------------------------------------------------------------------
(* The statistics of the two simulators.                                   *)
Same(S, T) ==
  /\ \A op \in Mnemonics \ {"extx"} : Count(S.InstCounts, op) = Count(T.InstCounts, op)
  /\ Count(S.InstCounts, "extx") = 0 => S = T

IsStatistics(st) ==
  /\ st = [InstCounts |-> st.InstCounts, BDist |-> st.BDist, BDists |-> st.BDists]
  /\ IsCount(st.InstCounts) /\ IsCount(st.BDists)

\* What counting one instruction does to the fields.
LEMMA AddedFields ==
  ASSUME NEW st, IsStatistics(st), NEW op
  PROVE  /\ IsStatistics(Added(st, op))
         /\ Added(st, op).InstCounts = Increment(st.InstCounts, op)
         /\ Added(st, op).BDists = IF op \in BTypeKinds
                                   THEN Increment(st.BDists, st.BDist) ELSE st.BDists
<1>1. IsCount(Increment(st.InstCounts, op)) /\ IsCount(Increment(st.BDists, st.BDist))
  BY IncrementType DEF IsStatistics
<1> QED BY <1>1 DEF IsStatistics, Added, addBDistAndReset, addInst, incrementBDist

\* An increment adds one to its key and leaves the other counts.
LEMMA CountIncrement ==
  ASSUME NEW map, NEW key, IsCount(map), NEW k
  PROVE  /\ Count(Increment(map, key), k) = IF k = key THEN Count(map, k) + 1 ELSE Count(map, k)
         /\ Count(map, k) \in Nat
<1> DEFINE r == Increment(map, key)
<1>1. /\ DOMAIN r = DOMAIN map \cup {key}
      /\ \A e \in DOMAIN map \cup {key} : r[e] = IF e = key THEN Count(map, key) + 1 ELSE map[e]
  BY IncrementType
<1>2. Count(map, k) \in Nat
  BY DEF Count, IsCount
<1> HIDE DEF r
<1>3. Count(r, k) = IF k = key THEN Count(map, k) + 1 ELSE Count(map, k)
  BY <1>1 DEF Count
<1> QED BY <1>2, <1>3 DEF r

\* Instructions other than extx are counted by both.
LEMMA SameAdded ==
  ASSUME NEW S, NEW T, IsStatistics(S), IsStatistics(T), Same(S, T), NEW op, op # "extx"
  PROVE  Same(Added(S, op), Added(T, op))
<1>1. \A k : /\ Count(Added(S, op).InstCounts, k)
                  = IF k = op THEN Count(S.InstCounts, k) + 1 ELSE Count(S.InstCounts, k)
             /\ Count(Added(T, op).InstCounts, k)
                  = IF k = op THEN Count(T.InstCounts, k) + 1 ELSE Count(T.InstCounts, k)
  BY AddedFields, CountIncrement DEF IsStatistics
<1>2. \A k \in Mnemonics \ {"extx"} :
        Count(Added(S, op).InstCounts, k) = Count(Added(T, op).InstCounts, k)
  BY <1>1 DEF Same
<1>3. Count(Added(S, op).InstCounts, "extx") = 0 => Added(S, op) = Added(T, op)
  BY <1>1 DEF Same
<1> QED BY <1>2, <1>3 DEF Same

\* extx is counted by the pipeline only.
LEMMA SameWithout ==
  ASSUME NEW S, NEW T, IsStatistics(S), Same(S, T)
  PROVE  Same(Added(S, "extx"), T)
<1>1. \A k : /\ Count(Added(S, "extx").InstCounts, k)
                  = IF k = "extx" THEN Count(S.InstCounts, k) + 1 ELSE Count(S.InstCounts, k)
             /\ Count(S.InstCounts, k) \in Nat
  BY AddedFields, CountIncrement DEF IsStatistics
<1> QED BY <1>1 DEF Same

Agree ==
  /\ IsStatistics(Stats) /\ IsStatistics(SimStats)
  /\ Status = "abort" \/ Except \in {Breakpoint, R0} \/ Same(StatsToBe, SimStats)

\* No statistics are statistics.
LEMMA EmptyStatistics == IsStatistics(NoStatistics)
<1>1. DOMAIN <<>> = {} /\ IsFiniteSet({}) /\ <<>> \in [{} -> Nat]
  BY FS_EmptySet
<1> QED BY <1>1 DEF IsStatistics, NoStatistics, IsCount

\* Both simulators start with nothing counted.
LEMMA InitAgree == CountedInit => Agree
<1> SUFFICES ASSUME CountedInit PROVE Agree
  OBVIOUS
<1>1. phase = "IF" /\ Stats = NoStatistics /\ SimStats = NoStatistics
  BY DEF CountedInit, Init
<1> QED BY <1>1, EmptyStatistics DEF Agree, StatsToBe, Same

\* An executed instruction is added to both statistics, extx to one.
LEMMA ExecuteAgree == TypeInv /\ Agree /\ Execute => Agree'
<1> SUFFICES ASSUME TypeInv, Agree, Execute PROVE Agree'
  OBVIOUS
<1>a. /\ Stats' = Stats /\ exec /\ phase = "EX"
      /\ SimStats' = IF Empty(EX) \/ Holds(EX, {"ebreak", "ext", "extx"})
                     THEN SimStats ELSE Added(SimStats, Op)
  BY DEF Execute, SimCount, exec, execNothing, execData, execUpper, execJump, execLoad,
     execStore, execCsr, execBranch, execRaise, execMret, execUnimplemented, Exec, At
<1>b. IsStatistics(SimStats')
  BY <1>a, AddedFields DEF Agree
<1>c. Except = nullopt
  BY <1>a DEF TypeInv, ExceptionInEX
<1>d. nullopt \notin {Breakpoint, R0}
  BY WordFacts DEF Exception
<1>e. Same(Stats, SimStats)
  BY <1>c, <1>d, ExecuteStats DEF Agree
<1>1. CASE Status' = "abort"
  BY <1>a, <1>b, <1>1 DEF Agree
<1>2. CASE Empty(EX) /\ StatsToBe' = Stats
  BY <1>a, <1>b, <1>e, <1>2 DEF Agree
<1>3. CASE ~Empty(EX) /\ StatsToBe' = Added(Stats, Op)
  <2>1. CASE Op \in {"ebreak", "ext"}
    <3>1. Holds(EX, {"ecall", "ebreak", "ext", "extx"})
      BY <1>3, <2>1 DEF Holds, Op, Empty
    <3>2. execRaise
      BY <1>a, <1>3, <2>1 DEF exec, execNothing, execData, execUpper, execJump, execLoad,
         execStore, execCsr, execBranch, execMret, execUnimplemented, Exec, Holds, Op,
         AluImm, RTypeKinds, UTypeKinds, Loads, STypeKinds, CSR_INSTs, CSRImm, BTypeKinds
    <3>3. Except' \in {Breakpoint, R0}
      BY <2>1, <3>2 DEF execRaise
    <3> QED BY <1>a, <1>b, <3>3 DEF Agree
  <2>2. CASE Op = "extx"
    <3>1. SimStats' = SimStats
      BY <1>a, <1>3, <2>2 DEF Holds, Op, Empty
    <3> QED BY <1>a, <1>b, <1>e, <1>3, <2>2, <3>1, SameWithout DEF Agree
  <2>3. CASE Op \notin {"ebreak", "ext", "extx"}
    <3>1. SimStats' = Added(SimStats, Op)
      BY <1>a, <1>3, <2>3 DEF Holds, Op
    <3>2. Same(Added(Stats, Op), Added(SimStats, Op))
      BY <1>e, <2>3, SameAdded DEF Agree
    <3> QED BY <1>a, <1>b, <1>3, <3>1, <3>2 DEF Agree
  <2> QED BY <2>1, <2>2, <2>3
<1> QED BY <1>1, <1>2, <1>3, ExecuteStats

\* Every step keeps the two statistics together.
LEMMA StepAgree ==
  TypeInv /\ OnlyFrontFlushed /\ Agree /\ [CountedNext]_<<vars, counted>> => Agree'
<1> SUFFICES ASSUME TypeInv, OnlyFrontFlushed, Agree, [CountedNext]_<<vars, counted>>
             PROVE  Agree'
  OBVIOUS
<1>1. CASE Execute
  BY <1>1, ExecuteAgree
<1>2. CASE EndCycle
  <2>1. StatsToBe' = StatsToBe /\ Except' = Except /\ SimStats' = SimStats /\ Status # "abort"
    BY <1>2, EndCycleStats DEF EndCycle
  <2>2. IsStatistics(Stats')
    BY <1>2, AddedFields DEF EndCycle, Agree
  <2> QED BY <2>1, <2>2 DEF Agree
<1>3. CASE Rest
  BY <1>3, RestStats DEF Rest, counted, Agree
<1>4. CASE UNCHANGED <<vars, counted>>
  BY <1>4 DEF vars, counted, control, stages, Agree, StatsToBe, Empty, Op
<1> QED BY <1>1, <1>2, <1>3, <1>4 DEF CountedNext, Halted

(* Whatever the program and for any number of cycles, the table printed by *)
(* --stats is the one of the instruction-level simulator, branch distances *)
(* included, as long as no extx is executed; with extx it differs in the   *)
(* count of extx only among the instructions (RIPSimulator.cpp:714-723,    *)
(* Simulator.cpp:58-90).                                                   *)
THEOREM StatisticsKept == CountedSpec => []StatisticsAgree
<1>1. TypeInv /\ OnlyFrontFlushed /\ Agree /\ [CountedNext]_<<vars, counted>> => Agree'
  BY StepAgree
<1>2. TypeInv /\ Agree => StatisticsAgree
  <2> SUFFICES ASSUME TypeInv, Agree, phase = "IF", Status \notin {"break", "abort", "undefined"}
               PROVE  Same(Stats, SimStats)
    BY DEF StatisticsAgree, Same
  <2>1. Except = nullopt /\ nullopt \notin {Breakpoint, R0}
    BY WordFacts DEF TypeInv, ExceptionInEX, Exception
  <2> QED BY <2>1 DEF Agree, StatsToBe
<1> QED BY InitAgree, <1>1, <1>2, CountedIsPipeline, TypeInvariant, FrontFlushed,
           PTL DEF CountedSpec

-----------------------------------------------------------------------------
(* The accuracy of the predictor.                                          *)
Restricted(map, kinds) == [k \in DOMAIN map \cap kinds |-> map[k]]

\* Counting an instruction adds one to the kinds it is of.
LEMMA TimesAdded ==
  ASSUME NEW st, IsStatistics(st), NEW op, NEW kinds
  PROVE  /\ Times(st, kinds) \in Nat
         /\ Times(Added(st, op), kinds) = IF op \in kinds THEN Times(st, kinds) + 1
                                                          ELSE Times(st, kinds)
<1> DEFINE map == st.InstCounts
           r == Restricted(map, kinds)
           more == Increment(map, op)
<1>1. IsCount(map) /\ Added(st, op).InstCounts = more
  BY AddedFields DEF IsStatistics
<1>2. /\ DOMAIN more = DOMAIN map \cup {op}
      /\ \A k \in DOMAIN map \cup {op} :
           more[k] = IF k = op THEN Count(map, op) + 1 ELSE map[k]
  BY <1>1, IncrementType
<1> HIDE DEF map, more
<1>3. DOMAIN r = DOMAIN map \cap kinds /\ \A k \in DOMAIN r : r[k] = map[k]
  BY DEF Restricted
<1>4. IsCount(r)
  <2>1. IsFiniteSet(DOMAIN map \cap kinds)
    BY <1>1, FS_Subset DEF IsCount
  <2> QED BY <1>1, <2>1 DEF IsCount, Restricted
<1>5. Times(st, kinds) = Total(r) /\ Times(Added(st, op), kinds) = Total(Restricted(more, kinds))
  BY <1>1 DEF Times, Restricted, map
<1>6. CASE op \in kinds
  <2>1. Count(r, op) = Count(map, op)
    BY <1>3, <1>6 DEF Count
  <2>2. /\ DOMAIN Increment(r, op) = DOMAIN r \cup {op}
        /\ \A k \in DOMAIN r \cup {op} :
             Increment(r, op)[k] = IF k = op THEN Count(r, op) + 1 ELSE r[k]
    BY <1>4, IncrementType
  <2>3. DOMAIN Restricted(more, kinds) = DOMAIN r \cup {op}
    BY <1>2, <1>3, <1>6 DEF Restricted
  <2>4. \A k \in DOMAIN r \cup {op} : Restricted(more, kinds)[k] = Increment(r, op)[k]
    <3> SUFFICES ASSUME NEW k \in DOMAIN r \cup {op}
                 PROVE  Restricted(more, kinds)[k] = Increment(r, op)[k]
      OBVIOUS
    <3>1. Restricted(more, kinds)[k] = more[k] /\ k \in DOMAIN map \cup {op}
      BY <1>2, <1>3, <1>6 DEF Restricted
    <3> QED BY <1>2, <1>3, <2>1, <2>2, <3>1
  <2>5. Restricted(more, kinds) = Increment(r, op)
    <3>1. Restricted(more, kinds) = [k \in DOMAIN r \cup {op} |-> Restricted(more, kinds)[k]]
      BY <2>3 DEF Restricted
    <3>2. Increment(r, op) = [k \in DOMAIN r \cup {op} |-> Increment(r, op)[k]]
      BY <2>2 DEF Increment
    <3> QED BY <2>4, <3>1, <3>2
  <2> QED BY <1>4, <1>5, <1>6, <2>5, TotalIncrement
<1>7. CASE op \notin kinds
  <2>1. Restricted(more, kinds) = r
    BY <1>2, <1>7 DEF Restricted
  <2> QED BY <1>4, <1>5, <1>7, <2>1, TotalIncrement
<1> QED BY <1>6, <1>7

Judged == HitNum + MissNum

JudgementInv ==
  /\ HitNum \in Nat /\ MissNum \in Nat
  /\ Counters \in [{"BPTP", "BPTN", "BPFP", "BPFN"} -> Nat]
  /\ HitNum = Counters["BPTP"] + Counters["BPTN"]
  /\ MissNum = Counters["BPFP"] + Counters["BPFN"]

(* A branch is judged when it is executed and counted at the end of the    *)
(* cycle: the judgements are those of the statistics to be.                *)
Accurate ==
  /\ IsStatistics(Stats)
  /\ JudgementInv
  /\ HasBP => Judged = Times(StatsToBe, BTypeKinds) /\ Judged = Total(StatsToBe.BDists)

\* The empty map counts nothing.
LEMMA EmptyTotal == Total(<<>>) = 0
<1> DEFINE none == <<>>
<1>1. DOMAIN none = {} /\ IsFiniteSet(DOMAIN none) /\ none \in [DOMAIN none -> Nat]
  BY FS_EmptySet
<1> HIDE DEF none
<1>2. PICK it \in [SUBSET DOMAIN none -> Nat] :
        Sums(none, DOMAIN none, it) /\ Total(none) = it[DOMAIN none]
  BY <1>1, TotalUnfolds
<1>3. it[{}] = 0
  BY <1>1, <1>2 DEF Sums
<1> QED BY <1>1, <1>2, <1>3 DEF none

\* No branch judged, none executed.
LEMMA InitAccurate == CountedInit => Accurate
<1> SUFFICES ASSUME CountedInit PROVE Accurate
  OBVIOUS
<1>1. phase = "IF" /\ Stats = NoStatistics /\ HitNum = 0 /\ MissNum = 0
      /\ Counters = [c \in {"BPTP", "BPTN", "BPFP", "BPFN"} |-> 0]
  BY DEF CountedInit, Init
<1>2. StatsToBe = NoStatistics
  BY <1>1 DEF StatsToBe
<1>3. Times(NoStatistics, BTypeKinds) = 0
  <2>1. [op \in DOMAIN <<>> \cap BTypeKinds |-> <<>>[op]] = <<>>
    OBVIOUS
  <2> QED BY <2>1, EmptyTotal DEF Times, NoStatistics
<1>4. Total(NoStatistics.BDists) = 0
  BY EmptyTotal DEF NoStatistics
<1>5. JudgementInv
  BY <1>1 DEF JudgementInv
<1> QED BY <1>1, <1>2, <1>3, <1>4, <1>5, EmptyStatistics DEF Accurate, Judged

\* exec judges the branch: one more hit or miss, and the counter that says so.
LEMMA JudgeCounts ==
  ASSUME TypeInv, JudgementInv, Judge
  PROVE  /\ JudgementInv'
         /\ Judged' = IF HasBP /\ Holds(EX, BTypeKinds) THEN Judged + 1 ELSE Judged
<1>1. CASE ~(HasBP /\ Holds(EX, BTypeKinds))
  <2>1. UNCHANGED judgement
    BY <1>1 DEF Judge
  <2> QED BY <1>1, <2>1 DEF judgement, JudgementInv, Judged
<1>2. CASE HasBP /\ Holds(EX, BTypeKinds)
  <2>1. PICK cond \in BOOLEAN : cond = Taken(Op, DEVal.rs1, DEVal.rs2)
    BY TakenType, Zenon
  <2>2. PICK pred \in BOOLEAN : pred = PrevPred
    BY Zenon DEF TypeInv, TypeOK
  <2>3. Counters' = [Counters EXCEPT ![Counter(pred, cond)] = @ + 1]
        /\ StatsUpdate(cond, pred)
    BY <1>2, <2>1, <2>2, Zenon DEF Judge
  <2>4. DOMAIN Counters = {"BPTP", "BPTN", "BPFP", "BPFN"}
    BY DEF JudgementInv
  <2>5. CASE pred /\ cond
    <3>1. Counter(pred, cond) = "BPTP" /\ ~(cond # pred)
      BY <2>5 DEF Counter
    <3>2. /\ Counters' = [Counters EXCEPT !["BPTP"] = @ + 1]
          /\ HitNum' = HitNum + 1 /\ MissNum' = MissNum
      BY <2>3, <3>1 DEF StatsUpdate
    <3> QED BY <1>2, <2>4, <3>2 DEF JudgementInv, Judged
  <2>6. CASE pred /\ ~cond
    <3>1. Counter(pred, cond) = "BPFP" /\ cond # pred
      BY <2>6 DEF Counter
    <3>2. /\ Counters' = [Counters EXCEPT !["BPFP"] = @ + 1]
          /\ MissNum' = MissNum + 1 /\ HitNum' = HitNum
      BY <2>3, <3>1 DEF StatsUpdate
    <3> QED BY <1>2, <2>4, <3>2 DEF JudgementInv, Judged
  <2>7. CASE ~pred /\ cond
    <3>1. Counter(pred, cond) = "BPFN" /\ cond # pred
      BY <2>7 DEF Counter
    <3>2. /\ Counters' = [Counters EXCEPT !["BPFN"] = @ + 1]
          /\ MissNum' = MissNum + 1 /\ HitNum' = HitNum
      BY <2>3, <3>1 DEF StatsUpdate
    <3> QED BY <1>2, <2>4, <3>2 DEF JudgementInv, Judged
  <2>8. CASE ~pred /\ ~cond
    <3>1. Counter(pred, cond) = "BPTN" /\ ~(cond # pred)
      BY <2>8 DEF Counter
    <3>2. /\ Counters' = [Counters EXCEPT !["BPTN"] = @ + 1]
          /\ HitNum' = HitNum + 1 /\ MissNum' = MissNum
      BY <2>3, <3>1 DEF StatsUpdate
    <3> QED BY <1>2, <2>4, <3>2 DEF JudgementInv, Judged
  <2> QED BY <2>5, <2>6, <2>7, <2>8
<1> QED BY <1>1, <1>2

\* A branch that is executed is judged, anything else is not.
LEMMA ExecuteAccurate == TypeInv /\ Accurate /\ Execute => Accurate'
<1> SUFFICES ASSUME TypeInv, Accurate, Execute PROVE Accurate'
  OBVIOUS
<1>a. Stats' = Stats /\ Judge /\ IsStatistics(Stats) /\ StatsToBe = Stats
  BY ExecuteStats DEF Execute, Accurate
<1>b. JudgementInv' /\ Judged' = IF HasBP /\ Holds(EX, BTypeKinds) THEN Judged + 1 ELSE Judged
  BY <1>a, JudgeCounts DEF Accurate
<1> SUFFICES ASSUME HasBP
             PROVE  Judged' = Times(StatsToBe', BTypeKinds) /\ Judged' = Total(StatsToBe'.BDists)
  BY <1>a, <1>b DEF Accurate
<1>c. /\ Judged = Times(Stats, BTypeKinds) /\ Judged = Total(Stats.BDists)
      /\ Judged \in Nat
  BY <1>a DEF Accurate, Judged, JudgementInv
<1>1. CASE ~Empty(EX) /\ StatsToBe' = Added(Stats, Op)
  <2>1. Holds(EX, BTypeKinds) <=> Op \in BTypeKinds
    BY <1>1 DEF Holds, Op, Empty
  <2>2. Times(StatsToBe', BTypeKinds) = IF Op \in BTypeKinds THEN Judged + 1 ELSE Judged
    <3>1. Times(Added(Stats, Op), BTypeKinds)
            = IF Op \in BTypeKinds THEN Times(Stats, BTypeKinds) + 1 ELSE Times(Stats, BTypeKinds)
      BY <1>a, TimesAdded
    <3> QED BY <1>c, <1>1, <3>1
  <2>3. Total(StatsToBe'.BDists) = IF Op \in BTypeKinds THEN Judged + 1 ELSE Judged
    <3>1. Added(Stats, Op).BDists = IF Op \in BTypeKinds
                                    THEN Increment(Stats.BDists, Stats.BDist) ELSE Stats.BDists
      BY <1>a, AddedFields
    <3>2. Total(Increment(Stats.BDists, Stats.BDist)) = Total(Stats.BDists) + 1
      BY <1>a, TotalIncrement DEF IsStatistics
    <3> QED BY <1>c, <1>1, <3>1, <3>2
  <2> QED BY <1>b, <2>1, <2>2, <2>3
<1>2. CASE Empty(EX) /\ StatsToBe' = Stats
  BY <1>b, <1>c, <1>2 DEF Holds, Empty
<1>3. CASE Holds(EX, {"uret", "sret"}) /\ StatsToBe' = Stats
  <2>1. ~Holds(EX, BTypeKinds)
    BY <1>3 DEF Holds, BTypeKinds
  <2> QED BY <1>b, <1>c, <1>3, <2>1
<1> QED BY <1>1, <1>2, <1>3, ExecuteStats

\* Every step keeps judgements and executed branches equal.
LEMMA StepAccurate ==
  TypeInv /\ OnlyFrontFlushed /\ Accurate /\ [CountedNext]_<<vars, counted>> => Accurate'
<1> SUFFICES ASSUME TypeInv, OnlyFrontFlushed, Accurate, [CountedNext]_<<vars, counted>>
             PROVE  Accurate'
  OBVIOUS
<1>1. CASE Execute
  BY <1>1, ExecuteAccurate
<1>2. CASE EndCycle
  <2>1. StatsToBe' = StatsToBe /\ UNCHANGED judgement
    BY <1>2, EndCycleStats DEF EndCycle
  <2>2. IsStatistics(Stats')
    BY <1>2, AddedFields DEF EndCycle, Accurate
  <2> QED BY <2>1, <2>2 DEF Accurate, JudgementInv, Judged, judgement
<1>3. CASE Rest
  BY <1>3, RestStats DEF Rest, counted, judgement, Accurate, JudgementInv, Judged
<1>4. CASE UNCHANGED <<vars, counted>>
  BY <1>4 DEF vars, counted, control, stages, judgement, Accurate, JudgementInv, Judged,
     StatsToBe, Empty, Op
<1> QED BY <1>1, <1>2, <1>3, <1>4 DEF CountedNext, Halted

(* For every program, predictor and number of cycles: the hits and misses  *)
(* that make up the accuracy are the branches executed, each judged once   *)
(* and none of a wrong path; the four counters among the CSRs, the table   *)
(* of instructions and the table of branch distances give the same number  *)
(* (RIPSimulator.cpp:385-406, 714-723, BranchPredictor.h:45-56).           *)
THEOREM AccuracyKept == CountedSpec => []AccuracyOfExecuted
<1>1. TypeInv /\ OnlyFrontFlushed /\ Accurate /\ [CountedNext]_<<vars, counted>> => Accurate'
  BY StepAccurate
<1>2. Accurate => AccuracyOfExecuted
  <2> SUFFICES ASSUME Accurate, phase = "IF", HasBP
               PROVE  /\ JudgementInv /\ Judged = Times(Stats, BTypeKinds)
                      /\ Judged = Total(Stats.BDists)
    BY DEF AccuracyOfExecuted, JudgementInv, Judged
  <2> QED BY DEF Accurate, StatsToBe
<1> QED BY InitAccurate, <1>1, <1>2, CountedIsPipeline, TypeInvariant, FrontFlushed,
           PTL DEF CountedSpec

=============================================================================
