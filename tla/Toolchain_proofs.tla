-------------------------- MODULE Toolchain_proofs --------------------------
(***************************************************************************)
(* Proofs about the tools, for every source, file and command line: the    *)
(* labels, the settings, what is in memory when the program starts, and    *)
(* that what is decoded from there is what the source asks for.            *)
(***************************************************************************)
EXTENDS Toolchain, Encoding_proofs, FiniteSetTheorems, SequenceTheorems

-----------------------------------------------------------------------------
(* The files and the memory hold bytes, the counters count.                *)

FilesOK ==
  /\ stage \in {"labels", "emit", "args", "load", "running"}
  /\ Source \in Seq(Lines) /\ File \in Seq(SUBSET Byte)
  /\ Args \in Seq(CommandArgs)
  /\ Read \in Nat /\ Read <= Len(Source)
  /\ Parsed \in Nat /\ Parsed <= Len(Args)
  /\ DOMAIN Ops = DOMAIN DefaultOptions
  /\ DOMAIN Sim = DOMAIN NoSim

MemoryOK ==
  /\ Ops.dram \in Nat
  /\ stage \in {"load", "running"} =>
       /\ Mem \in [0 .. Ops.dram - 1 -> SUBSET Byte]
       /\ Sim.loaded \in Nat

\* A function on 1 .. n is a sequence of length n.
LEMMA FunctionIsSeq ==
  ASSUME NEW S, NEW n \in Nat, NEW f \in [1 .. n -> S]
  PROVE  f \in Seq(S) /\ Len(f) = n
OBVIOUS

\* One sequence behind another.
LEMMA Joined ==
  ASSUME NEW S, NEW s \in Seq(S), NEW t \in Seq(S)
  PROVE  s \o t \in Seq(S) /\ Len(s \o t) = Len(s) + Len(t)
OBVIOUS

\* Four bytes at the end of a file.
LEMMA BytesWritten ==
  ASSUME NEW f \in Seq(SUBSET Byte), NEW w
  PROVE  f \o BytesOf(w) \in Seq(SUBSET Byte) /\ Len(f \o BytesOf(w)) = Len(f) + 4
<1> DEFINE S == SUBSET Byte
<1>1. BytesOf(w) \in [1 .. 4 -> S]
  BY DEF BytesOf
<1> HIDE DEF S
<1>2. PICK n \in Nat : n = 4
  OBVIOUS
<1>3. BytesOf(w) \in Seq(S) /\ Len(BytesOf(w)) = n
  BY <1>1, <1>2, FunctionIsSeq, ZenonT(60)
<1>4. f \in Seq(S)
  BY DEF S
<1>5. PICK g \in Seq(S) : g = BytesOf(w)
  BY <1>3
<1>6. f \o g \in Seq(S) /\ Len(f \o g) = Len(f) + Len(g)
  BY <1>4, Joined, ZenonT(60)
<1> QED
  BY <1>2, <1>3, <1>5, <1>6 DEF S

\* The six ways to emit a line.
Emits == EmitI \/ EmitR \/ EmitU \/ EmitJ \/ EmitS \/ EmitB

\* Every way to emit a line appends one word and counts the line.
LEMMA Emitted ==
  Emits => /\ \E w : File' = File \o BytesOf(w)
           /\ At("emit") /\ More /\ ~HasColon(Line)
           /\ Read' = Read + 1
           /\ UNCHANGED <<stage, Status, Source, PC, Labels, command, machine>>
BY DEF Emits, EmitI, EmitR, EmitU, EmitJ, EmitS, EmitB, Emit

\* Every step keeps files and counters in their types.
LEMMA FilesStep == FilesOK /\ [Next]_vars => FilesOK'
<1> SUFFICES ASSUME FilesOK, [Next]_vars PROVE FilesOK'
  OBVIOUS
<1> USE DEF At, More, Parsing, assembler, command, machine
<1>0. Len(Source) \in Nat /\ Len(Args) \in Nat
  BY DEF FilesOK
<1>1. CASE ScanLabel \/ ScanInst \/ SkipLabel \/ Rewind
  BY <1>0, <1>1 DEF FilesOK, ScanLabel, ScanInst, SkipLabel, Rewind
<1>2. CASE Emits
  <2>1. File' \in Seq(SUBSET Byte)
    BY <1>2, Emitted, BytesWritten DEF FilesOK
  <2> QED
    BY <1>0, <1>2, <2>1, Emitted DEF FilesOK
<1>3. CASE Reject \/ EndOfSource \/ NotANumber \/ Usage \/ LoadFails \/ Loaded
  BY <1>3 DEF FilesOK, Reject, EndOfSource, NotANumber, Usage, LoadFails, Loaded
<1>4. CASE SetFile \/ SetBP \/ SetFlag \/ SetAddress
  BY <1>0, <1>4 DEF FilesOK, SetFile, SetBP, SetFlag, SetAddress, Set
<1>5. CASE Build \/ LoadWord
  BY <1>5 DEF FilesOK, Build, LoadWord, NoSim
<1>6. CASE UNCHANGED vars
  BY <1>6 DEF FilesOK, vars
<1> QED
  BY <1>1, <1>2, <1>3, <1>4, <1>5, <1>6 DEF Next, asmkheiv, ripsim, Finished, Emits

\* What stands behind an option.
LEMMA ArgTypes ==
  \A a \in CommandArgs : /\ a[1] \in Numeric /\ Readable(a) => a[2] \in Nat
                         /\ a[1] = "-i" => a = <<"-i">>
<1> SUFFICES ASSUME NEW a \in CommandArgs
             PROVE  /\ a[1] \in Numeric /\ Readable(a) => a[2] \in Nat
                    /\ a[1] = "-i" => a = <<"-i">>
  OBVIOUS
<1>1. CASE a \in Numeric \X (Nat \cup {nullopt}) \cup Textual \X STRING
  BY <1>1 DEF Numeric, Textual, Readable
<1>2. CASE a \in {s \in Seq(STRING) : Len(s) = 1 /\ s[1] \notin Numeric \cup Textual}
  <2>1. a \in Seq(STRING) /\ Len(a) = 1
    BY <1>2
  <2>2. a = <<a[1]>>
    BY <2>1
  <2> QED
    BY <1>2, <2>2
<1> QED
  BY <1>1, <1>2 DEF CommandArgs

\* Every step keeps what is in memory.
LEMMA MemoryStep == FilesOK /\ MemoryOK /\ [Next]_vars => MemoryOK'
<1> SUFFICES ASSUME FilesOK, MemoryOK, [Next]_vars PROVE MemoryOK'
  OBVIOUS
<1> USE DEF At, More, Parsing, assembler, command, machine
<1>1. CASE ScanLabel \/ ScanInst \/ SkipLabel \/ Rewind
  BY <1>1 DEF MemoryOK, ScanLabel, ScanInst, SkipLabel, Rewind
<1>2. CASE Emits
  BY <1>2, Emitted DEF MemoryOK
<1>3. CASE Reject \/ EndOfSource \/ NotANumber \/ Usage \/ LoadFails
  BY <1>3 DEF MemoryOK, Reject, EndOfSource, NotANumber, Usage, LoadFails
<1>4. CASE SetFile \/ SetBP \/ SetFlag \/ SetAddress
  <2>1. Arg \in CommandArgs
    BY <1>4 DEF SetFile, SetBP, SetFlag, SetAddress, FilesOK, Arg
  <2>2. Arg[1] = "--dram-size" /\ Readable(Arg) => Arg[2] \in Nat
    BY <2>1, ArgTypes DEF Numeric
  <2>3. Ops'.dram = Ops.dram \/ (Arg[1] = "--dram-size" /\ Readable(Arg) /\ Ops'.dram = Arg[2])
    BY <1>4 DEF Readable, SetFile, SetBP, SetFlag, SetAddress, Set, FilesOK, DefaultOptions
  <2> QED
    BY <1>4, <2>2, <2>3 DEF SetFile, SetBP, SetFlag, SetAddress, Set, MemoryOK
<1>5. CASE Build
  BY <1>5 DEF MemoryOK, Build
<1>6. CASE LoadWord
  <2>1. /\ stage = "load" /\ Sim.loaded \in Nat /\ Sim.loaded + 4 <= Len(Opened)
        /\ Sim'.loaded = Sim.loaded + 4
        /\ Mem' = [a \in DOMAIN Mem |-> IF a - Sim.loaded \in 0 .. 3 THEN Opened[a + 1] ELSE Mem[a]]
        /\ Mem \in [0 .. Ops.dram - 1 -> SUBSET Byte] /\ Ops.dram \in Nat
        /\ UNCHANGED <<stage, Ops>>
    BY <1>6 DEF MemoryOK, LoadWord, CanLoad, FilesOK, NoSim
  <2>2. Opened \in Seq(SUBSET Byte)
    BY EmptySeq DEF FilesOK, Opened
  <2>3. \A a \in DOMAIN Mem : a - Sim.loaded \in 0 .. 3 => Opened[a + 1] \in SUBSET Byte
    <3> SUFFICES ASSUME NEW a \in 0 .. Ops.dram - 1, a - Sim.loaded \in 0 .. 3
                 PROVE  Opened[a + 1] \in SUBSET Byte
      BY <2>1
    <3>1. a + 1 \in 1 .. Len(Opened)
      BY <2>1, <2>2, LenProperties
    <3> QED
      BY <2>2, <3>1, ElementOfSeq
  <2> QED
    BY <2>1, <2>3 DEF MemoryOK
<1>7. CASE Loaded
  BY <1>7 DEF MemoryOK, Loaded
<1>8. CASE UNCHANGED vars
  BY <1>8 DEF MemoryOK, vars
<1> QED
  BY <1>1, <1>2, <1>3, <1>4, <1>5, <1>6, <1>7, <1>8
     DEF Next, asmkheiv, ripsim, Finished, Emits

\* Files and memory are always as they should be.
LEMMA Inductive == Spec => [](FilesOK /\ MemoryOK)
<1>1. Init => FilesOK
  <2> SUFFICES ASSUME Init PROVE FilesOK
    OBVIOUS
  <2>1. /\ stage \in {"labels", "args"} /\ Source \in Seq(Lines)
        /\ File \in Seq(SUBSET Byte) /\ Args \in Seq(CommandArgs)
    <3>1. <<>> \in Seq(Lines) /\ <<>> \in Seq(SUBSET Byte)
      BY EmptySeq
    <3>2. CASE \E s \in Assembled :
                 stage = "labels" /\ Source = s[1] /\ File = <<>> /\ Args = s[2]
      BY <3>1, <3>2, ToolchainAssumption
    <3>3. CASE \E b \in Prebuilt :
                 stage = "args" /\ Source = <<>> /\ File = b[1] /\ Args = b[2]
      BY <3>1, <3>3, ToolchainAssumption
    <3> QED
      BY <3>2, <3>3 DEF Init
  <2>2. Len(Source) \in Nat /\ Len(Args) \in Nat
    BY <2>1
  <2>3. Read = 0 /\ Parsed = 0 /\ Ops = DefaultOptions /\ Sim = NoSim
    BY DEF Init
  <2> QED
    BY <2>1, <2>2, <2>3 DEF FilesOK
<1>2. Init => MemoryOK
  <2> SUFFICES ASSUME Init PROVE MemoryOK
    OBVIOUS
  <2>1. stage \in {"labels", "args"} /\ Ops.dram = DefaultDRAM
    BY DEF Init, DefaultOptions
  <2> QED
    BY <2>1, ToolchainAssumption DEF MemoryOK
<1>3. FilesOK /\ MemoryOK /\ [Next]_vars => FilesOK' /\ MemoryOK'
  BY FilesStep, MemoryStep
<1> QED
  BY <1>1, <1>2, <1>3, PTL DEF Spec

-----------------------------------------------------------------------------
(* What the two simulators read off every word of the loaded program, from *)
(* asmkheiv or from elsewhere, is the same (Decoder.cpp:3-308,             *)
(* Instructions.h:62-119, RIPSimulator.cpp:520-545), for every program and *)
(* size of DRAM.                                                           *)
THEOREM ProgramsReadAlike == Spec => []FieldsAgree
<1>1. FilesOK /\ MemoryOK => FieldsAgree
  <2> SUFFICES ASSUME FilesOK, MemoryOK, At("running"),
                      NEW a \in DOMAIN Mem, InMem(a), decode(readWord(a)) # nullptr
               PROVE  FieldsOf(decode(readWord(a)))
    BY DEF FieldsAgree
  <2>1. Ops.dram \in Nat /\ Mem \in [0 .. Ops.dram - 1 -> SUBSET Byte]
    BY DEF MemoryOK, At
  <2>2. \A k \in 0 .. 3 : Mem[a + k] \in SUBSET Byte
    BY <2>1 DEF InMem
  <2>3. \A k \in 0 .. 3 : \A b \in Byte : b + 8 * k \in Bit
    BY DEF Byte, Bit
  <2>4. readWord(a) \in SUBSET Bit
    BY <2>2, <2>3 DEF readWord
  <2> QED
    BY <2>4, EveryWordAgrees
<1> QED
  BY <1>1, Inductive, PTL

-----------------------------------------------------------------------------
(* The settings after the first n arguments of a command line. *)

Given(args, opt, n, default) ==
  LET ks == {k \in 1 .. n : args[k][1] = opt}
  IN IF ks = {} THEN default ELSE args[Max(ks)][2]

\* One argument more: it counts if it is of this option.
LEMMA GivenNext ==
  ASSUME NEW args, NEW opt, NEW n \in Nat, NEW default
  PROVE  Given(args, opt, n + 1, default) =
           IF args[n + 1][1] = opt THEN args[n + 1][2] ELSE Given(args, opt, n, default)
<1> DEFINE ks(m) == {k \in 1 .. m : args[k][1] = opt}
<1>1. CASE args[n + 1][1] = opt
  <2>1. n + 1 \in ks(n + 1) /\ \A y \in ks(n + 1) : y \in Int /\ y <= n + 1
    BY <1>1
  <2>2. Max(ks(n + 1)) = n + 1
    <3> HIDE DEF ks
    <3>1. \A x \in ks(n + 1) : (\A y \in ks(n + 1) : x >= y) => x = n + 1
      BY <2>1
    <3>2. \A y \in ks(n + 1) : n + 1 >= y
      BY <2>1
    <3> QED
      BY <2>1, <3>1, <3>2 DEF Max
  <2>3. ks(n + 1) # {}
    BY <2>1
  <2> QED
    BY <1>1, <2>2, <2>3 DEF Given
<1>2. CASE args[n + 1][1] # opt
  <2>1. ks(n + 1) = ks(n)
    BY <1>2
  <2> QED
    BY <1>2, <2>1 DEF Given
<1> QED
  BY <1>1, <1>2

\* Without an argument there is the default.
LEMMA GivenNone ==
  ASSUME NEW args, NEW opt, NEW default
  PROVE  Given(args, opt, 0, default) = default
BY DEF Given

(* The options hold what the arguments parsed so far set, and the          *)
(* simulator what the options held when it was built.                      *)
SettingsOK ==
  /\ \A k \in 1 .. Parsed : Known(Args[k]) /\ Readable(Args[k])
  /\ Ops.bp = Given(Args, "-b", Parsed, "no")
  /\ Ops.dram = Given(Args, "--dram-size", Parsed, DefaultDRAM)
  /\ Ops.end = Given(Args, "--end-address", Parsed, nullopt)
  /\ (IF Ops.start = nullopt THEN 0 ELSE Ops.start) = Given(Args, "--start-address", Parsed, 0)
  /\ Ops.interactive \in BOOLEAN
  /\ Ops.interactive <=> \E k \in 1 .. Parsed : Args[k] = <<"-i">>
  /\ stage \in {"load", "running"} =>
       /\ Parsed = Len(Args)
       /\ Sim.bp = Ops.bp
       /\ Sim.pc = IF Ops.start = nullopt THEN 0 ELSE Ops.start
       /\ DOMAIN Mem = 0 .. Ops.dram - 1

\* An argument is parsed: only its own option takes the value behind it.
LEMMA ArgumentSet ==
  ASSUME FilesOK, SettingsOK, SetFile \/ SetBP \/ SetFlag \/ SetAddress
  PROVE  SettingsOK'
<1> PICK n \in Nat : n = Parsed
  BY DEF FilesOK
<1> PICK x : x = Args[n + 1]
  OBVIOUS
<1>1. /\ stage = "args" /\ Parsed' = n + 1 /\ UNCHANGED <<stage, Args, machine>>
      /\ Arg = x /\ Known(x) /\ Readable(x) /\ x \in CommandArgs
  BY DEF Readable, Numeric, SetFile, SetBP, SetFlag, SetAddress, Set, Parsing, At, Arg,
         Known, FilesOK
<1>2. /\ (x[1] \in Numeric => x[2] \in Nat)
      /\ (x[1] = "-i" => x = <<"-i">>)
  BY <1>1, ArgTypes
<1>3. /\ Ops'.bp = IF x[1] = "-b" THEN x[2] ELSE Ops.bp
      /\ Ops'.dram = IF x[1] = "--dram-size" THEN x[2] ELSE Ops.dram
      /\ Ops'.end = IF x[1] = "--end-address" THEN x[2] ELSE Ops.end
      /\ Ops'.start = IF x[1] = "--start-address" THEN x[2] ELSE Ops.start
      /\ Ops'.interactive = IF x[1] = "-i" THEN TRUE ELSE Ops.interactive
  BY <1>1 DEF SetFile, SetBP, SetFlag, SetAddress, Set, FilesOK, DefaultOptions
<1>4. \A opt, default :
        Given(Args, opt, n + 1, default) =
          IF x[1] = opt THEN x[2] ELSE Given(Args, opt, n, default)
  BY GivenNext
<1>5. Ops'.bp = Given(Args, "-b", n + 1, "no")
  BY <1>3, <1>4 DEF SettingsOK
<1>6. Ops'.dram = Given(Args, "--dram-size", n + 1, DefaultDRAM)
  BY <1>3, <1>4 DEF SettingsOK
<1>7. Ops'.end = Given(Args, "--end-address", n + 1, nullopt)
  BY <1>3, <1>4 DEF SettingsOK
<1>8. (IF Ops'.start = nullopt THEN 0 ELSE Ops'.start) = Given(Args, "--start-address", n + 1, 0)
  BY <1>2, <1>3, <1>4 DEF SettingsOK, nullopt, Numeric
<1>9. /\ Ops'.interactive \in BOOLEAN
      /\ Ops'.interactive <=> \E k \in 1 .. n + 1 : Args[k] = <<"-i">>
  <2>1. \A k \in 1 .. n + 1 : k \in 1 .. n \/ k = n + 1
    OBVIOUS
  <2>2. n + 1 \in 1 .. n + 1 /\ \A k \in 1 .. n : k \in 1 .. n + 1
    OBVIOUS
  <2>3. x[1] = "-i" <=> Args[n + 1] = <<"-i">>
    BY <1>2
  <2>4. Ops.interactive <=> \E k \in 1 .. n : Args[k] = <<"-i">>
    BY DEF SettingsOK
  <2> QED
    BY <1>3, <2>1, <2>2, <2>3, <2>4 DEF SettingsOK
<1>10. \A k \in 1 .. n + 1 : Known(Args[k]) /\ Readable(Args[k])
  <2>1. \A k \in 1 .. n + 1 : k \in 1 .. n \/ k = n + 1
    OBVIOUS
  <2> QED
    BY <1>1, <2>1 DEF SettingsOK
<1> QED
  BY <1>1, <1>5, <1>6, <1>7, <1>8, <1>9, <1>10 DEF SettingsOK

\* Every step keeps the settings those of the arguments parsed.
LEMMA SettingsStep == FilesOK /\ MemoryOK /\ SettingsOK /\ [Next]_vars => SettingsOK'
<1> SUFFICES ASSUME FilesOK, MemoryOK, SettingsOK, [Next]_vars PROVE SettingsOK'
  OBVIOUS
<1> USE DEF At, More, Parsing, assembler, command, machine
<1>1. CASE ScanLabel \/ ScanInst \/ SkipLabel \/ Rewind
  BY <1>1 DEF SettingsOK, ScanLabel, ScanInst, SkipLabel, Rewind
<1>2. CASE Emits
  BY <1>2, Emitted DEF SettingsOK
<1>3. CASE Reject \/ EndOfSource \/ NotANumber \/ Usage \/ LoadFails \/ Loaded
  BY <1>3 DEF SettingsOK, Reject, EndOfSource, NotANumber, Usage, LoadFails, Loaded
<1>4. CASE SetFile \/ SetBP \/ SetFlag \/ SetAddress
  BY <1>4, ArgumentSet
<1>5. CASE Build
  BY <1>5 DEF SettingsOK, Build
<1>6. CASE LoadWord
  <2>1. /\ UNCHANGED <<stage, Args, Parsed, Ops>>
        /\ Sim'.bp = Sim.bp /\ Sim'.pc = Sim.pc /\ DOMAIN Mem' = DOMAIN Mem
    BY <1>6 DEF LoadWord, FilesOK, NoSim
  <2> QED
    BY <2>1 DEF SettingsOK
<1>7. CASE UNCHANGED vars
  BY <1>7 DEF SettingsOK, vars
<1> QED
  BY <1>1, <1>2, <1>3, <1>4, <1>5, <1>6, <1>7 DEF Next, asmkheiv, ripsim, Finished, Emits

(* A simulator runs with the last setting given of each option, and with   *)
(* the default of those not given, whatever the order of the arguments;    *)
(* an argument that is not known ends main before (Options::parse,         *)
(* rip-sim.cpp:60-98, and main, 133-172), for every command line.          *)
THEOREM LastSettingCounts == Spec => []SettingsAsGiven
<1>1. Init => SettingsOK
  <2> SUFFICES ASSUME Init PROVE SettingsOK
    OBVIOUS
  <2>1. Parsed = 0 /\ Ops = DefaultOptions /\ stage \in {"labels", "args"}
    BY DEF Init
  <2>2. 1 .. 0 = {}
    OBVIOUS
  <2> QED
    BY <2>1, <2>2, GivenNone DEF SettingsOK, DefaultOptions
<1>2. FilesOK /\ MemoryOK /\ SettingsOK /\ [Next]_vars => SettingsOK'
  BY SettingsStep
<1>3. SettingsOK => SettingsAsGiven
  <2>1. \A opt, default : LastOf(opt, default) = Given(Args, opt, Len(Args), default)
    BY DEF LastOf, Given
  <2> QED
    BY <2>1 DEF SettingsOK, SettingsAsGiven
<1> QED
  BY <1>1, <1>2, <1>3, Inductive, PTL DEF Spec

-----------------------------------------------------------------------------
(* Addresses. *)

\* One line more: it counts if there is no colon in it.
LEMMA CountNext ==
  ASSUME NEW src, NEW n \in Nat
  PROVE  /\ Count(src, n) \in Nat
         /\ Count(src, n + 1) = IF HasColon(src[n + 1]) THEN Count(src, n) ELSE Count(src, n) + 1
<1> DEFINE insts(m) == {k \in 1 .. m : ~HasColon(src[k])}
<1>1. IsFiniteSet(insts(n))
  <2>1. IsFiniteSet(1 .. n)
    BY FS_Interval
  <2> QED
    BY <2>1, FS_Subset
<1>2. CASE HasColon(src[n + 1])
  <2>1. insts(n + 1) = insts(n)
    BY <1>2
  <2> QED
    BY <1>1, <1>2, <2>1, FS_CardinalityType DEF Count, IsInst
<1>3. CASE ~HasColon(src[n + 1])
  <2>1. insts(n + 1) = insts(n) \cup {n + 1} /\ n + 1 \notin insts(n)
    BY <1>3
  <2>2. Cardinality(insts(n + 1)) = Cardinality(insts(n)) + 1
    <3> HIDE DEF insts
    <3> QED
      BY <1>1, <2>1, FS_AddElement
  <2> QED
    BY <1>1, <1>3, <2>2, FS_CardinalityType DEF Count, IsInst
<1> QED
  BY <1>2, <1>3

\* No lines, no instructions.
LEMMA CountNone == ASSUME NEW src PROVE Count(src, 0) = 0
<1>1. {k \in 1 .. 0 : ~HasColon(src[k])} = {}
  OBVIOUS
<1> QED
  BY <1>1, FS_EmptySet DEF Count, IsInst

(* Of the first n lines the labels are known, each at the number of        *)
(* instructions in front of its first definition.                          *)
Labelled(src, labels, n) ==
  /\ \A l \in DOMAIN labels : \E j \in 1 .. n : src[j].label = l
  /\ \A k \in 1 .. n : HasColon(src[k]) =>
       /\ src[k].label \in DOMAIN labels
       /\ (\A j \in 1 .. k - 1 : src[j].label # src[k].label)
            => labels[src[k].label] = 4 * Count(src, k - 1)

LabelsOK ==
  /\ stage = "labels" =>
       File = <<>> /\ PC = 4 * Count(Source, Read) /\ Labelled(Source, Labels, Read)
  /\ stage = "emit" =>
       Len(File) = 4 * Count(Source, Read) /\ Labelled(Source, Labels, Len(Source))

\* A line with a colon: the first definition of its label stays.
LEMMA LabelInserted ==
  ASSUME NEW src, NEW labels, NEW n \in Nat, Labelled(src, labels, n),
         NEW lab, HasColon(src[n + 1]), lab = src[n + 1].label,
         NEW new, new = [l \in DOMAIN labels \cup {lab} |->
                           IF l \in DOMAIN labels THEN labels[l] ELSE 4 * Count(src, n)]
  PROVE  Labelled(src, new, n + 1)
<1>1. \A k \in 1 .. n + 1 : k \in 1 .. n \/ k = n + 1
  OBVIOUS
<1>2. \A l \in DOMAIN new : \E j \in 1 .. n + 1 : src[j].label = l
  <2> SUFFICES ASSUME NEW l \in DOMAIN new PROVE \E j \in 1 .. n + 1 : src[j].label = l
    OBVIOUS
  <2>1. CASE l \in DOMAIN labels
    BY <2>1 DEF Labelled
  <2>2. CASE l = lab
    BY <2>2
  <2> QED
    BY <2>1, <2>2
<1>3. ASSUME NEW k \in 1 .. n + 1, HasColon(src[k])
      PROVE  /\ src[k].label \in DOMAIN new
             /\ (\A j \in 1 .. k - 1 : src[j].label # src[k].label)
                  => new[src[k].label] = 4 * Count(src, k - 1)
  <2>1. CASE k \in 1 .. n
    BY <1>3, <2>1 DEF Labelled
  <2>2. CASE k = n + 1
    <3>1. (\A j \in 1 .. n : src[j].label # lab) => lab \notin DOMAIN labels
      BY DEF Labelled
    <3> QED
      BY <2>2, <3>1
  <2> QED
    BY <1>1, <2>1, <2>2
<1> QED
  BY <1>2, <1>3 DEF Labelled

\* A line without a colon leaves the labels as they are.
LEMMA LabelsKept ==
  ASSUME NEW src, NEW labels, NEW n \in Nat, Labelled(src, labels, n), ~HasColon(src[n + 1])
  PROVE  Labelled(src, labels, n + 1)
<1>1. \A k \in 1 .. n + 1 : k \in 1 .. n \/ k = n + 1
  OBVIOUS
<1>2. \A k \in 1 .. n : k \in 1 .. n + 1
  OBVIOUS
<1> QED
  BY <1>1, <1>2 DEF Labelled

\* Every step keeps the labels at the lines counted.
LEMMA LabelsStep == FilesOK /\ LabelsOK /\ [Next]_vars => LabelsOK'
<1> SUFFICES ASSUME FilesOK, LabelsOK, [Next]_vars PROVE LabelsOK'
  OBVIOUS
<1> USE DEF At, More, Parsing, assembler, command, machine
<1> PICK n \in Nat : n = Read
  BY DEF FilesOK
<1> PICK src : src = Source
  OBVIOUS
<1>0. Count(src, n) \in Nat /\ Line = src[n + 1]
  BY CountNext DEF Line
<1>1. CASE ScanLabel
  <2>1. /\ stage = "labels" /\ Read' = n + 1 /\ HasColon(src[n + 1])
        /\ UNCHANGED <<stage, Source, PC, File>>
        /\ Labels' = insert(src[n + 1].label)
    BY <1>0, <1>1 DEF ScanLabel
  <2>2. PC = 4 * Count(src, n) /\ Labelled(src, Labels, n) /\ File = <<>>
    BY <2>1 DEF LabelsOK
  <2>3. PICK old, new : old = Labels /\ new = Labels'
    OBVIOUS
  <2>4. Labelled(src, new, n + 1)
    BY <2>1, <2>2, <2>3, LabelInserted DEF insert
  <2>5. Count(src, n + 1) = Count(src, n)
    BY <2>1, CountNext
  <2> QED
    BY <2>1, <2>2, <2>3, <2>4, <2>5 DEF LabelsOK
<1>2. CASE ScanInst
  <2>1. /\ stage = "labels" /\ Read' = n + 1 /\ ~HasColon(src[n + 1]) /\ PC' = PC + 4
        /\ UNCHANGED <<stage, Source, Labels, File>>
    BY <1>0, <1>2 DEF ScanInst
  <2>2. PC = 4 * Count(src, n) /\ Labelled(src, Labels, n) /\ File = <<>>
    BY <2>1 DEF LabelsOK
  <2>3. Labelled(src, Labels, n + 1)
    BY <2>1, <2>2, LabelsKept
  <2>4. Count(src, n + 1) = Count(src, n) + 1
    BY <2>1, CountNext
  <2> QED
    BY <1>0, <2>1, <2>2, <2>3, <2>4 DEF LabelsOK
<1>3. CASE Rewind
  <2>1. /\ stage = "labels" /\ stage' = "emit" /\ Read' = 0 /\ UNCHANGED <<Source, Labels, File>>
        /\ Read = Len(Source)
    BY <1>3 DEF Rewind, FilesOK
  <2>2. Labelled(src, Labels, Len(src)) /\ Len(File) = 0
    BY <2>1, EmptySeq DEF LabelsOK
  <2> QED
    BY <2>1, <2>2, CountNone DEF LabelsOK
<1>4. CASE Emits
  <2>1. /\ stage = "emit" /\ ~HasColon(src[n + 1]) /\ Read' = n + 1
        /\ UNCHANGED <<stage, Source, Labels>>
    BY <1>0, <1>4, Emitted
  <2>2. Len(File') = Len(File) + 4
    BY <1>4, Emitted, BytesWritten DEF FilesOK
  <2>3. Count(src, n + 1) = Count(src, n) + 1
    BY <2>1, CountNext
  <2> QED
    BY <1>0, <2>1, <2>2, <2>3 DEF LabelsOK
<1>5. CASE SkipLabel
  <2>1. /\ stage = "emit" /\ HasColon(src[n + 1]) /\ Read' = n + 1
        /\ UNCHANGED <<stage, Source, Labels, File>>
    BY <1>0, <1>5 DEF SkipLabel
  <2>2. Count(src, n + 1) = Count(src, n)
    BY <2>1, CountNext
  <2> QED
    BY <2>1, <2>2 DEF LabelsOK
<1>6. CASE EndOfSource \/ Loaded \/ Build
  BY <1>6 DEF LabelsOK, EndOfSource, Loaded, Build
<1>7. CASE Reject \/ NotANumber \/ Usage \/ LoadFails \/ LoadWord
  BY <1>7 DEF LabelsOK, Reject, NotANumber, Usage, LoadFails, LoadWord
<1>8. CASE SetFile \/ SetBP \/ SetFlag \/ SetAddress
  BY <1>8 DEF LabelsOK, SetFile, SetBP, SetFlag, SetAddress, Set
<1>9. CASE UNCHANGED vars
  BY <1>9 DEF LabelsOK, vars
<1> QED
  BY <1>1, <1>2, <1>3, <1>4, <1>5, <1>6, <1>7, <1>8, <1>9
     DEF Next, asmkheiv, ripsim, Finished, Emits

(* A label's address, counted in the first pass, is the length of the file *)
(* when the second pass comes to the label's first definition              *)
(* (AsmParser.h:27-43, AsmParser.cpp:20-30), for every source.             *)
THEOREM LabelsFit == Spec => []LabelsPointAtCode
<1>1. Init => LabelsOK
  <2> SUFFICES ASSUME Init PROVE LabelsOK
    OBVIOUS
  <2>1. /\ Read = 0 /\ PC = 0 /\ DOMAIN Labels = {} /\ stage # "emit"
        /\ stage = "labels" => File = <<>>
    BY DEF Init
  <2>2. \A src : Labelled(src, Labels, 0)
    BY <2>1 DEF Labelled
  <2> QED
    BY <2>1, <2>2, CountNone DEF LabelsOK
<1>2. FilesOK /\ LabelsOK /\ [Next]_vars => LabelsOK'
  BY LabelsStep
<1>3. FilesOK /\ LabelsOK => LabelsPointAtCode
  <2> SUFFICES ASSUME FilesOK, LabelsOK, At("emit"), More, HasColon(Line),
                      \A k \in 1 .. Read : Source[k].label # Line.label
               PROVE  Labels[Line.label] = Len(File)
    BY DEF LabelsPointAtCode
  <2>1. Read + 1 \in 1 .. Len(Source) /\ Read \in Nat
    BY DEF FilesOK, More
  <2>2. Labels[Line.label] = 4 * Count(Source, Read + 1 - 1)
    BY <2>1 DEF LabelsOK, Labelled, At, Line
  <2> QED
    BY <2>1, <2>2 DEF LabelsOK, At
<1> QED
  BY <1>1, <1>2, <1>3, Inductive, PTL DEF Spec

-----------------------------------------------------------------------------
(* The names of the registers. *)

\* Each register has its two names.
LEMMA Names ==
  /\ ABI[1] = "zero" /\ XNames[1] = "x0"
  /\ ABI[2] = "ra" /\ XNames[2] = "x1"
  /\ ABI[3] = "sp" /\ XNames[3] = "x2"
  /\ ABI[4] = "gp" /\ XNames[4] = "x3"
  /\ ABI[5] = "tp" /\ XNames[5] = "x4"
  /\ ABI[6] = "t0" /\ XNames[6] = "x5"
  /\ ABI[7] = "t1" /\ XNames[7] = "x6"
  /\ ABI[8] = "t2" /\ XNames[8] = "x7"
  /\ ABI[9] = "s0" /\ XNames[9] = "x8"
  /\ ABI[10] = "s1" /\ XNames[10] = "x9"
  /\ ABI[11] = "a0" /\ XNames[11] = "x10"
  /\ ABI[12] = "a1" /\ XNames[12] = "x11"
  /\ ABI[13] = "a2" /\ XNames[13] = "x12"
  /\ ABI[14] = "a3" /\ XNames[14] = "x13"
  /\ ABI[15] = "a4" /\ XNames[15] = "x14"
  /\ ABI[16] = "a5" /\ XNames[16] = "x15"
  /\ ABI[17] = "a6" /\ XNames[17] = "x16"
  /\ ABI[18] = "a7" /\ XNames[18] = "x17"
  /\ ABI[19] = "s2" /\ XNames[19] = "x18"
  /\ ABI[20] = "s3" /\ XNames[20] = "x19"
  /\ ABI[21] = "s4" /\ XNames[21] = "x20"
  /\ ABI[22] = "s5" /\ XNames[22] = "x21"
  /\ ABI[23] = "s6" /\ XNames[23] = "x22"
  /\ ABI[24] = "s7" /\ XNames[24] = "x23"
  /\ ABI[25] = "s8" /\ XNames[25] = "x24"
  /\ ABI[26] = "s9" /\ XNames[26] = "x25"
  /\ ABI[27] = "s10" /\ XNames[27] = "x26"
  /\ ABI[28] = "s11" /\ XNames[28] = "x27"
  /\ ABI[29] = "t3" /\ XNames[29] = "x28"
  /\ ABI[30] = "t4" /\ XNames[30] = "x29"
  /\ ABI[31] = "t5" /\ XNames[31] = "x30"
  /\ ABI[32] = "t6" /\ XNames[32] = "x31"
BY DEF ABI, XNames

\* The map of the registers knows both.
LEMMA Numbers ==
  /\ GPRegMap["zero"] = 0 /\ GPRegMap["x0"] = 0
  /\ GPRegMap["ra"] = 1 /\ GPRegMap["x1"] = 1
  /\ GPRegMap["sp"] = 2 /\ GPRegMap["x2"] = 2
  /\ GPRegMap["gp"] = 3 /\ GPRegMap["x3"] = 3
  /\ GPRegMap["tp"] = 4 /\ GPRegMap["x4"] = 4
  /\ GPRegMap["t0"] = 5 /\ GPRegMap["x5"] = 5
  /\ GPRegMap["t1"] = 6 /\ GPRegMap["x6"] = 6
  /\ GPRegMap["t2"] = 7 /\ GPRegMap["x7"] = 7
  /\ GPRegMap["s0"] = 8 /\ GPRegMap["x8"] = 8
  /\ GPRegMap["s1"] = 9 /\ GPRegMap["x9"] = 9
  /\ GPRegMap["a0"] = 10 /\ GPRegMap["x10"] = 10
  /\ GPRegMap["a1"] = 11 /\ GPRegMap["x11"] = 11
  /\ GPRegMap["a2"] = 12 /\ GPRegMap["x12"] = 12
  /\ GPRegMap["a3"] = 13 /\ GPRegMap["x13"] = 13
  /\ GPRegMap["a4"] = 14 /\ GPRegMap["x14"] = 14
  /\ GPRegMap["a5"] = 15 /\ GPRegMap["x15"] = 15
  /\ GPRegMap["a6"] = 16 /\ GPRegMap["x16"] = 16
  /\ GPRegMap["a7"] = 17 /\ GPRegMap["x17"] = 17
  /\ GPRegMap["s2"] = 18 /\ GPRegMap["x18"] = 18
  /\ GPRegMap["s3"] = 19 /\ GPRegMap["x19"] = 19
  /\ GPRegMap["s4"] = 20 /\ GPRegMap["x20"] = 20
  /\ GPRegMap["s5"] = 21 /\ GPRegMap["x21"] = 21
  /\ GPRegMap["s6"] = 22 /\ GPRegMap["x22"] = 22
  /\ GPRegMap["s7"] = 23 /\ GPRegMap["x23"] = 23
  /\ GPRegMap["s8"] = 24 /\ GPRegMap["x24"] = 24
  /\ GPRegMap["s9"] = 25 /\ GPRegMap["x25"] = 25
  /\ GPRegMap["s10"] = 26 /\ GPRegMap["x26"] = 26
  /\ GPRegMap["s11"] = 27 /\ GPRegMap["x27"] = 27
  /\ GPRegMap["t3"] = 28 /\ GPRegMap["x28"] = 28
  /\ GPRegMap["t4"] = 29 /\ GPRegMap["x29"] = 29
  /\ GPRegMap["t5"] = 30 /\ GPRegMap["x30"] = 30
  /\ GPRegMap["t6"] = 31 /\ GPRegMap["x31"] = 31
  /\ GPRegMap["fp"] = 8
<1>1. /\ GPRegMap["zero"] = 0 /\ GPRegMap["x0"] = 0
      /\ GPRegMap["ra"] = 1 /\ GPRegMap["x1"] = 1
      /\ GPRegMap["sp"] = 2 /\ GPRegMap["x2"] = 2
      /\ GPRegMap["gp"] = 3 /\ GPRegMap["x3"] = 3
  BY DEF GPRegMap
<1>2. /\ GPRegMap["tp"] = 4 /\ GPRegMap["x4"] = 4
      /\ GPRegMap["t0"] = 5 /\ GPRegMap["x5"] = 5
      /\ GPRegMap["t1"] = 6 /\ GPRegMap["x6"] = 6
      /\ GPRegMap["t2"] = 7 /\ GPRegMap["x7"] = 7
  BY DEF GPRegMap
<1>3. /\ GPRegMap["s0"] = 8 /\ GPRegMap["x8"] = 8
      /\ GPRegMap["s1"] = 9 /\ GPRegMap["x9"] = 9
      /\ GPRegMap["a0"] = 10 /\ GPRegMap["x10"] = 10
      /\ GPRegMap["a1"] = 11 /\ GPRegMap["x11"] = 11
  BY DEF GPRegMap
<1>4. /\ GPRegMap["a2"] = 12 /\ GPRegMap["x12"] = 12
      /\ GPRegMap["a3"] = 13 /\ GPRegMap["x13"] = 13
      /\ GPRegMap["a4"] = 14 /\ GPRegMap["x14"] = 14
      /\ GPRegMap["a5"] = 15 /\ GPRegMap["x15"] = 15
  BY DEF GPRegMap
<1>5. /\ GPRegMap["a6"] = 16 /\ GPRegMap["x16"] = 16
      /\ GPRegMap["a7"] = 17 /\ GPRegMap["x17"] = 17
      /\ GPRegMap["s2"] = 18 /\ GPRegMap["x18"] = 18
      /\ GPRegMap["s3"] = 19 /\ GPRegMap["x19"] = 19
  BY DEF GPRegMap
<1>6. /\ GPRegMap["s4"] = 20 /\ GPRegMap["x20"] = 20
      /\ GPRegMap["s5"] = 21 /\ GPRegMap["x21"] = 21
      /\ GPRegMap["s6"] = 22 /\ GPRegMap["x22"] = 22
      /\ GPRegMap["s7"] = 23 /\ GPRegMap["x23"] = 23
  BY DEF GPRegMap
<1>7. /\ GPRegMap["s8"] = 24 /\ GPRegMap["x24"] = 24
      /\ GPRegMap["s9"] = 25 /\ GPRegMap["x25"] = 25
      /\ GPRegMap["s10"] = 26 /\ GPRegMap["x26"] = 26
      /\ GPRegMap["s11"] = 27 /\ GPRegMap["x27"] = 27
  BY DEF GPRegMap
<1>8. /\ GPRegMap["t3"] = 28 /\ GPRegMap["x28"] = 28
      /\ GPRegMap["t4"] = 29 /\ GPRegMap["x29"] = 29
      /\ GPRegMap["t5"] = 30 /\ GPRegMap["x30"] = 30
      /\ GPRegMap["t6"] = 31 /\ GPRegMap["x31"] = 31
  BY DEF GPRegMap
<1>9. GPRegMap["fp"] = 8
  BY DEF GPRegMap
<1> QED
  BY <1>1, <1>2, <1>3, <1>4, <1>5, <1>6, <1>7, <1>8, <1>9

\* Every name is one of them, or fp.
LEMMA KnownNames ==
  DOMAIN GPRegMap =
    {"zero", "x0", "ra", "x1", "sp", "x2", "gp", "x3", "tp", "x4", "t0", "x5",
     "t1", "x6", "t2", "x7", "s0", "x8", "s1", "x9", "a0", "x10", "a1", "x11",
     "a2", "x12", "a3", "x13", "a4", "x14", "a5", "x15", "a6", "x16", "a7", "x17",
     "s2", "x18", "s3", "x19", "s4", "x20", "s5", "x21", "s6", "x22", "s7", "x23",
     "s8", "x24", "s9", "x25", "s10", "x26", "s11", "x27", "t3", "x28", "t4",
     "x29", "t5", "x30", "t6", "x31", "fp"}
BY DEF GPRegMap

\* The number of a register, one of thirty-two.
Numbered(n) ==
  \/ n = 0 \/ n = 1 \/ n = 2 \/ n = 3 \/ n = 4 \/ n = 5 \/ n = 6 \/ n = 7
  \/ n = 8 \/ n = 9 \/ n = 10 \/ n = 11 \/ n = 12 \/ n = 13 \/ n = 14 \/ n = 15
  \/ n = 16 \/ n = 17 \/ n = 18 \/ n = 19 \/ n = 20 \/ n = 21 \/ n = 22 \/ n = 23
  \/ n = 24 \/ n = 25 \/ n = 26 \/ n = 27 \/ n = 28 \/ n = 29 \/ n = 30 \/ n = 31

\* There are no others.
LEMMA AllNumbers == \A n \in 0 .. 31 : Numbered(n)
BY DEF Numbered

\* A name of the n-th register has the number n in the map.
LEMMA NameNumber ==
  ASSUME NEW n \in 0 .. 31, NEW name, name \in {ABI[n + 1], XNames[n + 1]}
  PROVE  GPRegMap[name] = n
<1>1. Numbered(n)
  BY AllNumbers
<1> QED
  BY <1>1, Names, Numbers DEF Numbered

\* A name in the map, but fp, is a name of the register it is mapped to.
LEMMA NumberName ==
  ASSUME NEW name \in DOMAIN GPRegMap, name # "fp"
  PROVE  GPRegMap[name] \in 0 .. 31 /\ name \in {ABI[GPRegMap[name] + 1], XNames[GPRegMap[name] + 1]}
<1>1. CASE name \in {"zero", "x0", "ra", "x1", "sp", "x2", "gp", "x3",
                  "tp", "x4", "t0", "x5", "t1", "x6", "t2", "x7"}
  BY <1>1, Names, Numbers
<1>2. CASE name \in {"s0", "x8", "s1", "x9", "a0", "x10", "a1", "x11",
                  "a2", "x12", "a3", "x13", "a4", "x14", "a5", "x15"}
  BY <1>2, Names, Numbers
<1>3. CASE name \in {"a6", "x16", "a7", "x17", "s2", "x18", "s3", "x19",
                  "s4", "x20", "s5", "x21", "s6", "x22", "s7", "x23"}
  BY <1>3, Names, Numbers
<1>4. CASE name \in {"s8", "x24", "s9", "x25", "s10", "x26", "s11", "x27",
                  "t3", "x28", "t4", "x29", "t5", "x30", "t6", "x31"}
  BY <1>4, Names, Numbers
<1> QED
  BY <1>1, <1>2, <1>3, <1>4, KnownNames

\* The register a name means is the one findReg finds.
LEMMA RegisterFound ==
  ASSUME NEW name \in DOMAIN GPRegMap
  PROVE  RegOf(name) = Bits(GPRegMap[name], 5) /\ GPRegMap[name] \in 0 .. 31
<1>1. CASE name = "fp"
  BY <1>1, Numbers DEF RegOf
<1>2. CASE name # "fp"
  <2> PICK g : g = GPRegMap[name]
    OBVIOUS
  <2> DEFINE Named(n) == name \in {ABI[n + 1], XNames[n + 1]}
  <2>1. g \in 0 .. 31 /\ Named(g)
    BY <1>2, NumberName
  <2>2. \A n \in 0 .. 31 : Named(n) => n = g
    BY NameNumber
  <2>3. RegOf(name) = Bits(CHOOSE n \in 0 .. 31 : Named(n), 5)
    BY <1>2 DEF RegOf
  <2> HIDE DEF Named
  <2>4. (CHOOSE n \in 0 .. 31 : Named(n)) = g
    BY <2>1, <2>2
  <2> QED
    BY <2>1, <2>3, <2>4
<1> QED
  BY <1>1, <1>2

-----------------------------------------------------------------------------
(* A decoded instruction is what a line asks for. *)

Means(i, l) ==
  /\ i.op = l.op
  /\ l.op \notin System =>
       /\ i.rd = Meaning(l).rd /\ i.rs2 = Meaning(l).rs2
       /\ WithBase(l) \/ i.rs1 = Meaning(l).rs1
       /\ IF l.op \in CSRKinds THEN i.imm = Bits(Meaning(l).imm, 12)
                               ELSE MemberImm(i) = IntBits(Meaning(l).imm)

\* The members of what is made, and the immediate as they give it.
LEMMA MembersI ==
  ASSUME NEW op \in DOMAIN ITypeKinds, NEW rd, NEW rs1, NEW imm,
         NEW i, i = MakeI(op, rd, rs1, imm)
  PROVE  /\ i.op = op /\ i.rd = rd /\ i.rs1 = rs1 /\ i.rs2 = {} /\ i.imm = imm
         /\ MemberImm(i) = signExtendBits(imm, 12)
<1>1. i.op = op /\ i.rd = rd /\ i.rs1 = rs1 /\ i.rs2 = {} /\ i.imm = imm
  BY DEF MakeI, NoBits
<1>2. MemberImm(i) = signExtendBits(imm, 12)
  BY <1>1, Classes DEF MemberImm
<1> QED
  BY <1>1, <1>2

\* The same of a store.
LEMMA MembersS ==
  ASSUME NEW op \in DOMAIN STypeKinds, NEW rs1, NEW rs2, NEW imm,
         NEW i, i = MakeS(op, rs1, rs2, imm)
  PROVE  /\ i.op = op /\ i.rd = {} /\ i.rs1 = rs1 /\ i.rs2 = rs2 /\ i.imm = imm
         /\ MemberImm(i) = signExtendBits(imm, 12)
<1>1. i.op = op /\ i.rd = {} /\ i.rs1 = rs1 /\ i.rs2 = rs2 /\ i.imm = imm
  BY DEF MakeS, NoBits
<1>2. MemberImm(i) = signExtendBits(imm, 12)
  BY <1>1, Classes DEF MemberImm
<1> QED
  BY <1>1, <1>2

\* The same of a branch.
LEMMA MembersB ==
  ASSUME NEW op \in DOMAIN BTypeKinds, NEW rs1, NEW rs2, NEW imm,
         NEW i, i = MakeB(op, rs1, rs2, imm)
  PROVE  /\ i.op = op /\ i.rd = {} /\ i.rs1 = rs1 /\ i.rs2 = rs2 /\ i.imm = imm
         /\ MemberImm(i) = signExtendBits(imm, 13)
<1>1. i.op = op /\ i.rd = {} /\ i.rs1 = rs1 /\ i.rs2 = rs2 /\ i.imm = imm
  BY DEF MakeB, NoBits
<1>2. MemberImm(i) = signExtendBits(imm, 13)
  BY <1>1, Classes DEF MemberImm
<1> QED
  BY <1>1, <1>2

\* The same of lui and auipc.
LEMMA MembersU ==
  ASSUME NEW op \in DOMAIN UTypeKinds, NEW rd, NEW imm,
         NEW i, i = MakeU(op, rd, imm)
  PROVE  /\ i.op = op /\ i.rd = rd /\ i.rs1 = {} /\ i.rs2 = {} /\ i.imm = imm
         /\ MemberImm(i) = signExtendBits(imm, 20)
<1>1. i.op = op /\ i.rd = rd /\ i.rs1 = {} /\ i.rs2 = {} /\ i.imm = imm
  BY DEF MakeU, NoBits
<1>2. MemberImm(i) = signExtendBits(imm, 20)
  BY <1>1, Classes DEF MemberImm
<1> QED
  BY <1>1, <1>2

\* The same of a jump.
LEMMA MembersJ ==
  ASSUME NEW op \in DOMAIN JTypeKinds, NEW rd, NEW imm,
         NEW i, i = MakeJ(op, rd, imm)
  PROVE  /\ i.op = op /\ i.rd = rd /\ i.rs1 = {} /\ i.rs2 = {} /\ i.imm = imm
         /\ MemberImm(i) = signExtendBits(imm, 21)
<1>1. i.op = op /\ i.rd = rd /\ i.rs1 = {} /\ i.rs2 = {} /\ i.imm = imm
  BY DEF MakeJ, NoBits
<1>2. MemberImm(i) = signExtendBits(imm, 21)
  BY <1>1, Classes DEF MemberImm
<1> QED
  BY <1>1, <1>2

\* The same of an instruction on registers: there is no immediate.
LEMMA MembersR ==
  ASSUME NEW op \in DOMAIN RTypeKinds, NEW rd, NEW rs1, NEW rs2,
         NEW i, i = MakeR(op, rd, rs1, rs2)
  PROVE  /\ i.op = op /\ i.rd = rd /\ i.rs1 = rs1 /\ i.rs2 = rs2
         /\ MemberImm(i) = {}
<1>1. i.op = op /\ i.rd = rd /\ i.rs1 = rs1 /\ i.rs2 = rs2
  BY DEF MakeR
<1>2. MemberImm(i) = {}
  BY <1>1, Classes DEF MemberImm, NoBits
<1> QED
  BY <1>1, <1>2

\* What an operand gives: a register its number, another one a number.
LEMMA Operand ==
  ASSUME NEW t \in Tokens
  PROVE  /\ IsReg(t) => findReg(t) = RegOf(t[2]) /\ findReg(t) \in SUBSET (0 .. 4)
         /\ IsReg(t) => t[1] # "off"
         /\ IsNum(t) => t[2] \in Int
<1>1. ASSUME IsReg(t)
      PROVE  findReg(t) = RegOf(t[2]) /\ findReg(t) \in SUBSET (0 .. 4) /\ t[1] # "off"
  <2>1. findReg(t) = RegOf(t[2]) /\ GPRegMap[t[2]] \in 0 .. 31
    BY <1>1, RegisterFound DEF IsReg, findReg
  <2>2. findReg(t) \in SUBSET (0 .. 4)
    BY <2>1, BitsRange DEF findReg
  <2> QED
    BY <1>1, <2>1, <2>2 DEF IsReg
<1>2. IsNum(t) => t[2] \in Int
  <2>1. CASE t \in {"reg"} \X STRING
    BY <2>1 DEF IsNum
  <2>2. CASE t \in {"imm"} \X Int
    BY <2>2
  <2>3. CASE t \in {"off"} \X Int \X STRING
    BY <2>3
  <2> QED
    BY <2>1, <2>2, <2>3 DEF Tokens
<1> QED
  BY <1>1, <1>2

\* The word asmkheiv writes for a line.
WordOf(l) ==
  LET a == l.args
  IN CASE l.op \in DOMAIN ITypeKinds ->
            IWord(ITypeKinds[l.op], findReg(a[1]),
                  IF Len(a) = 2 THEN OffsetReg ELSE findReg(a[2]),
                  parseOffset(a[Len(a)], 12) \cup (IF l.op = "srai" THEN {10} ELSE {}))
       [] l.op \in DOMAIN RTypeKinds ->
            RWord(RTypeKinds[l.op], findReg(a[1]), findReg(a[2]), findReg(a[3]))
       [] l.op \in DOMAIN UTypeKinds ->
            UWord(UTypeKinds[l.op], findReg(a[1]), parseOffset(a[2], 20))
       [] l.op \in DOMAIN JTypeKinds ->
            JWord(JTypeKinds[l.op], findReg(a[1]), parseOffset(a[2], 21))
       [] l.op \in DOMAIN STypeKinds ->
            SWord(STypeKinds[l.op], OffsetReg, findReg(a[1]), parseOffset(a[2], 12))
       [] l.op \in DOMAIN BTypeKinds ->
            BWord(BTypeKinds[l.op], findReg(a[1]), findReg(a[2]), parseOffset(a[3], 13))

\* One encoder for each class of mnemonics.
LEMMA WordIs ==
  ASSUME NEW l, NEW a, a = l.args
  PROVE  /\ l.op \in DOMAIN ITypeKinds =>
              WordOf(l) = IWord(ITypeKinds[l.op], findReg(a[1]),
                                IF Len(a) = 2 THEN OffsetReg ELSE findReg(a[2]),
                                ShiftImm(l.op, parseOffset(a[Len(a)], 12)))
         /\ l.op \in DOMAIN RTypeKinds =>
              WordOf(l) = RWord(RTypeKinds[l.op], findReg(a[1]), findReg(a[2]), findReg(a[3]))
         /\ l.op \in DOMAIN UTypeKinds =>
              WordOf(l) = UWord(UTypeKinds[l.op], findReg(a[1]), parseOffset(a[2], 20))
         /\ l.op \in DOMAIN JTypeKinds =>
              WordOf(l) = JWord(JTypeKinds[l.op], findReg(a[1]), parseOffset(a[2], 21))
         /\ l.op \in DOMAIN STypeKinds =>
              WordOf(l) = SWord(STypeKinds[l.op], OffsetReg, findReg(a[1]),
                                parseOffset(a[2], 12))
         /\ l.op \in DOMAIN BTypeKinds =>
              WordOf(l) = BWord(BTypeKinds[l.op], findReg(a[1]), findReg(a[2]),
                                parseOffset(a[3], 13))
<1>1. CASE l.op \in DOMAIN ITypeKinds
  BY <1>1, Classes DEF WordOf, ShiftImm
<1>2. CASE l.op \in DOMAIN RTypeKinds
  BY <1>2, Classes DEF WordOf
<1>3. CASE l.op \in DOMAIN UTypeKinds
  BY <1>3, Classes DEF WordOf
<1>4. CASE l.op \in DOMAIN JTypeKinds
  BY <1>4, Classes DEF WordOf
<1>5. CASE l.op \in DOMAIN STypeKinds
  BY <1>5, Classes DEF WordOf
<1>6. CASE l.op \in DOMAIN BTypeKinds
  BY <1>6, Classes DEF WordOf
<1> QED
  BY <1>1, <1>2, <1>3, <1>4, <1>5, <1>6

\* The values the system calls are written with.
LEMMA SystemValues ==
  /\ SystemImm["ecall"] = 0 /\ SystemImm["ebreak"] = 1 /\ SystemImm["uret"] = 2
  /\ SystemImm["sret"] = 258 /\ SystemImm["mret"] = 770
  /\ SystemImm["ext"] = 1 /\ SystemImm["extx"] = 0
BY DEF SystemImm

\* An instruction of the I type whose immediate fits comes back.
Back(i, op, rd, rs1, v) ==
  /\ i.op = op
  /\ op \notin System =>
       /\ i.rd = rd /\ i.rs1 = rs1 /\ i.rs2 = {}
       /\ IF op \in CSRKinds THEN i.imm = Bits(v, 12)
                             ELSE MemberImm(i) = IntBits(v)

\* An instruction of the I type, written with an immediate that fits, comes back.
LEMMA BackI ==
  ASSUME NEW op \in DOMAIN ITypeKinds, NEW rd \in SUBSET (0 .. 4),
         NEW rs1 \in SUBSET (0 .. 4), NEW v \in Int, Fits(op, v),
         NEW i, i = decode(IWord(ITypeKinds[op], rd, rs1, ShiftImm(op, Bits(v, 12))))
  PROVE  Back(i, op, rd, rs1, v)
<1> USE DEF Back
<1> PICK s : s = Bits(v, 12)
  OBVIOUS
<1> PICK imm : imm = ShiftImm(op, s)
  OBVIOUS
<1>1. s \in SUBSET (0 .. 11)
  BY BitsRange
<1>2. op # "srai" => imm = s
  BY DEF ShiftImm
<1>3. i = decode(IWord(ITypeKinds[op], rd, rs1, imm))
  OBVIOUS
<1>4. CASE op \in SystemCalls
  <2>1. op \in System /\ op # "srai"
    BY <1>4 DEF SystemCalls, System
  <2>2. v = SystemImm[op]
    BY <2>1, SMT DEF Fits
  <2>3. v = SystemCode(op)
    <3>1. CASE op = "ecall"
      BY <2>2, <3>1, SystemValues DEF SystemCode
    <3>2. CASE op = "ebreak"
      BY <2>2, <3>2, SystemValues DEF SystemCode
    <3>3. CASE op = "uret"
      BY <2>2, <3>3, SystemValues DEF SystemCode
    <3>4. CASE op = "sret"
      BY <2>2, <3>4, SystemValues DEF SystemCode
    <3>5. CASE op = "mret"
      BY <2>2, <3>5, SystemValues DEF SystemCode
    <3> QED
      BY <1>4, <3>1, <3>2, <3>3, <3>4, <3>5 DEF SystemCalls
  <2>4. imm = Bits(SystemCode(op), 12)
    BY <1>2, <2>1, <2>3
  <2>5. decode(IWord(ITypeKinds[op], rd, rs1, imm)).op = op
    BY <1>4, <2>4, AgainSystem, ZenonT(60)
  <2> QED
    BY <1>3, <2>1, <2>5
<1>5. CASE op \in {"ext", "extx"}
  <2>1. op \in System /\ op # "srai"
    BY <1>5 DEF System
  <2>2. v = SystemImm[op]
    BY <2>1, SMT DEF Fits
  <2>3. v = IF op = "ext" THEN \b1 ELSE \b0
    BY <1>5, <2>2, SystemValues
  <2>4. imm = ExtImm(op)
    BY <1>2, <2>1, <2>3, SystemImms DEF ExtImm
  <2>5. decode(IWord(ITypeKinds[op], rd, rs1, imm)).op = op
    <3>1. decode(IWord(ITypeKinds[op], rd, rs1, ExtImm(op))).op = op
      BY <1>5, AgainExt, Zenon
    <3> QED
      BY <2>4, <3>1, Zenon
  <2> QED
    BY <1>3, <2>1, <2>5
<1>6. CASE op \in RightShifts
  <2>1. op \in Shifts /\ op \notin CSRKinds
    BY <1>6 DEF RightShifts, CSRKinds, Shifts
  <2>2. v \in 0 .. 31
    BY <2>1, SMT DEF Fits
  <2>3. s \in SUBSET (0 .. 4)
    BY <2>2, ShiftBits
  <2>4. decode(IWord(ITypeKinds[op], rd, rs1, imm)) = MakeI(op, rd, rs1, s)
    BY <1>6, <2>3, AgainShift, Zenon
  <2>5. /\ i.op = op /\ i.rd = rd /\ i.rs1 = rs1 /\ i.rs2 = {}
        /\ MemberImm(i) = signExtendBits(s, 12)
    BY <1>3, <2>4, MembersI
  <2>6. signExtendBits(s, 12) = IntBits(v)
    BY <2>2, Extended12, SMT
  <2> QED
    BY <2>1, <2>5, <2>6
<1>7. CASE op \notin SystemCalls \cup RightShifts \cup {"ext", "extx"}
  <2>1. op # "srai" /\ op \notin System /\ op \notin {"srli", "srai"}
    BY <1>7 DEF SystemCalls, RightShifts, System
  <2>2. decode(IWord(ITypeKinds[op], rd, rs1, s)) = MakeI(op, rd, rs1, s)
    <3>1. op \in DOMAIN ITypeKinds \ (SystemCalls \cup RightShifts \cup {"ext", "extx"})
      BY <1>7
    <3> QED
      BY <1>1, <3>1, AgainI, Zenon
  <2>3. /\ i.op = op /\ i.rd = rd /\ i.rs1 = rs1 /\ i.rs2 = {} /\ i.imm = s
        /\ MemberImm(i) = signExtendBits(s, 12)
    <3>1. i = MakeI(op, rd, rs1, s)
      BY <1>2, <1>3, <2>1, <2>2, Zenon
    <3> QED
      BY <3>1, MembersI
  <2>4. op \notin CSRKinds => -2048 <= v /\ v < 2048
    <3>1. CASE op = "slli"
      <4>1. v \in 0 .. 31
        BY <3>1, SMT DEF Fits, Shifts
      <4> QED
        BY <4>1, SMT
    <3>2. CASE op # "slli" /\ op \notin CSRKinds
      <4>1. op \in DOMAIN ITypeKinds \ (Shifts \cup System \cup CSRKinds)
        BY <2>1, <3>2 DEF Shifts
      <4>3. -2048 <= v /\ v < 2048
        BY <4>1, SMT DEF Fits
      <4> QED
        BY <4>3, SMT
    <3> QED
      BY <3>1, <3>2, SMT
  <2>5. ASSUME op \notin CSRKinds
        PROVE  signExtendBits(s, 12) = IntBits(v)
    <3>1. -2048 <= v /\ v < 2048
      BY <2>4, <2>5, SMT
    <3> QED
      BY <3>1, Extended12, SMT
  <2> QED
    BY <2>1, <2>3, <2>5
<1> QED
  BY <1>4, <1>5, <1>6, <1>7

\* A store is neither a shift nor a system call.
LEMMA StoreFits ==
  ASSUME NEW op \in DOMAIN STypeKinds, NEW v \in Int, Fits(op, v)
  PROVE  -2048 <= v /\ v < 2048
<1>1. op \in DOMAIN STypeKinds \ (Shifts \cup System \cup CSRKinds)
  BY KindsS DEF Shifts, System, CSRKinds
<1> QED
  BY <1>1, SMT DEF Fits

\* An even number has no lowest bit.
LEMMA EvenBits ==
  ASSUME NEW v \in Int, v % 2 = 0
  PROVE  Bits(v, 13) \in SUBSET (1 .. 12) /\ Bits(v, 21) \in SUBSET (1 .. 20)
<1>1. 0 \notin Bits(v, 13) /\ 0 \notin Bits(v, 21)
  BY LowBits, BitsAre, SMT
<1>2. Bits(v, 13) \subseteq 0 .. 12 /\ Bits(v, 21) \subseteq 0 .. 20
  BY BitsRange
<1> QED
  BY <1>1, <1>2

-----------------------------------------------------------------------------
(* The operands of a line that asmkheiv accepts. *)

\* A line has its operands in a sequence.
LEMMA LineArgs ==
  ASSUME NEW l \in Lines
  PROVE  /\ Len(l.args) \in Nat
         /\ \A k \in 1 .. Len(l.args) : l.args[k] \in Tokens
<1>1. l.args \in Seq(Tokens)
  BY DEF Lines
<1> QED
  BY <1>1

\* Each class has its operands.
LEMMA AcceptedAs ==
  ASSUME NEW l, Accepted(l)
  PROVE  /\ l.op \in DOMAIN ITypeKinds => IOperands(l)
         /\ l.op \in DOMAIN RTypeKinds => ROperands(l)
         /\ l.op \in DOMAIN UTypeKinds => UJOperands(l)
         /\ l.op \in DOMAIN JTypeKinds => UJOperands(l)
         /\ l.op \in DOMAIN STypeKinds => SOperands(l)
         /\ l.op \in DOMAIN BTypeKinds => BOperands(l)
         /\ l.op \in DOMAIN ITypeKinds \cup DOMAIN RTypeKinds \cup DOMAIN UTypeKinds
                       \cup DOMAIN JTypeKinds \cup DOMAIN STypeKinds \cup DOMAIN BTypeKinds
<1>1. CASE l.op \in DOMAIN ITypeKinds
  BY <1>1, Classes DEF Accepted
<1>2. CASE l.op \in DOMAIN RTypeKinds
  BY <1>2, Classes DEF Accepted
<1>3. CASE l.op \in DOMAIN UTypeKinds
  BY <1>3, Classes DEF Accepted
<1>4. CASE l.op \in DOMAIN JTypeKinds
  BY <1>4, Classes DEF Accepted
<1>5. CASE l.op \in DOMAIN STypeKinds
  BY <1>5, Classes DEF Accepted
<1>6. CASE l.op \in DOMAIN BTypeKinds
  BY <1>6, Classes DEF Accepted
<1>7. CASE l.op \notin DOMAIN ITypeKinds \cup DOMAIN RTypeKinds \cup DOMAIN UTypeKinds
                        \cup DOMAIN JTypeKinds \cup DOMAIN STypeKinds \cup DOMAIN BTypeKinds
  BY <1>7 DEF Accepted
<1> QED
  BY <1>1, <1>2, <1>3, <1>4, <1>5, <1>6, <1>7

\* What a line of each class means.
LEMMA MeaningIs ==
  ASSUME NEW l, NEW a, a = l.args
  PROVE  /\ l.op \in DOMAIN ITypeKinds /\ Len(a) = 2 =>
              Meaning(l) = [rd |-> RegOf(a[1][2]), rs1 |-> Base(a[2]), rs2 |-> {},
                            imm |-> a[2][2]]
         /\ l.op \in DOMAIN ITypeKinds /\ Len(a) # 2 =>
              Meaning(l) = [rd |-> RegOf(a[1][2]), rs1 |-> RegOf(a[2][2]), rs2 |-> {},
                            imm |-> a[3][2]]
         /\ l.op \in DOMAIN RTypeKinds =>
              Meaning(l) = [rd |-> RegOf(a[1][2]), rs1 |-> RegOf(a[2][2]),
                            rs2 |-> RegOf(a[3][2]), imm |-> 0]
         /\ l.op \in DOMAIN STypeKinds =>
              Meaning(l) = [rd |-> {}, rs1 |-> Base(a[2]), rs2 |-> RegOf(a[1][2]),
                            imm |-> a[2][2]]
         /\ l.op \in DOMAIN BTypeKinds =>
              Meaning(l) = [rd |-> {}, rs1 |-> RegOf(a[1][2]), rs2 |-> RegOf(a[2][2]),
                            imm |-> a[3][2]]
         /\ l.op \in DOMAIN UTypeKinds \cup DOMAIN JTypeKinds =>
              Meaning(l) = [rd |-> RegOf(a[1][2]), rs1 |-> {}, rs2 |-> {}, imm |-> a[2][2]]
<1>1. CASE l.op \in DOMAIN ITypeKinds /\ Len(a) = 2
  BY <1>1, Classes DEF Meaning
<1>2. CASE l.op \in DOMAIN ITypeKinds /\ Len(a) # 2
  BY <1>2, Classes DEF Meaning
<1>3. CASE l.op \in DOMAIN RTypeKinds
  BY <1>3, Classes DEF Meaning
<1>4. CASE l.op \in DOMAIN STypeKinds
  BY <1>4, Classes DEF Meaning
<1>5. CASE l.op \in DOMAIN BTypeKinds
  BY <1>5, Classes DEF Meaning
<1>6. CASE l.op \in DOMAIN UTypeKinds \cup DOMAIN JTypeKinds
  BY <1>6, Classes DEF Meaning
<1> QED
  BY <1>1, <1>2, <1>3, <1>4, <1>5, <1>6

\* A line of the I type comes back as what it asks for.
LEMMA LineI ==
  ASSUME NEW l \in Lines, l.op \in DOMAIN ITypeKinds, Accepted(l), Fits(l.op, Meaning(l).imm)
  PROVE  Means(decode(WordOf(l)), l)
<1> PICK op, a : op = l.op /\ a = l.args
  OBVIOUS
<1>1. op \in DOMAIN ITypeKinds /\ IOperands(l)
  BY AcceptedAs
<1>2. Len(a) \in {2, 3} /\ \A k \in 1 .. Len(a) : a[k] \in Tokens
  <2>1. Len(a) = 2 \/ Len(a) = 3
    BY <1>1 DEF IOperands
  <2>2. \A k \in 1 .. Len(a) : a[k] \in Tokens
    BY LineArgs
  <2> QED
    BY <2>1, <2>2
<1>3. IsReg(a[1]) /\ IsNum(a[Len(a)]) /\ (Len(a) = 3 => IsReg(a[2]))
  <2>1. CASE Len(a) = 2
    <3>1. IsReg(a[1]) /\ IsNum(a[2])
      BY <1>1, <2>1 DEF IOperands
    <3> QED
      BY <2>1, <3>1
  <2>2. CASE Len(a) = 3
    <3>1. IsReg(a[1]) /\ IsReg(a[2]) /\ IsNum(a[3])
      BY <1>1, <2>2 DEF IOperands
    <3> QED
      BY <2>2, <3>1
  <2> QED
    BY <1>2, <2>1, <2>2
<1> PICK rd, rs1, v : /\ rd = findReg(a[1]) /\ v = a[Len(a)][2]
                      /\ rs1 = IF Len(a) = 2 THEN OffsetReg ELSE findReg(a[2])
  OBVIOUS
<1>4. /\ rd \in SUBSET (0 .. 4) /\ rd = RegOf(a[1][2])
      /\ v \in Int
      /\ Len(a) = 3 => rs1 \in SUBSET (0 .. 4) /\ rs1 = RegOf(a[2][2])
      /\ Len(a) = 2 => rs1 = {}
  <2>1. a[1] \in Tokens /\ a[Len(a)] \in Tokens /\ a[2] \in Tokens
    BY <1>2
  <2>2. rd \in SUBSET (0 .. 4) /\ rd = RegOf(a[1][2])
    BY <1>3, <2>1, Operand
  <2>3. v \in Int
    BY <1>3, <2>1, Operand
  <2>4. ASSUME Len(a) = 3
        PROVE  rs1 \in SUBSET (0 .. 4) /\ rs1 = RegOf(a[2][2])
    <3>1. rs1 = findReg(a[2]) /\ IsReg(a[2])
      BY <1>3, <2>4
    <3> QED
      BY <2>1, <3>1, Operand
  <2>5. Len(a) = 2 => rs1 = {}
    BY DEF OffsetReg, NoBits
  <2> QED
    BY <2>2, <2>3, <2>4, <2>5
<1>5. Meaning(l).rd = rd /\ Meaning(l).rs2 = {} /\ Meaning(l).imm = v
  <2>1. CASE Len(a) = 2
    BY <1>1, <1>4, <2>1, MeaningIs
  <2>2. CASE Len(a) = 3
    BY <1>1, <1>4, <2>2, MeaningIs
  <2> QED
    BY <1>2, <2>1, <2>2
<1>6. WithBase(l) \/ Meaning(l).rs1 = rs1
  <2>1. CASE Len(a) = 2
    <3>1. Meaning(l).rs1 = Base(a[2])
      BY <1>1, <2>1, MeaningIs
    <3> QED
      BY <1>4, <2>1, <3>1 DEF WithBase, Base
  <2>2. CASE Len(a) = 3
    BY <1>1, <1>4, <2>2, MeaningIs
  <2> QED
    BY <1>2, <2>1, <2>2
<1>7. WordOf(l) = IWord(ITypeKinds[op], rd, rs1, ShiftImm(op, Bits(v, 12)))
  BY <1>1, WordIs DEF parseOffset
<1>8. rs1 \in SUBSET (0 .. 4)
  BY <1>2, <1>4
<1>9. Fits(op, v)
  BY <1>5
<1> PICK i : i = decode(IWord(ITypeKinds[op], rd, rs1, ShiftImm(op, Bits(v, 12))))
  OBVIOUS
<1>10. Back(i, op, rd, rs1, v)
  <2>1. op \in DOMAIN ITypeKinds /\ rd \in SUBSET (0 .. 4) /\ v \in Int
    BY <1>1, <1>4
  <2> QED
    BY <2>1, <1>8, <1>9, BackI, Zenon
<1> QED
  BY <1>5, <1>6, <1>7, <1>10 DEF Means, Back

\* A line of the S type.
LEMMA LineS ==
  ASSUME NEW l \in Lines, l.op \in DOMAIN STypeKinds, Accepted(l), Fits(l.op, Meaning(l).imm)
  PROVE  Means(decode(WordOf(l)), l)
<1> PICK op, a : op = l.op /\ a = l.args
  OBVIOUS
<1> PICK rs2, v : rs2 = findReg(a[1]) /\ v = a[2][2]
  OBVIOUS
<1>1. op \in DOMAIN STypeKinds /\ SOperands(l)
  BY AcceptedAs
<1>2. Len(a) = 2 /\ a[1] \in Tokens /\ a[2] \in Tokens
  BY <1>1, LineArgs DEF SOperands
<1>3. rs2 \in SUBSET (0 .. 4) /\ rs2 = RegOf(a[1][2]) /\ v \in Int
  BY <1>1, <1>2, Operand DEF SOperands
<1>4. /\ Meaning(l).rd = {} /\ Meaning(l).rs2 = rs2 /\ Meaning(l).imm = v
      /\ Meaning(l).rs1 = Base(a[2])
  BY <1>1, <1>3, MeaningIs
<1>5. WithBase(l) \/ Meaning(l).rs1 = {}
  BY <1>2, <1>4 DEF WithBase, Base
<1>6. WordOf(l) = SWord(STypeKinds[op], {}, rs2, Bits(v, 12))
  BY <1>1, WordIs DEF parseOffset, OffsetReg, NoBits
<1>7. -2048 <= v /\ v < 2048
  BY <1>1, <1>3, <1>4, StoreFits, SMT
<1>8. Bits(v, 12) \in SUBSET (0 .. 11)
  BY <1>3, BitsRange
<1>9. decode(WordOf(l)) = MakeS(op, {}, rs2, Bits(v, 12))
  BY <1>1, <1>3, <1>6, <1>8, AgainS
<1>10. LET i == decode(WordOf(l))
       IN i.op = op /\ i.rd = {} /\ i.rs1 = {} /\ i.rs2 = rs2
            /\ MemberImm(i) = signExtendBits(Bits(v, 12), 12)
  BY <1>1, <1>9, MembersS
<1>11. signExtendBits(Bits(v, 12), 12) = IntBits(v)
  BY <1>3, <1>7, Extended12, SMT
<1>12. op \notin CSRKinds
  BY <1>1, KindsS DEF CSRKinds
<1> QED
  BY <1>4, <1>5, <1>10, <1>11, <1>12 DEF Means

\* A line of the B type.
LEMMA LineB ==
  ASSUME NEW l \in Lines, l.op \in DOMAIN BTypeKinds, Accepted(l), Fits(l.op, Meaning(l).imm)
  PROVE  Means(decode(WordOf(l)), l)
<1> PICK op, a : op = l.op /\ a = l.args
  OBVIOUS
<1> PICK rs1, rs2, v : rs1 = findReg(a[1]) /\ rs2 = findReg(a[2]) /\ v = a[3][2]
  OBVIOUS
<1>1. op \in DOMAIN BTypeKinds /\ BOperands(l)
  BY AcceptedAs
<1>2. a[1] \in Tokens /\ a[2] \in Tokens /\ a[3] \in Tokens
  BY <1>1, LineArgs DEF BOperands
<1>3. /\ rs1 \in SUBSET (0 .. 4) /\ rs1 = RegOf(a[1][2])
      /\ rs2 \in SUBSET (0 .. 4) /\ rs2 = RegOf(a[2][2])
      /\ v \in Int
  BY <1>1, <1>2, Operand DEF BOperands
<1>4. /\ Meaning(l).rd = {} /\ Meaning(l).rs1 = rs1 /\ Meaning(l).rs2 = rs2
      /\ Meaning(l).imm = v
  BY <1>1, <1>3, MeaningIs
<1>5. WordOf(l) = BWord(BTypeKinds[op], rs1, rs2, Bits(v, 13))
  BY <1>1, WordIs DEF parseOffset
<1>6. -4096 <= v /\ v < 4096 /\ v % 2 = 0
  BY <1>1, <1>3, <1>4, SMT DEF Fits
<1>7. Bits(v, 13) \in SUBSET (1 .. 12)
  BY <1>3, <1>6, EvenBits, SMT
<1>8. decode(WordOf(l)) = MakeB(op, rs1, rs2, Bits(v, 13))
  BY <1>1, <1>3, <1>5, <1>7, AgainB
<1>9. LET i == decode(WordOf(l))
      IN i.op = op /\ i.rd = {} /\ i.rs1 = rs1 /\ i.rs2 = rs2
            /\ MemberImm(i) = signExtendBits(Bits(v, 13), 13)
  BY <1>1, <1>8, MembersB
<1>10. signExtendBits(Bits(v, 13), 13) = IntBits(v)
  BY <1>3, <1>6, Extended13, SMT
<1>11. op \notin CSRKinds
  BY <1>1, KindsB DEF CSRKinds
<1> QED
  BY <1>4, <1>9, <1>10, <1>11 DEF Means

\* A line of the U type.
LEMMA LineU ==
  ASSUME NEW l \in Lines, l.op \in DOMAIN UTypeKinds, Accepted(l), Fits(l.op, Meaning(l).imm)
  PROVE  Means(decode(WordOf(l)), l)
<1> PICK op, a : op = l.op /\ a = l.args
  OBVIOUS
<1> PICK rd, v : rd = findReg(a[1]) /\ v = a[2][2]
  OBVIOUS
<1>1. op \in DOMAIN UTypeKinds /\ UJOperands(l)
  BY AcceptedAs
<1>2. a[1] \in Tokens /\ a[2] \in Tokens
  BY <1>1, LineArgs DEF UJOperands
<1>3. rd \in SUBSET (0 .. 4) /\ rd = RegOf(a[1][2]) /\ v \in Int
  BY <1>1, <1>2, Operand DEF UJOperands
<1>4. /\ Meaning(l).rd = rd /\ Meaning(l).rs1 = {} /\ Meaning(l).rs2 = {}
      /\ Meaning(l).imm = v
  BY <1>1, <1>3, MeaningIs
<1>5. WordOf(l) = UWord(UTypeKinds[op], rd, Bits(v, 20))
  BY <1>1, WordIs DEF parseOffset
<1>6. -524288 <= v /\ v < 524288
  BY <1>1, <1>3, <1>4, SMT DEF Fits
<1>7. Bits(v, 20) \in SUBSET (0 .. 19)
  BY <1>3, BitsRange
<1>8. decode(WordOf(l)) = MakeU(op, rd, Bits(v, 20))
  BY <1>1, <1>3, <1>5, <1>7, AgainU
<1>9. LET i == decode(WordOf(l))
      IN i.op = op /\ i.rd = rd /\ i.rs1 = {} /\ i.rs2 = {}
            /\ MemberImm(i) = signExtendBits(Bits(v, 20), 20)
  BY <1>1, <1>8, MembersU
<1>10. signExtendBits(Bits(v, 20), 20) = IntBits(v)
  BY <1>3, <1>6, Extended20, SMT
<1>11. op \notin CSRKinds
  BY <1>1, KindsU DEF CSRKinds
<1> QED
  BY <1>4, <1>9, <1>10, <1>11 DEF Means

\* A line of the J type.
LEMMA LineJ ==
  ASSUME NEW l \in Lines, l.op \in DOMAIN JTypeKinds, Accepted(l), Fits(l.op, Meaning(l).imm)
  PROVE  Means(decode(WordOf(l)), l)
<1> PICK op, a : op = l.op /\ a = l.args
  OBVIOUS
<1> PICK rd, v : rd = findReg(a[1]) /\ v = a[2][2]
  OBVIOUS
<1>1. op \in DOMAIN JTypeKinds /\ UJOperands(l)
  BY AcceptedAs
<1>2. a[1] \in Tokens /\ a[2] \in Tokens
  BY <1>1, LineArgs DEF UJOperands
<1>3. rd \in SUBSET (0 .. 4) /\ rd = RegOf(a[1][2]) /\ v \in Int
  BY <1>1, <1>2, Operand DEF UJOperands
<1>4. /\ Meaning(l).rd = rd /\ Meaning(l).rs1 = {} /\ Meaning(l).rs2 = {}
      /\ Meaning(l).imm = v
  BY <1>1, <1>3, MeaningIs
<1>5. WordOf(l) = JWord(JTypeKinds[op], rd, Bits(v, 21))
  BY <1>1, WordIs DEF parseOffset
<1>6. -1048576 <= v /\ v < 1048576 /\ v % 2 = 0
  BY <1>1, <1>3, <1>4, SMT DEF Fits
<1>7. Bits(v, 21) \in SUBSET (1 .. 20)
  BY <1>3, <1>6, EvenBits, SMT
<1>8. decode(WordOf(l)) = MakeJ(op, rd, Bits(v, 21))
  BY <1>1, <1>3, <1>5, <1>7, AgainJ
<1>9. LET i == decode(WordOf(l))
      IN i.op = op /\ i.rd = rd /\ i.rs1 = {} /\ i.rs2 = {}
            /\ MemberImm(i) = signExtendBits(Bits(v, 21), 21)
  BY <1>1, <1>8, MembersJ
<1>10. signExtendBits(Bits(v, 21), 21) = IntBits(v)
  BY <1>3, <1>6, Extended21, SMT
<1>11. op \notin CSRKinds
  BY <1>1, KindsJ DEF CSRKinds
<1> QED
  BY <1>4, <1>9, <1>10, <1>11 DEF Means

\* A line of the R type.
LEMMA LineR ==
  ASSUME NEW l \in Lines, l.op \in DOMAIN RTypeKinds, Accepted(l)
  PROVE  Means(decode(WordOf(l)), l)
<1> PICK op, a : op = l.op /\ a = l.args
  OBVIOUS
<1> PICK rd, rs1, rs2 : rd = findReg(a[1]) /\ rs1 = findReg(a[2]) /\ rs2 = findReg(a[3])
  OBVIOUS
<1>1. op \in DOMAIN RTypeKinds /\ ROperands(l)
  BY AcceptedAs
<1>2. /\ a[1] \in Tokens /\ a[2] \in Tokens /\ a[3] \in Tokens
      /\ IsReg(a[1]) /\ IsReg(a[2]) /\ IsReg(a[3])
  BY <1>1, LineArgs DEF ROperands
<1>3. /\ rd \in SUBSET (0 .. 4) /\ rd = RegOf(a[1][2])
      /\ rs1 \in SUBSET (0 .. 4) /\ rs1 = RegOf(a[2][2])
      /\ rs2 \in SUBSET (0 .. 4) /\ rs2 = RegOf(a[3][2])
  BY <1>2, Operand
<1>4. /\ Meaning(l).rd = rd /\ Meaning(l).rs1 = rs1 /\ Meaning(l).rs2 = rs2
      /\ Meaning(l).imm = 0
  BY <1>1, <1>3, MeaningIs
<1>5. WordOf(l) = RWord(RTypeKinds[op], rd, rs1, rs2)
  BY <1>1, WordIs
<1>6. decode(WordOf(l)) = MakeR(op, rd, rs1, rs2)
  BY <1>1, <1>3, <1>5, AgainR
<1>7. LET i == decode(WordOf(l))
      IN i.op = op /\ i.rd = rd /\ i.rs1 = rs1 /\ i.rs2 = rs2 /\ MemberImm(i) = {}
  BY <1>1, <1>6, MembersR
<1>8. op \notin CSRKinds
  BY <1>1, KindsR DEF CSRKinds
<1> QED
  BY <1>4, <1>7, <1>8, NoneExtended DEF Means

(* Every line that asmkheiv accepts, with an immediate that fits, comes     *)
(* back from the decoder as what it asks for.                               *)
LEMMA EveryLine ==
  ASSUME NEW l \in Lines, Accepted(l), Fits(l.op, Meaning(l).imm)
  PROVE  Means(decode(WordOf(l)), l)
BY AcceptedAs, LineI, LineR, LineU, LineJ, LineS, LineB

-----------------------------------------------------------------------------
(* What asmkheiv has written. *)

(* The file holds a word for each instruction among the first n lines, and  *)
(* nothing else.                                                            *)
Written(src, file, n) ==
  /\ Len(file) = 4 * Count(src, n)
  /\ \A k \in 1 .. n : IsInst(src[k]) =>
       /\ Accepted(src[k])
       /\ \A j \in 1 .. 4 : file[4 * Count(src, k - 1) + j] = BytesOf(WordOf(src[k]))[j]

WrittenOK ==
  /\ stage = "labels" => File = <<>>
  /\ stage = "emit" => Written(Source, File, Read)
  /\ stage \in {"args", "load", "running"} /\ Source # <<>> =>
       Written(Source, File, Len(Source))

\* An instruction among the first n lines is one of those counted.
LEMMA CountBelow ==
  ASSUME NEW src, NEW n \in Nat, NEW k \in 1 .. n, IsInst(src[k])
  PROVE  /\ Count(src, k - 1) \in Nat /\ Count(src, n) \in Nat
         /\ Count(src, k - 1) + 1 <= Count(src, n)
<1> DEFINE insts(m) == {i \in 1 .. m : IsInst(src[i])}
<1>1. IsFiniteSet(insts(n)) /\ insts(k) \subseteq insts(n)
  <2>1. IsFiniteSet(1 .. n)
    BY FS_Interval
  <2>2. insts(n) \subseteq 1 .. n /\ insts(k) \subseteq insts(n)
    OBVIOUS
  <2> QED
    BY <2>1, <2>2, FS_Subset
<1>2. Cardinality(insts(k)) <= Cardinality(insts(n))
  <2> HIDE DEF insts
  <2> QED
    BY <1>1, FS_Subset
<1>3. Count(src, k) <= Count(src, n)
  BY <1>2 DEF Count
<1>4. k - 1 \in Nat /\ k = (k - 1) + 1 /\ k \in Nat
  OBVIOUS
<1>5. /\ Count(src, k - 1) \in Nat /\ Count(src, n) \in Nat
      /\ Count(src, (k - 1) + 1) = Count(src, k - 1) + 1
  BY <1>4, CountNext DEF IsInst
<1> QED
  BY <1>3, <1>4, <1>5

\* Four bytes behind a file: what was there stays where it was.
LEMMA Behind ==
  ASSUME NEW f \in Seq(SUBSET Byte), NEW w
  PROVE  /\ \A i \in 1 .. Len(f) : (f \o BytesOf(w))[i] = f[i]
         /\ \A j \in 1 .. 4 : (f \o BytesOf(w))[Len(f) + j] = BytesOf(w)[j]
<1> DEFINE S == SUBSET Byte
<1>1. BytesOf(w) \in [1 .. 4 -> S]
  BY DEF BytesOf
<1> HIDE DEF S
<1>2. PICK n \in Nat : n = 4
  OBVIOUS
<1>3. BytesOf(w) \in Seq(S) /\ Len(BytesOf(w)) = n
  BY <1>1, <1>2, FunctionIsSeq, ZenonT(60)
<1>4. f \in Seq(S) /\ Len(f) \in Nat
  BY DEF S
<1>5. PICK g : g = BytesOf(w)
  OBVIOUS
<1>6. \A i \in 1 .. Len(f) + Len(g) :
        (f \o g)[i] = IF i <= Len(f) THEN f[i] ELSE g[i - Len(f)]
  BY <1>3, <1>4, <1>5, ConcatProperties
<1>7. \A i \in 1 .. Len(f) : (f \o g)[i] = f[i]
  BY <1>2, <1>3, <1>4, <1>5, <1>6
<1>8. ASSUME NEW j \in 1 .. 4
      PROVE  (f \o g)[Len(f) + j] = g[j]
  <2>1. PICK m \in Nat : m = Len(f)
    BY <1>4
  <2>2. Len(g) = 4
    BY <1>2, <1>3, <1>5
  <2>3. m + j \in 1 .. m + Len(g) /\ ~(m + j <= m) /\ (m + j) - m = j
    BY <2>2
  <2> QED
    BY <1>6, <2>1, <2>3
<1> QED
  BY <1>5, <1>7, <1>8

\* One instruction more.
LEMMA WrittenNext ==
  ASSUME NEW src, NEW n \in Nat, NEW file \in Seq(SUBSET Byte), Written(src, file, n),
         IsInst(src[n + 1]), Accepted(src[n + 1])
  PROVE  Written(src, file \o BytesOf(WordOf(src[n + 1])), n + 1)
<1> PICK w, new : w = WordOf(src[n + 1]) /\ new = file \o BytesOf(w)
  OBVIOUS
<1>1. /\ Len(new) = Len(file) + 4 /\ Len(file) \in Nat
      /\ \A i \in 1 .. Len(file) : new[i] = file[i]
      /\ \A j \in 1 .. 4 : new[Len(file) + j] = BytesOf(w)[j]
  BY BytesWritten, Behind
<1>2. Count(src, n) \in Nat /\ Count(src, n + 1) = Count(src, n) + 1
  BY CountNext DEF IsInst
<1>3. Len(new) = 4 * Count(src, n + 1)
  BY <1>1, <1>2 DEF Written
<1>4. ASSUME NEW k \in 1 .. n + 1, IsInst(src[k])
      PROVE  /\ Accepted(src[k])
             /\ \A j \in 1 .. 4 : new[4 * Count(src, k - 1) + j] = BytesOf(WordOf(src[k]))[j]
  <2>1. CASE k \in 1 .. n
    <3>1. /\ Count(src, k - 1) \in Nat
          /\ Count(src, k - 1) + 1 <= Count(src, n)
      BY <1>4, <2>1, CountBelow
    <3>2. \A j \in 1 .. 4 : 4 * Count(src, k - 1) + j \in 1 .. Len(file)
      <4>1. PICK c, d, l : c = Count(src, k - 1) /\ d = Count(src, n) /\ l = Len(file)
        OBVIOUS
      <4>2. l = 4 * d
        BY <4>1, Zenon DEF Written
      <4>3. c \in Nat /\ d \in Nat /\ c + 1 <= d
        BY <1>2, <3>1, <4>1, Zenon
      <4>4. \A j \in 1 .. 4 : 4 * c + j \in 1 .. l
        BY <4>2, <4>3, SMT
      <4> QED
        BY <4>1, <4>4, Zenon
    <3>3. Accepted(src[k])
      BY <1>4, <2>1, Zenon DEF Written
    <3>4. \A j \in 1 .. 4 :
            file[4 * Count(src, k - 1) + j] = BytesOf(WordOf(src[k]))[j]
      BY <1>4, <2>1, Zenon DEF Written
    <3>5. \A j \in 1 .. 4 :
            new[4 * Count(src, k - 1) + j] = file[4 * Count(src, k - 1) + j]
      BY <1>1, <3>2, Zenon
    <3> QED
      BY <3>3, <3>4, <3>5, Zenon
  <2>2. CASE k = n + 1
    <3>1. k - 1 = n /\ 4 * Count(src, n) = Len(file)
      BY <2>2 DEF Written
    <3>2. Accepted(src[k]) /\ w = WordOf(src[k])
      BY <2>2
    <3>3. ASSUME NEW j \in 1 .. 4
          PROVE  new[4 * Count(src, k - 1) + j] = BytesOf(w)[j]
      BY <1>1, <3>1
    <3>4. BytesOf(w) = BytesOf(WordOf(src[k]))
      BY <3>2
    <3> QED
      BY <3>2, <3>3, <3>4, Zenon
  <2>3. k \in 1 .. n \/ k = n + 1
    OBVIOUS
  <2> QED
    BY <2>1, <2>2, <2>3, Zenon
<1> QED
  BY <1>3, <1>4 DEF Written

\* One label more.
LEMMA WrittenSkip ==
  ASSUME NEW src, NEW n \in Nat, NEW file, Written(src, file, n), HasColon(src[n + 1])
  PROVE  Written(src, file, n + 1)
<1>1. Count(src, n + 1) = Count(src, n)
  BY CountNext
<1>2. \A k \in 1 .. n + 1 : IsInst(src[k]) => k \in 1 .. n
  BY DEF IsInst
<1> QED
  BY <1>1, <1>2 DEF Written

\* What an emitting step appends is the word of its line.
LEMMA LineEmitted ==
  Emits => Accepted(Line) /\ File' = File \o BytesOf(WordOf(Line))
<1> PICK l, a : l = Line /\ a = l.args
  OBVIOUS
<1>1. CASE EmitI
  <2>1. l.op \in DOMAIN ITypeKinds /\ Accepted(l)
    BY <1>1 DEF EmitI, Emit
  <2>2. File' = File \o BytesOf(IWord(ITypeKinds[l.op], findReg(a[1]),
                  IF Len(a) = 2 THEN OffsetReg ELSE findReg(a[2]),
                  parseOffset(a[Len(a)], 12) \cup (IF l.op = "srai" THEN {10} ELSE {})))
    BY <1>1, Zenon DEF EmitI
  <2> QED
    BY <2>1, <2>2, WordIs, Zenon DEF ShiftImm
<1>2. CASE EmitR
  BY <1>2, WordIs, Zenon DEF EmitR, Emit
<1>3. CASE EmitU
  BY <1>3, WordIs, Zenon DEF EmitU, Emit
<1>4. CASE EmitJ
  BY <1>4, WordIs, Zenon DEF EmitJ, Emit
<1>5. CASE EmitS
  BY <1>5, WordIs, Zenon DEF EmitS, Emit
<1>6. CASE EmitB
  BY <1>6, WordIs, Zenon DEF EmitB, Emit
<1> QED
  BY <1>1, <1>2, <1>3, <1>4, <1>5, <1>6 DEF Emits

\* Every step keeps in the file what was asked for.
LEMMA WrittenStep == FilesOK /\ WrittenOK /\ [Next]_vars => WrittenOK'
<1> SUFFICES ASSUME FilesOK, WrittenOK, [Next]_vars PROVE WrittenOK'
  OBVIOUS
<1> USE DEF At, More, Parsing, assembler, command, machine
<1> PICK n \in Nat : n = Read
  BY DEF FilesOK
<1> PICK src, file : src = Source /\ file = File
  OBVIOUS
<1>0. Line = src[n + 1] /\ file \in Seq(SUBSET Byte)
  BY DEF Line, FilesOK
<1>1. CASE ScanLabel \/ ScanInst
  BY <1>1 DEF WrittenOK, ScanLabel, ScanInst
<1>2. CASE Rewind
  <2>1. Written(src, <<>>, 0)
    BY CountNone, EmptySeq DEF Written
  <2> QED
    BY <1>2, <2>1 DEF WrittenOK, Rewind
<1>3. CASE Emits
  <2>1. /\ stage = "emit" /\ Read' = n + 1 /\ IsInst(src[n + 1]) /\ Accepted(src[n + 1])
        /\ File' = file \o BytesOf(WordOf(src[n + 1]))
        /\ UNCHANGED <<stage, Source>>
    BY <1>0, <1>3, Emitted, LineEmitted DEF IsInst
  <2>2. Written(src, file, n)
    BY <2>1 DEF WrittenOK
  <2>3. Written(src, file \o BytesOf(WordOf(src[n + 1])), n + 1)
    BY <1>0, <2>1, <2>2, WrittenNext
  <2> QED
    BY <2>1, <2>3 DEF WrittenOK
<1>4. CASE SkipLabel
  <2>1. /\ stage = "emit" /\ HasColon(src[n + 1]) /\ Read' = n + 1
        /\ UNCHANGED <<stage, Source, File>>
    BY <1>0, <1>4 DEF SkipLabel
  <2>2. Written(src, file, n + 1)
    BY <2>1, WrittenSkip DEF WrittenOK
  <2> QED
    BY <2>1, <2>2 DEF WrittenOK
<1>5. CASE EndOfSource
  <2>1. /\ stage = "emit" /\ stage' = "args" /\ Read = Len(Source)
        /\ UNCHANGED <<Source, File>>
    BY <1>5 DEF EndOfSource, FilesOK
  <2> QED
    BY <2>1 DEF WrittenOK
<1>6. CASE Loaded \/ Build
  BY <1>6 DEF WrittenOK, Loaded, Build
<1>7. CASE Reject \/ NotANumber \/ Usage \/ LoadFails \/ LoadWord
  BY <1>7 DEF WrittenOK, Reject, NotANumber, Usage, LoadFails, LoadWord
<1>8. CASE SetFile \/ SetBP \/ SetFlag \/ SetAddress
  BY <1>8 DEF WrittenOK, SetFile, SetBP, SetFlag, SetAddress, Set
<1>9. CASE UNCHANGED vars
  BY <1>9 DEF WrittenOK, vars
<1> QED
  BY <1>1, <1>2, <1>3, <1>4, <1>5, <1>6, <1>7, <1>8, <1>9
     DEF Next, asmkheiv, ripsim, Finished, Emits

-----------------------------------------------------------------------------
(* What the loader has read. *)

(* The memory holds the bytes loaded, whole words of the file; when the     *)
(* simulator runs no whole word of it is left.                              *)
LoadOK ==
  stage \in {"load", "running"} =>
    /\ \E q \in Nat : Sim.loaded = 4 * q
    /\ Sim.loaded <= Len(Opened) /\ Sim.loaded <= Ops.dram
    /\ \A a \in 0 .. Sim.loaded - 1 : Mem[a] = Opened[a + 1]
    /\ stage = "running" => Sim.loaded + 4 > Len(Opened)

\* Every step keeps in memory what it has read.
LEMMA LoadStep == FilesOK /\ MemoryOK /\ LoadOK /\ [Next]_vars => LoadOK'
<1> SUFFICES ASSUME FilesOK, MemoryOK, LoadOK, [Next]_vars PROVE LoadOK'
  OBVIOUS
<1> USE DEF At, More, Parsing, assembler, command, machine
<1>0. Opened \in Seq(SUBSET Byte) /\ Len(Opened) \in Nat
  <2>1. Opened \in Seq(SUBSET Byte)
    BY EmptySeq DEF FilesOK, Opened
  <2> QED
    BY <2>1, LenProperties
<1>1. CASE ScanLabel \/ ScanInst \/ SkipLabel \/ Rewind
  BY <1>1 DEF LoadOK, ScanLabel, ScanInst, SkipLabel, Rewind
<1>2. CASE Emits
  BY <1>2, Emitted DEF LoadOK
<1>3. CASE Reject \/ EndOfSource \/ NotANumber \/ Usage
  BY <1>3 DEF LoadOK, Reject, EndOfSource, NotANumber, Usage
<1>4. CASE SetFile \/ SetBP \/ SetFlag \/ SetAddress
  BY <1>4 DEF LoadOK, SetFile, SetBP, SetFlag, SetAddress, Set
<1>5. CASE Build
  <2>1. Sim'.loaded = 0 /\ stage' = "load" /\ Opened' = Opened /\ Ops' = Ops
    BY <1>5 DEF Build, Opened
  <2>2. Ops.dram \in Nat
    BY DEF MemoryOK
  <2> QED
    BY <1>0, <2>1, <2>2 DEF LoadOK
<1>6. CASE LoadWord
  <2> PICK n \in Nat : n = Sim.loaded
    BY <1>6 DEF MemoryOK, LoadWord, CanLoad
  <2> PICK f : f = Opened
    OBVIOUS
  <2>1. /\ stage = "load" /\ n + 4 <= Len(f) /\ n + 4 <= Ops.dram /\ Ops.dram \in Nat
        /\ Sim'.loaded = n + 4
        /\ Mem' = [a \in DOMAIN Mem |-> IF a - n \in 0 .. 3 THEN f[a + 1] ELSE Mem[a]]
        /\ DOMAIN Mem = 0 .. Ops.dram - 1
        /\ UNCHANGED <<stage, Ops>> /\ Opened' = f
    BY <1>6 DEF MemoryOK, LoadWord, CanLoad, FilesOK, NoSim, Opened
  <2>2. \E q \in Nat : n + 4 = 4 * q
    <3> PICK q \in Nat : n = 4 * q
      BY <2>1 DEF LoadOK
    <3>1. q + 1 \in Nat /\ n + 4 = 4 * (q + 1)
      OBVIOUS
    <3> QED
      BY <3>1
  <2> DEFINE Fresh(a) == a - n \in 0 .. 3
  <2>3. \A a \in DOMAIN Mem :
          /\ Fresh(a) => Mem'[a] = f[a + 1]
          /\ ~Fresh(a) => Mem'[a] = Mem[a]
    BY <2>1, SMT
  <2>4. \A a \in 0 .. (n + 4) - 1 : Mem'[a] = f[a + 1]
    <3> SUFFICES ASSUME NEW a \in 0 .. (n + 4) - 1 PROVE Mem'[a] = f[a + 1]
      OBVIOUS
    <3>1. a \in DOMAIN Mem
      BY <2>1
    <3>2. CASE a < n
      <4>1. \A b \in 0 .. n - 1 : Mem[b] = f[b + 1]
        BY <2>1 DEF LoadOK
      <4>2. ~Fresh(a)
        BY <3>2
      <4>3. Mem'[a] = Mem[a]
        <5> HIDE DEF Fresh
        <5> QED
          BY <2>3, <3>1, <4>2, Zenon
      <4>4. a \in 0 .. n - 1
        BY <3>2
      <4> QED
        BY <4>1, <4>3, <4>4
    <3>3. CASE a >= n
      <4>1. Fresh(a)
        BY <3>3
      <4> HIDE DEF Fresh
      <4> QED
        BY <2>3, <3>1, <4>1, Zenon
    <3> QED
      BY <3>2, <3>3
  <2> QED
    BY <2>1, <2>2, <2>4 DEF LoadOK
<1>7. CASE Loaded
  <2>1. /\ stage = "load" /\ ~(Sim.loaded + 4 <= Len(Opened)) /\ Sim.loaded \in Nat
        /\ UNCHANGED <<Sim, Mem, Ops>> /\ Opened' = Opened
    BY <1>7 DEF Loaded, CanLoad, MemoryOK, Opened
  <2> QED
    BY <1>0, <2>1 DEF LoadOK
<1>8. CASE LoadFails \/ UNCHANGED vars
  <2>1. UNCHANGED <<stage, Sim, Mem, Ops, Opened>>
    BY <1>8 DEF LoadFails, Opened, vars
  <2> QED
    BY <2>1 DEF LoadOK
<1> QED
  BY <1>1, <1>2, <1>3, <1>4, <1>5, <1>6, <1>7, <1>8
     DEF Next, asmkheiv, ripsim, Finished, Emits

\* The word of a line is a word.
LEMMA WordOfBits ==
  ASSUME NEW l, Accepted(l)
  PROVE  WordOf(l) \in SUBSET Bit
<1>1. CASE l.op \in DOMAIN ITypeKinds
  <2>1. PICK k : k = ITypeKinds[l.op] /\ k[2] \in Int
    BY <1>1, CodesI
  <2>2. \E rd, rs1, imm : WordOf(l) = IWord(k, rd, rs1, imm)
    BY <1>1, <2>1, WordIs
  <2> QED
    BY <2>1, <2>2, WordBits
<1>2. CASE l.op \in DOMAIN RTypeKinds
  <2>1. PICK k : k = RTypeKinds[l.op] /\ k[3] \in Int
    BY <1>2, CodesR
  <2>2. \E rd, rs1, rs2 : WordOf(l) = RWord(k, rd, rs1, rs2)
    BY <1>2, <2>1, WordIs
  <2> QED
    BY <2>1, <2>2, WordBits
<1>3. CASE l.op \in DOMAIN UTypeKinds
  <2>1. PICK k : k = UTypeKinds[l.op] /\ k[1] \in Int
    BY <1>3, CodesU
  <2>2. \E rd, imm : WordOf(l) = UWord(k, rd, imm)
    BY <1>3, <2>1, WordIs
  <2>3. \A rd, imm : UWord(k, rd, imm) \in SUBSET Bit
    BY <2>1, WordBits
  <2> QED
    BY <2>2, <2>3, Zenon
<1>4. CASE l.op \in DOMAIN JTypeKinds
  <2>1. PICK k : k = JTypeKinds[l.op] /\ k[1] \in Int
    BY <1>4, CodesJ
  <2>2. \E rd, imm : WordOf(l) = JWord(k, rd, imm)
    BY <1>4, <2>1, WordIs
  <2>3. \A rd, imm : JWord(k, rd, imm) \in SUBSET Bit
    BY <2>1, WordBits
  <2> QED
    BY <2>2, <2>3, Zenon
<1>5. CASE l.op \in DOMAIN STypeKinds
  <2>1. PICK k : k = STypeKinds[l.op] /\ k[2] \in Int
    BY <1>5, CodesS
  <2>2. \E rs1, rs2, imm : WordOf(l) = SWord(k, rs1, rs2, imm)
    BY <1>5, <2>1, WordIs
  <2> QED
    BY <2>1, <2>2, WordBits
<1>6. CASE l.op \in DOMAIN BTypeKinds
  <2>1. PICK k : k = BTypeKinds[l.op] /\ k[2] \in Int
    BY <1>6, CodesB
  <2>2. \E rs1, rs2, imm : WordOf(l) = BWord(k, rs1, rs2, imm)
    BY <1>6, <2>1, WordIs
  <2> QED
    BY <2>1, <2>2, WordBits
<1> QED
  BY <1>1, <1>2, <1>3, <1>4, <1>5, <1>6, AcceptedAs

\* A word written byte by byte is read back.
LEMMA ReadBack ==
  ASSUME NEW a \in Nat, NEW w \in SUBSET Bit,
         \A j \in 0 .. 3 : Mem[a + j] = BytesOf(w)[j + 1]
  PROVE  readWord(a) = w
<1>1. \A j \in 0 .. 3 : \A b : b \in Mem[a + j] <=> b \in Byte /\ b + 8 * j \in w
  <2> SUFFICES ASSUME NEW j \in 0 .. 3
               PROVE  \A b : b \in Mem[a + j] <=> b \in Byte /\ b + 8 * j \in w
    OBVIOUS
  <2>1. j + 1 \in 1 .. 4 /\ (j + 1) - 1 = j
    OBVIOUS
  <2>2. BytesOf(w)[j + 1] = {b \in Byte : b + 8 * ((j + 1) - 1) \in w}
    BY <2>1 DEF BytesOf
  <2> QED
    BY <2>1, <2>2
<1>2. ASSUME NEW c \in readWord(a)
      PROVE  c \in w
  <2>1. PICK j \in 0 .. 3 : \E b \in Mem[a + j] : c = b + 8 * j
    BY DEF readWord
  <2> QED
    BY <1>1, <2>1
<1>3. ASSUME NEW c \in w
      PROVE  c \in readWord(a)
  <2>1. c \in 0 .. 31
    BY DEF Bit
  <2>2. PICK j \in 0 .. 3 : c - 8 * j \in 0 .. 7
    <3>1. CASE c < 8
      <4>1. c - 8 * 0 \in 0 .. 7
        BY <2>1, <3>1
      <4> QED
        BY <4>1
    <3>2. CASE 8 <= c /\ c < 16
      <4>1. c - 8 * 1 \in 0 .. 7
        BY <2>1, <3>2
      <4> QED
        BY <4>1
    <3>3. CASE 16 <= c /\ c < 24
      <4>1. c - 8 * 2 \in 0 .. 7
        BY <2>1, <3>3
      <4> QED
        BY <4>1
    <3>4. CASE 24 <= c
      <4>1. c - 8 * 3 \in 0 .. 7
        BY <2>1, <3>4
      <4> QED
        BY <4>1
    <3> QED
      BY <2>1, <3>1, <3>2, <3>3, <3>4
  <2>3. (c - 8 * j) + 8 * j = c /\ c - 8 * j \in Byte
    BY <2>1, <2>2 DEF Byte
  <2>4. c - 8 * j \in Mem[a + j]
    BY <1>1, <2>3
  <2> QED
    BY <2>3, <2>4 DEF readWord
<1> QED
  BY <1>2, <1>3

(* The program at the first instruction and behind: what a line with an     *)
(* immediate that fits asks for is what the decoder finds.                  *)
LEMMA LineLoaded ==
  ASSUME FilesOK, MemoryOK, WrittenOK, LoadOK,
         At("running"), Source # <<>>, Ops.file = "bin",
         NEW k \in 1 .. Len(Source), IsInst(Source[k]),
         Fits(Source[k].op, Meaning(Source[k]).imm)
  PROVE  MeansLine(4 * Count(Source, k - 1), Source[k])
<1> PICK src, file, n, l : src = Source /\ file = File /\ n = Len(Source) /\ l = src[k]
  OBVIOUS
<1>1. Written(src, file, n) /\ n \in Nat /\ src \in Seq(Lines) /\ file \in Seq(SUBSET Byte)
  BY DEF WrittenOK, FilesOK, At
<1>2. /\ Count(src, k - 1) \in Nat /\ Count(src, n) \in Nat
      /\ Count(src, k - 1) + 1 <= Count(src, n)
  BY <1>1, CountBelow
<1>3. PICK c, d \in Nat : c = Count(src, k - 1) /\ d = Count(src, n) /\ c + 1 <= d
  BY <1>2
<1>4. /\ \A j \in 1 .. 4 : file[4 * c + j] = BytesOf(WordOf(l))[j]
      /\ Accepted(l) /\ Len(file) = 4 * d
  BY <1>1, <1>3 DEF Written
<1>5. \A a \in 0 .. 4 * d - 1 : Mem[a] = file[a + 1]
  <2>1. Opened = file /\ stage = "running"
    BY DEF Opened, At
  <2>2. PICK q \in Nat : Sim.loaded = 4 * q
    BY <2>1 DEF LoadOK
  <2>3. 4 * q <= 4 * d /\ 4 * q + 4 > 4 * d
    BY <1>4, <2>1, <2>2 DEF LoadOK
  <2>4. q = d
    BY <1>3, <2>3
  <2> QED
    BY <2>1, <2>2, <2>4 DEF LoadOK
<1>6. \A j \in 0 .. 3 : Mem[4 * c + j] = BytesOf(WordOf(l))[j + 1]
  <2> SUFFICES ASSUME NEW j \in 0 .. 3
               PROVE  Mem[4 * c + j] = BytesOf(WordOf(l))[j + 1]
    OBVIOUS
  <2>1. 4 * c + j \in 0 .. 4 * d - 1 /\ (4 * c + j) + 1 = 4 * c + (j + 1) /\ j + 1 \in 1 .. 4
    BY <1>3, SMTT(60)
  <2>2. Mem[4 * c + j] = file[4 * c + (j + 1)]
    BY <1>5, <2>1
  <2>3. file[4 * c + (j + 1)] = BytesOf(WordOf(l))[j + 1]
    BY <1>4, <2>1
  <2> QED
    BY <2>2, <2>3, Zenon
<1>7. readWord(4 * c) = WordOf(l)
  <2>1. PICK a \in Nat, w \in SUBSET Bit : a = 4 * c /\ w = WordOf(l)
    BY <1>4, WordOfBits
  <2>2. \A j \in 0 .. 3 : Mem[a + j] = BytesOf(w)[j + 1]
    BY <1>6, <2>1
  <2>3. readWord(a) = w
    BY <2>2, ReadBack
  <2> QED
    BY <2>1, <2>3
<1>8. l \in Lines
  BY <1>1
<1>9. Means(decode(WordOf(l)), l)
  BY <1>4, <1>8, EveryLine
<1> QED
  BY <1>3, <1>7, <1>9, Zenon DEF Means, MeansLine

(* Every instruction of a source is in memory, behind those of the lines    *)
(* above, with the operands of its line, whatever the source and the size   *)
(* of DRAM.                                                                 *)
THEOREM WrittenIsDecoded == Spec => []DecodedAsWritten
<1>1. Init => WrittenOK /\ LoadOK
  <2> SUFFICES ASSUME Init PROVE WrittenOK /\ LoadOK
    OBVIOUS
  <2>1. \/ stage = "labels" /\ File = <<>>
        \/ stage = "args" /\ Source = <<>>
    BY DEF Init
  <2> QED
    BY <2>1 DEF WrittenOK, LoadOK
<1>2. FilesOK /\ MemoryOK /\ WrittenOK /\ LoadOK /\ [Next]_vars => WrittenOK' /\ LoadOK'
  BY WrittenStep, LoadStep
<1>3. FilesOK /\ MemoryOK /\ WrittenOK /\ LoadOK => DecodedAsWritten
  <2> SUFFICES ASSUME FilesOK, MemoryOK, WrittenOK, LoadOK,
                      At("running"), Source # <<>>, Ops.file = "bin"
               PROVE  /\ Len(File) = 4 * Count(Source, Len(Source))
                      /\ \A k \in 1 .. Len(Source) :
                           IsInst(Source[k]) /\ Fits(Source[k].op, Meaning(Source[k]).imm) =>
                             MeansLine(4 * Count(Source, k - 1), Source[k])
    BY DEF DecodedAsWritten
  <2>1. Len(File) = 4 * Count(Source, Len(Source))
    BY DEF WrittenOK, Written, At
  <2>2. ASSUME NEW k \in 1 .. Len(Source), IsInst(Source[k]),
               Fits(Source[k].op, Meaning(Source[k]).imm)
        PROVE  MeansLine(4 * Count(Source, k - 1), Source[k])
    BY <2>2, LineLoaded
  <2> QED
    BY <2>1, <2>2
<1> QED
  BY <1>1, <1>2, <1>3, Inductive, PTL DEF Spec
=============================================================================
