----------------------------- MODULE Toolchain -----------------------------
(***************************************************************************)
(* From assembler text to a loaded program: asmkheiv reads a source        *)
(* twice and writes a .bin file; rip-sim reads its command line, builds a  *)
(* simulator and loads the file into DRAM, where the decoder finds it.     *)
(*                                                                         *)
(* A line of the source is a record: the label, possibly empty, in front   *)
(* of its first colon, the first token and the operands.  An operand is    *)
(* <<"reg", r>>, <<"imm", v>> or <<"off", v, r>> for v(r).  A command-line *)
(* argument is its option, followed by its value if it has one.            *)
(***************************************************************************)
EXTENDS Encoding, Sequences, FiniteSetsExt, TLC

CONSTANTS
  Assembled,    \* <<source, args>>: an assembler file, a sequence of lines, and
                \* the command line of rip-sim on the .bin file made from it.
  Prebuilt,     \* <<file, args>>: the same for a .bin file from elsewhere.
  DefaultDRAM   \* Bytes of DRAM without --dram-size, 1 << 28 in the code.

Byte   == 0 .. 7      \* Bits of a byte.
Tokens == {"reg"} \X STRING \cup {"imm"} \X Int \cup {"off"} \X Int \X STRING
Lines  == [label : STRING, op : STRING, args : Seq(Tokens)]

NoColon == ":"        \* No label contains a colon.
nullopt == -1

\* A size or an address is a number, or nullopt for a text that does not begin
\* with one; a name is text; another option stands alone.
Numeric     == {"--dram-size", "--start-address", "--end-address"}
Textual     == {"file", "-b"}
CommandArgs == Numeric \X (Nat \cup {nullopt}) \cup Textual \X STRING
                 \cup {a \in Seq(STRING) : Len(a) = 1 /\ a[1] \notin Numeric \cup Textual}

ASSUME ToolchainAssumption ==
  /\ \A s \in Assembled : s[1] \in Seq(Lines) /\ s[2] \in Seq(CommandArgs)
  /\ \A b \in Prebuilt : b[1] \in Seq(SUBSET Byte) /\ b[2] \in Seq(CommandArgs)
  /\ DefaultDRAM \in Nat

VARIABLES
  stage,     \* "labels", "emit": passes of asmkheiv; "args", "load", "running".
  Status,    \* "run", or why the program at work stopped.
  Source,    \* The assembler file.
  Read,      \* Lines read in the current pass.
  PC,        \* Address of the next instruction in the first pass.
  Labels,    \* Label |-> address.
  File,      \* Bytes of the .bin file.
  Args,      \* Command line of rip-sim.
  Parsed,    \* Arguments parsed.
  Ops,       \* Options set so far.
  Sim,       \* The simulator main built: predictor, start of the fetch.
  Mem        \* Its DRAM.

assembler == <<Source, Read, PC, Labels, File>>
command   == <<Args, Parsed, Ops>>
machine   == <<Sim, Mem>>
vars      == <<stage, Status, assembler, command, machine>>

DefaultOptions == [file |-> "", bp |-> "no", interactive |-> FALSE, stats |-> FALSE,
                   dram |-> DefaultDRAM, start |-> nullopt, end |-> nullopt]
NoSim == [bp |-> "", pc |-> nullopt, loaded |-> 0]

Init ==
  /\ Status = "run"
  /\ \/ \E s \in Assembled : stage = "labels" /\ Source = s[1] /\ File = <<>> /\ Args = s[2]
     \/ \E b \in Prebuilt : stage = "args" /\ Source = <<>> /\ File = b[1] /\ Args = b[2]
  /\ Read = 0 /\ PC = 0 /\ Labels = [l \in {} |-> 0]
  /\ Parsed = 0 /\ Ops = DefaultOptions
  /\ Sim = NoSim /\ Mem = <<>>

At(s) == stage = s /\ Status = "run"

-----------------------------------------------------------------------------
(* asmkheiv, first pass: the constructor of AsmParser.                     *)

Line == Source[Read + 1]
More == Read < Len(Source)
HasColon(l) == l.label # NoColon

\* Mutant: a later definition of a label replaces the first.
insertLast(lab) == [l \in DOMAIN Labels \cup {lab} |-> IF l = lab THEN PC ELSE Labels[l]]

\* std::map::insert leaves an entry that is there.
insert(lab) ==
  [l \in DOMAIN Labels \cup {lab} |-> IF l \in DOMAIN Labels THEN Labels[l] ELSE PC]

ScanLabel ==
  /\ At("labels") /\ More /\ HasColon(Line)
  /\ Labels' = insert(Line.label)
  /\ Read' = Read + 1
  /\ UNCHANGED <<stage, Status, Source, PC, File, command, machine>>

ScanInst ==
  /\ At("labels") /\ More /\ ~HasColon(Line)
  /\ PC' = PC + 4
  /\ Read' = Read + 1
  /\ UNCHANGED <<stage, Status, Source, Labels, File, command, machine>>

Rewind ==
  /\ At("labels") /\ ~More
  /\ Read' = 0 /\ PC' = 0
  /\ stage' = "emit"
  /\ UNCHANGED <<Status, Source, Labels, File, command, machine>>

-----------------------------------------------------------------------------
(* The names of the registers (Registers.h): GPRegMap reads them, ABI       *)
(* prints them.                                                            *)

GPRegMap ==
  [x0 |-> 0, zero |-> 0, x1 |-> 1, ra |-> 1, x2 |-> 2, sp |-> 2, x3 |-> 3, gp |-> 3,
   x4 |-> 4, tp |-> 4, x5 |-> 5, t0 |-> 5, x6 |-> 6, t1 |-> 6, x7 |-> 7, t2 |-> 7,
   x8 |-> 8, s0 |-> 8, fp |-> 8, x9 |-> 9, s1 |-> 9, x10 |-> 10, a0 |-> 10,
   x11 |-> 11, a1 |-> 11, x12 |-> 12, a2 |-> 12, x13 |-> 13, a3 |-> 13, x14 |-> 14,
   a4 |-> 14, x15 |-> 15, a5 |-> 15, x16 |-> 16, a6 |-> 16, x17 |-> 17, a7 |-> 17,
   x18 |-> 18, s2 |-> 18, x19 |-> 19, s3 |-> 19, x20 |-> 20, s4 |-> 20, x21 |-> 21,
   s5 |-> 21, x22 |-> 22, s6 |-> 22, x23 |-> 23, s7 |-> 23, x24 |-> 24, s8 |-> 24,
   x25 |-> 25, s9 |-> 25, x26 |-> 26, s10 |-> 26, x27 |-> 27, s11 |-> 27,
   x28 |-> 28, t3 |-> 28, x29 |-> 29, t4 |-> 29, x30 |-> 30, t5 |-> 30, x31 |-> 31,
   t6 |-> 31]

ABI == <<"zero", "ra", "sp", "gp", "tp", "t0", "t1", "t2", "s0", "s1", "a0", "a1",
         "a2", "a3", "a4", "a5", "a6", "a7", "s2", "s3", "s4", "s5", "s6", "s7",
         "s8", "s9", "s10", "s11", "t3", "t4", "t5", "t6">>

-----------------------------------------------------------------------------
(* asmkheiv, second pass: emitBinary.  A token is tested when it is read:  *)
(* findReg asserts that it names a register, stoi and parseOffsetReg throw *)
(* unless it begins with a number.                                         *)

IsReg(t) == t[1] = "reg" /\ t[2] \in DOMAIN GPRegMap
IsNum(t) == t[1] \in {"imm", "off"}
findReg(t) == Bits(GPRegMap[t[2]], 5)

\* parseOffsetReg stops at the parenthesis: the register it returns is empty.
parseOffset(t, n) == Bits(t[2], n)
OffsetReg == NoBits

IOperands(l) == \/ /\ Len(l.args) = 2 /\ l.op \in Loads
                 /\ IsReg(l.args[1]) /\ IsNum(l.args[2])
              \/ /\ Len(l.args) = 3
                 /\ IsReg(l.args[1]) /\ IsReg(l.args[2]) /\ IsNum(l.args[3])
ROperands(l) == Len(l.args) = 3 /\ \A k \in 1 .. 3 : IsReg(l.args[k])
UJOperands(l) == Len(l.args) = 2 /\ IsReg(l.args[1]) /\ IsNum(l.args[2])
SOperands(l) == Len(l.args) = 2 /\ IsReg(l.args[1]) /\ IsNum(l.args[2])
BOperands(l) == /\ Len(l.args) = 3
              /\ IsReg(l.args[1]) /\ IsReg(l.args[2]) /\ IsNum(l.args[3])

Accepted(l) ==
  CASE l.op \in DOMAIN ITypeKinds -> IOperands(l)
    [] l.op \in DOMAIN RTypeKinds -> ROperands(l)
    [] l.op \in DOMAIN UTypeKinds \cup DOMAIN JTypeKinds -> UJOperands(l)
    [] l.op \in DOMAIN STypeKinds -> SOperands(l)
    [] l.op \in DOMAIN BTypeKinds -> BOperands(l)
    [] OTHER -> FALSE

\* os.write of the four bytes of Val, on a little-endian host.
BytesOf(w) == [k \in 1 .. 4 |-> {b \in Byte : b + 8 * (k - 1) \in w}]

Emit(kinds) ==
  /\ At("emit") /\ More /\ ~HasColon(Line)
  /\ Line.op \in DOMAIN kinds /\ Accepted(Line)
  /\ Read' = Read + 1
  /\ UNCHANGED <<stage, Status, Source, PC, Labels, command, machine>>

EmitI ==
  /\ Emit(ITypeKinds)
  /\ LET a    == Line.args
         base == IF Len(a) = 2 THEN OffsetReg ELSE findReg(a[2])
         imm  == parseOffset(a[Len(a)], 12) \cup (IF Line.op = "srai" THEN {10} ELSE {})
     IN File' = File \o BytesOf(IWord(ITypeKinds[Line.op], findReg(a[1]), base, imm))

EmitR ==
  /\ Emit(RTypeKinds)
  /\ LET a == Line.args
     IN File' = File \o BytesOf(RWord(RTypeKinds[Line.op], findReg(a[1]), findReg(a[2]),
                                      findReg(a[3])))

EmitU ==
  /\ Emit(UTypeKinds)
  /\ LET a == Line.args
     IN File' = File \o BytesOf(UWord(UTypeKinds[Line.op], findReg(a[1]),
                                      parseOffset(a[2], 20)))

EmitJ ==
  /\ Emit(JTypeKinds)
  /\ LET a == Line.args
     IN File' = File \o BytesOf(JWord(JTypeKinds[Line.op], findReg(a[1]),
                                      parseOffset(a[2], 21)))

EmitS ==
  /\ Emit(STypeKinds)
  /\ LET a == Line.args
     IN File' = File \o BytesOf(SWord(STypeKinds[Line.op], OffsetReg, findReg(a[1]),
                                      parseOffset(a[2], 12)))

EmitB ==
  /\ Emit(BTypeKinds)
  /\ LET a == Line.args
     IN File' = File \o BytesOf(BWord(BTypeKinds[Line.op], findReg(a[1]), findReg(a[2]),
                                      parseOffset(a[3], 13)))

\* A line with a colon is skipped, whatever stands behind it.
SkipLabel ==
  /\ At("emit") /\ More /\ HasColon(Line)
  /\ Read' = Read + 1
  /\ UNCHANGED <<stage, Status, Source, PC, Labels, File, command, machine>>

\* An assertion or an exception ends asmkheiv; a line without tokens has no Toks[0].
Reject ==
  /\ At("emit") /\ More /\ ~HasColon(Line) /\ ~Accepted(Line)
  /\ Status' = IF Line.op = "" THEN "undefined" ELSE "abort"
  /\ UNCHANGED <<stage, assembler, command, machine>>

EndOfSource ==
  /\ At("emit") /\ ~More
  /\ stage' = "args"
  /\ UNCHANGED <<Status, assembler, command, machine>>

-----------------------------------------------------------------------------
(* rip-sim: Options::parse, an argument at a time.                         *)

Predictors == {"no", "onebit", "twobit", "gshare", "perceptron", "interactive"}

Arg == Args[Parsed + 1]
Parsing == At("args") /\ Parsed < Len(Args)
Set(ops) == /\ Ops' = ops
            /\ Parsed' = Parsed + 1
            /\ UNCHANGED <<stage, Status, assembler, Args, machine>>

SetFile  == Parsing /\ Arg[1] = "file" /\ Set([Ops EXCEPT !.file = Arg[2]])
SetBP    == /\ Parsing /\ Arg[1] = "-b" /\ Arg[2] \in Predictors
            /\ Set([Ops EXCEPT !.bp = Arg[2]])
SetFlag  == \/ Parsing /\ Arg[1] = "-i" /\ Set([Ops EXCEPT !.interactive = TRUE])
            \/ Parsing /\ Arg[1] = "--stats" /\ Set([Ops EXCEPT !.stats = TRUE])
\* Mutant: the end address is written to the start address.
SetAddressCrossed ==
  /\ Parsing /\ Arg[1] \in Numeric /\ Arg[2] # nullopt
  /\ \/ Arg[1] = "--dram-size" /\ Set([Ops EXCEPT !.dram = Arg[2]])
     \/ Arg[1] # "--dram-size" /\ Set([Ops EXCEPT !.start = Arg[2]])
SetAddress ==
  /\ Parsing /\ Arg[1] \in Numeric /\ Arg[2] # nullopt
  /\ \/ Arg[1] = "--dram-size" /\ Set([Ops EXCEPT !.dram = Arg[2]])
     \/ Arg[1] = "--start-address" /\ Set([Ops EXCEPT !.start = Arg[2]])
     \/ Arg[1] = "--end-address" /\ Set([Ops EXCEPT !.end = Arg[2]])

Known(a) == \/ a[1] \in {"file", "-i", "--stats"} \cup Numeric
            \/ a[1] = "-b" /\ a[2] \in Predictors

\* A number stoll can read, where there has to be one.
Readable(a) == a[1] \in Numeric => a[2] # nullopt

\* stoll throws, and nothing catches it.
NotANumber ==
  /\ Parsing /\ ~Readable(Arg)
  /\ Status' = "abort"
  /\ UNCHANGED <<stage, assembler, command, machine>>

\* No argument, an unknown one or no file: main returns 1.
Usage ==
  /\ At("args")
  /\ \/ Parsing /\ ~Known(Arg)
     \/ Parsed = Len(Args) /\ Ops.file = ""
  /\ Status' = "usage"
  /\ UNCHANGED <<stage, assembler, command, machine>>

-----------------------------------------------------------------------------
(* rip-sim: main builds the simulator, its constructor loads the file.     *)

\* Only the file asmkheiv wrote can be opened; another one reads as empty.
Opened == IF Ops.file = "bin" THEN File ELSE <<>>

Build ==
  /\ At("args") /\ Parsed = Len(Args) /\ Ops.file # ""
  /\ Sim' = [bp |-> Ops.bp, loaded |-> 0,
             pc |-> IF Ops.start = nullopt THEN 0 ELSE Ops.start]
  /\ Mem' = [a \in 0 .. Ops.dram - 1 |-> {}]
  /\ stage' = "load"
  /\ UNCHANGED <<Status, assembler, command>>

\* is.read takes four bytes or fails: a partial word at the end is dropped.
CanLoad == At("load") /\ Sim.loaded + 4 <= Len(Opened)

LoadWord ==
  /\ CanLoad /\ Sim.loaded + 4 <= Ops.dram
  /\ Mem' = [a \in DOMAIN Mem |-> IF a - Sim.loaded \in 0 .. 3 THEN Opened[a + 1] ELSE Mem[a]]
  /\ Sim' = [Sim EXCEPT !.loaded = @ + 4]
  /\ UNCHANGED <<stage, Status, assembler, command>>

\* The assertion of writeWord lets the word at the end of DRAM pass: it is
\* written behind the end.
LoadFails ==
  /\ CanLoad /\ Sim.loaded + 4 > Ops.dram
  /\ Status' = "undefined"
  /\ UNCHANGED <<stage, assembler, command, machine>>

Loaded ==
  /\ At("load") /\ ~CanLoad
  /\ stage' = "running"
  /\ UNCHANGED <<Status, assembler, command, machine>>

-----------------------------------------------------------------------------
readWord(a) == UNION {{b + 8 * k : b \in Mem[a + k]} : k \in 0 .. 3}
InMem(a) == {a, a + 3} \subseteq DOMAIN Mem

Finished == (Status # "run" \/ stage = "running") /\ UNCHANGED vars

asmkheiv == \/ ScanLabel \/ ScanInst \/ Rewind
            \/ EmitI \/ EmitR \/ EmitU \/ EmitJ \/ EmitS \/ EmitB
            \/ SkipLabel \/ Reject \/ EndOfSource
ripsim == \/ SetFile \/ SetBP \/ SetFlag \/ SetAddress \/ NotANumber \/ Usage
          \/ Build \/ LoadWord \/ LoadFails \/ Loaded

Next == asmkheiv \/ ripsim \/ Finished

Spec == Init /\ [][Next]_vars

-----------------------------------------------------------------------------
(* What a line asks for.                                                   *)

IsInst(l) == ~HasColon(l)

\* Instructions among the first n lines.
Count(src, n) == Cardinality({k \in 1 .. n : IsInst(src[k])})

\* The names of the ISA beside those of the ABI; fp is a second name of s0.
XNames == <<"x0", "x1", "x2", "x3", "x4", "x5", "x6", "x7", "x8", "x9", "x10", "x11",
            "x12", "x13", "x14", "x15", "x16", "x17", "x18", "x19", "x20", "x21", "x22",
            "x23", "x24", "x25", "x26", "x27", "x28", "x29", "x30", "x31">>

\* rd, rs1, rs2 and immediate of an instruction as assembler text names them.
RegOf(name) ==
  Bits(IF name = "fp" THEN 8
       ELSE CHOOSE n \in 0 .. 31 : name \in {ABI[n + 1], XNames[n + 1]}, 5)
Base(t) == IF t[1] = "off" THEN RegOf(t[3]) ELSE {}

Meaning(l) ==
  LET a == l.args
      r(k) == RegOf(a[k][2])
  IN CASE l.op \in DOMAIN ITypeKinds /\ Len(a) = 2 ->
            [rd |-> r(1), rs1 |-> Base(a[2]), rs2 |-> {}, imm |-> a[2][2]]
       [] l.op \in DOMAIN ITypeKinds /\ Len(a) # 2 ->
            [rd |-> r(1), rs1 |-> r(2), rs2 |-> {}, imm |-> a[3][2]]
       [] l.op \in DOMAIN RTypeKinds ->
            [rd |-> r(1), rs1 |-> r(2), rs2 |-> r(3), imm |-> 0]
       [] l.op \in DOMAIN STypeKinds ->
            [rd |-> {}, rs1 |-> Base(a[2]), rs2 |-> r(1), imm |-> a[2][2]]
       [] l.op \in DOMAIN BTypeKinds ->
            [rd |-> {}, rs1 |-> r(1), rs2 |-> r(2), imm |-> a[3][2]]
       [] OTHER -> [rd |-> r(1), rs1 |-> {}, rs2 |-> {}, imm |-> a[2][2]]

WithBase(l) == \E k \in 1 .. Len(l.args) : l.args[k][1] = "off"

Shifts    == {"slli", "srli", "srai"}
System    == {"ecall", "ebreak", "uret", "sret", "mret", "ext", "extx"}
CSRKinds  == {"csrrw", "csrrs", "csrrc", "csrrwi", "csrrsi", "csrrci"}
SystemImm == [ecall |-> 0, ebreak |-> 1, uret |-> 2, sret |-> 258, mret |-> 770,
              ext |-> 1, extx |-> 0]

\* The immediates an instruction has room for: asmkheiv cuts off the rest.
Fits(op, v) ==
  /\ op \in Shifts => 0 <= v /\ v < 32
  /\ op \in System => v = SystemImm[op]
  /\ op \in CSRKinds => 0 <= v /\ v < 4096
  /\ op \in DOMAIN UTypeKinds => -524288 <= v /\ v < 524288
  /\ op \in DOMAIN BTypeKinds => -4096 <= v /\ v < 4096 /\ v % 2 = 0
  /\ op \in DOMAIN JTypeKinds => -1048576 <= v /\ v < 1048576 /\ v % 2 = 0
  /\ op \in (DOMAIN ITypeKinds \cup DOMAIN STypeKinds) \ (Shifts \cup System \cup CSRKinds)
       => -2048 <= v /\ v < 2048

\* The instruction at address a is the one line l asks for.
MeansLine(a, l) ==
  LET i == decode(readWord(a)) IN
    /\ i.op = l.op
    /\ l.op \notin System =>
         /\ i.rd = Meaning(l).rd /\ i.rs2 = Meaning(l).rs2
         /\ WithBase(l) \/ i.rs1 = Meaning(l).rs1
         /\ IF l.op \in CSRKinds THEN i.imm = Bits(Meaning(l).imm, 12)
                                 ELSE MemberImm(i) = IntBits(Meaning(l).imm)

(* What was written is what is executed: the instruction loaded behind the *)
(* instructions of the lines above is the one the line asks for, with its   *)
(* operands and its immediate sign and all, across the two passes of        *)
(* asmkheiv, the bytes of the file, the loader and the decoder              *)
(* (BinaryEmitter.cpp:12-56, Decoder.cpp:3-308); and nothing else was       *)
(* emitted.  The base register of v(r) is left out : see BaseRegisterKept.  *)
DecodedAsWritten ==
  At("running") /\ Source # <<>> /\ Ops.file = "bin" =>
    /\ Len(File) = 4 * Count(Source, Len(Source))
    /\ \A k \in 1 .. Len(Source) :
         IsInst(Source[k]) /\ Fits(Source[k].op, Meaning(Source[k]).imm) =>
           MeansLine(4 * Count(Source, k - 1), Source[k])

(* The address of a label, computed in the first pass from the number of    *)
(* lines, is where the second pass puts the instruction behind it           *)
(* (AsmParser.h:27-43, AsmParser.cpp:20-30); of several definitions the     *)
(* first one counts.                                                        *)
LabelsPointAtCode ==
  At("emit") /\ More /\ HasColon(Line)
    /\ (\A k \in 1 .. Read : Source[k].label # Line.label)
  => Labels[Line.label] = Len(File)

(* The two simulators read an instruction differently, the pipeline from    *)
(* the word its constructor encoded again, the instruction-level simulator  *)
(* from the members: for every word that decodes, whoever wrote it, they    *)
(* see the same registers and the same immediate (Instructions.h:62-119,    *)
(* RIPSimulator.cpp:520-545).                                               *)
FieldsAgree ==
  At("running") =>
    \A a \in DOMAIN Mem : a % 4 = 0 /\ InMem(a) =>
      LET i == decode(readWord(a)) IN i # nullptr => FieldsOf(i)

LastOf(opt, default) ==
  LET ks == {k \in 1 .. Len(Args) : Args[k][1] = opt}
  IN IF ks = {} THEN default ELSE Args[Max(ks)][2]

(* A simulator is only built for a command line without a mistake, and then *)
(* every setting is the last one given, in whatever order the options come  *)
(* (rip-sim.cpp:60-98, 133-172).  Of --dram-size it is the number that      *)
(* counts here, whatever its unit.                                          *)
SettingsAsGiven ==
  stage \in {"load", "running"} =>
    /\ \A k \in 1 .. Len(Args) : Known(Args[k]) /\ Readable(Args[k])
    /\ Sim.bp = LastOf("-b", "no")
    /\ Ops.dram = LastOf("--dram-size", DefaultDRAM)
    /\ Sim.pc = LastOf("--start-address", 0)
    /\ Ops.end = LastOf("--end-address", nullopt)
    /\ Ops.interactive <=> \E k \in 1 .. Len(Args) : Args[k] = <<"-i">>

(* "op rd, offset(rs1)" and "sb/h/w rs2,offset(rs1)" say Instructions.h:167 *)
(* and :448: the base register of a load or store is the one in the         *)
(* parentheses.                                                             *)
BaseRegisterKept ==
  At("running") /\ Source # <<>> /\ Ops.file = "bin" =>
    \A k \in 1 .. Len(Source) :
      IsInst(Source[k]) /\ WithBase(Source[k]) =>
        decode(readWord(4 * Count(Source, k - 1))).rs1 = Meaning(Source[k]).rs1
=============================================================================
