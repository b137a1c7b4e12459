---------------------------- MODULE MCToolchain ----------------------------
(***************************************************************************)
(* Assembler files, .bin files and command lines for TLC: every mnemonic   *)
(* with the operands at the edges of its fields, every shape of word the   *)
(* decoder tells apart, and the options in every order.                    *)
(***************************************************************************)
EXTENDS ExecutionUnits

reg(r)    == <<"reg", r>>
imm(v)    == <<"imm", v>>
off(v, r) == <<"off", v, r>>
Inst_(op, args) == [label |-> NoColon, op |-> op, args |-> args]
Label(l)  == [label |-> l, op |-> "", args |-> <<>>]
Blank     == [label |-> NoColon, op |-> "", args |-> <<>>]

Plain == <<<<"file", "bin">>>>

-----------------------------------------------------------------------------
(* One instruction: the immediates at the ends of each field, registers    *)
(* whose numbers use every bit, under both of their names.                 *)

Imm12  == {-2048, -1, 0, 1, 1024, 2047}
RegSets == {<<"x0", "x31", "x16">>, <<"t6", "ra", "s5">>, <<"s10", "x21", "zero">>}

ImmOf(op) ==
  CASE op \in Shifts   -> {0, 1, 15, 31}
    [] op \in System   -> {SystemImm[op]}
    [] op \in CSRKinds -> {0, 768, 833, 4095}
    [] op \in DOMAIN UTypeKinds -> {-524288, -1, 0, 1, 524287}
    [] op \in DOMAIN JTypeKinds -> {-1048576, -524290, -2, 0, 2, 2046, 2048, 524286,
                                    524288, 1048574}
    [] op \in DOMAIN BTypeKinds -> {-4096, -2050, -2, 0, 2, 30, 32, 2046, 2048, 4094}
    [] OTHER -> Imm12

Sweep ==
  {Inst_(op, <<reg(r[1]), reg(r[2]), imm(v)>>) :
     <<op, r, v>> \in {<<o, r, v>> \in (DOMAIN ITypeKinds \cup DOMAIN BTypeKinds)
                         \X RegSets \X UNION {ImmOf(o) : o \in DOMAIN ITypeKinds
                                                          \cup DOMAIN BTypeKinds} :
                         v \in ImmOf(o)}}
    \cup {Inst_(op, <<reg(r[1]), reg(r[2]), reg(r[3])>>) :
            op \in DOMAIN RTypeKinds, r \in RegSets}
    \cup {Inst_(op, <<reg(r[1]), t>>) :
            op \in Loads \cup DOMAIN STypeKinds, r \in RegSets,
            t \in {imm(v) : v \in Imm12} \cup {off(v, "sp") : v \in Imm12}}
    \cup UNION {{Inst_(op, <<reg(r[1]), imm(v)>>) : r \in RegSets, v \in ImmOf(op)} :
                  op \in DOMAIN UTypeKinds \cup DOMAIN JTypeKinds}

\* Every name of a register.
Names == {Inst_("jalr", <<reg(n), reg(n), imm(8)>>) : n \in DOMAIN GPRegMap}

\* Immediates without room: accepted, and cut off.
Unfit == {Inst_("addi", <<reg("x1"), reg("x2"), imm(4096)>>),
          Inst_("beq", <<reg("x1"), reg("x2"), imm(3)>>),
          Inst_("mret", <<reg("x0"), reg("x0"), imm(3)>>)}

(* Lines emitBinary does not accept: wrong operands, an unknown mnemonic,  *)
(* a load's notation elsewhere, a line without tokens.                     *)
Wrong == {Inst_("addi", <<reg("x1"), reg("x2")>>), Inst_("addi", <<reg("x1"), off(4, "x2")>>),
          Inst_("add", <<reg("x1"), reg("x2"), imm(4)>>), Inst_("lui", <<imm(1), imm(1)>>),
          Inst_("li", <<reg("x1"), imm(1)>>), Inst_("jal", <<reg("x1")>>),
          Inst_("sw", <<reg("x1"), imm(4), reg("x2")>>),
          Inst_("beq", <<reg("x1"), reg("x32"), imm(4)>>),
          Inst_("addi", <<reg("x1"), reg("x2"), reg("x3")>>), Blank}

(* Programs: labels, defined twice or in front of an instruction on the    *)
(* same line, and more code than fits.                                     *)
Upper   == Inst_("lui", <<reg("t0"), imm(4096)>>)
Back    == Inst_("bne", <<reg("x1"), reg("x2"), imm(-4)>>)
Store   == Inst_("sw", <<reg("t3"), imm(-36)>>)
Behind  == [label |-> "a", op |-> "addi", args |-> <<reg("x1"), reg("x1"), imm(1)>>]
ListingLines == {Upper, Back, Store, Label("a"), Label(""), Behind} \cup {Blank}
Listing == UNION {[1 .. n -> ListingLines] : n \in 0 .. 4}
Long    == {[k \in 1 .. n |-> Upper] : n \in 5 .. 6}

-----------------------------------------------------------------------------
(* Command lines of up to three arguments on a program of two words.       *)
Arguments == {<<"file", "bin">>, <<"file", "other">>, <<"-b", "gshare">>, <<"-b", "no">>,
              <<"-b", "static">>, <<"-i">>, <<"--stats">>, <<"--dram-size", 8>>,
              <<"--dram-size", 6>>, <<"--dram-size", nullopt>>, <<"--start-address", 4>>,
              <<"--end-address", 4>>, <<"--end-address", nullopt>>, <<"--help">>}
CommandLines == UNION {[1 .. n -> Arguments] : n \in 0 .. 3}

MCAssembled == {<<<<l>>, Plain>> : l \in Sweep \cup Names \cup Unfit \cup Wrong}
                 \cup {<<s, Plain>> : s \in Listing \cup Long}
                 \cup {<<<<Store, Back>>, c>> : c \in CommandLines}

-----------------------------------------------------------------------------
(* Words: each opcode the decoder knows and one it does not, each funct3,  *)
(* the upper twelve bits that select, the lowest and the highest of them   *)
(* set, and four settings of the register fields to a file.                *)
Opcodes == {kinds[k][Len(kinds[k])] : <<kinds, k>> \in
              {<<ITypeKinds, "addi">>, <<ITypeKinds, "jalr">>, <<ITypeKinds, "lb">>,
               <<ITypeKinds, "ecall">>, <<ITypeKinds, "ext">>, <<STypeKinds, "sb">>,
               <<BTypeKinds, "beq">>, <<RTypeKinds, "add">>, <<UTypeKinds, "lui">>,
               <<UTypeKinds, "auipc">>, <<JTypeKinds, "jal">>}}
             \cup {\b0001111, \b1111111}
Uppers == {\b0, \b1, \b10, \b100000010, \b1100000010, \b100000, \b111111,
           \b010000000000, \b010000011111, \b011111111111, \b100000000000,
           \b111111111111}
Fields == <<{}, 7 .. 19, {7, 15}, {8, 9, 10, 11, 16, 17, 18, 19}>>

WordFile(opcode, funct3, upper) ==
  LET w(k) == Bits(opcode, 7) \cup (Fields[k] \ 12 .. 14)
                \cup Shl(Bits(funct3, 3), 12) \cup Shl(Bits(upper, 12), 20)
  IN BytesOf(w(1)) \o BytesOf(w(2)) \o BytesOf(w(3)) \o BytesOf(w(4))

\* A file that ends within a word, and one that needs more than DRAM has.
Partial == {BytesOf(Bits(\b0010011, 7)) \o <<{0}>>, <<>>,
            [k \in 1 .. 21 |-> {0, 1}]}

MCPrebuilt ==
  {<<WordFile(o, f, u), Plain>> : o \in Opcodes, f \in 0 .. 7, u \in Uppers}
    \cup {<<b, Plain>> : b \in Partial}
=============================================================================
