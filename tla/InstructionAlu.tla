--------------------------- MODULE InstructionAlu ---------------------------
(***************************************************************************)
(* The data instructions as IInstruction::exec and RInstruction::exec      *)
(* compute them (Instructions.cpp:8-75, 193-311), for the instruction-     *)
(* level simulator.  A register is a signed int (RegVal); here a word is   *)
(* its unsigned representative, S(v) the int and v itself (unsigned)v.     *)
(***************************************************************************)
EXTENDS Integers, Bitwise

CONSTANT XLEN    \* Bits of a word: 32 in the code.

LOCAL Size == 2^XLEN
LOCAL S(v) == IF v >= 2^(XLEN - 1) THEN v - Size ELSE v
LOCAL RegVal(v) == v % Size                \* what write(Rd, v) leaves
LOCAL min == -(2^(XLEN - 1))               \* numeric_limits<int32_t>::min()
LOCAL LowBits(v) == v % XLEN               \* v & 0b11111

LOCAL Truth(p) == IF p THEN 1 ELSE 0

\* C's / and % on ints, truncating towards zero; the divisor is not zero.
LOCAL Magnitude(x) == IF x < 0 THEN -x ELSE x
LOCAL DivC(x, y) == LET q == Magnitude(x) \div Magnitude(y)
                    IN IF x * y < 0 THEN -q ELSE q
LOCAL ModC(x, y) == x - y * DivC(x, y)

\* Mutant: the overflowing division yields 0, as the remainder does.
div32Zero(x, y) == CASE y = 0 -> -1
                     [] x = min /\ y = -1 -> 0
                     [] OTHER -> DivC(x, y)
div32(x, y) == CASE y = 0 -> -1
                 [] x = min /\ y = -1 -> min
                 [] OTHER -> DivC(x, y)
rem32(x, y) == CASE y = 0 -> x
                 [] x = min /\ y = -1 -> 0
                 [] OTHER -> ModC(x, y)
divu32(x, y) == IF y = 0 THEN Size - 1 ELSE x \div y
remu32(x, y) == IF y = 0 THEN x ELSE x % y

\* The upper halves of the 64-bit products.
mulhigh(op, a, b) ==
  CASE op = "mulh"   -> (S(a) * S(b)) \div Size
    [] op = "mulhsu" -> ((S(a) * b) % (Size * Size)) \div Size
    [] OTHER         -> (a * b) \div Size

\* a is the first source register, b the second one or the immediate.
ExecData(op, a, b) ==
  RegVal(CASE op \in {"add", "addi"}   -> a + b
           [] op = "sub"               -> a - b
           [] op \in {"slt", "slti"}   -> Truth(S(a) < S(b))
           [] op \in {"sltu", "sltiu"} -> Truth(a < b)
           [] op \in {"xor", "xori"}   -> a ^^ b
           [] op \in {"or", "ori", "csrrs"} -> a | b
           [] op \in {"and", "andi"}   -> a & b
           [] op = "sll"  -> a * 2^LowBits(b)
           [] op = "srl"  -> a \div 2^LowBits(b)
           [] op = "sra"  -> S(a) \div 2^LowBits(b)
           [] op = "slli" -> a * 2^b
           [] op = "srli" -> a \div 2^b
           [] op = "srai" -> S(a) \div 2^b
           [] op = "mul"  -> S(a) * S(b)
           [] op \in {"mulh", "mulhsu", "mulhu"} -> mulhigh(op, a, b)
           [] op = "div"  -> div32(S(a), S(b))
           [] op = "divu" -> divu32(a, b)
           [] op = "rem"  -> rem32(S(a), S(b))
           [] op = "remu" -> remu32(a, b)
           [] OTHER       -> 0)
=============================================================================
