------------------------------- MODULE RvAlu -------------------------------
(***************************************************************************)
(* The data instructions as exec computes them (RIPSimulator.cpp:139-345), *)
(* on words of XLEN bits given by their unsigned representatives.  Only    *)
(* TLC evaluates this module: the pipeline takes its Alu as a parameter.   *)
(***************************************************************************)
EXTENDS Integers, Bitwise

CONSTANT XLEN    \* Bits of a word: 32 in the code.

LOCAL Size == 2^XLEN
LOCAL Wrapped(v) == v % Size
LOCAL Int32(v) == IF v < 2^(XLEN - 1) THEN v ELSE v - Size   \* (signed)v

LOCAL Bool(b) == IF b THEN 1 ELSE 0
LOCAL Complement(v) == Size - 1 - v

AndOp(a, b) == a & b
OrOp(a, b)  == a | b
XorOp(a, b) == a ^^ b

\* Shifts; the amount is below XLEN.
Sll(a, n) == Wrapped(a * 2^n)
Srl(a, n) == a \div 2^n
Sra(a, n) == Wrapped(Int32(a) \div 2^n)
Shamt(b)  == b % XLEN                                       \* & 0b11111

\* Products are computed in 64 bits; the mixed one in unsigned arithmetic.
Mul(a, b)    == Wrapped(Int32(a) * Int32(b))
Mulh(a, b)   == Wrapped((Int32(a) * Int32(b)) \div Size)
Mulhsu(a, b) == ((Int32(a) * b) % (Size * Size)) \div Size
Mulhu(a, b)  == (a * b) \div Size

\* C's division truncates towards zero.
LOCAL Abs(v) == IF v < 0 THEN -v ELSE v
LOCAL Quot(x, y) == IF (x < 0) = (y < 0) THEN Abs(x) \div Abs(y)
                                        ELSE -(Abs(x) \div Abs(y))
MinInt == 2^(XLEN - 1)                \* numeric_limits<int32_t>::min(), as a word

Div(a, b) == CASE b = 0 -> Size - 1
               [] a = MinInt /\ b = Size - 1 -> MinInt
               [] OTHER -> Wrapped(Quot(Int32(a), Int32(b)))
Divu(a, b) == IF b = 0 THEN Size - 1 ELSE a \div b
Rem(a, b) == CASE b = 0 -> a
               [] a = MinInt /\ b = Size - 1 -> 0
               [] OTHER -> Wrapped(Int32(a) - Quot(Int32(a), Int32(b)) * Int32(b))
Remu(a, b) == IF b = 0 THEN a ELSE a % b

(* The result of a mnemonic on its two operands: registers, or a register  *)
(* and an immediate; for the CSR instructions, the CSR and the operand.    *)
ExecData(op, a, b) ==
  CASE op \in {"add", "addi"}   -> Wrapped(a + b)
    [] op = "sub"               -> Wrapped(a - b)
    [] op \in {"slt", "slti"}   -> Bool(Int32(a) < Int32(b))
    [] op \in {"sltu", "sltiu"} -> Bool(a < b)
    [] op \in {"xor", "xori"}   -> XorOp(a, b)
    [] op \in {"or", "ori", "csrrs"}  -> OrOp(a, b)
    [] op \in {"and", "andi"}   -> AndOp(a, b)
    [] op = "csrrc"             -> AndOp(a, Complement(b))
    [] op = "sll"  -> Sll(a, Shamt(b))
    [] op = "slli" -> Sll(a, b)
    [] op = "srl"  -> Srl(a, Shamt(b))
    [] op = "srli" -> Srl(a, b)
    [] op = "sra"  -> Sra(a, Shamt(b))
    [] op = "srai" -> Sra(a, b)
    [] op = "mul"    -> Mul(a, b)
    [] op = "mulh"   -> Mulh(a, b)
    [] op = "mulhsu" -> Mulhsu(a, b)
    [] op = "mulhu"  -> Mulhu(a, b)
    [] op = "div"    -> Div(a, b)
    [] op = "divu"   -> Divu(a, b)
    [] op = "rem"    -> Rem(a, b)
    [] op = "remu"   -> Remu(a, b)
    [] OTHER -> 0
=============================================================================
