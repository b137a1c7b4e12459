--------------------------- MODULE ArithmeticSpec ---------------------------
(***************************************************************************)
(* What RV32IM asks of the data instructions, stated by what characterises *)
(* a result and not by how one is computed: bit by bit for the logic and   *)
(* the shifts, by congruence for sums and products, by quotient and        *)
(* remainder for the divisions.  The execution units of both simulators    *)
(* are held against it.                                                    *)
(***************************************************************************)
EXTENDS Encoding

CONSTANT XLEN    \* Bits of a word.

LOCAL Size == 2^XLEN
LOCAL Ones(v) == Bits(v, XLEN)
LOCAL Signed(v) == v - (IF XLEN - 1 \in Ones(v) THEN Size ELSE 0)
LOCAL Sign(v) == IF XLEN - 1 \in Ones(v) THEN 0 .. XLEN - 1 ELSE {}
LOCAL Congruent(u, v) == (u - v) % Size = 0
LOCAL Absolute(v) == IF v < 0 THEN -v ELSE v

\* r is the upper word of the double-word product p.
LOCAL UpperOf(p, r) == \E low \in 0 .. Size - 1 :
                         (p - (r * Size + low)) % (Size * Size) = 0

\* q and m are quotient and remainder of x by y, rounded towards zero.
LOCAL Divides(x, y, q, m) ==
  /\ x = q * y + m
  /\ Absolute(m) < Absolute(y)
  /\ m = 0 \/ (m < 0) = (x < 0)

\* r is what op leaves in rd for the operands a and b.
Computes(op, a, b, r) ==
  LET n == b % XLEN IN
  /\ r \in 0 .. Size - 1
  /\ CASE op \in {"add", "addi"} -> Congruent(r, a + b)
       [] op = "sub"             -> Congruent(r + b, a)
       [] op \in {"slt", "slti"}   -> r = (IF Signed(a) < Signed(b) THEN 1 ELSE 0)
       [] op \in {"sltu", "sltiu"} -> r = (IF a < b THEN 1 ELSE 0)
       [] op \in {"xor", "xori"} ->
            Ones(r) = (Ones(a) \ Ones(b)) \cup (Ones(b) \ Ones(a))
       [] op \in {"or", "ori"}   -> Ones(r) = Ones(a) \cup Ones(b)
       [] op \in {"and", "andi"} -> Ones(r) = Ones(a) \cap Ones(b)
       [] op \in {"sll", "slli"} ->
            \A i \in 0 .. XLEN - 1 : i \in Ones(r) <=> i - n \in Ones(a)
       [] op \in {"srl", "srli"} ->
            \A i \in 0 .. XLEN - 1 : i \in Ones(r) <=> i + n \in Ones(a)
       [] op \in {"sra", "srai"} ->
            \A i \in 0 .. XLEN - 1 :
              i \in Ones(r) <=> IF i + n < XLEN THEN i + n \in Ones(a)
                                                ELSE i \in Sign(a)
       [] op = "mul"    -> Congruent(r, a * b)
       [] op = "mulh"   -> UpperOf(Signed(a) * Signed(b), r)
       [] op = "mulhsu" -> UpperOf(Signed(a) * b, r)
       [] op = "mulhu"  -> UpperOf(a * b, r)
       [] op \in {"div", "rem"} ->
            IF b = 0 THEN r = (IF op = "div" THEN Size - 1 ELSE a)
            ELSE \* the one overflow wraps: the most negative word by -1
                 \E q, m \in -Size .. Size :
                   /\ Divides(Signed(a), Signed(b), q, m)
                   /\ Congruent(r, IF op = "div" THEN q ELSE m)
       [] op \in {"divu", "remu"} ->
            IF b = 0 THEN r = (IF op = "divu" THEN Size - 1 ELSE a)
            ELSE \E q, m \in 0 .. Size :
                   Divides(a, b, q, m) /\ r = (IF op = "divu" THEN q ELSE m)
       [] OTHER -> FALSE
=============================================================================
