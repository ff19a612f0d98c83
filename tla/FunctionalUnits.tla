-------------------------- MODULE FunctionalUnits ---------------------------
(***************************************************************************)
(* FunctionalUnit::compute_result: what each operation computes from its   *)
(* two operand values (execute_alu_op, execute_muldiv_op,                  *)
(* execute_fp_add_op, execute_fp_mul_op), on words of a reduced width.     *)
(*                                                                         *)
(* A uint64_t is 0 .. 2^WIDTH-1, an int64_t the same word read as two's    *)
(* complement.  A double is a natural number below 2^WIDTH, or NaN: the    *)
(* properties only tell equal doubles from different ones.                 *)
(***************************************************************************)
EXTENDS Instructions

CONSTANT WIDTH          \* bits in a register; 64 in the code

ASSUME WidthAssumption == WIDTH \in Nat \ {0}

PowerOf2[n \in Nat] == IF n = 0 THEN 1 ELSE 2 * PowerOf2[n - 1]
Wrap == PowerOf2[WIDTH]
Half == PowerOf2[WIDTH - 1]
AllOnes == Wrap - 1
NaN == Wrap

SlipSignedNever(n) == n
Signed(n) == IF n >= Half THEN n - Wrap ELSE n
Int64(n) == <<"int", n % Wrap>>
Double(n) == <<"fp", n % Wrap>>
Flag(b) == IF b THEN 1 ELSE 0

(* static_cast<int32_t>: the low half of the word, two's complement. *)
Half32 == PowerOf2[WIDTH \div 2]
Int32(n) == LET m == n % Half32 IN IF m >= Half32 \div 2 THEN m - Half32 ELSE m

(* C++ integer division truncates towards zero. *)
SlipQuotientFloors(a, b) == IF b < 0 THEN (-a) \div (-b) ELSE a \div b
Quotient(a, b) ==
  LET q == (IF a < 0 THEN -a ELSE a) \div (IF b < 0 THEN -b ELSE b)
  IN IF (a < 0) = (b < 0) THEN q ELSE -q
Remainder(a, b) == a - b * Quotient(a, b)

SlipShiftAmountUnmasked(k) == k
ShiftAmount(k) == k % WIDTH      \* k & 0x3F

(* The word whose bits are b[0], b[1], ..., lowest first, and the operators *)
(* &, | and ^ of C++, bit by bit.                                          *)
FromBits(b) ==
  LET low[n \in Nat] == IF n = 0 THEN 0
                        ELSE low[n - 1] + PowerOf2[n - 1] * b[n - 1]
  IN low[WIDTH]
Bit(n, i) == (n \div PowerOf2[i]) % 2
BitAnd(j, k) == FromBits([i \in Nat |-> Bit(j, i) * Bit(k, i)])
BitOr(j, k)  == FromBits([i \in Nat |-> Bit(j, i) + Bit(k, i) * (1 - Bit(j, i))])
BitXor(j, k) == FromBits([i \in Nat |-> IF Bit(j, i) = Bit(k, i) THEN 0 ELSE 1])

execute_alu_op(op, j, k) ==
  CASE op \in {"ADD", "ADDI"}   -> Int64(j + k)
    [] op = "SUB"               -> Int64(j - k)
    [] op \in {"AND", "ANDI"}   -> Int64(BitAnd(j, k))
    [] op \in {"OR", "ORI"}     -> Int64(BitOr(j, k))
    [] op \in {"XOR", "XORI"}   -> Int64(BitXor(j, k))
    [] op \in {"SLT", "SLTI"}   -> Int64(Flag(Signed(j) < Signed(k)))
    [] op \in {"SLTU", "SLTIU"} -> Int64(Flag(j < k))
    [] op = "SLL"               -> Int64(j * PowerOf2[ShiftAmount(k)])
    [] op \in {"SRL", "SRA"}    -> Int64(j \div PowerOf2[ShiftAmount(k)])
    [] op = "LUI"               -> Int64(k)
    [] op = "AUIPC"             -> Int64(0 + k)  \* pc is fake_rs.A, always 0
    [] op = "JALR"              -> Int64(0)      \* and so is the link value
    [] op = "BNE"               -> Int64(Flag(j # k))

execute_muldiv_op(op, j, k) ==
  CASE op = "MUL"    -> Int64(Signed(j) * Signed(k))
    [] op = "MULH"   -> Int64((Signed(j) * Signed(k)) \div Wrap)
    [] op = "MULHSU" -> Int64((Signed(j) * k) \div Wrap)
    [] op = "MULHU"  -> Int64((j * k) \div Wrap)
    [] op = "DIV"    -> Int64(IF k = 0 THEN -1 ELSE Quotient(Signed(j), Signed(k)))
    [] op = "DIVU"   -> Int64(IF k = 0 THEN AllOnes ELSE j \div k)
    [] op = "REM"    -> Int64(IF k = 0 THEN j ELSE Remainder(Signed(j), Signed(k)))
    [] op = "REMU"   -> Int64(IF k = 0 THEN j ELSE j % k)

(* fcvt.w.d of a NaN or of a double out of range is undefined in C++; x86  *)
(* yields the least int32_t, which the uint32_t cast does not sign-extend. *)
execute_fp_op(op, j, k) ==
  LET nan == NaN \in {j, k} IN
  CASE op = "FCVT_D_W" -> Double(Int32(j))
    [] op = "FCVT_W_D" -> Int64(IF j >= Half32 \div 2 THEN Half32 \div 2 ELSE j)
    [] op = "FEQ_D"    -> Double(Flag(~nan /\ j = k))
    [] op = "FLT_D"    -> Double(Flag(~nan /\ j < k))
    [] op = "FLE_D"    -> Double(Flag(~nan /\ j <= k))
    [] nan /\ op \in {"FADD_D", "FSUB_D", "FMUL_D", "FDIV_D"} -> <<"fp", NaN>>
    [] ~nan /\ op = "FADD_D" -> Double(j + k)
    [] ~nan /\ op = "FSUB_D" -> Double(j - k)
    [] ~nan /\ op = "FMUL_D" -> Double(j * k)
    [] ~nan /\ op = "FDIV_D" -> IF k = 0 THEN <<"fp", NaN>> ELSE Double(j \div k)

(* A load or a store computes nothing here.  Operands of the wrong kind    *)
(* throw before they get here; whatever is said of them is an OperandValue. *)
execute(op, v1, v2) ==
  LET j == v1[2]
      k == v2[2]
  IN CASE is_alu_op(op)    -> execute_alu_op(op, j % Wrap, k % Wrap)
       [] is_muldiv_op(op) -> execute_muldiv_op(op, j % Wrap, k % Wrap)
       [] is_fp_add_op(op) \/ is_fp_mul_op(op) \/ is_fp_div_op(op) ->
            execute_fp_op(op, j, k)
       [] OTHER            -> Int64(0)
=============================================================================
