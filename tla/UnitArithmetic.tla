--------------------------- MODULE UnitArithmetic ---------------------------
(***************************************************************************)
(* One functional unit on its own: FunctionalUnit::start, the countdown of *)
(* executeFU and compute_result, for every operation and every pair of     *)
(* operands of a small word, against what the RISC-V manual says each      *)
(* operation is.                                                           *)
(***************************************************************************)
EXTENDS FunctionalUnits

VARIABLES fu,           \* the unit
          result        \* what compute_result gave, or how it ended

vars == <<fu, result>>

IntValue == {"int"} \X (0 .. AllOnes)
FpValue  == {"fp"} \X (0 .. NaN)
NoResult == <<"none", 0>>
Trap     == <<"trap", 0>>

OfKind(kind) == IF kind = "fp" THEN FpValue ELSE IntValue
(* An operand nothing reads is given one value. *)
SecondOf(op) == IF operand_kind_2(op) = "unread" THEN {<<"fp", 0>>}
                ELSE OfKind(operand_kind_2(op))

Init ==
  /\ fu = [busy |-> FALSE, op |-> "UNKNOWN", remaining_cycles |-> 0,
           v1 |-> <<"int", 0>>, v2 |-> <<"int", 0>>]
  /\ result = NoResult

Start ==
  /\ ~fu.busy /\ result = NoResult
  /\ \E op \in OpType : station_type(op) \notin {"NONE", "LOAD", "STORE"} /\
       \E v1 \in OfKind(operand_kind_1(op)), v2 \in SecondOf(op) :
         fu' = [busy |-> TRUE, op |-> op, remaining_cycles |-> get_latency(op),
                v1 |-> v1, v2 |-> v2]
  /\ UNCHANGED result

Count ==
  /\ fu.busy /\ fu.remaining_cycles > 1
  /\ fu' = [fu EXCEPT !.remaining_cycles = @ - 1]
  /\ UNCHANGED result

(* The quotient of the least int64_t by -1 has no int64_t: the division    *)
(* instruction of x86 traps, and the process ends.                         *)
DivisionTraps(op, v1, v2) ==
  op \in {"DIV", "REM"} /\ v1[2] = Half /\ v2[2] = AllOnes

Finish ==
  /\ fu.busy /\ fu.remaining_cycles = 1
  /\ result' = IF DivisionTraps(fu.op, fu.v1, fu.v2) THEN Trap
               ELSE execute(fu.op, fu.v1, fu.v2)
  /\ fu' = [fu EXCEPT !.busy = FALSE, !.remaining_cycles = 0]

Ended == result # NoResult /\ UNCHANGED vars

Next == Start \/ Count \/ Finish \/ Ended

Spec == Init /\ [][Next]_vars
-----------------------------------------------------------------------------
(* The manual's definitions, each stated as what its result must satisfy.  *)

j == fu.v1[2]
k == fu.v2[2]
Computed(ops) == result \notin {NoResult, Trap} /\ fu.op \in ops
r == result[2]
TwosC(n) == n - Wrap * (n \div Half)
shamt == k % WIDTH
Congruent(a, b) == (a - b) % Wrap = 0
Truth(b) == IF b THEN 1 ELSE 0

(* Sums, differences and the low word of a product, modulo the word; the   *)
(* bitwise operations bit by bit; the comparisons, signed and unsigned.    *)
AluMatchesManual ==
  /\ Computed({"ADD", "ADDI"}) => Congruent(r, j + k)
  /\ Computed({"SUB"}) => Congruent(r + k, j)
  /\ \A i \in 0 .. WIDTH-1 :
       /\ Computed({"AND", "ANDI"}) => Bit(r, i) = Bit(j, i) * Bit(k, i)
       /\ Computed({"OR", "ORI"})   => Bit(r, i) = Truth(Bit(j, i) + Bit(k, i) > 0)
       /\ Computed({"XOR", "XORI"}) => Bit(r, i) = (Bit(j, i) + Bit(k, i)) % 2
       /\ Computed({"SLL"}) =>
            Bit(r, i) = IF i < shamt THEN 0 ELSE Bit(j, i - shamt)
       /\ Computed({"SRL"}) =>
            Bit(r, i) = IF i + shamt < WIDTH THEN Bit(j, i + shamt) ELSE 0
  /\ Computed({"SLT", "SLTI"}) =>
       r = Truth(\E d \in 1 .. Wrap : TwosC(j) + d = TwosC(k))
  /\ Computed({"SLTU", "SLTIU"}) => r = Truth(\E d \in 1 .. Wrap : j + d = k)
  /\ Computed({"BNE"}) => r = Truth(j # k)

(* MULH, MULHU and MULHSU are the high word of the product whose low word  *)
(* MUL is, of operands read as signed, unsigned, and one of each.          *)
ProductsMatchManual ==
  LET Low == execute("MUL", fu.v1, fu.v2)[2]
  IN /\ Computed({"MUL"}) => Congruent(r, j * k)
     /\ Computed({"MULH"})   => TwosC(r) * Wrap + Low = TwosC(j) * TwosC(k)
     /\ Computed({"MULHU"})  => r * Wrap + Low = j * k
     /\ Computed({"MULHSU"}) => TwosC(r) * Wrap + Low = TwosC(j) * k

(* Division truncates towards zero, the remainder has the sign of the      *)
(* dividend, and both have a value for a divisor of zero.                  *)
Magnitude(n) == IF n < 0 THEN -n ELSE n
Divides(a, b, q, m) ==
  /\ a = b * q + m /\ Magnitude(m) < Magnitude(b)
  /\ m # 0 => (m < 0) = (a < 0)
QuotientsMatchManual ==
  LET q == execute(IF fu.op \in {"DIV", "REM"} THEN "DIV" ELSE "DIVU", fu.v1, fu.v2)[2]
      m == execute(IF fu.op \in {"DIV", "REM"} THEN "REM" ELSE "REMU", fu.v1, fu.v2)[2]
  IN /\ Computed({"DIV", "REM"}) =>
          IF k = 0 THEN q = AllOnes /\ m = j
          ELSE Divides(TwosC(j), TwosC(k), TwosC(q), TwosC(m))
     /\ Computed({"DIVU", "REMU"}) =>
          IF k = 0 THEN q = AllOnes /\ m = j
          ELSE Divides(j, k, q, m)
=============================================================================
