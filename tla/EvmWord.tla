------------------------------ MODULE EvmWord ------------------------------
(***************************************************************************)
(* What the opcodes of the EVM compute (verifier/eth1/evm: opcodes.c,      *)
(* big.c, the stack of evm.c, evm_mem.c).  A word is a string of at most W *)
(* bytes, most significant first, and most operations drop its leading     *)
(* zeros: the same number has several representations and every operation  *)
(* has to treat them alike.  Bits, W and Long scale a byte, a word and a   *)
(* uint64_t down; 2^(2^Bits) = 2^(Bits * W) as in the code (2^256).        *)
(***************************************************************************)
EXTENDS Integers, Sequences, SequencesExt

CONSTANTS Bits,  \* 8: bits of a byte
          W,     \* 32: bytes of a word
          Long   \* 8: bytes of a uint64_t

B == 2^Bits
Byte == 0..(B-1)
Zeros(n) == [i \in 1..n |-> 0]

\* bytes_to_long and long_to_bytes without their width
Value(s) == LET v[n \in 0..Len(s)] == IF n = 0 THEN 0 ELSE v[n-1] * B + s[n] IN v[Len(s)]
Bytes(v, n) == [i \in 1..n |-> (v \div B^(n-i)) % B]

\* utils.h, optimize_len: no leading zeros, but at least one byte if there was one
Optimize(s) ==
  IF Len(s) <= 1 THEN s
  ELSE LET from == CHOOSE i \in 1..Len(s) : /\ s[i] # 0 \/ i = Len(s)
                                            /\ \A j \in 1..(i-1) : s[j] = 0
       IN  SubSeq(s, from, Len(s))
\* the last n bytes, with zeros in front if there are fewer
Right(s, n) == IF Len(s) >= n THEN SubSeq(s, Len(s) - n + 1, Len(s)) ELSE Zeros(n - Len(s)) \o s
\* the k-th byte from the right, 0 beyond the left end
FromRight(s, k) == IF k < Len(s) THEN s[Len(s) - k] ELSE 0

Memcmp(a, b) == LET d == {i \in 1..Len(a) : a[i] # b[i]}
                IN  IF d = {} THEN 0
                    ELSE LET i == CHOOSE i \in d : \A j \in d : i <= j
                         IN  IF a[i] > b[i] THEN 1 ELSE -1
AnyNonZero(s, n) == \E i \in 1..n : s[i] # 0

BigCmp(a, b) ==
  LET la == Len(a)
      lb == Len(b)
  IN  CASE la = lb -> Memcmp(a, b)
        [] la > lb -> IF AnyNonZero(a, la - lb) THEN 1 ELSE Memcmp(Right(a, lb), b)
        [] OTHER -> IF AnyNonZero(b, lb - la) THEN -1 ELSE Memcmp(a, Right(b, la))

BigIsZero(a) == Optimize(a) = <<0>>

(* Mutant: the complement without the carry. *)
OnesComplement(val) == [i \in 1..Len(val) |-> B - 1 - val[i]]

\* big_sign: the two's complement within the length that val happens to have
BigSign(val) ==
  LET l == Len(val)
      rest[i \in 0..l] == IF i = 0 THEN 1
                          ELSE (rest[i-1] \div (IF i = 1 THEN 1 ELSE B)) + (B - 1 - val[l - i + 1])
  IN  [i \in 1..l |-> rest[l - i + 1] % B]
\* big_signed: the sign is the top bit of the first byte, of however short a number
IsNegative(val) == Len(val) > 0 /\ val[1] >= B \div 2
Absolute(val) == IF IsNegative(val) THEN BigSign(val) ELSE val

BigAdd(a0, b0, max) ==
  LET a == Optimize(a0)
      b == Optimize(b0)
      n == (IF Len(a) > Len(b) THEN Len(a) ELSE Len(b)) + 1
      l == IF n > max THEN max ELSE n
      carry[k \in 0..l] == IF k = 0 THEN 0
                           ELSE (carry[k-1] + FromRight(a, k-1) + FromRight(b, k-1)) \div B
  IN  [i \in 1..l |-> (carry[l-i] + FromRight(a, l-i) + FromRight(b, l-i)) % B]

(* Mutant: a negative difference is not extended to the whole word. *)
SubWithoutFill(a0, b0) ==
  LET n == (IF Len(a0) > Len(b0) THEN Len(a0) ELSE Len(b0))
  IN  Bytes((Value(a0) - Value(b0)) % B^n, n)

BigSub(a0, b0) ==
  LET a == Optimize(a0)
      b == Optimize(b0)
      n == (IF Len(a) > Len(b) THEN Len(a) ELSE Len(b)) + 1
      l == IF n > W THEN W ELSE n
      borrow[k \in 0..l] == IF k = 0 THEN 0
                            ELSE IF FromRight(a, k-1) - FromRight(b, k-1) - borrow[k-1] < 0
                                 THEN 1 ELSE 0
      out == [i \in 1..l |-> (FromRight(a, l-i) - FromRight(b, l-i) - borrow[l-i]) % B]
  IN  IF borrow[l] = 1 /\ l < W THEN [i \in 1..(W-l) |-> B-1] \o out ELSE out

\* big_mul: short factors as uint64_t, longer ones column by column
BigMul(a0, b0, max) ==
  LET a == Optimize(a0)
      b == Optimize(b0)
      n == Len(a) + Len(b)
      column(k) == LET pairs == {x \in 0..k : x < Len(a) /\ k - x < Len(b)}
                       s[x \in 0..(k+1)] ==
                         IF x = 0 THEN 0
                         ELSE s[x-1] + (IF x-1 \in pairs
                                        THEN FromRight(a, x-1) * FromRight(b, k-x+1) ELSE 0)
                   IN  s[k+1]
      val[k \in 0..n] == IF k = 0 THEN 0 ELSE (val[k-1] + column(k-1)) \div B
      out == Optimize([i \in 1..n |-> (val[n-i] + column(n-i)) % B])
  IN  IF n < Long + 1 THEN Optimize(Bytes((Value(a) * Value(b)) % B^Long, Long))
      ELSE IF Len(out) > max THEN Right(out, max) ELSE out

\* big_divmod: divisors below a long digit by digit (external: mp_div for the others)
DivModOf(n, d) ==
  LET ud == Value(d)
      ur[i \in 0..Len(n)] == IF i = 0 THEN 0 ELSE (ur[i-1] * B + n[i]) % ud
      digit(i) == (ur[i-1] * B + n[i]) \div ud
      first == {i \in 1..Len(n) : digit(i) # 0}
      q == IF first = {} THEN <<>>
           ELSE LET i0 == CHOOSE i \in first : \A j \in first : i <= j
                IN  [i \in 1..(Len(n) - i0 + 1) |-> digit(i + i0 - 1)]
  IN  IF Len(d) < Long /\ Len(n) > Long
      THEN [q |-> q, r |-> Optimize(Bytes(ur[Len(n)], Long))]
      ELSE [q |-> Optimize(Bytes(Value(n) \div ud, Len(n))),
            r |-> Optimize(Bytes(Value(n) % ud, Len(d)))]

BigDivMod(n, d) == DivModOf(Optimize(n), Optimize(d))

SignedAs(negative, q) == IF negative THEN BigSign(Right(q, W)) ELSE q

\* the zero bytes both numbers end with
CommonZeros(a1, b1) == CHOOSE k \in 0..W :
  /\ \A j \in 0..(k-1) : /\ Len(a1) - j > 1 /\ Len(b1) - j > 1
                         /\ FromRight(a1, j) = 0 /\ FromRight(b1, j) = 0
  /\ ~(Len(a1) - k > 1 /\ Len(b1) - k > 1 /\ FromRight(a1, k) = 0 /\ FromRight(b1, k) = 0)

Quotient(a, b, sig) ==
  CASE BigIsZero(b) \/ b = <<>> -> <<0>>
    [] ~sig -> BigDivMod(a, b).q
    [] OTHER -> SignedAs(IsNegative(a) # IsNegative(b), BigDivMod(Absolute(a), Absolute(b)).q)

WithoutCommonZeros(a, b, drop, sig) ==
  Quotient(SubSeq(a, 1, Len(a) - drop), SubSeq(b, 1, Len(b) - drop), sig)

\* big_div: trailing zero bytes that both have are dropped first
BigDivOf(a, b, sig) == WithoutCommonZeros(a, b, CommonZeros(a, b), sig)
BigDiv(a, b, sig) == BigDivOf(Optimize(a), Optimize(b), sig)

IsPowerOf2(x) == \E e \in 0..Bits : x = 2^e
ModOf(a, b, sig) ==
  LET lb == Len(b)
      short == b[1] \in {0} \cup {x \in Byte : IsPowerOf2(x)} /\ \A i \in 2..lb : b[i] = 0
  IN  CASE lb > Len(a) /\ ~sig -> a
        [] lb = 0 \/ b = <<0>> -> <<0>>
        [] ~sig /\ short -> <<a[Len(a) - lb + 1] % b[1]>> \o Right(a, lb - 1)
        [] ~sig /\ ~short -> BigDivMod(a, b).r
        [] OTHER -> SignedAs(IsNegative(a), BigDivMod(Absolute(a), Absolute(b)).r)
BigMod(a, b, sig) == ModOf(Optimize(a), Optimize(b), sig)

Power(x, e) == LET p[n \in 0..e] == IF n = 0 THEN 1 ELSE (p[n-1] * x) % B^W IN p[e]
BigShiftLeft(s, bits) == Bytes((Value(s) * 2^bits) % B^Len(s), Len(s))
BigShiftRight(s, bits) == Bytes(Value(s) \div 2^bits, Len(s))
\* big_exp, with a short cut for powers of 2 (external: mp_exptmod for the others)
ExpOf(a, b) ==
      CASE b = <<>> \/ b = <<0>> -> <<1>>
        [] b = <<1>> -> a
        [] b \notin {<<>>, <<0>>, <<1>>} /\ a = <<2>> ->
             IF Len(b) > 1 THEN <<0>>
             ELSE Right(Optimize(BigShiftLeft(Zeros(2 * W - 1) \o <<1>>, b[1])), W)
        [] OTHER -> Optimize(Bytes(Power(Value(a), Value(b)), W))
BigExp(a, b) == ExpOf(Optimize(a), Optimize(b))

-----------------------------------------------------------------------------
\* op_math; m is the modulus of ADDMOD and MULMOD, <<>> for the others
Reduced(r, mod, m) == IF mod THEN Optimize(BigMod(r, m, FALSE)) ELSE r
OpMath(op, a, b, mod, m) ==
  Reduced(Optimize(
           CASE op = "add" -> BigAdd(a, b, IF mod THEN 2 * W ELSE W)
             [] op = "sub" -> BigSub(a, b)
             [] op = "mul" -> BigMul(a, b, IF mod THEN 2 * W + 1 ELSE W)
             [] op = "div" -> BigDiv(a, b, FALSE)
             [] op = "sdiv" -> BigDiv(a, b, TRUE)
             [] op = "mod" -> BigMod(a, b, FALSE)
             [] op = "smod" -> BigMod(a, b, TRUE)
             [] op = "exp" -> BigExp(a, b)), mod, m)

OpNot(a) == Optimize([i \in 1..W |-> B - 1 - Right(a, W)[i]])
OpIsZero(a) == <<IF \E i \in 1..Len(a) : a[i] # 0 THEN 0 ELSE 1>>

BitOf(x, e) == (x \div 2^e) % 2
BitOp(op, x, y) == LET bit(e) == CASE op = "and" -> BitOf(x, e) * BitOf(y, e)
                                   [] op = "or" -> IF BitOf(x, e) + BitOf(y, e) = 0 THEN 0 ELSE 1
                                   [] op = "xor" -> (BitOf(x, e) + BitOf(y, e)) % 2
                       s[e \in 0..Bits] == IF e = 0 THEN 0 ELSE s[e-1] + bit(e-1) * 2^(e-1)
                   IN  s[Bits]
\* op_bit works on the length of the longer operand
OpBit(op, a, b) == LET l == IF Len(a) > Len(b) THEN Len(a) ELSE Len(b)
                   IN  Optimize([i \in 1..l |-> BitOp(op, Right(a, l)[i], Right(b, l)[i])])

\* evm_stack_pop_byte: -1 for a number that is no byte
PopByte(s) == IF Len(s) = 0 \/ AnyNonZero(s, Len(s) - 1) THEN -1 ELSE s[Len(s)]
OpByte(pos, b) == LET p == PopByte(pos)
                  IN  IF p \notin 0..(W-1) THEN <<0>> ELSE <<Right(b, W)[p + 1]>>

OpCmp(eq, sig, a, b) ==
  LET c == IF sig THEN BigCmp(Absolute(a), Absolute(b)) ELSE BigCmp(a, b)
      res == CASE eq = -1 -> c < 0 [] eq = 0 -> c = 0 [] eq = 1 -> c > 0
      na == IsNegative(a)
      nb == IsNegative(b)
  IN  CASE ~sig \/ eq = 0 \/ (~na /\ ~nb) -> res
        [] sig /\ na /\ nb -> ~res
        [] OTHER -> IF eq < 0 THEN na ELSE nb

\* op_shift; only a number that fills the word can be negative here
OpShift(left, pos, b) ==
  LET p == PopByte(pos)
      neg == left = 2 /\ Len(b) = W /\ b[1] >= B \div 2
      right == BigShiftRight(Right(b, W), p)
      top == p \div Bits
      mask == (B - 1) - (2^(Bits - (p % Bits)) - 1)
  IN  CASE p < 0 -> IF neg THEN [i \in 1..W |-> B - 1] ELSE <<0>>
        [] p >= 0 /\ left = 1 -> Optimize(BigShiftLeft(Right(b, W), p))
        [] p >= 0 /\ left # 1 /\ ~neg -> Optimize(right)
        [] OTHER -> [i \in 1..W |-> CASE i <= top -> B - 1
                                      [] i = top + 1 -> BitOp("or", right[i], mask)
                                      [] OTHER -> right[i]]

(***************************************************************************)
(* op_signextend for k < W.  For a number of at most k bytes it copies     *)
(* from before its buffer: those bytes can be anything.                    *)
(***************************************************************************)
OpSignExtend(k, val) ==
  LET l == Len(val)
      fill == IF l > k /\ val[l - k] >= B \div 2 THEN B - 1 ELSE 0
      junk == IF l > k THEN 0 ELSE k + 1 - l
  IN  {Optimize([i \in 1..(W-1-k) |-> fill] \o g \o SubSeq(val, l - k - 1 + junk + 1, l)) :
         g \in [1..junk -> Byte]}

-----------------------------------------------------------------------------
\* The stack: every element is followed by its length
Push(st, e) == st \o e \o <<Len(e)>>
Flat(es) == FoldLeft(Push, <<>>, es)
\* evm_stack_get_ref: where the pos-th element from the top starts, and its length
RefEnd(st, pos) == LET p[i \in 0..pos] == IF i = 0 THEN Len(st) ELSE p[i-1] - st[p[i-1]] - 1
                   IN  p[pos]
RefLen(st, pos) == st[RefEnd(st, pos - 1)]
(* Mutant: the elements in between are left where they are. *)
SwapInPlace(st, pos) ==
  LET a == RefEnd(st, 1)
      b == RefEnd(st, pos)
      l1 == RefLen(st, 1)
      l2 == RefLen(st, pos)
      over == SubSeq(st, 1, b) \o SubSeq(st, a + 1, a + l1 + 1) \o SubSeq(st, b + l1 + 2, Len(st))
  IN  SubSeq(over, 1, Len(st) - l2 - 1) \o SubSeq(st, b + 1, b + l2 + 1)

\* op_swap: the bytes of two elements exchanged, those in between moved
OpSwap(st, pos) ==
  LET a == RefEnd(st, 1)
      b == RefEnd(st, pos)
      l1 == RefLen(st, 1)
      l2 == RefLen(st, pos)
      between == SubSeq(st, b + l2 + 2, a)
  IN  SubSeq(st, 1, b) \o SubSeq(st, a + 1, a + l1 + 1) \o between
        \o SubSeq(st, b + 1, b + l2 + 1)
OpDup(st, pos) == Push(st, SubSeq(st, RefEnd(st, pos) + 1, RefEnd(st, pos) + RefLen(st, pos)))

\* evm_stack_push_long: from the first byte that is 0, only the last byte if there is none
PushedLong(v) ==
  LET s == Bytes(v, Long)
      z == {i \in 1..(Long-1) : s[i] = 0}
  IN  IF z = {} THEN <<s[Long]>> ELSE SubSeq(s, CHOOSE i \in z : \A j \in z : i <= j, Long)
\* evm_stack_push_int
PushedInt(v) == Optimize(Bytes(v, Long))
\* evm_stack_pop_int: one byte stands for an int32_t, half of it for the 28 bits of MEM_LIMIT
MEM_LIMIT == 2^(Bits \div 2) - 1
PopInt(s) == LET o == Optimize(s)
             IN  IF Len(o) > 1 \/ (Len(o) = 1 /\ o[1] > MEM_LIMIT) THEN MEM_LIMIT ELSE Value(o)

-----------------------------------------------------------------------------
(***************************************************************************)
(* op_jump and op_push.  Code is a sequence of opcodes: 1..W stand for  *)
(* PUSH1..PUSHW.  pos counts from 0 as in the code.        *)
(***************************************************************************)
STOP == 0
JUMPDEST == W + 1
IsPush(op) == op \in 1..W
(* Mutant: every jump destination is taken for an instruction. *)
NoInvalidDests(code) == {}

\* the invalid_jumpdest list: jump destinations inside the data of a PUSH
InvalidDests(code) ==
  LET jumpl[i \in 0..Len(code)] ==
        CASE i = 0 -> 0
          [] i > 0 /\ jumpl[i-1] > 0 -> jumpl[i-1] - 1
          [] OTHER -> IF IsPush(code[i]) THEN code[i] ELSE 0
  IN  {i \in 0..(Len(code)-1) : code[i+1] = JUMPDEST /\ jumpl[i] > 0}
\* the byte behind the code is read when pos is the length of the code: beyond is what it holds
CanJump(code, pos, beyond) ==
  /\ pos <= Len(code)
  /\ (IF pos = Len(code) THEN beyond ELSE code[pos + 1]) = JUMPDEST
  /\ pos \notin InvalidDests(code)
\* op_jump: c is the condition of a JUMPI (a JUMP has one that holds).  A condition of several
\* bytes is read like one byte that is not 0, and so is an element without any byte.
op_jump(code, pos, beyond, c) ==
  CASE c # <<>> /\ BigIsZero(c) -> "next"
    [] CanJump(code, pos, beyond) -> "jump"
    [] OTHER -> "error"
\* op_push: data behind the end of the code is 0
PushData(code, pos, n) == [i \in 1..n |-> IF pos + i <= Len(code) THEN code[pos + i] ELSE 0]

-----------------------------------------------------------------------------
\* Memory (evm_mem.c): data is what is allocated, len what was paid for
NewMemory == [len |-> 0, data |-> Zeros(W)]
Words(n) == (n + W - 1) \div W
\* mem_check
MemGrown(m, max, readOnly) ==
  LET len == IF max > m.len THEN Words(max) * W ELSE m.len
      need == IF max > m.len THEN Words(max) * W ELSE max
  IN  [len |-> len, data |-> IF ~readOnly /\ need > Len(m.data)
                             THEN m.data \o Zeros(need - Len(m.data)) ELSE m.data]
MemRead(m, off, n) == [i \in 1..n |-> IF off + i <= Len(m.data) THEN m.data[off + i] ELSE 0]
MemWrite(m, off, src, n) ==
  LET g == MemGrown(m, off + n, FALSE)
  IN  [g EXCEPT !.data = [i \in 1..Len(@) |->
          IF i \notin (off+1)..(off+n) THEN @[i]
          ELSE IF i - off <= Len(src) THEN src[i - off] ELSE 0]]
(* Mutant: nothing is written where the source has ended. *)
CopyWithoutPadding(m, memPos, src, pos, n) ==
  LET part == IF pos < Len(src) THEN SubSeq(src, pos + 1, Len(src)) ELSE <<>>
      have == IF Len(part) > n THEN SubSeq(part, 1, n) ELSE part
  IN  IF have = <<>> THEN m ELSE MemWrite(m, memPos, have, Len(have))

\* op_datacopy: what lies behind the end of the source is written as zeros
DataCopy(m, memPos, src, pos, n) ==
  LET part == IF pos < Len(src) THEN SubSeq(src, pos + 1, Len(src)) ELSE <<>>
      have == IF Len(part) > n THEN SubSeq(part, 1, n) ELSE part
      padded == IF Len(have) < n THEN MemWrite(m, memPos + Len(have), <<>>, n - Len(have)) ELSE m
  IN  IF have = <<>> THEN padded ELSE MemWrite(padded, memPos, have, Len(have))
\* RETURNDATACOPY checks that it begins within the source
op_datacopy(m, memPos, src, pos, n, check_size) ==
  IF check_size /\ pos >= Len(src) THEN [ok |-> FALSE, mem |-> m] ELSE [ok |-> TRUE, mem |-> DataCopy(m, memPos, src, pos, n)]

-----------------------------------------------------------------------------
\* Reference definitions: a word is the number it stands for
Mod == B^W
Signed(s) == IF Len(s) = W /\ s[1] >= B \div 2 THEN Value(s) - Mod ELSE Value(s)
Abs(x) == IF x < 0 THEN -x ELSE x
Quot(x, y) == IF y = 0 THEN 0 ELSE (IF (x < 0) # (y < 0) THEN -1 ELSE 1) * (Abs(x) \div Abs(y))
Rem(x, y) == IF y = 0 THEN 0 ELSE (IF x < 0 THEN -1 ELSE 1) * (Abs(x) % Abs(y))
\* a number whose sign the code can tell: it fills the word or its top bit is not set
Plain(s) == Len(Optimize(s)) = W \/ ~IsNegative(Optimize(s))
RefMath(op, x, y) == CASE op = "add" -> (x + y) % Mod
                       [] op = "sub" -> (x - y) % Mod
                       [] op = "mul" -> (x * y) % Mod
                       [] op = "div" -> Quot(x, y)
                       [] op = "mod" -> Rem(x, y)
                       [] op = "exp" -> Power(x, y)
\* the instructions of code start at 0 and behind every instruction
Starts(code) == LET s[i \in 0..Len(code)] ==
                      IF i = 0 THEN TRUE
                      ELSE \E j \in 0..(i-1) : /\ s[j]
                                               /\ i = j + 1 + (IF IsPush(code[j+1]) THEN code[j+1] ELSE 0)
                IN  {i \in 0..Len(code) : s[i]}

(***************************************************************************)
(* op_math, op_cmp, op_shift, op_byte, op_bit, op_not: every opcode gives  *)
(* the number the EVM defines for the numbers it is given, whichever       *)
(* representation the stack holds, short cuts for small numbers and for    *)
(* powers of 2 included.  (An empty element, which GASPRICE and an empty   *)
(* header field push, is not a byte for evm_stack_pop_byte: BYTE and the   *)
(* shifts take it for a number beyond their range.)                        *)
(***************************************************************************)
UnsignedMathAgrees(a, b, m) ==
  LET x == Value(a)
      y == Value(b)
  IN  /\ \A op \in {"add", "sub", "mul", "div", "mod", "exp"} :
           Value(OpMath(op, a, b, FALSE, <<>>)) = RefMath(op, x, y)
      /\ Value(OpMath("add", a, b, TRUE, m)) = Rem(x + y, Value(m))
      /\ Value(OpMath("mul", a, b, TRUE, m)) = Rem(x * y, Value(m))
      /\ \A eq \in {-1, 0, 1} : OpCmp(eq, FALSE, a, b)
           = (CASE eq = -1 -> x < y [] eq = 0 -> x = y [] eq = 1 -> x > y)
      /\ Len(a) > 0 =>
           /\ Value(OpShift(1, a, b)) = (IF x >= Bits * W THEN 0 ELSE (y * 2^x) % Mod)
           /\ Value(OpShift(0, a, b)) = (IF x >= Bits * W THEN 0 ELSE y \div 2^x)
           /\ Value(OpShift(2, a, b)) = (IF x >= Bits * W THEN (IF Signed(b) < 0 THEN Mod - 1 ELSE 0)
                                         ELSE (Signed(b) \div 2^x) % Mod)
           /\ Value(OpByte(a, b)) = (IF x >= W THEN 0 ELSE (y \div B^(W-1-x)) % B)
      /\ Value(OpNot(a)) = Mod - 1 - x
      /\ OpIsZero(a) = <<IF x = 0 THEN 1 ELSE 0>>
      /\ \A op \in {"and", "or", "xor"}, e \in 0..(Bits * W - 1) :
           BitOf(Value(OpBit(op, a, b)), e) = BitOp(op, BitOf(x, e), BitOf(y, e))

(***************************************************************************)
(* big.c, big_signed: "returns 0 if the value is positive or 1 if          *)
(* negative".  The signed opcodes agree with the EVM for numbers that fill *)
(* the word or whose top bit is clear; SLT and SGT only for numbers that   *)
(* are not the same negative one, which they take for smaller and bigger   *)
(* than itself.                                                            *)
(***************************************************************************)
SignedMathAgrees(a, b, k) ==
  /\ Plain(a) /\ Plain(b) =>
       /\ Value(OpMath("sdiv", a, b, FALSE, <<>>)) = Quot(Signed(a), Signed(b)) % Mod
       /\ Value(OpMath("smod", a, b, FALSE, <<>>)) = Rem(Signed(a), Signed(b)) % Mod
  /\ (Len(a) = W \/ ~IsNegative(a)) /\ (Len(b) = W \/ ~IsNegative(b))
     /\ (Value(a) # Value(b) \/ ~IsNegative(a)) =>
       /\ OpCmp(-1, TRUE, a, b) = (Signed(a) < Signed(b))
       /\ OpCmp(1, TRUE, a, b) = (Signed(a) > Signed(b))
  /\ Len(a) > k =>
       LET low == Value(a) % B^(k+1)
       IN  \A r \in OpSignExtend(k, a) :
             Value(r) = (IF low >= B^(k+1) \div 2 THEN (low - B^(k+1)) % Mod ELSE low)

(***************************************************************************)
(* op_swap and op_dup move bytes inside the stack: afterwards it holds     *)
(* exactly the elements of the exchanged or extended stack, whatever the   *)
(* lengths of the elements.                                                *)
(***************************************************************************)
StackAgrees(es) ==
  LET n == Len(es)
  IN  \A pos \in 1..n :
        /\ pos > 1 => OpSwap(Flat(es), pos)
                        = Flat([es EXCEPT ![n] = es[n - pos + 1], ![n - pos + 1] = es[n]])
        /\ OpDup(Flat(es), pos) = Flat(Append(es, es[n - pos + 1]))

\* evm_stack_push_long and push_int: the number that is pushed is the one read back
PushedNumbersAgree(v) ==
  /\ Value(PushedInt(v)) = v
  /\ v < B^(Long-1) => Value(PushedLong(v)) = v

(***************************************************************************)
(* op_jump: a jump within the code is taken exactly when its condition is  *)
(* not zero, and succeeds exactly on a JUMPDEST that is an instruction of  *)
(* the code and not data of a PUSH.                                        *)
(***************************************************************************)
JumpsAgree(code) ==
  \A pos \in 0..(Len(code) - 1), beyond \in {JUMPDEST, STOP}, c \in {<<0>>, <<1>>, <<0, 0>>, <<1, 0>>} :
    op_jump(code, pos, beyond, c) =
      IF Value(c) = 0 THEN "next" ELSE IF code[pos + 1] = JUMPDEST /\ pos \in Starts(code) THEN "jump" ELSE "error"

(***************************************************************************)
(* evm_mem.c and op_datacopy: memory behaves like an endless array of      *)
(* zeros: after a copy it reads back the copied part, zeros where the      *)
(* source ended, and what was there before everywhere else.  A copy of     *)
(* returned data succeeds within them and fails when it begins behind.     *)
(***************************************************************************)
MemoryAgrees(at, src, pos, to, n) ==
  LET m0 == MemWrite(NewMemory, at, <<B-1>>, 1)
      m == op_datacopy(m0, to, src, pos, n, FALSE).mem
      returned == op_datacopy(m0, to, src, pos, n, TRUE)
      cell(i) == CASE i \in (to+1)..(to+n) -> IF pos + i - to <= Len(src) THEN src[pos + i - to] ELSE 0
                   [] i \notin (to+1)..(to+n) /\ i = at + 1 -> B - 1
                   [] OTHER -> 0
  IN  /\ \A i \in 1..(3 * W) : MemRead(m, 0, 3 * W)[i] = cell(i)
      /\ n > 0 /\ pos + n <= Len(src) => returned = [ok |-> TRUE, mem |-> m]
      /\ pos > Len(src) => returned = [ok |-> FALSE, mem |-> m0]
=============================================================================
