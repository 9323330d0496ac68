-------------------------------- MODULE BtcTx --------------------------------
(***************************************************************************)
(* Serialised bitcoin transactions: btc_types.c and btc_serialize.c.  The  *)
(* widths are constants, so that each of them can be crossed by short      *)
(* inputs.  A position is 0-based, as a pointer is; the memory m may go on *)
(* behind the transaction, which is what a read behind its end meets.      *)
(***************************************************************************)
EXTENDS Integers, Sequences, SequencesExt, Bitwise

CONSTANTS Base,       \* values of a byte; the last three are prefixes of a varint
          ShortLen,   \* 2: bytes behind 0xfd
          IntLen,     \* 4: version, index, sequence, lock time, behind 0xfe
          LongLen,    \* 8: an amount, behind 0xff
          TxHashLen,  \* 32
          HeaderLen,  \* 80: the header of a block
          LenLimit    \* 2^32: lengths and sizes are kept in 32 bits

Bad == -1             \* NULL, IN3_EINVAL

At(m, p) == IF p + 1 \in DOMAIN m THEN m[p + 1] ELSE 0
Slice(m, p, len) == [i \in 1..(IF len > 0 THEN len ELSE 0) |-> At(m, p + i - 1)]

-----------------------------------------------------------------------------
(* Numbers. *)

LittleEndian(m, p, len) == FoldLeft(LAMBDA v, i : v + At(m, p + i) * Base^i, 0, [i \in 1..len |-> i - 1])
le_to_int(m, p) == LittleEndian(m, p, IntLen)

(* le_to_long: the bytes from the fourth on are all shifted by 24. *)
le_to_long(m, p) ==
  LittleEndian(m, p, IntLen - 1)
    + Base^(IntLen - 1) * FoldLeft(LAMBDA v, i : v | At(m, p + i), 0, [i \in 1..LongLen - IntLen + 1 |-> IntLen + i - 2])

(* decode_var_int: how many bytes there are, and the number they stand for. *)
decode_var_int(m, p) ==
  CASE At(m, p) = Base - 3 -> [size |-> 1 + ShortLen, val |-> LittleEndian(m, p + 1, ShortLen)]
    [] At(m, p) = Base - 2 -> [size |-> 1 + IntLen, val |-> le_to_int(m, p + 1)]
    [] At(m, p) = Base - 1 -> [size |-> 1 + LongLen, val |-> le_to_long(m, p + 1)]
    [] OTHER -> [size |-> 1, val |-> At(m, p)]

get_compact_uint_size(n) ==
  IF n >= Base^IntLen THEN 1 + LongLen ELSE IF n >= Base^ShortLen THEN 1 + IntLen ELSE IF n > Base - 4 THEN 1 + ShortLen ELSE 1

-----------------------------------------------------------------------------
(* Parsing. *)

(* The end of a script with its length in front of it. *)
ScriptEnd(m, p) == p + decode_var_int(m, p).size + decode_var_int(m, p).val

(* btc_parse_tx_in: where the next input starts. *)
btc_parse_tx_in(m, p, limit) ==
  LET end == ScriptEnd(m, p + TxHashLen + IntLen) + IntLen
  IN  IF end > limit THEN Bad ELSE end

btc_parse_tx_out(m, p) == ScriptEnd(m, p + LongLen)

btc_is_witness(m) == At(m, IntLen) = 0 /\ At(m, IntLen + 1) = 1

(* A loop over n elements; none of them is empty, so that it is over when the *)
(* bytes are.                                                                 *)
Loop(Step(_), p, n, limit) ==
  FoldLeft(LAMBDA q, i : IF q = Bad THEN Bad ELSE Step(q), p, [i \in 1..(IF n < limit THEN n ELSE limit) |-> i])

ParseInputs(m, p, n, end) ==
  Loop(LAMBDA q : LET r == btc_parse_tx_in(m, q, end) IN IF r >= end THEN Bad ELSE r, p, n, end)
ParseOutputs(m, p, n, end) ==
  Loop(LAMBDA q : LET r == btc_parse_tx_out(m, q) IN IF r > end THEN Bad ELSE r, p, n, end)

(* btc_parse_tx of the first len bytes of the memory.  Bad fields stand for *)
(* the early returns; without outputs the end is not checked.               *)
Parsed(flag, nin, ins, insEnd, nout, outs, outsEnd) ==
  [flag |-> flag, input_count |-> nin, input |-> ins, inputEnd |-> insEnd,
   output_count |-> nout, output |-> outs, outputEnd |-> outsEnd]
Failed == Parsed(FALSE, 0, 0, Bad, 0, 0, Bad)

WithOutputs(m, len, flag, v, ins, insEnd, w) ==
  Parsed(flag, v.val, ins, insEnd, w.val, insEnd + w.size, ParseOutputs(m, insEnd + w.size, w.val, len))
WithInputs(m, len, flag, v, ins, insEnd) ==
  IF insEnd = Bad THEN Failed ELSE WithOutputs(m, len, flag, v, ins, insEnd, decode_var_int(m, insEnd))
FromCount(m, len, flag, start, v) ==
  IF start + v.size >= len THEN Failed
  ELSE WithInputs(m, len, flag, v, start + v.size, ParseInputs(m, start + v.size, v.val, len))
FromStart(m, len, flag, start) == FromCount(m, len, flag, start, decode_var_int(m, start))
btc_parse_tx(m, len) == FromStart(m, len, btc_is_witness(m), IntLen + IF btc_is_witness(m) THEN 2 ELSE 0)

Accepted(t) == t.outputEnd # Bad

(* Outputs that leave no room for the lock time make it negative, which is    *)
(* almost 2^32.                                                               *)
WitnessLen(t, len) == (len - IntLen - t.outputEnd) % LenLimit

(* btc_get_raw_tx_size, btc_weight, btc_vsize. *)
btc_get_raw_tx_size(t, len) ==
  (IntLen + (IF t.flag THEN 2 + WitnessLen(t, len) ELSE 0) + get_compact_uint_size(t.input_count) + t.inputEnd - t.input
     + get_compact_uint_size(t.output_count) + t.outputEnd - t.output + IntLen) % LenLimit
btc_weight(t, len) ==
  (IF WitnessLen(t, len) # 0 THEN (len - WitnessLen(t, len) - 2) * 3 + len ELSE len * 4) % LenLimit
btc_vsize(t, len) == LET w == btc_weight(t, len) IN IF w % 4 # 0 THEN (w + 4) \div 4 ELSE w \div 4

(* Mutant: the marker and the flag are part of the id. *)
IdWithMarker(m, len, t) == Slice(m, 0, t.outputEnd) \o Slice(m, len - IntLen, IntLen)

(* btc_tx_id: the bytes whose hash is the id, those without marker and witnesses. *)
btc_tx_id(m, len, t) ==
  LET start == IntLen + IF t.flag THEN 2 ELSE 0
  IN  Slice(m, 0, IntLen) \o Slice(m, start, t.outputEnd - start) \o Slice(m, len - IntLen, IntLen)

-----------------------------------------------------------------------------
(* Transactions in a block. *)

btc_get_txinput(m, p) == ScriptEnd(m, p + TxHashLen + IntLen) + IntLen
btc_get_txoutput(m, p) == ScriptEnd(m, p + LongLen)

(* btc_get_transaction_end: it has no limit, the block is what it is. *)
Witnesses(m, p, n) ==
  Loop(LAMBDA q : LET v == decode_var_int(m, q)
                  IN  Loop(LAMBDA r : ScriptEnd(m, r), q + v.size, v.val, Len(m)), p, n, Len(m))
OutputsEnd(m, p) == LET v == decode_var_int(m, p) IN Loop(LAMBDA q : btc_get_txoutput(m, q), p + v.size, v.val, Len(m))
InputsEnd(m, p, v) == Loop(LAMBDA q : btc_get_txinput(m, q), p + v.size, v.val, Len(m))
EndOf(m, p, witness, v) ==
  Witnesses(m, OutputsEnd(m, InputsEnd(m, p, v)), IF witness THEN v.val ELSE 0) + IntLen
AfterMarker(m, p, witness, q) == EndOf(m, q, witness, decode_var_int(m, q))
(* Mutant: the witnesses are skipped as if there were one for the transaction. *)
OneWitness(m, p) ==
  LET witness == At(m, p + IntLen) = 0 /\ At(m, p + IntLen + 1) = 1
      q == p + IntLen + IF witness THEN 2 ELSE 0
  IN  Witnesses(m, OutputsEnd(m, InputsEnd(m, q, decode_var_int(m, q))), IF witness THEN 1 ELSE 0) + IntLen
btc_get_transaction_end(m, p) ==
  LET witness == At(m, p + IntLen) = 0 /\ At(m, p + IntLen + 1) = 1
  IN  AfterMarker(m, p, witness, p + IntLen + IF witness THEN 2 ELSE 0)

(* btc_get_transactions: where each of them starts, and where the last ends. *)
btc_get_transactions(m) ==
  LET v == decode_var_int(m, HeaderLen)
  IN  FoldLeft(LAMBDA ps, i : Append(ps, btc_get_transaction_end(m, ps[Len(ps)])), <<HeaderLen + v.size>>, [i \in 1..v.val |-> i])

-----------------------------------------------------------------------------
(* Reference: how the network serialises a transaction. *)

Bytes(n, len) == [i \in 1..len |-> (n \div Base^(i - 1)) % Base]
VarInt(n) ==
  CASE n <= Base - 4 -> <<n>>
    [] n > Base - 4 /\ n < Base^ShortLen -> <<Base - 3>> \o Bytes(n, ShortLen)
    [] OTHER -> <<Base - 2>> \o Bytes(n, IntLen)
Prefixed(s) == VarInt(Len(s)) \o s
All(Encode(_), ss) == FoldLeft(LAMBDA acc, s : acc \o Encode(s), <<>>, ss)
Inputs(t) == All(LAMBDA s : Bytes(1, TxHashLen) \o Bytes(2, IntLen) \o Prefixed(s) \o Bytes(3, IntLen), t.ins)
Outputs(t) == All(LAMBDA s : Bytes(Base + 1, LongLen) \o Prefixed(s), t.outs)
Stripped(t) ==
  Bytes(1, IntLen) \o VarInt(Len(t.ins)) \o Inputs(t) \o VarInt(Len(t.outs)) \o Outputs(t) \o Bytes(t.lock, IntLen)
WitnessBytes(t) == All(LAMBDA w : VarInt(Len(w)) \o All(Prefixed, w), t.wits)
Encoded(t) ==
  IF t.wits = <<>> THEN Stripped(t)
  ELSE Bytes(1, IntLen) \o <<0, 1>> \o SubSeq(Stripped(t), IntLen + 1, Len(Stripped(t)) - IntLen)
         \o WitnessBytes(t) \o Bytes(t.lock, IntLen)

(* btc_parse_tx, btc_tx_id, btc_weight: of a transaction in the network's own *)
(* form the counts, the regions, the id, the weight and the sizes are its     *)
(* own, on both sides of every limit of the length encoding.                  *)
ReadsTransaction(t) ==
  \A m \in {Encoded(t)} : \A p \in {btc_parse_tx(m, Len(m))} :
    /\ Accepted(p)
    /\ p.flag = (t.wits # <<>>) /\ p.input_count = Len(t.ins) /\ p.output_count = Len(t.outs)
    /\ Slice(m, p.input, p.inputEnd - p.input) = Inputs(t)
    /\ Slice(m, p.output, p.outputEnd - p.output) = Outputs(t)
    /\ Slice(m, p.outputEnd, WitnessLen(p, Len(m))) = WitnessBytes(t)
    /\ btc_tx_id(m, Len(m), p) = Stripped(t)
    /\ btc_get_raw_tx_size(p, Len(m)) = Len(m)
    /\ btc_weight(p, Len(m)) = 3 * Len(Stripped(t)) + Len(m)
    /\ 4 * btc_vsize(p, Len(m)) - btc_weight(p, Len(m)) \in 0..3

(* btc_get_transactions: the transactions of a block are found one behind the *)
(* other, with and without witnesses.                                         *)
SplitsBlock(ts) ==
  btc_get_transactions([i \in 1..HeaderLen |-> 0] \o VarInt(Len(ts)) \o All(Encoded, ts))
    = FoldLeft(LAMBDA ps, t : Append(ps, ps[Len(ps)] + Len(Encoded(t))), <<HeaderLen + Len(VarInt(Len(ts)))>>, ts)

(* Bytes that a node may send instead: one of them changed, dropped or put in. *)
Altered(m) ==
  {[m EXCEPT ![i] = b] : i \in DOMAIN m, b \in 0..Base - 1}
    \cup {SubSeq(m, 1, i - 1) \o SubSeq(m, i + 1, Len(m)) : i \in DOMAIN m}
    \cup {SubSeq(m, 1, i) \o <<b>> \o SubSeq(m, i + 1, Len(m)) : i \in DOMAIN m, b \in {0, 1, Base - 1}}

(* Where the parser stays inside; a transaction without outputs does not, nor *)
(* do the witnesses when the outputs reach into the lock time.                *)
Inside(p, len) == Accepted(p) =>
  /\ p.input <= p.inputEnd /\ p.inputEnd < len
  /\ p.output_count > 0 => p.inputEnd < p.output /\ p.output <= p.outputEnd /\ p.outputEnd <= len
  /\ p.outputEnd + IntLen <= len => p.outputEnd + WitnessLen(p, len) + IntLen = len

(* btc_parse_tx: whatever the bytes, and whatever lies behind them, inputs    *)
(* and outputs that were accepted are inside of them; and two of them with    *)
(* the same id have the same inputs and outputs.                              *)
IdBinds(t, tail) ==
  \A D \in {{<<d, btc_parse_tx(d \o tail, Len(d))>> : d \in Altered(Encoded(t))}} :
    /\ \A e \in D : Inside(e[2], Len(e[1]))
    /\ \A S \in {{<<btc_tx_id(e[1] \o tail, Len(e[1]), e[2]), Slice(e[1] \o tail, e[2].input, e[2].inputEnd - e[2].input),
                    e[2].output_count, Slice(e[1] \o tail, e[2].output, e[2].outputEnd - e[2].output)>> :
                    e \in {f \in D : Accepted(f[2])}}} :
         Cardinality({s[1] : s \in S}) = Cardinality(S)
=============================================================================
