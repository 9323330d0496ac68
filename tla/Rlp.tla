-------------------------------- MODULE Rlp --------------------------------
(***************************************************************************)
(* The RLP codec (nano/rlp.c) and the serialization of accounts,           *)
(* transactions, headers and receipts (nano/serialize.c) whose hashes are  *)
(* what every Ethereum proof is compared with.                             *)
(*                                                                         *)
(* A byte is a number below Base.  The code's limits are parameters with   *)
(* the same relations: bytes below Single stand for themselves, payloads   *)
(* shorter than Short have a one byte header, longer ones a header that    *)
(* counts at most LenBytes length bytes (0x80, 56 and 8 in the code).      *)
(* Lengths of 2^31 and more, where the shift in rlp_decode leaves the      *)
(* range of int, are not modelled.                                         *)
(***************************************************************************)
EXTENDS Integers, Sequences, FiniteSets, SequencesExt

CONSTANTS Single, Short, LenBytes,
          AddressLen, HashLen, BloomLen   \* 20, 32 and 256 in the code

ListTag == Single + Short + LenBytes
Base == ListTag + Short + LenBytes

Zeros(n) == [i \in 1..n |-> 0]

(* bb_write_long_be: the lowest n bytes of v, the highest first. *)
BigEndian(v, n) == [i \in 1..n |-> (v \div Base^(n - i)) % Base]

(* Mutant: the long form counts its length bytes from Short, not Short - 1. *)
AddLengthOff(len, offset) ==
  IF len < Short THEN <<offset + len>>
  ELSE LET n == CHOOSE k \in 1..LenBytes : len < Base^k /\ \A j \in 1..k - 1 : len >= Base^j
       IN  <<offset + Short + n>> \o BigEndian(len, n)

rlp_add_length(len, offset) ==
  IF len < Short THEN <<offset + len>>
  ELSE LET n == CHOOSE k \in 1..LenBytes : len < Base^k /\ \A j \in 1..k - 1 : len >= Base^j
       IN  <<offset + Short - 1 + n>> \o BigEndian(len, n)

rlp_encode_item(val) ==
  IF Len(val) = 1 /\ val[1] < Single THEN val ELSE rlp_add_length(Len(val), Single) \o val

rlp_encode_list(val) == rlp_add_length(Len(val), ListTag) \o val

(* rlp_encode_to_list and rlp_encode_to_item replace a builder's content.  *)
rlp_encode_to_list(bb) == rlp_add_length(Len(bb), ListTag) \o bb
rlp_encode_to_item(bb) == rlp_encode_item(bb)

(* A byte behind the buffer can be anything; it is only ever part of a     *)
(* length whose payload would start behind the buffer, which ref refuses.  *)
ByteAt(b, i) == IF i < Len(b) THEN b[i + 1] ELSE 0

(* The element whose header is at offset i: kind 1 is an item, 2 a list.   *)
Element(b, i) ==
  LET c == b[i + 1]
      Long(n) == FoldLeftDomain(LAMBDA acc, k : acc * Base + ByteAt(b, i + k), 0, Zeros(n))
  IN  CASE c < Single -> [kind |-> 1, from |-> i, len |-> 1]
        [] c >= Single /\ c < Single + Short -> [kind |-> 1, from |-> i + 1, len |-> c - Single]
        [] c >= Single + Short /\ c < ListTag ->
             LET n == c - (Single + Short - 1) IN [kind |-> 1, from |-> i + 1 + n, len |-> Long(n)]
        [] c >= ListTag /\ c < ListTag + Short -> [kind |-> 2, from |-> i + 1, len |-> c - ListTag]
        [] OTHER -> LET n == c - (ListTag + Short - 1) IN [kind |-> 2, from |-> i + 1 + n, len |-> Long(n)]

(* The loop of rlp_decode: the elements met and the offset it stops at. *)
Elements(b) ==
  LET From[i \in Nat] == IF i >= Len(b) THEN [elems |-> <<>>, end |-> i]
                         ELSE LET e == Element(b, i)
                                  rest == From[e.from + e.len]
                              IN  [elems |-> <<e>> \o rest.elems, end |-> rest.end]
  IN  From[0]

(* Mutant: the end of the referenced range is not checked. *)
RefUnchecked(b, e) == e.kind
ref(b, e) == IF e.from + e.len <= Len(b) THEN e.kind ELSE -1

Slice(b, e) == [k \in 1..(IF e.from + e.len <= Len(b) THEN e.len ELSE 0) |-> b[e.from + k]]

Decoded(b, s, index) ==
  IF index + 1 \in DOMAIN s.elems
  THEN [rc |-> ref(b, s.elems[index + 1]), val |-> Slice(b, s.elems[index + 1])]
  ELSE [rc |-> IF index < 0 THEN (IF s.end = Len(b) THEN Len(s.elems) ELSE -3)
               ELSE IF s.end > Len(b) THEN -1 ELSE 0, val |-> <<>>]

rlp_decode(b, index) == Decoded(b, Elements(b), index)

DecodeInside(list, index) == IF list.rc # 2 THEN [rc |-> 0, val |-> <<>>] ELSE rlp_decode(list.val, index)
rlp_decode_in_list(b, index) == DecodeInside(rlp_decode(b, 0), index)

rlp_decode_len(b) == rlp_decode(b, -1).rc

-----------------------------------------------------------------------------
(* Serialization.  A field is a byte string, or Absent when the JSON has   *)
(* no such property or null.  The kinds are those of serialize.c.          *)
UINT == 0
BYTES == -1
ADDRESS == -AddressLen
HASH == HashLen
BLOOM == BloomLen

Absent == <<-1>>
DropZeros(b) == LET nz == {i \in DOMAIN b : b[i] # 0}
                IN  IF nz = {} THEN <<>> ELSE SubSeq(b, CHOOSE i \in nz : \A j \in nz : i <= j, Len(b))
PadLeft(b, n) == IF Len(b) < n THEN Zeros(n - Len(b)) \o b ELSE b

rlp_add_bytes(b, ml) ==
  LET s == IF ml = UINT THEN DropZeros(b) ELSE b
      w == IF ml < 0 THEN (IF s = <<>> THEN 0 ELSE -ml) ELSE ml
  IN  rlp_encode_item(PadLeft(s, w))

rlp_add(t, ml) == rlp_add_bytes(IF t = Absent THEN <<>> ELSE t, ml)

Concat(ss) == FoldLeft(LAMBDA a, s : a \o s, <<>>, ss)

(* d_getl widens the token itself to the given length before it is read.   *)
GetL(o, f, l) == IF f \notin DOMAIN o \/ o[f] = Absent THEN Absent ELSE PadLeft(o[f], l)
Get(o, f) == IF f \in DOMAIN o THEN o[f] ELSE Absent
GetOr(o, f, g) == IF f \in DOMAIN o THEN o[f] ELSE Get(o, g)

convert_to_typed_list(rlp, type) ==
  (IF type # 0 THEN <<type>> ELSE <<>>) \o rlp_encode_to_list(rlp)

(* An access list: a sequence of entries [address, keys], where pair says    *)
(* that the JSON value is an object of two members, and a key that is not    *)
(* bytes, such as an object, is Absent.  Both loops end at the first         *)
(* element that is something else.                                           *)
UpTo(s, Good(_)) == LET n == SelectInSeq(s, LAMBDA e : ~Good(e)) IN IF n = 0 THEN s ELSE SubSeq(s, 1, n - 1)
AccessKeys(keys) == UpTo(keys, LAMBDA k : k # Absent)
rlp_add_list(al) ==
  LET entry(e) == rlp_encode_list(rlp_add(e.address, ADDRESS)
                    \o rlp_encode_list(Concat([k \in DOMAIN AccessKeys(e.keys) |-> rlp_add(e.keys[k], HASH)])))
      taken == UpTo(al, LAMBDA e : e.pair)
  IN  rlp_encode_list(Concat([i \in DOMAIN taken |-> entry(taken[i])]))

serialize_account(a) ==
  rlp_encode_to_list(rlp_add(Get(a, "nonce"), UINT) \o rlp_add(Get(a, "balance"), UINT)
                       \o rlp_add(GetL(a, "storageHash", HashLen), HASH) \o rlp_add(GetL(a, "codeHash", HashLen), HASH))

(* The price fields that the transaction type puts between nonce and gas. *)
Prices(type) == IF type = 2 THEN <<"maxPriorityFeePerGas", "maxFeePerGas">> ELSE <<"gasPrice">>

(* Mutant: the fee cap of an EIP 1559 transaction is not serialized. *)
SerializeTxNoCap(tx) ==
  convert_to_typed_list(
    (IF tx.type # 0 THEN rlp_add(Get(tx, "chainId"), UINT) ELSE <<>>)
      \o rlp_add(Get(tx, "nonce"), UINT) \o rlp_add(Get(tx, Prices(tx.type)[1]), UINT)
      \o rlp_add(GetOr(tx, "gas", "gasLimit"), UINT) \o rlp_add(GetL(tx, "to", AddressLen), ADDRESS)
      \o rlp_add(Get(tx, "value"), UINT) \o rlp_add(GetOr(tx, "input", "data"), BYTES)
      \o (IF tx.type # 0 THEN rlp_add_list(tx.accessList) ELSE <<>>)
      \o rlp_add(Get(tx, "v"), UINT) \o rlp_add(GetL(tx, "r", HashLen), UINT) \o rlp_add(GetL(tx, "s", HashLen), UINT), tx.type)

serialize_tx(tx) ==
  convert_to_typed_list(
    (IF tx.type # 0 THEN rlp_add(Get(tx, "chainId"), UINT) ELSE <<>>)
      \o rlp_add(Get(tx, "nonce"), UINT)
      \o Concat([i \in DOMAIN Prices(tx.type) |-> rlp_add(Get(tx, Prices(tx.type)[i]), UINT)])
      \o rlp_add(GetOr(tx, "gas", "gasLimit"), UINT) \o rlp_add(GetL(tx, "to", AddressLen), ADDRESS)
      \o rlp_add(Get(tx, "value"), UINT) \o rlp_add(GetOr(tx, "input", "data"), BYTES)
      \o (IF tx.type # 0 THEN rlp_add_list(tx.accessList) ELSE <<>>)
      \o rlp_add(Get(tx, "v"), UINT) \o rlp_add(GetL(tx, "r", HashLen), UINT) \o rlp_add(GetL(tx, "s", HashLen), UINT), tx.type)

(* The transaction as the signer builds it; v = 0 leaves the signature out. *)
serialize_tx_raw(tx, chain_id, v, r, s) ==
  convert_to_typed_list(
    (IF tx.type # 0 THEN rlp_add_bytes(chain_id, UINT) ELSE <<>>)
      \o rlp_add_bytes(tx.nonce, UINT)
      \o Concat([i \in DOMAIN Prices(tx.type) |-> rlp_add_bytes(tx[Prices(tx.type)[i]], UINT)])
      \o rlp_add_bytes(tx.gas, UINT) \o rlp_add_bytes(tx.to, ADDRESS)
      \o rlp_add_bytes(tx.value, UINT) \o rlp_add_bytes(tx.input, BYTES)
      \o (IF tx.type # 0 THEN rlp_add_list(tx.accessList) ELSE <<>>)
      \o (IF DropZeros(v) # <<>> THEN rlp_add_bytes(DropZeros(v), UINT) \o rlp_add_bytes(r, UINT) \o rlp_add_bytes(s, UINT)
          ELSE <<>>), tx.type)

(* A field that may have one of two names is left out when it has neither. *)
AddEither(o, f, g, l, ml) ==
  LET t == IF GetL(o, f, l) # Absent THEN GetL(o, f, l) ELSE GetL(o, g, l)
  IN  IF t = Absent THEN <<>> ELSE rlp_add(t, ml)

serialize_block_header(b) ==
  rlp_encode_to_list(
    rlp_add(GetL(b, "parentHash", HashLen), HASH) \o rlp_add(Get(b, "sha3Uncles"), HASH)
      \o AddEither(b, "miner", "coinbase", AddressLen, ADDRESS)
      \o rlp_add(GetL(b, "stateRoot", HashLen), HASH) \o rlp_add(GetL(b, "transactionsRoot", HashLen), HASH)
      \o AddEither(b, "receiptRoot", "receiptsRoot", HashLen, HASH)
      \o rlp_add(GetL(b, "logsBloom", BloomLen), BLOOM)
      \o rlp_add(Get(b, "difficulty"), UINT) \o rlp_add(Get(b, "number"), UINT)
      \o rlp_add(Get(b, "gasLimit"), UINT) \o rlp_add(Get(b, "gasUsed"), UINT)
      \o rlp_add(Get(b, "timestamp"), UINT) \o rlp_add(Get(b, "extraData"), BYTES)
      \o (IF "sealFields" \in DOMAIN b THEN Concat(b.sealFields)
          ELSE rlp_add(GetL(b, "mixHash", HashLen), HASH) \o rlp_add(Get(b, "nonce"), BYTES))
      \o (IF "baseFeePerGas" \in DOMAIN b /\ DropZeros(b.baseFeePerGas) # <<>>
          THEN rlp_add(b.baseFeePerGas, UINT) ELSE <<>>))

serialize_log(l) ==
  rlp_encode_list(rlp_add(GetL(l, "address", AddressLen), ADDRESS)
                    \o rlp_encode_list(Concat([k \in DOMAIN l.topics |-> rlp_add(l.topics[k], HASH)]))
                    \o rlp_add(Get(l, "data"), BYTES))

serialize_tx_receipt(r) ==
  convert_to_typed_list(
    AddEither([status |-> Get(r, "status"), root |-> GetL(r, "root", HashLen)], "status", "root", 0, UINT)
      \o rlp_add(Get(r, "cumulativeGasUsed"), UINT) \o rlp_add(GetL(r, "logsBloom", BloomLen), BLOOM)
      \o rlp_encode_list(Concat([i \in DOMAIN r.logs |-> serialize_log(r.logs[i])])), r.type)

-----------------------------------------------------------------------------
(* What the codec promises, for one input. *)

(* The elements of an encoded list decode to what was encoded, in order,   *)
(* with their number and kind; a tree is a sequence of [list, bytes].      *)
RoundTrips(tree) ==
  \A body \in {Concat([i \in DOMAIN tree |-> IF tree[i].list THEN rlp_encode_list(tree[i].bytes)
                                            ELSE rlp_encode_item(tree[i].bytes)])} :
  \A enc \in {rlp_encode_to_list(body)} :
      /\ rlp_decode(enc, 0) = [rc |-> 2, val |-> body]
      /\ rlp_decode_len(enc) = 1 /\ rlp_decode_len(body) = Len(tree)
      /\ \A i \in DOMAIN tree : rlp_decode_in_list(enc, i - 1)
                                  = [rc |-> IF tree[i].list THEN 2 ELSE 1, val |-> tree[i].bytes]
      /\ rlp_decode_in_list(enc, Len(tree)).rc = 0

(* Whatever the bytes, what rlp_decode hands out lies inside them, and the *)
(* elements of bytes it accepts as a whole do not overlap.                 *)
StaysInside(b) ==
  \A es \in {Elements(b).elems} :
      /\ \A i \in DOMAIN es : rlp_decode(b, i - 1).rc > 0 => es[i].from + es[i].len <= Len(b)
      /\ rlp_decode_len(b) >= 0 => /\ \A i \in DOMAIN es : rlp_decode(b, i - 1).rc = es[i].kind
                                   /\ \A i \in 2..Len(es) : es[i].from >= es[i - 1].from + es[i - 1].len

(* Two numbers are serialized alike exactly when they are equal, whatever  *)
(* zeros the JSON wrote in front of them.                                  *)
NumbersAreCanonical(a, b) == (rlp_add(a, UINT) = rlp_add(b, UINT)) <=> DropZeros(a) = DropZeros(b)

(* The value of a field as the chain sees it. *)
Norm(v, ml) == IF ml = UINT THEN DropZeros(IF v = Absent THEN <<>> ELSE v)
               ELSE LET b == IF v = Absent THEN <<>> ELSE v
                    IN  PadLeft(b, IF ml < 0 THEN (IF b = <<>> THEN 0 ELSE -ml) ELSE ml)

(* A hash binds the field: exchanging one field for a different value      *)
(* changes the serialization.                                              *)
Binds(Ser(_), o, f, ml, v) == Norm(v, ml) # Norm(Get(o, f), ml) => Ser([o EXCEPT ![f] = v]) # Ser(o)

TxKinds(type) == [chainId |-> UINT, nonce |-> UINT, gasPrice |-> UINT, maxPriorityFeePerGas |-> UINT,
                  maxFeePerGas |-> UINT, gas |-> UINT, to |-> ADDRESS, value |-> UINT, input |-> BYTES,
                  v |-> UINT, r |-> UINT, s |-> UINT]
TxFields(type) == {"nonce", "gas", "to", "value", "input", "v", "r", "s"} \cup ToSet(Prices(type))
                    \cup (IF type = 0 THEN {} ELSE {"chainId"})

(* Every signed field of a transaction is bound by its hash, an access     *)
(* list whose entries are all well formed too, and the bytes the signer    *)
(* builds are the ones the verifier hashes.                                *)
ListBinds(tx, al) ==
  LET whole(l) == \A i \in DOMAIN l : l[i].pair /\ AccessKeys(l[i].keys) = l[i].keys
  IN  tx.type # 0 /\ whole(al) /\ whole(tx.accessList) /\ al # tx.accessList =>
        serialize_tx([tx EXCEPT !.accessList = al]) # serialize_tx(tx)
TxBinds(tx, f, v) ==
  /\ f \in TxFields(tx.type) => Binds(serialize_tx, tx, f, TxKinds(tx.type)[f], v)
  /\ DropZeros(tx.v) # <<>> =>
       serialize_tx_raw([tx EXCEPT !.to = IF @ = Absent THEN <<>> ELSE @], tx.chainId, tx.v, tx.r, tx.s) = serialize_tx(tx)

(* Every field of a header is bound by the block hash. *)
HeaderKinds == [parentHash |-> HASH, sha3Uncles |-> HASH, miner |-> ADDRESS, stateRoot |-> HASH,
                transactionsRoot |-> HASH, receiptsRoot |-> HASH, logsBloom |-> BLOOM, difficulty |-> UINT,
                number |-> UINT, gasLimit |-> UINT, gasUsed |-> UINT, timestamp |-> UINT, extraData |-> BYTES,
                mixHash |-> HASH, nonce |-> BYTES, baseFeePerGas |-> UINT]
HeaderBinds(b, f, v) == Binds(serialize_block_header, b, f, HeaderKinds[f], v)

(* The status, gas and bloom of a receipt and its logs are bound by the receipt root. *)
ReceiptBinds(r, s) == serialize_tx_receipt(r) = serialize_tx_receipt(s) =>
  /\ r.type = s.type /\ r.logs = s.logs /\ Norm(r.cumulativeGasUsed, UINT) = Norm(s.cumulativeGasUsed, UINT)
  /\ Norm(Get(r, "status"), UINT) = Norm(Get(s, "status"), UINT) \/ Get(r, "status") = Absent \/ Get(s, "status") = Absent
=============================================================================
