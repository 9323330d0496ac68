-------------------------------- MODULE Abi --------------------------------
(***************************************************************************)
(* abi_parse.c, abi_encode.c, abi_decode.c: signatures, and the values of  *)
(* a call.  A coder is a tuple <<type, ...>>, a value a token <<type, v>>. *)
(* A word has Word bytes of Base values each, an int uses IntLen of them,  *)
(* a long LongLen, an address AddrLen.  IntLimit stands for the 28 bits a  *)
(* token has for a number, DecLimit for the numbers of 19 digits, the      *)
(* first a text of 18 characters cannot hold.                              *)
(***************************************************************************)
EXTENDS Integers, Sequences, SequencesExt

CONSTANTS Word, Base, IntLen, LongLen, AddrLen, IntLimit, DecLimit

Address == <<"address">>
Bool == <<"bool">>
String == <<"string">>
Bytes == <<"bytes">>
FixedBytes(len) == <<"fixed", len>>
Number(sign, size) == <<"number", sign, size>>   \* size in bytes
Array(el, len) == <<"array", el, len>>           \* 0: of any length
Event(cs, indexed) == <<"tuple", cs, indexed>>   \* indexed: those found in the topics
Struct(cs) == Event(cs, {})

-----------------------------------------------------------------------------
(* Signatures.  A text is a sequence of tokens: a type name, which is the     *)
(* coder create_coder makes of it or <<"bad">>, a dimension, or a character.  *)

Tok(s) == <<"char", s>>
Dim(n) == <<"dim", n>>
IsType(t) == t[1] \notin {"char", "dim"}

RECURSIVE add_fn_sig(_)
(* What is hashed for the arguments of a function. *)
add_fn_sig(c) ==
  CASE c[1] = "tuple" -> <<Tok("(")>> \o
         FoldLeftDomain(LAMBDA s, i : s \o (IF i = 1 THEN <<>> ELSE <<Tok(",")>>) \o add_fn_sig(c[2][i]), <<>>, c[2]) \o <<Tok(")")>>
    [] c[1] = "array" -> Append(add_fn_sig(c[2]), Dim(c[3]))
    [] OTHER -> <<c>>

Failed == [c |-> <<"none">>, at |-> 0, ok |-> FALSE]
At(text, k) == IF k <= Len(text) THEN text[k] ELSE Tok("")

(* Mutant: only the first dimension of an array is read. *)
OneDimension(text, i, el) == [c |-> Array(el, text[i][2]), at |-> i]

RECURSIVE create_array(_, _, _)
(* The dimensions from i on, the last one outside. *)
create_array(text, i, el) ==
  IF At(text, i + 1)[1] = "dim" THEN create_array(text, i + 1, Array(el, text[i][2]))
  ELSE [c |-> Array(el, text[i][2]), at |-> i]

RECURSIVE Components(_, _, _, _, _)

(* What follows a type: its dimensions, or one character that is skipped      *)
(* unless it ends the tuple.                                                  *)
AfterType(text, k, c) ==
  CASE At(text, k)[1] = "dim" -> LET a == create_array(text, k, c) IN [c |-> a.c, at |-> a.at + 1]
    [] At(text, k) \in {Tok(")"), Tok("")} -> [c |-> c, at |-> k]
    [] OTHER -> [c |-> c, at |-> k + 1]

(* t is the tuple read so far, from i on; ix: the next one is indexed. *)
WithType(text, a, braces, t, ix) ==
  Components(text, a.at, braces, Event(Append(t[2], a.c), IF ix THEN t[3] \cup {Len(t[2]) + 1} ELSE t[3]), FALSE)

(* The loop of create_tuple; `at` is where it stopped. *)
Components(text, i, braces, t, ix) ==
  CASE At(text, i) \in {Tok(")"), Tok("")} ->
         IF (At(text, i) = Tok(")")) = braces THEN [c |-> t, at |-> i, ok |-> TRUE] ELSE Failed
    [] At(text, i) = Tok("indexed") -> Components(text, i + 1, braces, t, TRUE)
    [] At(text, i) = Tok("(") ->
         LET inner == Components(text, i + 1, TRUE, Struct(<<>>), FALSE)
         IN  IF inner.ok THEN WithType(text, AfterType(text, inner.at + 1, inner.c), braces, t, ix) ELSE Failed
    [] IsType(At(text, i)) ->
         IF At(text, i) = <<"bad">> THEN Failed ELSE WithType(text, AfterType(text, i + 1, At(text, i)), braces, t, ix)
    [] At(text, i) \in {Tok(","), Tok(" ")} -> Components(text, i + 1, braces, t, ix)
    [] OTHER -> Failed

create_tuple(text, i) ==
  IF At(text, i) = Tok("(") THEN Components(text, i + 1, TRUE, Struct(<<>>), FALSE)
  ELSE Components(text, i, FALSE, Struct(<<>>), FALSE)

FirstAt(text, t) ==
  IF \E i \in DOMAIN text : text[i] = t THEN CHOOSE i \in DOMAIN text : text[i] = t /\ \A j \in 1..(i - 1) : text[j] # t ELSE 0

(* Only a signature with a name has a hash; values without braces are no      *)
(* tuple.                                                                     *)
SigOf(text, start, out, input, output) ==
  [ok |-> input.ok /\ output.ok, input |-> input.c, output |-> output.c,
   tuple |-> At(text, IF out > 0 THEN out ELSE start) = Tok("("),
   hash |-> IF start = 1 THEN <<>> ELSE SubSeq(text, 1, start - 1) \o add_fn_sig(input.c)]
SigAt(text, start, out, input) == SigOf(text, start, out, input, IF out > 0 THEN create_tuple(text, out) ELSE input)
SigFrom(text, start, out) == SigAt(text, start, out, create_tuple(text, start))

(* The input begins at the first brace, the output behind a colon. *)
abi_sig_create(text) ==
  LET brace == FirstAt(text, Tok("("))
      colon == FirstAt(text, Tok(":"))
  IN  SigFrom(text, IF brace = 0 THEN 1 ELSE brace, IF colon > 0 /\ colon < Len(text) THEN colon + 1 ELSE 0)

-----------------------------------------------------------------------------
RECURSIVE abi_is_dynamic(_)
abi_is_dynamic(c) ==
  CASE c[1] \in {"string", "bytes"} -> TRUE
    [] c[1] = "array" -> c[3] = 0 \/ abi_is_dynamic(c[2])
    [] c[1] = "tuple" -> \E i \in DOMAIN c[2] : abi_is_dynamic(c[2][i])
    [] OTHER -> FALSE

Zeros(n) == [i \in 1..n |-> 0]
Ones(n) == [i \in 1..n |-> Base - 1]
BytesOf(v, n) == [i \in 1..n |-> (v \div Base^(n - i)) % Base]
NumOf(b) == FoldLeft(LAMBDA a, d : a * Base + d, 0, b)
MinLen(v) == CHOOSE n \in 1..Word : v < Base^n /\ \A k \in 1..n - 1 : v >= Base^k
LastOf(b, n) == SubSeq(b, Len(b) - n + 1, Len(b))
PadLeft(b, n) == IF Len(b) < n THEN Zeros(n - Len(b)) \o b ELSE LastOf(b, n)
PadRight(b, n) == IF Len(b) < n THEN b \o Zeros(n - Len(b)) ELSE SubSeq(b, 1, n)
WholeWords(n) == ((n + Word - 1) \div Word) * Word

(* What an int keeps of a number. *)
Half == Base^IntLen \div 2
Wrapped(n) == ((n + Half) % (2 * Half)) - Half

(* int_to_bytes into the last bytes of a word *)
int_to_bytes(v) == Zeros(Word - IntLen) \o BytesOf(v, IntLen)

(* d_bytes of a token *)
d_bytes(v) == CASE v[1] \in {"bytes", "str"} -> v[2]
                [] v[1] \in {"int", "bool"} -> BytesOf(v[2], MinLen(v[2]))
                [] OTHER -> <<>>

Ok(b) == [ok |-> TRUE, b |-> b]
EncodeError == [ok |-> FALSE, b |-> <<>>]

(* Mutant: the sign is not extended. *)
EncodeUnsigned(c, v) == Ok(PadLeft(d_bytes(v), Word))

(* A text of more than 18 characters, the sign included, is refused. *)
TooBig(v) == v[1] = "dec" /\ (v[2] >= DecLimit \/ v[2] <= -(DecLimit \div 10))

(* ABI_NUMBER: a string is a decimal number, anything else is cut or filled   *)
(* up; then the sign is extended.                                             *)
EncodeNumber(c, v) ==
  LET data == IF v[1] = "dec"
              THEN LastOf((IF v[2] < 0 THEN Ones(Word - LongLen) ELSE Zeros(Word - LongLen)) \o BytesOf(v[2] % Base^LongLen, LongLen), c[3])
              ELSE PadLeft(d_bytes(v), c[3])
  IN  IF TooBig(v) THEN EncodeError
      ELSE Ok((IF c[2] /\ data[1] >= Base \div 2 THEN Ones(Word - c[3]) ELSE Zeros(Word - c[3])) \o data)

(* ABI_STRING, ABI_BYTES: the length, and the data filled up to whole words. *)
EncodeBytes(b) == int_to_bytes(Len(b)) \o PadRight(b, WholeWords(Len(b)))

AllOk(parts) == \A i \in DOMAIN parts : parts[i].ok
Joined(parts) == FoldLeft(LAMBDA s, p : s \o p.b, <<>>, parts)

(* Mutant: offsets are counted from the length of the array. *)
OffsetsFromLength(dynamic, parts) ==
  LET Offset(s, p) == [heads |-> s.heads \o int_to_bytes(Word + Word * Len(parts) + s.len), len |-> s.len + Len(p.b)]
  IN  IF dynamic THEN FoldLeft(Offset, [heads |-> <<>>, len |-> 0], parts).heads ELSE <<>>

(* ABI_ARRAY: dynamic elements are behind their offsets, which are counted    *)
(* from the first of them.                                                    *)
ElementOffsets(dynamic, parts) ==
  LET Offset(s, p) == [heads |-> s.heads \o int_to_bytes(Word * Len(parts) + s.len), len |-> s.len + Len(p.b)]
  IN  IF dynamic THEN FoldLeft(Offset, [heads |-> <<>>, len |-> 0], parts).heads ELSE <<>>

(* Static values and the offsets of the dynamic ones, then those; an offset   *)
(* is corrected by the length of the static part when that is known.          *)
encode_tuple(dynamic, parts) ==
  LET static == FoldLeftDomain(LAMBDA n, i : n + (IF dynamic[i] THEN Word ELSE Len(parts[i].b)), 0, parts)
      Part(s, i) == IF dynamic[i] THEN [s |-> s.s \o int_to_bytes(static + Len(s.d)), d |-> s.d \o parts[i].b]
                    ELSE [s EXCEPT !.s = @ \o parts[i].b]
      all == FoldLeftDomain(Part, [s |-> <<>>, d |-> <<>>], parts)
  IN  IF AllOk(parts) THEN Ok(all.s \o all.d) ELSE EncodeError

DynamicOf(cs) == [i \in DOMAIN cs |-> abi_is_dynamic(cs[i])]
ElementsOf(v) == IF v[1] = "arr" THEN v[2] ELSE <<v>>

EncodeArray(c, n, parts) ==
  IF ~AllOk(parts) \/ (c[3] # 0 /\ n # c[3]) THEN EncodeError
  ELSE Ok((IF c[3] = 0 THEN int_to_bytes(n) ELSE <<>>) \o ElementOffsets(abi_is_dynamic(c[2]), parts) \o Joined(parts))

EncodeParts(c, n, parts) == IF c[1] = "array" THEN EncodeArray(c, n, parts) ELSE encode_tuple(DynamicOf(c[2]), parts)

RECURSIVE encode_value(_, _)
encode_value(c, v) ==
  CASE c[1] = "address" -> IF Len(d_bytes(v)) = AddrLen THEN Ok(PadLeft(d_bytes(v), Word)) ELSE EncodeError
    [] c[1] = "bool" -> IF v[1] \in {"bool", "int"} THEN Ok(PadLeft(<<v[2] % Base>>, Word)) ELSE EncodeError
    [] c[1] = "fixed" -> IF Len(d_bytes(v)) > Word THEN EncodeError
                         ELSE Ok(PadRight(IF Len(d_bytes(v)) > c[2] THEN SubSeq(d_bytes(v), 1, c[2]) ELSE d_bytes(v), Word))
    [] c[1] = "number" -> EncodeNumber(c, v)
    [] c[1] \in {"string", "bytes"} -> IF v[1] \in {"str", "bytes", "int"} THEN Ok(EncodeBytes(d_bytes(v))) ELSE EncodeError
    [] c[1] = "array" /\ v[1] # "arr" -> EncodeError
    [] c[1] = "tuple" /\ Len(ElementsOf(v)) # Len(c[2]) -> EncodeError
    [] OTHER ->
         EncodeParts(c, Len(ElementsOf(v)),
           [i \in DOMAIN ElementsOf(v) |-> encode_value(IF c[1] = "array" THEN c[2] ELSE c[2][i], ElementsOf(v)[i])])

(* The hash of the function, if it has a name, and its arguments. *)
WithHash(sig, r) == [ok |-> r.ok, hash |-> IF r.ok THEN sig.hash ELSE <<>>, b |-> r.b]
abi_encode(sig, v) == WithHash(sig, encode_value(sig.input, v))

-----------------------------------------------------------------------------
(* Decoding reads a slice of the data d: from `at` on, len bytes. *)
Err(e) == [ok |-> FALSE, outside |-> FALSE, v |-> <<"error">>, pos |-> 0, e |-> e]
Outside == [Err("outside") EXCEPT !.outside = TRUE]
Val(v, pos) == [ok |-> TRUE, outside |-> FALSE, v |-> v, pos |-> pos, e |-> ""]

(* next_word *)
next_word(len, pos) == pos + Word <= len
WordAt(d, at) == SubSeq(d, at + 1, at + Word)
IntAt(d, at) == Wrapped(NumOf(LastOf(WordAt(d, at), IntLen)))

(* Leading zeros are left out. *)
Optimized(r) ==
  IF \E i \in DOMAIN r : r[i] # 0 THEN SubSeq(r, CHOOSE i \in DOMAIN r : r[i] # 0 /\ \A j \in 1..i - 1 : r[j] = 0, Len(r)) ELSE <<0>>

(* The type of a token is above the 28 bits of its number: a larger number    *)
(* is or-ed into it, up to the one from which on bytes are kept instead.      *)
json_create_int(v) ==
  CASE v > 15 * IntLimit -> <<"bytes", BytesOf(v, MinLen(v))>>
    [] v <= 15 * IntLimit /\ (v \div IntLimit) \in {0, 1, 4, 5} -> <<"int", v % IntLimit>>
    [] OTHER -> <<"broken", <<>>>>

(* A negative number that fits a machine word becomes a text. *)
DecodeNumber(c, w) ==
  LET r == LastOf(w, c[3])
  IN  IF c[3] > LongLen THEN <<"bytes", Optimized(r)>>
      ELSE IF c[2] /\ r[1] >= Base \div 2 THEN <<"dec", NumOf(r) - Base^c[3]>>
      ELSE json_create_int(NumOf(LastOf(w, LongLen)))

BytesAt(c, d, from, n) ==
  IF n < 0 \/ from + n > Len(d) THEN Outside
  ELSE Val(<<IF c[1] = "string" THEN "str" ELSE "bytes", SubSeq(d, from + 1, from + n)>>, Word)

(* Mutant: the words behind the length are not checked. *)
BytesUnchecked(c, d, at, len) == BytesAt(c, d, at + Word, IntAt(d, at))

(* The length is an int, and so is what is computed from it: one above Half   *)
(* is negative, one near it overflows, and both pass the check.               *)
DecodeBytes(c, d, at, len) ==
  LET up == Wrapped(IntAt(d, at) + Word - 1)
      wl == (IF up < 0 THEN -((-up) \div Word) ELSE up \div Word) * Word
  IN  IF len < Wrapped(wl + Word) THEN Err("out of data when reading bytes")
      ELSE BytesAt(c, d, at + Word, IntAt(d, at))

(* All that is in one word, or behind one. *)
DecodeLeaf(c, d, at, len) ==
  IF ~next_word(len, 0) THEN Err("reached end of data")
  ELSE IF at + Word > Len(d) THEN Outside
  ELSE CASE c[1] = "address" -> Val(<<"bytes", LastOf(WordAt(d, at), AddrLen)>>, Word)
         [] c[1] = "fixed" -> Val(<<"bytes", SubSeq(WordAt(d, at), 1, c[2])>>, Word)
         [] c[1] = "bool" -> Val(<<"bool", IF d[at + Word] # 0 THEN 1 ELSE 0>>, Word)
         [] c[1] = "number" -> Val(DecodeNumber(c, WordAt(d, at)), Word)
         [] OTHER -> DecodeBytes(c, d, at, len)

(* The elements of an array (base: behind its length, where offsets are       *)
(* counted from) and the components of a tuple (base 0).  Each takes a word   *)
(* of the data, so the loop has failed one element behind them.               *)
LengthOf(c, d, at) == IF c[3] = 0 THEN IntAt(d, at) ELSE c[3]
Items(c, d, at) ==
  IF c[1] = "tuple" THEN c[2]
  ELSE [i \in 1..(IF LengthOf(c, d, at) <= Len(d) THEN LengthOf(c, d, at) ELSE Len(d) + 1) |-> c[2]]
BaseOf(c) == IF c[1] = "array" /\ c[3] = 0 THEN Word ELSE 0

ItemError(c, e, d, at, len, pos) ==
  CASE (c[1] = "tuple" \/ abi_is_dynamic(e)) /\ ~next_word(len, pos) -> "reached end of data"
    [] c[1] = "tuple" /\ abi_is_dynamic(e) /\ Wrapped(IntAt(d, at + pos) + Word) > len -> "invalid offset"
    [] OTHER -> ""

WithItem(s, width, r) == IF r.ok THEN Val(Append(s.v, r.v), s.pos + (IF width >= 0 THEN width ELSE r.pos)) ELSE r

RECURSIVE decode_value(_, _, _, _, _)

(* An indexed component is a word of the topics, the first of which is the    *)
(* hash of the signature.                                                     *)
FromTopics(c, topics, s, i, e) ==
  LET topic == Cardinality({j \in c[3] : j <= i}) + 1
  IN  IF topic > Len(topics) THEN Err("topics are too short")
      ELSE WithItem(s, 0, decode_value(e, topics[topic], 0, Word, <<>>))

(* The slice from `start` on, which may be before the data. *)
DecodeFrom(e, d, at, len, start) ==
  IF at + start < 0 /\ next_word(Wrapped(len - start), 0) THEN Outside
  ELSE decode_value(e, d, at + start, Wrapped(len - start), <<>>)

(* An item starts where the last one ended, or where its offset says. *)
DecodeItem(c, d, at, len, topics, s, i, e) ==
  CASE ~s.ok -> s
    [] s.ok /\ c[1] = "tuple" /\ i \in c[3] -> FromTopics(c, topics, s, i, e)
    [] OTHER ->
         IF ItemError(c, e, d, at, len, s.pos) # "" THEN Err(ItemError(c, e, d, at, len, s.pos))
         ELSE WithItem(s, IF abi_is_dynamic(e) THEN Word ELSE -1,
                DecodeFrom(e, d, at, len, IF abi_is_dynamic(e) THEN Wrapped(BaseOf(c) + IntAt(d, at + s.pos)) ELSE s.pos))

Packed(r) == IF r.ok THEN Val(<<"arr", r.v>>, r.pos) ELSE r
DecodeItems(c, d, at, len, topics, items) ==
  Packed(FoldLeftDomain(LAMBDA s, i : DecodeItem(c, d, at, len, topics, s, i, items[i]), Val(<<>>, BaseOf(c)), items))

decode_value(c, d, at, len, topics) ==
  IF c[1] \notin {"tuple", "array"} THEN DecodeLeaf(c, d, at, len)
  ELSE IF c[1] = "array" /\ c[3] = 0 /\ ~next_word(len, 0) THEN Err("reached end of data")
  ELSE IF c[1] = "array" /\ LengthOf(c, d, at) < 0 THEN Val(<<"broken", <<>>>>, BaseOf(c))
  ELSE DecodeItems(c, d, at, len, topics, Items(c, d, at))

(* One value without braces is not an array. *)
Unpacked(sig, r) == IF r.ok /\ ~sig.tuple /\ Len(sig.output[2]) = 1 THEN Val(r.v[2][1], r.pos) ELSE r

abi_decode(sig, d) == Unpacked(sig, decode_value(sig.output, d, 0, Len(d), <<>>))

(* The first topic has to be the hash of the event. *)
abi_decode_event(sig, topics, d) ==
  IF topics = <<>> \/ topics[1] # sig.hash THEN Err("The Topic does not match the event signature")
  ELSE Unpacked(sig, decode_value(sig.output, d, 0, Len(d), topics))

-----------------------------------------------------------------------------
(* What the encoding of the contract ABI is: heads, then tails. *)
EncList(dynamic, parts) ==
  LET Tails(i) == FoldLeft(LAMBDA s, k : IF dynamic[k] THEN s \o parts[k] ELSE s, <<>>, [k \in 1..i |-> k])
      heads == FoldLeftDomain(LAMBDA n, i : n + (IF dynamic[i] THEN Word ELSE Len(parts[i])), 0, parts)
  IN  FoldLeftDomain(LAMBDA s, i : s \o IF dynamic[i] THEN BytesOf(heads + Len(Tails(i - 1)), Word) ELSE parts[i], <<>>, parts)
        \o Tails(Len(parts))

(* The number a value stands for, in the width of the type. *)
Means(c, v) == (IF v[1] \in {"dec", "int"} THEN v[2] ELSE NumOf(d_bytes(v))) % Base^c[3]
Signed(c, n) == IF c[2] /\ n >= Base^c[3] \div 2 THEN n - Base^c[3] ELSE n

RECURSIVE Enc(_, _)
Enc(c, v) ==
  CASE c[1] = "number" -> BytesOf(Signed(c, Means(c, v)) % Base^Word, Word)
    [] c[1] \in {"string", "bytes"} -> BytesOf(Len(d_bytes(v)), Word) \o d_bytes(v) \o Zeros((Word - (Len(d_bytes(v)) % Word)) % Word)
    [] c[1] = "bool" -> BytesOf(v[2], Word)
    [] c[1] = "address" -> Zeros(Word - AddrLen) \o v[2]
    [] c[1] = "fixed" -> PadRight(SubSeq(PadRight(d_bytes(v), Word), 1, c[2]), Word)
    [] c[1] = "tuple" -> EncList(DynamicOf(c[2]), [i \in DOMAIN c[2] |-> Enc(c[2][i], v[2][i])])
    [] c[1] = "array" -> (IF c[3] = 0 THEN BytesOf(Len(v[2]), Word) ELSE <<>>)
                           \o EncList([i \in DOMAIN v[2] |-> abi_is_dynamic(c[2])], [i \in DOMAIN v[2] |-> Enc(c[2], v[2][i])])

(* A number a token has no room for (IntLimit and above) is not kept. *)
SameNumber(c, n, w) ==
  \/ c[3] <= LongLen /\ n \in IntLimit..(15 * IntLimit)
  \/ n % Base^c[3] = Means(c, w) /\ (w[1] \in {"dec", "int"} => n = w[2])

RECURSIVE Same(_, _, _)
(* A decoded value is what was encoded. *)
Same(c, v, w) ==
  CASE c[1] \in {"tuple", "array"} ->
         w[1] = "arr" /\ Len(w[2]) = Len(v[2])
         /\ \A i \in DOMAIN v[2] : Same(IF c[1] = "tuple" THEN c[2][i] ELSE c[2], v[2][i], w[2][i])
    [] c[1] = "number" -> SameNumber(c, Signed(c, Means(c, v)), w)
    [] c[1] = "bool" -> w = <<"bool", v[2]>>
    [] c[1] = "fixed" -> w[2] = SubSeq(PadRight(d_bytes(v), Word), 1, c[2])
    [] OTHER -> w[2] = d_bytes(v)

Name == <<Tok("f")>>
Signature(cs) == Name \o add_fn_sig(Struct(cs))

Reads(cs, sig, hash) == sig.ok /\ sig.input = Struct(cs) /\ sig.output = Struct(cs) /\ sig.hash = hash
TypesOnly(cs, types) ==
  cs # <<>> /\ FirstAt(types, Tok("(")) = 0 =>
    Reads(cs, abi_sig_create(types), <<>>) /\ ~abi_sig_create(Append(types, Tok(")"))).ok
SignatureOf(cs, text) ==
  /\ Reads(cs, abi_sig_create(text), text)
  /\ Reads(cs, abi_sig_create(text \o <<Tok(":")>> \o Tail(text)), text)
  /\ ~abi_sig_create(SubSeq(text, 1, Len(text) - 1)).ok
  /\ TypesOnly(cs, SubSeq(text, 3, Len(text) - 1))

(* The text of the hashed signature is parsed back to the same types and      *)
(* gives the same hash again; also without the braces a user may leave out,   *)
(* unless the first type is a tuple.  Without one of its braces it is refused.*)
SignatureReads(cs) == SignatureOf(cs, Signature(cs))

OneType(c) == [ok |-> TRUE, input |-> Struct(<<c>>), output |-> Struct(<<c>>), tuple |-> FALSE, hash |-> Name]
OneValue(v) == <<"arr", <<v>>>>
SameAs(c, v, r) == r.ok /\ Same(c, v, r.v)

Encoded(c, v, e) == e.ok /\ e.b = Enc(Struct(<<c>>), OneValue(v)) /\ SameAs(c, v, abi_decode(OneType(c), e.b))

RECURSIVE HasTooBig(_)
HasTooBig(v) == IF v[1] = "arr" THEN \E i \in DOMAIN v[2] : HasTooBig(v[2][i]) ELSE TooBig(v)

(* A value that fits its type is encoded as the ABI says, and decoded again,  *)
(* except for numbers in texts of more than 18 characters, which are refused, *)
(* and those of 2^28 and more in up to 8 bytes, which a token breaks.         *)
EncodingReads(c, v) ==
  IF HasTooBig(v) THEN ~abi_encode(OneType(c), OneValue(v)).ok ELSE Encoded(c, v, abi_encode(OneType(c), OneValue(v)))

EventOf(cs, indexed) == [OneType(Bool) EXCEPT !.input = Event(cs, indexed), !.output = Event(cs, indexed), !.tuple = TRUE]
Chosen(n, S) == SelectSeq([i \in 1..n |-> i], LAMBDA i : i \in S)
DataOf(cs, v, at) == Enc(Struct([k \in DOMAIN at |-> cs[at[k]]]), <<"arr", [k \in DOMAIN at |-> v[at[k]]]>>)
TopicsOf(cs, v, at) == <<Name>> \o [k \in DOMAIN at |-> Enc(cs[at[k]], v[at[k]])]
Decoded(cs, v, sig, topics, data) ==
  /\ SameAs(Struct(cs), <<"arr", v>>, abi_decode_event(sig, topics, data))
  /\ ~abi_decode_event(sig, IF Len(topics) > 1 THEN SubSeq(topics, 1, Len(topics) - 1) ELSE <<>>, data).ok

(* An event gives its values back, from wherever they are, and with one topic *)
(* less it is refused.                                                        *)
EventReads(cs, indexed, v) ==
  Decoded(cs, v, EventOf(cs, indexed), TopicsOf(cs, v, Chosen(Len(cs), indexed)),
          DataOf(cs, v, Chosen(Len(cs), DOMAIN cs \ indexed)))

(* Decoding stays inside of the bytes a contract returns, unless a word that  *)
(* is read as a length or an offset is at least 2^31 (or so near to it that   *)
(* rounding up overflows).                                                    *)
DecodingStaysInside(c, d) ==
  (\A at \in 0..(Len(d) - Word) : IntAt(d, at) \in 0..(Half - 2 * Word)) => ~abi_decode(OneType(c), d).outside
=============================================================================
