-------------------------------- MODULE Data --------------------------------
(***************************************************************************)
(* The token tree that holds every request, response and configuration     *)
(* (core/util/data.c): parsing JSON text, writing and reading the binary   *)
(* form, navigation, and the accessors that convert a token in place when  *)
(* it is read.                                                             *)
(*                                                                         *)
(* JSON text is a sequence of lexemes; the content of a string is a        *)
(* sequence of character codes, since strings that look like hex numbers   *)
(* are converted.  The flat list of tokens is the one of json_ctx_t: a     *)
(* container is followed by its children.  The 28 bits of a T_INTEGER are  *)
(* Digits hex digits here, the 8 bytes of a long are LongBytes.            *)
(***************************************************************************)
EXTENDS Integers, Sequences, FiniteSets, SequencesExt

CONSTANTS Digits,      \* hex digits that fit into the length field: 7 in the code
          LongBytes,   \* bytes of a uint64_t
          MaxDepth,    \* DATA_DEPTH_MAX
          MaxTokens    \* JSON_MAX_ALLOWED_TOKENS

T_BYTES == 0
T_STRING == 1
T_ARRAY == 2
T_OBJECT == 3
T_BOOLEAN == 4
T_INTEGER == 5
T_NULL == 6

IntLimit == 16^Digits
IntBytes == (Digits + 1) \div 2

(* A token.  val is the number of children, the integer or the boolean;    *)
(* own says where data lives: in the text, on the heap, or nowhere; alloc  *)
(* and conv are TOKEN_STATE_ALLOCATED and TOKEN_STATE_CONVERTED.           *)
Token(type, key, val, data, own, conv) ==
  [type |-> type, key |-> key, val |-> val, data |-> data, own |-> own, alloc |-> own = "heap", conv |-> conv]

-----------------------------------------------------------------------------
(* Numbers and characters (utils.c). *)
bytes_to_long(b) == LET c == IF Len(b) > LongBytes THEN SubSeq(b, Len(b) - LongBytes + 1, Len(b)) ELSE b
                    IN  FoldLeft(LAMBDA a, x : a * 256 + x, 0, c)
min_bytes_len(v) == CHOOSE n \in 0..LongBytes : v < 256^n /\ \A k \in 0..n - 1 : v >= 256^k
NumBytes(v, n) == [i \in 1..n |-> (v \div 256^(n - i)) % 256]
MinBytes(v) == NumBytes(v, IF v = 0 THEN 1 ELSE min_bytes_len(v))

CharOf(nibble) == IF nibble < 10 THEN 48 + nibble ELSE 87 + nibble
hexchar_to_int(c) == IF c \in 48..57 THEN c - 48 ELSE IF c \in 97..102 THEN c - 87 ELSE 255
HexPrefix == <<48, 120>>
bytes_to_hex(b) == FlattenSeq([i \in DOMAIN b |-> <<CharOf(b[i] \div 16), CharOf(b[i] % 16)>>])
hex_to_bytes(chars) ==
  LET n == IF Len(chars) % 2 = 1 THEN <<48>> \o chars ELSE chars
  IN  [i \in 1..Len(n) \div 2 |-> 16 * hexchar_to_int(n[2 * i - 1]) + hexchar_to_int(n[2 * i])]
DecChars(n) == LET D[k \in Nat] == IF k < 10 THEN <<48 + k>> ELSE Append(D[k \div 10], 48 + (k % 10)) IN D[n]
(* strtoull and atoi: the number in front of the first other character.    *)
Decimal(chars) == LET D[i \in 0..Len(chars)] ==
                        IF i = Len(chars) \/ chars[i + 1] \notin 48..57 THEN i ELSE D[i + 1]
                  IN  FoldLeft(LAMBDA a, c : a * 10 + c - 48, 0, SubSeq(chars, 1, D[0]))
HasPrefix(chars) == Len(chars) > 1 /\ SubSeq(chars, 1, 2) = HexPrefix
AfterPrefix(chars) == SubSeq(chars, 3, Len(chars))
IsHex(chars) == HasPrefix(chars) /\ \A i \in 3..Len(chars) : hexchar_to_int(chars[i]) # 255

-----------------------------------------------------------------------------
(* Parsing JSON.  A parser state: the lexemes left, the tokens so far, the *)
(* depth and the error code, 0 while there is none.                        *)
JSON_E_END_OF_STRING == -1
JSON_E_INVALID_CHAR == -2
JSON_E_MAX_DEPTH == -3
JSON_E_NUMBER_TOO_LONG == -4

At(p) == IF p.c = <<>> THEN "end" ELSE Head(p.c).c
Skip(p) == [p EXCEPT !.c = Tail(@)]
Err(p, rc) == [p EXCEPT !.rc = rc]

(* parsed_next_item: appends a token and counts it at its parent. *)
parsed_next_item(p, t, parent) ==
  [p EXCEPT !.toks = Append([i \in DOMAIN @ |-> IF i = parent THEN [@[i] EXCEPT !.val = @ + 1] ELSE @[i]], t)]

parse_number(p, key, parent) ==
  LET l == Head(p.c)
      t == IF l.float THEN Token(T_STRING, key, 0, DecChars(l.n), "heap", TRUE)
           ELSE IF l.n < IntLimit THEN Token(T_INTEGER, key, l.n, <<>>, "none", FALSE)
           ELSE Token(T_BYTES, key, 0, MinBytes(l.n), "heap", TRUE)
  IN  IF l.long THEN Err(p, JSON_E_NUMBER_TOO_LONG) ELSE parsed_next_item(Skip(p), t, parent)

parse_string(p, key, parent) ==
  parsed_next_item(Skip(p), Token(T_STRING, key, 0, Head(p.c).v, "text", FALSE), parent)

Leave(p) == [p EXCEPT !.depth = @ - 1]

RECURSIVE parse_object(_, _, _), Members(_, _), Elements(_, _)
parse_object(p, parent, key) ==
  CASE p.depth > MaxDepth -> Err(p, JSON_E_MAX_DEPTH)
    [] p.depth <= MaxDepth /\ At(p) = "end" -> Err(p, JSON_E_END_OF_STRING)
    [] p.depth <= MaxDepth /\ At(p) = "{" ->
         Members(parsed_next_item([Skip(p) EXCEPT !.depth = @ + 1], Token(T_OBJECT, key, 0, <<>>, "text", FALSE), parent),
                 Len(p.toks) + 1)
    [] p.depth <= MaxDepth /\ At(p) = "[" ->
         LET q == parsed_next_item([Skip(p) EXCEPT !.depth = @ + 1], Token(T_ARRAY, key, 0, <<>>, "text", FALSE), parent)
         IN  IF At(q) = "]" THEN Leave(Skip(q)) ELSE Elements(q, Len(p.toks) + 1)
    [] p.depth <= MaxDepth /\ At(p) = "str" -> parse_string(p, key, parent)
    [] p.depth <= MaxDepth /\ At(p) = "num" -> parse_number(p, key, parent)
    [] p.depth <= MaxDepth /\ At(p) = "bool" ->
         parsed_next_item(Skip(p), Token(T_BOOLEAN, key, Head(p.c).n, <<>>, "none", FALSE), parent)
    [] p.depth <= MaxDepth /\ At(p) = "null" -> parsed_next_item(Skip(p), Token(T_NULL, key, 0, <<>>, "none", FALSE), parent)
    [] OTHER -> Err(p, JSON_E_INVALID_CHAR)

(* A comma may be followed by the closing bracket in an object. *)
Members(p, me) ==
  IF At(p) = "}" THEN Leave(Skip(p))
  ELSE IF At(p) # "str" \/ At(Skip(p)) # ":" THEN Err(p, JSON_E_INVALID_CHAR)
  ELSE LET q == parse_object(Skip(Skip(p)), me, Head(p.c).v[1])
       IN  IF q.rc < 0 THEN q
           ELSE CASE At(q) = "," -> Members(Skip(q), me)
                  [] At(q) = "}" -> Leave(Skip(q))
                  [] OTHER -> Err(q, JSON_E_INVALID_CHAR)

Elements(p, me) ==
  LET q == parse_object(p, me, p.toks[me].val)
  IN  IF q.rc < 0 THEN q
      ELSE CASE At(q) = "," -> Elements(Skip(q), me)
             [] At(q) = "]" -> Leave(Skip(q))
             [] OTHER -> Err(q, JSON_E_INVALID_CHAR)

(* parse_json: the tokens, or none.  What follows the value is not read.   *)
parse_json(text) ==
  LET p == parse_object([c |-> text, toks |-> <<>>, depth |-> 0, rc |-> 0], 0, 0)
  IN  [ok |-> p.rc = 0, rc |-> p.rc, toks |-> IF p.rc = 0 THEN p.toks ELSE <<>>]

-----------------------------------------------------------------------------
(* Navigation over the flat list. *)
RECURSIVE d_token_size(_, _)
d_token_size(toks, i) ==
  IF toks[i].type \notin {T_ARRAY, T_OBJECT} THEN 1
  ELSE FoldLeft(LAMBDA size, k : size + d_token_size(toks, i + size), 1, [k \in 1..toks[i].val |-> k])

d_next(toks, i) == i + d_token_size(toks, i)
(* d_iter and d_iter_next: the positions of the children. *)
d_iter(toks, i) ==
  FoldLeft(LAMBDA ks, k : Append(ks, IF k = 1 THEN i + 1 ELSE d_next(toks, Last(ks))), <<>>, [k \in 1..toks[i].val |-> k])
(* The first child with the key; 0 is NULL. *)
d_get(toks, i, key) ==
  IF toks[i].type # T_OBJECT THEN 0
  ELSE LET ks == d_iter(toks, i)
           hit == {k \in DOMAIN ks : toks[ks[k]].key = key}
       IN  IF hit = {} THEN 0 ELSE ks[CHOOSE k \in hit : \A j \in hit : k <= j]
(* The first child with the key, or else the last one with the other.      *)
d_get_or(toks, i, key, key2) ==
  LET ks == d_iter(toks, i)
      other == {k \in DOMAIN ks : toks[ks[k]].key = key2}
  IN  IF d_get(toks, i, key) # 0 THEN d_get(toks, i, key)
      ELSE IF other = {} THEN 0 ELSE ks[CHOOSE k \in other : \A j \in other : k >= j]
d_get_at(toks, i, index) ==
  IF toks[i].type # T_ARRAY \/ index >= toks[i].val THEN 0 ELSE d_iter(toks, i)[index + 1]

-----------------------------------------------------------------------------
(* The binary form. *)
write_token_count(n) == IF n < 28 THEN <<T_NULL * 32 + n>> ELSE <<T_NULL * 32 + min_bytes_len(n) + 27>> \o NumBytes(n, min_bytes_len(n))
DLen(t) == IF t.type \in {T_BYTES, T_STRING} THEN Len(t.data) ELSE t.val

(* Mutant: a length of 28 is written into the header byte. *)
HeaderWide(t) == IF DLen(t) < 29 THEN <<t.type * 32 + DLen(t)>>
                 ELSE <<t.type * 32 + min_bytes_len(DLen(t)) + 27>> \o NumBytes(DLen(t), min_bytes_len(DLen(t)))
Header(t) == IF DLen(t) < 28 THEN <<t.type * 32 + DLen(t)>>
             ELSE <<t.type * 32 + min_bytes_len(DLen(t)) + 27>> \o NumBytes(DLen(t), min_bytes_len(DLen(t)))

RECURSIVE write_token(_, _)
write_token(toks, i) ==
  LET t == toks[i]
      kids == IF t.type \in {T_ARRAY, T_OBJECT} THEN d_iter(toks, i) ELSE <<>>
  IN  Header(t) \o
      CASE t.type = T_ARRAY -> FlattenSeq([k \in DOMAIN kids |-> write_token(toks, kids[k])])
        [] t.type = T_OBJECT -> FlattenSeq([k \in DOMAIN kids |-> NumBytes(toks[kids[k]].key, 2) \o write_token(toks, kids[k])])
        [] t.type = T_BYTES -> t.data
        [] t.type = T_STRING -> Append(t.data, 0)
        [] OTHER -> <<>>
d_serialize_binary(toks, i) == write_token_count(d_token_size(toks, i)) \o write_token(toks, i)

(* A reader state: the position, the tokens, the error.  A reference to    *)
(* the token that is just being added is let through by the check of the   *)
(* index and copies memory that was not written: "unknown".                *)
Bad(s, rc) == [s EXCEPT !.rc = rc]
RECURSIVE read_token(_, _, _)
read_token(d, s, key) ==
  IF s.p >= Len(d) THEN Bad(s, -3)
  ELSE
  LET type == d[s.p + 1] \div 32
      head == d[s.p + 1] % 32
      l == IF head > 27 THEN head - 27 ELSE 0
      len == IF l = 0 THEN head ELSE FoldLeft(LAMBDA a, x : a * 256 + x, 0, SubSeq(d, s.p + 2, s.p + 1 + l))
      p == s.p + 1 + l
      Add(t, q) == [s EXCEPT !.p = q, !.toks = Append(@, t)]
      Kid(st, k, kk) == IF st.rc # 0 THEN st ELSE read_token(d, st, kk)
      Prop(st) == IF st.rc # 0 THEN st
                  ELSE IF st.p + 2 >= Len(d) THEN Bad(st, -3)
                  ELSE read_token(d, [st EXCEPT !.p = @ + 2], d[st.p + 1] * 256 + d[st.p + 2])
  IN  IF s.p + 1 + l > Len(d) THEN Bad(s, -3)
      ELSE CASE type = T_NULL /\ len > 0 -> IF len > MaxTokens THEN Bad(s, -4) ELSE [s EXCEPT !.p = p]
        [] type = T_BOOLEAN /\ len > 1 ->
             IF Len(s.toks) < len - 2 THEN Bad(s, -1)
             ELSE IF Len(s.toks) = len - 2 THEN [Bad(s, 1) EXCEPT !.p = p]
             ELSE IF s.toks[len - 1].type >= T_ARRAY THEN Bad(s, -1)
             ELSE Add([s.toks[len - 1] EXCEPT !.key = key], p)
        [] type = T_ARRAY -> FoldLeftDomain(LAMBDA st, k : Kid(st, k, k - 1), Add(Token(T_ARRAY, key, len, <<>>, "none", FALSE), p), [k \in 1..len |-> k])
        [] type = T_OBJECT -> FoldLeftDomain(LAMBDA st, k : Prop(st), Add(Token(T_OBJECT, key, len, <<>>, "none", FALSE), p), [k \in 1..len |-> k])
        [] type = T_STRING -> IF p + 1 + len > Len(d) \/ d[p + len + 1] # 0 THEN Bad(s, -4)
                              ELSE Add(Token(T_STRING, key, 0, SubSeq(d, p + 1, p + len), "text", FALSE), p + len + 1)
        [] type = T_BYTES -> IF p + len > Len(d) THEN Bad(s, -3)
                             ELSE Add(Token(T_BYTES, key, 0, SubSeq(d, p + 1, p + len), "text", FALSE), p + len)
        [] OTHER -> Add(Token(type, key, len, <<>>, "none", FALSE), p)

parse_binary(d) ==
  LET Loop[n \in 0..Len(d)] == IF n = 0 THEN [p |-> 0, toks |-> <<>>, rc |-> 0]
                               ELSE LET s == Loop[n - 1] IN IF s.rc # 0 \/ s.p >= Len(d) THEN s ELSE read_token(d, s, 0)
  IN  Loop[Len(d)]

(* d_create_json of a token that has no text: numbers and bytes become hex strings. *)
Str(chars) == [c |-> "str", v |-> chars]
P(c) == [c |-> c]
(* Mutant: the first digit is dropped even when it is not zero. *)
HexTail(v) == HexPrefix \o Tail(bytes_to_hex(MinBytes(v)))
HexOf(v) == LET h == bytes_to_hex(MinBytes(v)) IN HexPrefix \o (IF h[1] = 48 THEN Tail(h) ELSE h)
RECURSIVE d_create_json(_, _)
d_create_json(toks, i) ==
  LET t == toks[i]
      kids == IF t.type \in {T_ARRAY, T_OBJECT} THEN d_iter(toks, i) ELSE <<>>
      Kid(k) == (IF k > 1 THEN <<P(",")>> ELSE <<>>) \o (IF t.type = T_OBJECT THEN <<Str(<<toks[kids[k]].key>>), P(":")>> ELSE <<>>)
                  \o d_create_json(toks, kids[k])
  IN  CASE t.type = T_ARRAY -> <<P("[")>> \o FlattenSeq([k \in DOMAIN kids |-> Kid(k)]) \o <<P("]")>>
        [] t.type = T_OBJECT -> <<P("{")>> \o FlattenSeq([k \in DOMAIN kids |-> Kid(k)]) \o <<P("}")>>
        [] t.type = T_BOOLEAN -> <<[c |-> "bool", n |-> t.val]>>
        [] t.type = T_INTEGER -> <<Str(HexOf(t.val))>>
        [] t.type = T_NULL -> <<P("null")>>
        [] t.type = T_STRING -> <<Str(t.data)>>
        [] t.type = T_BYTES -> <<Str(HexPrefix \o bytes_to_hex(t.data))>>

-----------------------------------------------------------------------------
(* The accessors.  d_bytes converts a hex string in place, into an integer *)
(* when it is short; ok says whether the result has a pointer.             *)
d_is_bytes(t) == CASE t.type = T_STRING -> ~t.conv /\ HasPrefix(t.data)
                   [] OTHER -> t.type \in {T_BYTES, T_INTEGER}

d_bytes(t) ==
  CASE t.type = T_BYTES -> [ok |-> t.own # "none", b |-> t.data, t |-> t]
    [] t.type = T_STRING /\ (t.conv \/ ~IsHex(t.data)) -> [ok |-> TRUE, b |-> t.data, t |-> [t EXCEPT !.conv = TRUE]]
    [] t.type = T_STRING /\ ~t.conv /\ IsHex(t.data) ->
         LET b == hex_to_bytes(AfterPrefix(t.data))
         IN  IF Len(t.data) = 2 THEN [ok |-> TRUE, b |-> <<>>, t |-> Token(T_BYTES, t.key, 0, <<>>, "none", TRUE)]
             ELSE IF Len(t.data) < 3 + Digits
             THEN [ok |-> TRUE, b |-> b, t |-> Token(T_INTEGER, t.key, bytes_to_long(b), <<>>, "none", TRUE)]
             ELSE [ok |-> TRUE, b |-> b, t |-> Token(T_BYTES, t.key, 0, b, "heap", TRUE)]
    [] t.type \in {T_INTEGER, T_BOOLEAN} -> [ok |-> TRUE, b |-> MinBytes(t.val), t |-> t]
    [] OTHER -> [ok |-> FALSE, b |-> <<>>, t |-> t]

(* Mutant: the widened copy is not marked as allocated. *)
BytesLUnmarked(t, len) ==
  LET r == d_bytes(t)
  IN  IF r.ok /\ Len(r.b) < len /\ len > IntBytes /\ r.t.type = T_BYTES
      THEN [r EXCEPT !.t = [r.t EXCEPT !.data = NumBytes(0, len - Len(r.b)) \o r.b, !.own = "heap", !.conv = TRUE]] ELSE r
d_bytesl(t, len) ==
  LET r == d_bytes(t)
      wide == NumBytes(0, len - Len(r.b)) \o r.b
  IN  IF ~r.ok THEN r
      ELSE IF Len(r.b) < len /\ len > IntBytes /\ r.t.type = T_BYTES
      THEN [ok |-> TRUE, b |-> wide, t |-> Token(T_BYTES, t.key, 0, wide, "heap", TRUE)]
      ELSE [r EXCEPT !.b = IF Len(@) > len THEN SubSeq(@, 1, len) ELSE @]

d_string(t) ==
  CASE t.type = T_STRING /\ ~t.alloc -> [t EXCEPT !.own = "heap", !.alloc = TRUE]
    [] t.type = T_BYTES -> Token(T_STRING, t.key, 0, HexPrefix \o bytes_to_hex(t.data), "heap", FALSE)
    [] t.type = T_INTEGER -> Token(T_STRING, t.key, 0, DecChars(t.val), "heap", FALSE)
    [] t.type = T_BOOLEAN -> Token(T_STRING, t.key, 0, IF t.val = 1 THEN <<116>> ELSE <<102>>, "heap", FALSE)
    [] OTHER -> t

d_longd(t, def) ==
  CASE t.type = T_INTEGER -> t.val
    [] t.type # T_INTEGER /\ d_is_bytes(t) -> bytes_to_long(d_bytes(t).b)
    [] t.type = T_STRING /\ ~d_is_bytes(t) -> Decimal(t.data)
    [] OTHER -> def

d_intd(t, def) ==
  CASE t.type \in {T_INTEGER, T_BOOLEAN} -> t.val
    [] t.type = T_BYTES \/ (t.type = T_STRING /\ d_is_bytes(t)) ->
         LET b == d_bytes(t).b IN bytes_to_long(SubSeq(b, 1, IF Len(b) > IntBytes THEN IntBytes ELSE Len(b)))
    [] t.type = T_STRING /\ ~d_is_bytes(t) -> Decimal(t.data)
    [] OTHER -> def

(* d_num_bytes also converts a decimal string, as libtommath reads it. *)
IsDecimal(chars) == chars # <<>> /\ \A i \in DOMAIN chars : chars[i] \in 48..57
d_num_bytes(t) ==
  LET r == d_bytes(t)
      v == Decimal(r.t.data)
  IN  IF ~r.ok \/ r.t.type # T_STRING \/ ~IsDecimal(r.t.data) THEN r
      ELSE IF min_bytes_len(v) < IntBytes THEN [ok |-> TRUE, b |-> MinBytes(v), t |-> Token(T_INTEGER, t.key, v, <<>>, "none", FALSE)]
      ELSE [ok |-> TRUE, b |-> MinBytes(v), t |-> Token(T_BYTES, t.key, 0, MinBytes(v), "heap", TRUE)]

(* d_bytes_to: the bytes, or the first max of them, right aligned in dst.  *)
d_bytes_to(t, max) ==
  LET b == d_bytes(t).b
      c == IF Len(b) > max THEN SubSeq(b, 1, max) ELSE b
  IN  NumBytes(0, max - Len(c)) \o c

(* d_eq: hex strings are converted first. *)
Converted(t) == IF t.type = T_STRING /\ d_is_bytes(t) THEN d_bytes(t).t ELSE t
(* Mutant: only the left side may be the bytes of a number. *)
EqOneSided(as, i, bs, j) ==
  LET a == Converted(as[i])
      b == Converted(bs[j])
  IN  \/ a.type = T_BYTES /\ b.type = T_INTEGER /\ Len(a.data) <= IntBytes /\ d_intd(a, 0) = b.val
      \/ a.type = b.type /\ DLen(a) = DLen(b) /\ (a.type \in {T_BYTES, T_STRING} => a.data = b.data)
RECURSIVE d_eq(_, _, _, _)
d_eq(as, i, bs, j) ==
  IF i = 0 \/ j = 0 THEN FALSE
  ELSE
  LET a == Converted(as[i])
      b == Converted(bs[j])
      Short(x, y) == x.type = T_BYTES /\ y.type = T_INTEGER /\ Len(x.data) <= IntBytes /\ d_intd(x, 0) = y.val
      ia == d_iter(as, i)
      ib == d_iter(bs, j)
  IN  \/ Short(a, b) \/ Short(b, a)
      \/ /\ a.type = b.type /\ DLen(a) = DLen(b)
         /\ CASE a.type = T_ARRAY -> \A k \in DOMAIN ia : d_eq(as, ia[k], bs, ib[k])
              [] a.type = T_OBJECT -> \A k \in DOMAIN ia : d_eq(as, ia[k], bs, d_get(bs, j, as[ia[k]].key))
              [] a.type \in {T_BYTES, T_STRING} -> a.data = b.data
              [] OTHER -> TRUE

(* Building tokens: json_create_int keeps a number in the length field up  *)
(* to 0xF0000000, although only 28 bits of it belong to the value.         *)
json_create_int(v) ==
  IF v > 15 * IntLimit THEN Token(T_BYTES, 0, 0, MinBytes(v), "heap", FALSE)
  ELSE LET high == v \div IntLimit
           or5 == IF high = 0 THEN 5 ELSE 5 + (IF (high \div 2) % 2 = 1 THEN 2 ELSE 0) + (IF (high \div 8) % 2 = 1 THEN 8 ELSE 0)
       IN  Token(or5, 0, v % IntLimit, <<>>, "none", FALSE)

-----------------------------------------------------------------------------
(* A tree is the reference: [type, v] for a scalar, [type, kids] for an    *)
(* array, [type, kids] of [k, t] for an object.                            *)
RECURSIVE TextOf(_), FlatOf(_, _), DepthOf(_)
Sep(parts) == FlattenSeq([i \in DOMAIN parts |-> (IF i > 1 THEN <<P(",")>> ELSE <<>>) \o parts[i]])
TextOf(t) ==
  CASE t.type = T_ARRAY -> <<P("[")>> \o Sep([i \in DOMAIN t.kids |-> TextOf(t.kids[i])]) \o <<P("]")>>
    [] t.type = T_OBJECT -> <<P("{")>> \o Sep([i \in DOMAIN t.kids |-> <<Str(<<t.kids[i].k>>), P(":")>> \o TextOf(t.kids[i].t)]) \o <<P("}")>>
    [] t.type = T_STRING -> <<Str(t.v)>>
    [] t.type = T_INTEGER -> <<[c |-> "num", n |-> t.v, float |-> FALSE, long |-> FALSE]>>
    [] t.type = T_BOOLEAN -> <<[c |-> "bool", n |-> t.v]>>
    [] t.type = T_NULL -> <<P("null")>>
(* What a reader finds: type, key, number of children or value, string.    *)
FlatOf(t, key) ==
  CASE t.type = T_ARRAY -> <<[type |-> T_ARRAY, key |-> key, val |-> Len(t.kids), data |-> <<>>]>>
                             \o FlattenSeq([i \in DOMAIN t.kids |-> FlatOf(t.kids[i], i - 1)])
    [] t.type = T_OBJECT -> <<[type |-> T_OBJECT, key |-> key, val |-> Len(t.kids), data |-> <<>>]>>
                              \o FlattenSeq([i \in DOMAIN t.kids |-> FlatOf(t.kids[i].t, t.kids[i].k)])
    [] t.type = T_STRING -> <<[type |-> T_STRING, key |-> key, val |-> 0, data |-> t.v]>>
    [] t.type = T_INTEGER /\ t.v >= IntLimit -> <<[type |-> T_BYTES, key |-> key, val |-> 0, data |-> MinBytes(t.v)]>>
    [] t.type = T_INTEGER /\ t.v < IntLimit -> <<[type |-> T_INTEGER, key |-> key, val |-> t.v, data |-> <<>>]>>
    [] t.type = T_BOOLEAN -> <<[type |-> T_BOOLEAN, key |-> key, val |-> t.v, data |-> <<>>]>>
    [] t.type = T_NULL -> <<[type |-> T_NULL, key |-> key, val |-> 0, data |-> <<>>]>>
DepthOf(t) == IF t.type \notin {T_ARRAY, T_OBJECT} \/ t.kids = <<>> THEN 0
              ELSE 1 + LET ds == {DepthOf(IF t.type = T_ARRAY THEN t.kids[i] ELSE t.kids[i].t) : i \in DOMAIN t.kids}
                       IN  CHOOSE d \in ds : \A e \in ds : d >= e
Plain(toks) == [i \in DOMAIN toks |-> [type |-> toks[i].type, key |-> toks[i].key, val |-> toks[i].val, data |-> toks[i].data]]

(* A text is parsed into exactly the tokens of its tree, and refused when  *)
(* it is nested too deeply or cut off; writing the tokens in binary and    *)
(* reading them gives the same tokens.                                     *)
ParsesAndReadsBack(tree) ==
  LET r == parse_json(TextOf(tree))
      back == parse_binary(d_serialize_binary(r.toks, 1))
  IN  IF DepthOf(tree) > MaxDepth THEN r.rc = JSON_E_MAX_DEPTH
      ELSE /\ r.ok /\ Plain(r.toks) = FlatOf(tree, 0)
           /\ d_token_size(r.toks, 1) = Len(r.toks)
           /\ \A n \in 0..Len(TextOf(tree)) - 1 : ~parse_json(SubSeq(TextOf(tree), 1, n)).ok
           /\ back.rc = 0 /\ Plain(back.toks) = Plain(r.toks)

(* A binary token written as JSON and parsed again reads as the same bytes *)
(* or the same number.                                                     *)
JsonOfBinaryAgrees(toks) ==
  LET r == parse_json(d_create_json(toks, 1))
  IN  /\ r.ok /\ Len(r.toks) = Len(toks)
      /\ \A i \in DOMAIN toks : /\ r.toks[i].key = toks[i].key
                                /\ toks[i].type # T_STRING => /\ d_bytes(r.toks[i]).b = d_bytes(toks[i]).b
                                                              /\ d_longd(r.toks[i], 0) = d_longd(toks[i], 0)

(* Whatever accessors were used before, and in whatever order, a token     *)
(* reads as the number it had, and its memory is freed exactly if it is    *)
(* the token's own.                                                        *)
Access(t, op) == CASE op = "bytes" -> d_bytes(t).t
                   [] op = "bytesl" -> d_bytesl(t, LongBytes + 1).t
                   [] op = "string" -> d_string(t)
                   [] op = "long" -> IF t.type # T_INTEGER /\ d_is_bytes(t) THEN d_bytes(t).t ELSE t
                   [] op = "num" -> d_num_bytes(t).t
AccessKeepsNumber(t, ops) ==
  LET u == FoldLeft(Access, t, ops)
  IN  /\ d_longd(u, 0) = d_longd(t, 0)
      /\ u.alloc <=> u.own = "heap"

(* d_eq is reflexive and symmetric, and equal scalars read as one number.  *)
EqualityIsSound(as, bs) ==
  /\ d_eq(as, 1, as, 1)
  /\ d_eq(as, 1, bs, 1) = d_eq(bs, 1, as, 1)
  /\ d_eq(as, 1, bs, 1) => d_longd(as[1], 0) = d_longd(bs[1], 0)
=============================================================================
