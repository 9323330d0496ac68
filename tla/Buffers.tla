------------------------------ MODULE Buffers ------------------------------
(***************************************************************************)
(* The growing buffers everything is written into (core/util/bytes.c and   *)
(* stringbuilder.c) and the bit set of the node properties (bitset.c).     *)
(*                                                                         *)
(* A builder is its length, the capacity it believes in and the memory it  *)
(* has; what the bytes are does not matter here, only how far each         *)
(* operation writes.  top is the end of the last write, in bytes from the  *)
(* start of the buffer.                                                    *)
(***************************************************************************)
EXTENDS Integers, FiniteSets

CONSTANTS Lens,      \* lengths of what is appended, 0 included
          FirstSize, \* capacity of a new builder: 32
          WordBits,  \* BS_MAX: bits of a set that is not on the heap
          Bits,      \* positions that are set and cleared
          MaxLen     \* bound of the search: length of a buffer

VARIABLES what,      \* the object this behaviour is about: "bb", "sb" or "bs"
          bb, sb,    \* [len, size, mem, top]
          bs, wanted \* the bit set and, for comparison, the bits set so far

vars == <<what, bb, sb, bs, wanted>>

Empty == [len |-> 0, size |-> 0, mem |-> 0, top |-> 0]
Made(l) == [len |-> 0, size |-> l, mem |-> l, top |-> 0]

RECURSIVE Doubled(_, _)
Doubled(size, need) == IF need >= size THEN Doubled(2 * size, need) ELSE size

(* Mutant: a buffer that is exactly full does not grow. *)
CheckTight(b, len) ==
  IF len = 0 \/ b.len + len <= b.size + 1 THEN b
  ELSE IF b.mem = 0 THEN [b EXCEPT !.mem = len, !.size = len]
  ELSE [b EXCEPT !.size = Doubled(@, b.len + len), !.mem = Doubled(b.size, b.len + len)]
bb_check_size(b, len) ==
  IF len = 0 \/ b.len + len < b.size THEN b
  ELSE IF b.mem = 0 THEN [b EXCEPT !.mem = len, !.size = len]
  ELSE [b EXCEPT !.size = Doubled(@, b.len + len), !.mem = Doubled(b.size, b.len + len)]

(* All bb_write functions: make room, write, advance. *)
BBWrite(b, n) == LET c == bb_check_size(b, n) IN [c EXCEPT !.len = @ + n, !.top = IF n = 0 THEN 0 ELSE b.len + n]
(* bb_replace moves the rest and writes the new bytes; a negative size     *)
(* wraps around and is never larger than the capacity.                     *)
bb_replace(b, offset, del, n) ==
  LET c == IF n > del THEN bb_check_size(b, n - del) ELSE b
  IN  IF del = 0 /\ n = 0 THEN b
      ELSE [c EXCEPT !.len = @ + n - del, !.top = (b.len - offset - del) + offset + n]

(* The string builder keeps a terminating zero behind its text. *)
check_size(s, len) ==
  IF (len = 0 \/ s.len + len < s.size) /\ s.mem > 0 THEN s
  ELSE IF s.size = 0 THEN [s EXCEPT !.size = len + 1, !.mem = len + 1]
  ELSE [s EXCEPT !.size = Doubled(@, s.len + len), !.mem = Doubled(s.size, s.len + len)]

(* sb_add_chars, _char, _range, _escaped_chars, _key_value, _bytes,        *)
(* _hexuint, _int and _rawbytes: room for what they add, the text and the  *)
(* zero.  The first four return at once when there is nothing to add.      *)
SBAdd(s, n) == LET c == check_size(s, n) IN [c EXCEPT !.len = @ + n, !.top = s.len + n + 1]

(* sb_vprint: first into what is there, then, if that was too short, again *)
(* with the length the first attempt returned.                             *)
sb_vprint(s, fmt, w) ==
  LET c == IF s.size - s.len - 1 < fmt THEN check_size(s, fmt + 30) ELSE s
      n == c.size - c.len - 1
      d == IF w > n THEN check_size(c, w + 1) ELSE c
  IN  [d EXCEPT !.len = @ + w, !.top = s.len + w + 1]

(* sb_vprintx grows when it is one short and copies character by character. *)
sb_vprintx(s, fmt, args) ==
  LET Char(t) == LET c == IF t.len + 1 >= t.size THEN check_size(t, 1) ELSE t IN [c EXCEPT !.len = @ + 1]
      Copy[k \in 0..fmt] == IF k = 0 THEN check_size(s, fmt) ELSE Char(Copy[k - 1])
      t == IF args = 0 THEN Copy[fmt] ELSE SBAdd(Copy[fmt], args)
  IN  [t EXCEPT !.top = t.len + 1]

-----------------------------------------------------------------------------
(* The bit set: a word, or bytes on the heap once a position is too large. *)
OnHeap(s) == s.len > WordBits
bs_new(len) == [len |-> IF len > WordBits THEN 8 * ((len + 7) \div 8) ELSE WordBits, set |-> {}]
Flip(s, op, pos) == CASE op = "set" -> s \cup {pos} [] op = "clear" -> s \ {pos}
                      [] op = "toggle" -> (s \ {pos}) \cup ({pos} \ s)
(* bs_growp: new bytes are cleared. *)
bs_growp(s, pos) == IF s.len > pos THEN s ELSE [s EXCEPT !.len = 8 * ((pos + 8) \div 8)]
(* Mutant: the word is not copied when the set moves to the heap. *)
ModifyForgets(s, pos, op) ==
  LET g == IF pos >= WordBits THEN (IF OnHeap(s) THEN bs_growp(s, pos) ELSE [bs_growp(s, pos) EXCEPT !.set = {}]) ELSE s
  IN  [g EXCEPT !.set = Flip(@, op, pos)]
bs_modify(s, pos, op) ==
  LET g == IF pos >= WordBits THEN bs_growp(s, pos) ELSE s IN [g EXCEPT !.set = Flip(@, op, pos)]
bs_isset(s, pos) == pos < s.len /\ pos \in s.set
bs_isempty(s) == s.set = {}

-----------------------------------------------------------------------------
Init == what \in {"bb", "sb", "bs"} /\ bb = Empty /\ sb = Empty /\ wanted = {} /\ bs \in {bs_new(WordBits), bs_new(WordBits + 1)}

BBNew == bb' = Made(FirstSize) /\ UNCHANGED <<sb, bs, wanted>>
BBAppend(n) == bb.len + n <= MaxLen /\ bb' = BBWrite(bb, n) /\ UNCHANGED <<sb, bs, wanted>>
BBReplace(offset, del, n) ==
  /\ offset + del <= bb.len /\ bb.len + n <= MaxLen
  /\ bb' = bb_replace(bb, offset, del, n) /\ UNCHANGED <<sb, bs, wanted>>
BBClear == bb' = [bb EXCEPT !.len = 0, !.top = 0] /\ UNCHANGED <<sb, bs, wanted>>
SBNew == sb' = [Made(FirstSize) EXCEPT !.top = 1] /\ UNCHANGED <<bb, bs, wanted>>
SBAppend(n) == n > 0 /\ sb.len + n <= MaxLen /\ sb' = SBAdd(sb, n) /\ UNCHANGED <<bb, bs, wanted>>
SBPrint(fmt, w) == sb.len + w <= MaxLen /\ sb' = sb_vprint(sb, fmt, w) /\ UNCHANGED <<bb, bs, wanted>>
SBPrintX(fmt, args) == sb.len + fmt + args <= MaxLen /\ sb' = sb_vprintx(sb, fmt, args) /\ UNCHANGED <<bb, bs, wanted>>
BSModify(pos, op) == bs' = bs_modify(bs, pos, op) /\ wanted' = Flip(wanted, op, pos) /\ UNCHANGED <<bb, sb>>

Next ==
  /\ what' = what
  /\ \/ /\ what = "bb"
        /\ \/ BBNew \/ BBClear
           \/ \E n \in Lens : BBAppend(n)
           \/ \E offset, del, n \in Lens : BBReplace(offset, del, n)
     \/ /\ what = "sb"
        /\ \/ SBNew
           \/ \E n \in Lens : SBAppend(n)
           \/ \E fmt, w \in Lens : SBPrint(fmt, w) \/ SBPrintX(fmt, w)
     \/ /\ what = "bs"
        /\ \E pos \in Bits, op \in {"set", "clear", "toggle"} : BSModify(pos, op)

Spec == Init /\ [][Next]_vars

-----------------------------------------------------------------------------
(* No operation writes behind the memory of its buffer, the zero behind a  *)
(* text included, whatever was appended, replaced and cleared before.      *)
WritesFit ==
  /\ bb.top <= bb.mem /\ bb.len <= bb.mem
  /\ sb.top <= sb.mem /\ (sb.mem > 0 => sb.len < sb.mem)

(* The bit set holds exactly the bits that were set, across the move from  *)
(* the word to the heap and every growth.                                  *)
BitsAgree == /\ \A p \in Bits : bs_isset(bs, p) <=> p \in wanted
             /\ bs_isempty(bs) <=> wanted = {}
=============================================================================
