------------------------ MODULE VerifiedHashesProofs ------------------------
(***************************************************************************)
(* The table of verified hashes, for every size of the table, every set of  *)
(* blocks and any number of requests.                                      *)
(*                                                                         *)
(* Nothing in the table says which chain it is of, which of its cells were  *)
(* written, or how many of them: the invariant ties all of it to what was   *)
(* verified.  No entry that was written has a free cell or its own number   *)
(* before it among the cells that are searched, so that add_verified, which *)
(* stops at the first such cell, can not miss a number behind it.           *)
(***************************************************************************)
EXTENDS VerifiedHashes, WellFoundedInduction, TLAPS

(* Every entry was verified on the chain c. *)
AllVerified(t, c, v) ==
  \A i \in DOMAIN t : t[i].num # 0 /\ t[i].hash # "junk" => <<c, t[i].num, t[i].hash>> \in v

(* More cells than max are only in use while a request is pending. *)
Outgrown(t, m, a, p) == a > m => t # NoTable /\ Len(t) = a /\ p > 0

Base ==
  /\ chain \in Chain /\ pending \in Nat /\ max \in Nat /\ alloc \in Nat
  /\ table # NoTable => table \in Seq(Cell) /\ AllVerified(table, chain, verified)
  /\ DOMAIN stored = Chain
  /\ \A c \in Chain : stored[c] \in Seq(Cell) /\ AllVerified(stored[c], c, verified)
  /\ Outgrown(table, max, alloc, pending)

(* The cells that are read, or searched. *)
Searched(t, m, a) == {k \in DOMAIN t : k <= m \/ k <= a}

Ordered(t, S) ==
  \A i, j \in S : i < j /\ t[i].num \in {0, t[j].num} => t[j].num = 0 \/ t[j].hash = "junk"

(* The newest entry is in the last cell of a table that is too large. *)
Newest(t, m, a, x) ==
  x # NoEntry =>
    /\ t # NoTable /\ x.num # 0 /\ x.hash # "junk" /\ \E i \in DOMAIN t : t[i] = x
    /\ a > m => t[a] = x

Exact ==
  /\ alloc < max => max = DefaultMax
  /\ alloc > max => max # 0 /\ newest # NoEntry
  /\ table # NoTable =>
       /\ alloc <= Len(table)
       /\ Ordered(table, Searched(table, max, alloc))
  /\ \A c \in Chain :
       (\A i \in DOMAIN stored[c] : stored[c][i].num # 0) /\ Ordered(stored[c], DOMAIN stored[c])
  /\ Newest(table, max, alloc, newest)

-----------------------------------------------------------------------------
LEMMA Least ==
  ASSUME NEW S \in SUBSET Nat, S # {}
  PROVE  \E i \in S : \A j \in S : i <= j
<1>1. PICK x \in S : \A y \in S : ~(<<y, x>> \in OpToRel(<, Nat))
  BY NatLessThanWellFounded, WFMin
<1>2. ASSUME NEW y \in S PROVE <<y, x>> \in OpToRel(<, Nat) <=> y < x
  <2>1. <<y, x>> \in Nat \X Nat /\ <<y, x>>[1] = y /\ <<y, x>>[2] = x
    OBVIOUS
  <2>2. OpToRel(<, Nat) = {ss \in Nat \X Nat : ss[1] < ss[2]}
    BY Zenon DEF OpToRel
  <2> QED
    BY <2>1, <2>2
<1>3. \A y \in S : ~(y < x)
  BY <1>1, <1>2, Zenon
<1> QED
  BY <1>3

LEMMA CellFacts ==
  ASSUME ConstantsOK
  PROVE  /\ Zero \in Cell /\ Zero.num = 0
         /\ \A k \in JunkNumbers : Junk(k) \in Cell /\ Junk(k).hash = "junk"
         /\ \A n \in Numbers : \A h \in Hash[n] :
              Entry(n, h) \in Cell /\ Entry(n, h).num = n /\ Entry(n, h).hash = h /\ n # 0 /\ h # "junk"
<1>1. \A n \in Numbers : \A h \in Hash[n] : h \in Hashes /\ n \in Nat /\ n # 0 /\ h # "junk"
  BY DEF ConstantsOK, Hashes
<1>2. JunkNumbers \subseteq Nat
  BY DEF ConstantsOK
<1> QED
  BY <1>1, <1>2 DEF Zero, Junk, Entry, Cell

(* A table is a function on its positions. *)
LEMMA Positions ==
  ASSUME NEW t \in Seq(Cell)
  PROVE  /\ Len(t) \in Nat /\ DOMAIN t = 1..Len(t)
         /\ \A i \in DOMAIN t : t[i] \in Cell /\ t[i].num \in Nat
<1>1. Len(t) \in Nat /\ DOMAIN t = 1..Len(t)
  OBVIOUS
<1>2. \A i \in DOMAIN t : t[i] \in Cell
  BY <1>1
<1> QED
  BY <1>1, <1>2 DEF Cell

LEMMA MakeTable ==
  ASSUME NEW n \in Nat, NEW u, u = [i \in 1..n |-> u[i]], \A i \in 1..n : u[i] \in Cell
  PROVE  u \in Seq(Cell) /\ Len(u) = n /\ DOMAIN u = 1..n
OBVIOUS

LEMMA Written ==
  ASSUME NEW t \in Seq(Cell), NEW at, NEW e \in Cell
  PROVE  LET u == Write(t, at, e)
         IN  /\ u \in Seq(Cell) /\ Len(u) = Len(t) /\ DOMAIN u = 1..Len(t)
             /\ \A i \in 1..Len(t) : u[i] = IF i = at THEN e ELSE t[i]
<1> DEFINE u == Write(t, at, e)
           L == Len(t)
<1>1. L \in Nat /\ DOMAIN t = 1..L /\ \A i \in 1..L : t[i] \in Cell
  BY Positions
<1> HIDE DEF L
<1>2. u = [i \in 1..L |-> IF i = at THEN e ELSE t[i]]
  BY <1>1 DEF Write
<1> HIDE DEF u
<1>3. u = [i \in 1..L |-> u[i]] /\ \A i \in 1..L : u[i] = (IF i = at THEN e ELSE t[i]) /\ u[i] \in Cell
  BY <1>1, <1>2
<1>4. u \in Seq(Cell) /\ Len(u) = L /\ DOMAIN u = 1..L
  BY <1>1, <1>3, MakeTable
<1> QED
  BY <1>3, <1>4 DEF u, L

LEMMA Cleared ==
  ASSUME ConstantsOK, NEW t \in Seq(Cell), NEW from, NEW to
  PROVE  LET u == Clear(t, from, to)
         IN  /\ u \in Seq(Cell) /\ Len(u) = Len(t) /\ DOMAIN u = 1..Len(t)
             /\ \A i \in 1..Len(t) : u[i] = IF i \in from..to THEN Zero ELSE t[i]
<1> DEFINE u == Clear(t, from, to)
           L == Len(t)
<1>1. L \in Nat /\ DOMAIN t = 1..L /\ \A i \in 1..L : t[i] \in Cell
  BY Positions
<1> HIDE DEF L
<1>2. u = [i \in 1..L |-> IF i \in from..to THEN Zero ELSE t[i]]
  BY <1>1 DEF Clear
<1> HIDE DEF u
<1>3. u = [i \in 1..L |-> u[i]] /\ \A i \in 1..L : u[i] = (IF i \in from..to THEN Zero ELSE t[i]) /\ u[i] \in Cell
  BY <1>1, <1>2, CellFacts
<1>4. u \in Seq(Cell) /\ Len(u) = L /\ DOMAIN u = 1..L
  BY <1>1, <1>3, MakeTable
<1> QED
  BY <1>3, <1>4 DEF u, L

(* _realloc, and what is read of a table and behind it *)
Extended(t, n, u) ==
  /\ u \in Seq(Cell) /\ Len(u) = n /\ DOMAIN u = 1..n
  /\ \A i \in 1..n : \/ t # NoTable /\ i \in DOMAIN t /\ u[i] = t[i]
                     \/ (t = NoTable \/ i > Len(t)) /\ u[i].hash = "junk"

LEMMA Reallocated ==
  ASSUME ConstantsOK, NEW t, t # NoTable => t \in Seq(Cell), NEW n \in Nat, NEW fill \in Fills(t, n)
  PROVE  Extended(t, n, Realloc(t, n, fill))
<1> DEFINE u == Realloc(t, n, fill)
           B == Behind(t, n)
<1>1. t # NoTable => Len(t) \in Nat /\ DOMAIN t = 1..Len(t) /\ \A i \in DOMAIN t : t[i] \in Cell
  BY Positions
<1>2. \A i \in B : fill[i] \in Cell /\ fill[i].hash = "junk"
  <2>1. \A i \in B : \E k \in JunkNumbers : fill[i] = Junk(k)
    BY DEF Fills
  <2> QED
    BY <2>1, CellFacts
<1>3. \A i \in 1..n : i \in B <=> t = NoTable \/ i > Len(t)
  BY DEF Behind
<1>4. u = [i \in 1..n |-> IF i \in B THEN fill[i] ELSE t[i]]
  BY DEF Realloc
<1> HIDE DEF u, B
<1>5. \A i \in 1..n : /\ u[i] \in Cell
                      /\ \/ t # NoTable /\ i \in DOMAIN t /\ u[i] = t[i]
                         \/ (t = NoTable \/ i > Len(t)) /\ u[i].hash = "junk"
  <2> SUFFICES ASSUME NEW i \in 1..n
               PROVE  /\ u[i] \in Cell
                      /\ \/ t # NoTable /\ i \in DOMAIN t /\ u[i] = t[i]
                         \/ (t = NoTable \/ i > Len(t)) /\ u[i].hash = "junk"
    OBVIOUS
  <2>1. CASE i \in B
    BY <1>2, <1>3, <1>4, <2>1
  <2>2. CASE i \notin B
    BY <1>1, <1>3, <1>4, <2>2
  <2> QED
    BY <2>1, <2>2
<1>6. u = [i \in 1..n |-> u[i]]
  BY <1>4
<1>7. u \in Seq(Cell) /\ Len(u) = n /\ DOMAIN u = 1..n
  BY <1>5, <1>6, MakeTable
<1> QED
  BY <1>5, <1>7 DEF u, Extended

LEMMA MoreVerified ==
  ASSUME NEW t, NEW c, NEW v, NEW w, v \subseteq w, AllVerified(t, c, v)
  PROVE  AllVerified(t, c, w)
BY DEF AllVerified

-----------------------------------------------------------------------------
(* add_verified: the cell that is written *)
LEMMA AddAtFacts ==
  ASSUME NEW t, NEW a \in Nat, NEW n, NEW h
  PROVE  /\ AddAt(t, a, n, h) \in 1..(a + 1)
         /\ AddAt(t, a, n, h) <= a => t[AddAt(t, a, n, h)].num \in {0, n}
         /\ \A j \in 1..a : j < AddAt(t, a, n, h) => t[j].num \notin {0, n}
<1> DEFINE fit == {i \in 1..a : t[i].num \in {0, n}}
           at == AddAt(t, a, n, h)
<1>1. at = IF fit # {} THEN CHOOSE i \in fit : \A j \in fit : i <= j ELSE a + 1
  BY DEF AddAt
<1> HIDE DEF at
<1>2. CASE fit # {}
  <2>1. fit \in SUBSET Nat
    OBVIOUS
  <2>2. \E i \in fit : \A j \in fit : i <= j
    BY <1>2, <2>1, Least
  <2>3. at \in fit /\ \A j \in fit : at <= j
    BY <1>1, <1>2, <2>2
  <2> QED
    BY <2>3 DEF at
<1>3. CASE fit = {}
  <2>1. at = a + 1
    BY <1>1, <1>3
  <2> QED
    BY <1>3, <2>1 DEF at
<1> QED
  BY <1>2, <1>3

(* What the table becomes, of which a cells are in use. *)
Put(t, a, at, n, h, fill) == Write(IF at > a THEN Realloc(t, a + 1, fill) ELSE t, at, Entry(n, h))

(* u is the table t with e in the cell at. *)
Added(t, a, at, e, u) ==
  /\ u \in Seq(Cell)
  /\ at > a => Len(u) = at /\ u[at] = e /\ \A i \in 1..a : i <= Len(t) => u[i] = t[i]
  /\ at <= a => /\ Len(u) = Len(t) /\ (at \in DOMAIN t => u[at] = e)
                /\ \A i \in DOMAIN t : i # at => u[i] = t[i]

Slots(a) == 1..(a + 1)

LEMMA AddedVerified ==
  ASSUME ConstantsOK, NEW t \in Seq(Cell), t # NoTable, NEW a \in Nat, NEW c, NEW v, AllVerified(t, c, v),
         NEW n \in Numbers, NEW h \in Hash[n], NEW at \in Slots(a), NEW fill \in Fills(t, a + 1)
  PROVE  /\ AllVerified(Put(t, a, at, n, h, fill), c, v \cup {<<c, n, h>>})
         /\ Added(t, a, at, Entry(n, h), Put(t, a, at, n, h, fill))
<1> DEFINE e == Entry(n, h)
           u == Put(t, a, at, n, h, fill)
<1> HIDE DEF u
<1>0. at \in 1..(a + 1)
  BY DEF Slots
<1>1. Len(t) \in Nat /\ DOMAIN t = 1..Len(t) /\ \A i \in DOMAIN t : t[i] \in Cell /\ t[i].num \in Nat
  BY Positions
<1>2. e \in Cell /\ e.num = n /\ e.hash = h
  BY CellFacts
<1> HIDE DEF e
<1>3. CASE at > a
  <2>1. at = a + 1 /\ at \in Nat /\ a + 1 \in Nat
    BY <1>0, <1>3
  <2> DEFINE g == Realloc(t, a + 1, fill)
  <2>2. u = Write(g, at, e)
    BY <1>3 DEF Put, e, u
  <2>3. Extended(t, a + 1, g)
    BY <2>1, Reallocated
  <2> HIDE DEF g
  <2>4. /\ g \in Seq(Cell) /\ Len(g) = at
        /\ \A i \in 1..at : (i \in DOMAIN t /\ g[i] = t[i]) \/ (i > Len(t) /\ g[i].hash = "junk")
    BY <2>1, <2>3 DEF Extended
  <2>5. u \in Seq(Cell) /\ Len(u) = at /\ DOMAIN u = 1..at /\ \A i \in 1..at : u[i] = IF i = at THEN e ELSE g[i]
    BY <1>2, <2>2, <2>4, Written
  <2>6. ASSUME NEW i \in 1..at, u[i].num # 0, u[i].hash # "junk" PROVE <<c, u[i].num, u[i].hash>> \in v \cup {<<c, n, h>>}
    <3>1. CASE i = at
      BY <1>2, <2>5, <3>1
    <3>2. CASE i # at
      BY <2>4, <2>5, <2>6, <3>2 DEF AllVerified
    <3> QED
      BY <3>1, <3>2
  <2>7. AllVerified(u, c, v \cup {<<c, n, h>>})
    BY <2>5, <2>6 DEF AllVerified
  <2>8. \A i \in 1..a : i <= Len(t) => u[i] = t[i]
    BY <1>1, <2>1, <2>4, <2>5
  <2>9. u[at] = e
    BY <2>1, <2>5
  <2> QED
    BY <1>3, <2>1, <2>5, <2>7, <2>8, <2>9 DEF e, u, Added
<1>4. CASE at <= a
  <2>0. ~(at > a)
    BY <1>0, <1>4
  <2>1. u = Write(t, at, e)
    BY <2>0 DEF Put, e, u
  <2>3. u \in Seq(Cell) /\ Len(u) = Len(t) /\ DOMAIN u = 1..Len(t)
        /\ \A i \in 1..Len(t) : u[i] = IF i = at THEN e ELSE t[i]
    BY <1>1, <1>2, <2>1, Written
  <2>4. AllVerified(u, c, v \cup {<<c, n, h>>})
    BY <1>1, <1>2, <2>3 DEF AllVerified
  <2>5. (at \in DOMAIN t => u[at] = e) /\ \A i \in DOMAIN t : i # at => u[i] = t[i]
    BY <1>1, <2>3
  <2>6. ~(at > a)
    BY <1>0, <1>4
  <2> QED
    BY <2>3, <2>4, <2>5, <2>6 DEF e, u, Added
<1> QED
  BY <1>0, <1>3, <1>4


-----------------------------------------------------------------------------
(* What is in the table was verified. *)

LEMMA BaseFacts ==
  ASSUME Base
  PROVE  /\ chain \in Chain /\ pending \in Nat /\ max \in Nat /\ alloc \in Nat
         /\ table # NoTable => table \in Seq(Cell) /\ AllVerified(table, chain, verified)
         /\ Outgrown(table, max, alloc, pending)
BY DEF Base

LEMMA ZerosFacts ==
  ASSUME ConstantsOK, NEW n \in Nat, NEW c, NEW v
  PROVE  /\ Zeros(n) \in Seq(Cell) /\ Len(Zeros(n)) = n /\ DOMAIN Zeros(n) = 1..n
         /\ \A i \in 1..n : Zeros(n)[i].num = 0
         /\ AllVerified(Zeros(n), c, v) /\ Zeros(n) # NoTable
<1> DEFINE u == Zeros(n)
<1>1. u = [i \in 1..n |-> Zero]
  BY DEF Zeros
<1> HIDE DEF u
<1>2. u = [i \in 1..n |-> u[i]] /\ \A i \in 1..n : u[i] \in Cell /\ u[i].num = 0
  BY <1>1, CellFacts
<1>3. u \in Seq(Cell) /\ Len(u) = n /\ DOMAIN u = 1..n
  BY <1>2, MakeTable
<1>4. AllVerified(u, c, v) /\ u # NoTable
  BY <1>2, <1>3 DEF AllVerified, ConstantsOK
<1> QED
  BY <1>2, <1>3, <1>4 DEF u

(* What add_verified starts from, and what it leaves. *)
Start == IF table = NoTable THEN Zeros(max) ELSE table
InUse == IF table = NoTable THEN max ELSE alloc
Adds(n, h, fill, at) ==
  /\ at = AddAt(Realloc(Start, InUse + 1, fill), InUse, n, h)
  /\ table' = Put(Start, InUse, at, n, h, fill) /\ alloc' = IF at > InUse THEN at ELSE InUse
  /\ newest' = IF at > InUse \/ Realloc(Start, InUse + 1, fill)[at].num = 0 \/ newest.num = n THEN Entry(n, h) ELSE newest

LEMMA AddsSomewhere ==
  ASSUME NEW n, NEW h, NEW answers, VerifyBlockheader(n, h, answers), max # 0
  PROVE  \E fill \in Fills(Start, InUse + 1) : \E at \in {AddAt(Realloc(Start, InUse + 1, fill), InUse, n, h)} : Adds(n, h, fill, at)
BY DEF VerifyBlockheader, AddVerified, Adds, Put, Start, InUse

LEMMA StartFacts ==
  ASSUME ConstantsOK, Base
  PROVE  /\ Start \in Seq(Cell) /\ Start # NoTable /\ InUse \in Nat /\ AllVerified(Start, chain, verified)
         /\ InUse > max => Len(Start) = InUse
BY BaseFacts, ZerosFacts DEF Start, InUse, Outgrown

LEMMA VerifyBase ==
  ASSUME ConstantsOK, Base, NEW n \in Numbers, NEW h \in Hash[n], NEW answers, VerifyBlockheader(n, h, answers)
  PROVE  Base'
<1> DEFINE t == Start
           a == InUse
<1>1. UNCHANGED <<chain, pending, max, stored>> /\ verified' = verified \cup {<<chain, n, h>>} /\ pending > 0
  BY DEF VerifyBlockheader
<1>2. CASE max = 0
  <2>1. UNCHANGED <<table, alloc>>
    BY <1>2 DEF VerifyBlockheader, AddVerified
  <2> QED
    BY <1>1, <2>1, MoreVerified DEF Base, AllVerified, Outgrown
<1>3. CASE max # 0
  <2>1. PICK fill \in Fills(t, a + 1) : \E at \in {AddAt(Realloc(t, a + 1, fill), a, n, h)} : Adds(n, h, fill, at)
    BY <1>3, AddsSomewhere
  <2> DEFINE at == AddAt(Realloc(t, a + 1, fill), a, n, h)
             u == Put(t, a, at, n, h, fill)
  <2>2. table' = u /\ alloc' = IF at > a THEN at ELSE a
    BY <2>1 DEF Adds
  <2>3. t \in Seq(Cell) /\ t # NoTable /\ a \in Nat /\ AllVerified(t, chain, verified) /\ (a > max => Len(t) = a)
    BY StartFacts
  <2>4. at \in Slots(a) /\ at \in 1..(a + 1)
    BY <2>3, AddAtFacts DEF Slots
  <2> HIDE DEF t, a, at
  <2>50. AllVerified(u, chain, verified \cup {<<chain, n, h>>}) /\ Added(t, a, at, Entry(n, h), u)
    BY <2>3, <2>4, AddedVerified
  <2> HIDE DEF u
  <2>5. u \in Seq(Cell) /\ AllVerified(u, chain, verified') /\ (at > a => Len(u) = at) /\ (at <= a => Len(u) = Len(t))
    BY <1>1, <2>50 DEF Added
  <2>6. Outgrown(table', max, alloc', pending) /\ alloc' \in Nat
    BY <1>1, <2>2, <2>3, <2>4, <2>5, BaseFacts DEF Outgrown, ConstantsOK
  <2> QED
    BY <1>1, <2>2, <2>5, <2>6, MoreVerified DEF Base, AllVerified, Outgrown
<1> QED
  BY <1>2, <1>3

LEMMA ShrunkFacts ==
  ASSUME ConstantsOK, Base, alloc > max
  PROVE  /\ Shrunk(table) \in Seq(Cell) /\ Len(Shrunk(table)) = max /\ DOMAIN Shrunk(table) = 1..max
         /\ \A i \in 1..max : Shrunk(table)[i] = table[i + alloc - max] /\ i + alloc - max \in DOMAIN table
<1> DEFINE u == Shrunk(table)
<1>1. table \in Seq(Cell) /\ Len(table) = alloc /\ max \in Nat /\ alloc \in Nat
  BY BaseFacts DEF Outgrown
<1>2. DOMAIN table = 1..alloc /\ \A i \in DOMAIN table : table[i] \in Cell
  BY <1>1, Positions
<1>3. \A i \in 1..max : i + alloc - max \in DOMAIN table
  BY <1>1, <1>2
<1>4. u = [i \in 1..max |-> table[i + alloc - max]]
  BY DEF Shrunk
<1> HIDE DEF u
<1>5. u = [i \in 1..max |-> u[i]] /\ \A i \in 1..max : u[i] = table[i + alloc - max]
  BY <1>4
<1>6. \A i \in 1..max : u[i] \in Cell
  BY <1>2, <1>3, <1>5
<1>7. u \in Seq(Cell) /\ Len(u) = max /\ DOMAIN u = 1..max
  BY <1>1, <1>5, <1>6, MakeTable
<1> QED
  BY <1>3, <1>5, <1>7 DEF u

LEMMA FreeBase ==
  ASSUME ConstantsOK, Base, FreeRequest
  PROVE  Base'
<1>1. UNCHANGED <<chain, max, stored, verified>> /\ pending' = pending - 1 /\ pending > 0
  BY DEF FreeRequest
<1>2. pending' \in Nat
  BY <1>1, BaseFacts
<1>3. CASE pending' <= 1 /\ alloc > max
  <2>1. table' = Shrunk(table) /\ alloc' = max
    BY <1>3 DEF FreeRequest
  <2>2. AllVerified(Shrunk(table), chain, verified)
    BY <1>3, ShrunkFacts DEF AllVerified, Base, Outgrown
  <2>3. Outgrown(table', max, alloc', pending')
    BY <2>1, BaseFacts DEF Outgrown
  <2> QED
    BY <1>1, <1>2, <1>3, <2>1, <2>2, <2>3, ShrunkFacts DEF Base, Outgrown, AllVerified
<1>4. CASE ~(pending' <= 1 /\ alloc > max)
  <2>1. UNCHANGED <<table, alloc>>
    BY <1>4 DEF FreeRequest
  <2>2. Outgrown(table, max, alloc, pending')
    BY <1>2, <1>4, BaseFacts DEF Outgrown
  <2> QED
    BY <1>1, <1>2, <2>1, <2>2 DEF Base, Outgrown, AllVerified
<1> QED
  BY <1>3, <1>4

(* in3_configure: what becomes of the table *)
Enlarged(t, from, m, fill) == Clear(Realloc(t, m, fill), from + 1, m)

Grown(t, from, m, u) ==
  /\ u \in Seq(Cell) /\ Len(u) = m /\ DOMAIN u = 1..m
  /\ \A i \in 1..m : \/ u[i].num = 0 /\ i > from
                     \/ u[i].hash = "junk" /\ (t = NoTable \/ i > Len(t))
                     \/ t # NoTable /\ i <= from /\ i \in DOMAIN t /\ u[i] = t[i]

LEMMA GrownFacts ==
  ASSUME ConstantsOK, NEW t, t # NoTable => t \in Seq(Cell), NEW from \in Nat, NEW m \in Nat, from <= m,
         NEW fill \in Fills(t, m)
  PROVE  Grown(t, from, m, Enlarged(t, from, m, fill))
<1> DEFINE g == Realloc(t, m, fill)
           u == Clear(g, from + 1, m)
<1>1. Extended(t, m, g)
  BY Reallocated
<1> HIDE DEF g
<1>2. /\ g \in Seq(Cell) /\ Len(g) = m
      /\ \A i \in 1..m : \/ t # NoTable /\ i \in DOMAIN t /\ g[i] = t[i]
                         \/ (t = NoTable \/ i > Len(t)) /\ g[i].hash = "junk"
  BY <1>1 DEF Extended
<1>3. u \in Seq(Cell) /\ Len(u) = m /\ DOMAIN u = 1..m
      /\ \A i \in 1..m : u[i] = IF i \in (from + 1)..m THEN Zero ELSE g[i]
  BY <1>2, Cleared
<1> HIDE DEF u
<1>4. \A i \in 1..m : IF i > from THEN u[i].num = 0 ELSE u[i] = g[i]
  BY <1>3, CellFacts
<1>5. \A i \in 1..m : \/ u[i].num = 0 /\ i > from
                      \/ u[i].hash = "junk" /\ (t = NoTable \/ i > Len(t))
                      \/ t # NoTable /\ i <= from /\ i \in DOMAIN t /\ u[i] = t[i]
  BY <1>2, <1>4
<1> QED
  BY <1>3, <1>5 DEF u, g, Grown, Enlarged

LEMMA ConfigMaxBase ==
  ASSUME ConstantsOK, Base, NEW m \in Sizes, ConfigMax(m)
  PROVE  Base'
<1>1. UNCHANGED <<chain, pending, stored, verified>> /\ max' = m /\ alloc' = m /\ m \in Nat
  BY DEF ConfigMax, ConstantsOK
<1>2. table' # NoTable => table' \in Seq(Cell) /\ AllVerified(table', chain, verified)
  <2>1. CASE max < m
    <3>1. PICK fill \in Fills(table, m) : table' = Enlarged(table, max, m, fill)
      BY <2>1 DEF ConfigMax, Enlarged
    <3> DEFINE u == Enlarged(table, max, m, fill)
    <3>2. max \in Nat /\ max <= m /\ (table # NoTable => table \in Seq(Cell))
      BY <1>1, <2>1, BaseFacts
    <3>3. Grown(table, max, m, u)
      BY <1>1, <3>2, GrownFacts
    <3> HIDE DEF u
    <3>4. u \in Seq(Cell) /\ DOMAIN u = 1..m
          /\ \A i \in 1..m : u[i].num = 0 \/ u[i].hash = "junk" \/ (table # NoTable /\ i \in DOMAIN table /\ u[i] = table[i])
      BY <3>3 DEF Grown
    <3>5. AllVerified(u, chain, verified)
      BY <3>4, BaseFacts DEF AllVerified
    <3> QED
      BY <3>1, <3>4, <3>5 DEF u
  <2>2. CASE ~(max < m)
    BY <2>2, BaseFacts DEF ConfigMax
  <2> QED
    BY <2>1, <2>2
<1>3. Outgrown(table', max', alloc', pending)
  BY <1>1 DEF Outgrown
<1> QED
  BY <1>1, <1>2, <1>3 DEF Base, Outgrown, AllVerified


LEMMA ListFacts ==
  ASSUME ConstantsOK, NEW es \in Lists
  PROVE  /\ es \in Seq(Cell) /\ Len(es) \in Nat /\ DOMAIN es = 1..Len(es) /\ Len(es) <= 1
         /\ \A i \in DOMAIN es : es[i] \in Cell /\ es[i].num # 0
<1>1. es = <<>> \/ \E n \in Numbers : \E h \in Hash[n] : es = <<Entry(n, h)>>
  BY DEF Lists
<1>2. CASE es = <<>>
  BY <1>2
<1>3. ASSUME NEW n \in Numbers, NEW h \in Hash[n], es = <<Entry(n, h)>>
      PROVE  /\ es \in Seq(Cell) /\ Len(es) \in Nat /\ DOMAIN es = 1..Len(es) /\ Len(es) <= 1
             /\ \A i \in DOMAIN es : es[i] \in Cell /\ es[i].num # 0
  <2> DEFINE e == Entry(n, h)
  <2>1. e \in Cell /\ e.num # 0 /\ es = <<e>>
    BY <1>3, CellFacts
  <2> HIDE DEF e
  <2> QED
    BY <2>1
<1> QED
  BY <1>1, <1>2, <1>3

(* A table with the first cells overwritten. *)
LEMMA Overlaid ==
  ASSUME NEW t \in Seq(Cell), NEW es \in Seq(Cell)
  PROVE  LET u == [i \in DOMAIN t |-> IF i <= Len(es) THEN es[i] ELSE t[i]]
         IN  /\ u \in Seq(Cell) /\ Len(u) = Len(t) /\ DOMAIN u = 1..Len(t)
             /\ \A i \in 1..Len(t) : u[i] = IF i <= Len(es) THEN es[i] ELSE t[i]
<1> DEFINE u == [i \in DOMAIN t |-> IF i <= Len(es) THEN es[i] ELSE t[i]]
           L == Len(t)
<1>1. L \in Nat /\ DOMAIN t = 1..L /\ \A i \in 1..L : t[i] \in Cell
  BY Positions
<1>2. Len(es) \in Nat /\ \A i \in 1..Len(es) : es[i] \in Cell
  BY Positions
<1> HIDE DEF L
<1>3. u = [i \in 1..L |-> IF i <= Len(es) THEN es[i] ELSE t[i]]
  BY <1>1
<1> HIDE DEF u
<1>4. u = [i \in 1..L |-> u[i]] /\ \A i \in 1..L : u[i] = (IF i <= Len(es) THEN es[i] ELSE t[i]) /\ u[i] \in Cell
  BY <1>1, <1>2, <1>3
<1>5. u \in Seq(Cell) /\ Len(u) = L /\ DOMAIN u = 1..L
  BY <1>1, <1>4, MakeTable
<1> QED
  BY <1>4, <1>5 DEF u, L

(* The table before the hashes of the configuration are written. *)
Prepared(n) == IF table = NoTable THEN Zeros(max) ELSE Clear(table, n + 1, max)

LEMMA PreparedFacts ==
  ASSUME ConstantsOK, Base, NEW n \in Nat
  PROVE  /\ Prepared(n) \in Seq(Cell) /\ Len(Prepared(n)) = IF table = NoTable THEN max ELSE Len(table)
         /\ \A i \in 1..Len(Prepared(n)) :
              \/ Prepared(n)[i].num = 0
              \/ table # NoTable /\ i \in DOMAIN table /\ Prepared(n)[i] = table[i] /\ (i <= n \/ i > max)
<1>1. CASE table = NoTable
  BY <1>1, BaseFacts, ZerosFacts DEF Prepared
<1>2. CASE table # NoTable
  <2>1. table \in Seq(Cell) /\ max \in Nat /\ DOMAIN table = 1..Len(table) /\ Len(table) \in Nat
    BY <1>2, BaseFacts, Positions
  <2> DEFINE from == n + 1
             u == Clear(table, from, max)
  <2>2. from \in Nat
    BY <2>1
  <2> HIDE DEF from
  <2>3. u \in Seq(Cell) /\ Len(u) = Len(table) /\ DOMAIN u = 1..Len(table)
        /\ \A i \in 1..Len(table) : u[i] = IF i \in from..max THEN Zero ELSE table[i]
    BY <2>1, Cleared
  <2> HIDE DEF u
  <2>4. \A i \in 1..Len(table) : u[i].num = 0 \/ (u[i] = table[i] /\ (i <= n \/ i > max))
    BY <2>1, <2>3, CellFacts DEF from
  <2>5. Prepared(n) = u
    BY <1>2 DEF Prepared, u, from
  <2> QED
    BY <1>2, <2>1, <2>3, <2>4, <2>5
<1> QED
  BY <1>1, <1>2

LEMMA ConfigHashesTable ==
  ASSUME ConstantsOK, Base, NEW es \in Lists, NEW n \in Nat, ConfigHashes(es, n)
  PROVE  /\ table' \in Seq(Cell) /\ Len(table') = IF table = NoTable THEN max ELSE Len(table)
         /\ \A i \in 1..Len(table') :
              \/ i <= Len(es) /\ table'[i] = es[i]
              \/ i > Len(es) /\ table'[i].num = 0
              \/ /\ i > Len(es) /\ (i <= n \/ i > max)
                 /\ table # NoTable /\ i \in DOMAIN table /\ table'[i] = table[i]
<1> DEFINE t == Prepared(n)
           u == [i \in DOMAIN t |-> IF i <= Len(es) THEN es[i] ELSE t[i]]
<1>1. table' = u
  BY DEF ConfigHashes, Prepared
<1>2. /\ t \in Seq(Cell) /\ Len(t) = IF table = NoTable THEN max ELSE Len(table)
      /\ \A i \in 1..Len(t) : t[i].num = 0 \/ (table # NoTable /\ i \in DOMAIN table /\ t[i] = table[i] /\ (i <= n \/ i > max))
  BY PreparedFacts
<1>3. es \in Seq(Cell) /\ Len(es) \in Nat
  BY ListFacts
<1> HIDE DEF t
<1>4. Len(t) \in Nat
  BY <1>2, Positions
<1>5. u \in Seq(Cell) /\ Len(u) = Len(t) /\ \A i \in 1..Len(t) : u[i] = IF i <= Len(es) THEN es[i] ELSE t[i]
  BY <1>2, <1>3, Overlaid
<1> HIDE DEF u
<1> QED
  BY <1>1, <1>2, <1>3, <1>4, <1>5

LEMMA ConfigHashesBase ==
  ASSUME ConstantsOK, Base, NEW es \in Lists, NEW n \in Nat, ConfigHashes(es, n)
  PROVE  Base'
<1>1. /\ UNCHANGED <<chain, pending, max, stored>> /\ alloc' \in {max, alloc} /\ pending = 0
      /\ verified' = verified \cup {<<chain, es[i].num, es[i].hash>> : i \in DOMAIN es}
  BY DEF ConfigHashes
<1>2. DOMAIN es = 1..Len(es) /\ Len(es) \in Nat
  BY ListFacts
<1>3. table' \in Seq(Cell) /\ DOMAIN table' = 1..Len(table')
  BY ConfigHashesTable, Positions
<1>4. AllVerified(table', chain, verified')
  <2> SUFFICES ASSUME NEW i \in 1..Len(table'), table'[i].num # 0, table'[i].hash # "junk"
               PROVE  <<chain, table'[i].num, table'[i].hash>> \in verified'
    BY <1>3 DEF AllVerified
  <2>1. CASE i <= Len(es) /\ table'[i] = es[i]
    BY <1>1, <1>2, <1>3, <2>1
  <2>2. CASE table # NoTable /\ i \in DOMAIN table /\ table'[i] = table[i]
    BY <1>1, <2>2, BaseFacts DEF AllVerified
  <2> QED
    BY <2>1, <2>2, ConfigHashesTable
<1>5. Outgrown(table', max, alloc', pending) /\ alloc' \in Nat
  BY <1>1, BaseFacts DEF Outgrown
<1>6. \A c \in Chain : stored[c] \in Seq(Cell) /\ AllVerified(stored[c], c, verified')
  BY <1>1, MoreVerified DEF Base
<1> QED
  BY <1>1, <1>3, <1>4, <1>5, <1>6 DEF Base, Outgrown, AllVerified


(* in3_client_register_chain, in3_cache_update_nodelist *)
LEMMA LoadedFacts ==
  ASSUME ConstantsOK, Base, NEW c \in Chain, stored[c] # <<>>, NEW m \in Nat
  PROVE  /\ Loaded(c, m) \in Seq(Cell) /\ Len(Loaded(c, m)) = m
         /\ \A i \in 1..m : \/ i \in DOMAIN stored[c] /\ Loaded(c, m)[i] = stored[c][i]
                            \/ i > Len(stored[c]) /\ Loaded(c, m)[i].num = 0
<1> DEFINE t == Zeros(m)
           s == stored[c]
           u == [i \in DOMAIN t |-> IF i <= Len(s) THEN s[i] ELSE t[i]]
<1>1. Loaded(c, m) = u
  BY DEF Loaded, NewTable
<1>2. t \in Seq(Cell) /\ Len(t) = m /\ \A i \in 1..m : t[i].num = 0
  BY ZerosFacts
<1>3. s \in Seq(Cell) /\ Len(s) \in Nat /\ DOMAIN s = 1..Len(s)
  BY Positions DEF Base
<1> HIDE DEF t, s
<1>4. u \in Seq(Cell) /\ Len(u) = m /\ \A i \in 1..m : u[i] = IF i <= Len(s) THEN s[i] ELSE t[i]
  BY <1>2, <1>3, Overlaid
<1> HIDE DEF u
<1> QED
  BY <1>1, <1>2, <1>3, <1>4 DEF s

LEMMA LoadedVerified ==
  ASSUME ConstantsOK, Base, NEW c \in Chain, NEW m \in Nat, Loaded(c, m) # NoTable
  PROVE  Loaded(c, m) \in Seq(Cell) /\ AllVerified(Loaded(c, m), c, verified)
<1>0. stored[c] # <<>>
  BY DEF Loaded, NewTable
<1>1. DOMAIN Loaded(c, m) = 1..m /\ Loaded(c, m) \in Seq(Cell)
  BY <1>0, LoadedFacts, Positions
<1>2. AllVerified(stored[c], c, verified)
  BY DEF Base
<1> QED
  BY <1>0, <1>1, <1>2, LoadedFacts DEF AllVerified

LEMMA ConfigChainBase ==
  ASSUME ConstantsOK, Base, NEW c \in Chain, ConfigChain(c)
  PROVE  Base'
<1>1. UNCHANGED <<pending, max, alloc, stored, verified>> /\ chain' = c /\ pending = 0
      /\ (table' = NoTable \/ table' = Loaded(c, max))
  BY DEF ConfigChain, NewTable
<1>2. table' # NoTable => table' \in Seq(Cell) /\ AllVerified(table', c, verified)
  BY <1>1, BaseFacts, LoadedVerified
<1>3. Outgrown(table', max, alloc, pending)
  BY <1>1, BaseFacts DEF Outgrown
<1> QED
  BY <1>1, <1>2, <1>3 DEF Base, Outgrown, AllVerified

LEMMA RestartFacts ==
  ASSUME NEW c, Restart(c)
  PROVE  /\ UNCHANGED <<stored, verified, spoiled>> /\ chain' = c /\ pending' = 0 /\ max' = DefaultMax /\ alloc' = 0
         /\ newest' = NoEntry /\ (table' = NoTable \/ table' = Loaded(c, DefaultMax))
BY DEF Restart

LEMMA RestartBase ==
  ASSUME ConstantsOK, Base, NEW c \in Chain, Restart(c)
  PROVE  Base'
<1>1. DefaultMax \in Nat
  BY DEF ConstantsOK
<1>2. table' # NoTable => table' \in Seq(Cell) /\ AllVerified(table', c, verified)
  BY <1>1, RestartFacts, LoadedVerified
<1>3. Outgrown(table', DefaultMax, 0, 0)
  BY <1>1 DEF Outgrown
<1> QED
  BY <1>1, <1>2, <1>3, RestartFacts DEF Base, Outgrown, AllVerified

(* in3_cache_store_nodelist: the cells that are stored are the first ones, or *)
(* memory behind the table.                                                   *)
LEMMA StoreFacts ==
  ASSUME ConstantsOK, Base, StoreNodelist
  PROVE  \E s \in Seq(Cell) :
           /\ stored' = [stored EXCEPT ![chain] = s]
           /\ \A i \in DOMAIN s : /\ i <= max /\ s[i].num # 0
                                  /\ \/ table # NoTable /\ i \in DOMAIN table /\ s[i] = table[i]
                                     \/ (table = NoTable \/ i > Len(table)) /\ s[i].hash = "junk"
<1>0. PICK fill \in Fills(table, max) :
        LET used == IF table = NoTable THEN <<>> ELSE Realloc(table, max, fill)
            end  == {i \in DOMAIN used : used[i].num = 0}
        IN  stored' = [stored EXCEPT ![chain] =
              IF end = {} THEN used ELSE SubSeq(used, 1, (CHOOSE i \in end : \A j \in end : i <= j) - 1)]
  BY DEF StoreNodelist
<1> DEFINE used == IF table = NoTable THEN <<>> ELSE Realloc(table, max, fill)
           end == {i \in DOMAIN used : used[i].num = 0}
           first == CHOOSE i \in end : \A j \in end : i <= j
           s == IF end = {} THEN used ELSE SubSeq(used, 1, first - 1)
<1>1. stored' = [stored EXCEPT ![chain] = s]
  BY <1>0
<1>2. /\ used \in Seq(Cell)
      /\ \A i \in DOMAIN used : /\ i <= max
                                /\ \/ table # NoTable /\ i \in DOMAIN table /\ used[i] = table[i]
                                   \/ (table = NoTable \/ i > Len(table)) /\ used[i].hash = "junk"
  <2>1. CASE table = NoTable
    BY <2>1
  <2>2. CASE table # NoTable
    <3>1. max \in Nat /\ table \in Seq(Cell) /\ used = Realloc(table, max, fill)
      BY <2>2, BaseFacts
    <3>2. Extended(table, max, used)
      BY <3>1, Reallocated
    <3> HIDE DEF used
    <3> QED
      BY <2>2, <3>1, <3>2 DEF Extended
  <2> QED
    BY <2>1, <2>2
<1> HIDE DEF used
<1>3. Len(used) \in Nat /\ DOMAIN used = 1..Len(used) /\ \A i \in DOMAIN used : used[i] \in Cell
  BY <1>2, Positions
<1>4. s \in Seq(Cell) /\ \A i \in DOMAIN s : i \in DOMAIN used /\ s[i] = used[i] /\ s[i].num # 0
  <2>1. CASE end = {}
    BY <1>2, <1>3, <2>1
  <2>2. CASE end # {}
    <3>1. end \in SUBSET Nat
      BY <1>3
    <3>2. first \in end /\ \A j \in end : first <= j
      BY <2>2, <3>1, Least
    <3> HIDE DEF first
    <3>3. first \in 1..Len(used)
      BY <1>3, <3>2
    <3> DEFINE k == first - 1
    <3>4. k \in Nat /\ k <= Len(used) /\ \A i \in 1..k : i \notin end /\ i \in 1..Len(used)
      BY <1>3, <3>2, <3>3
    <3>5. s = SubSeq(used, 1, k)
      BY <2>2
    <3> HIDE DEF k
    <3>6. s = [i \in 1..k |-> used[i]]
      <4> HIDE DEF s
      <4>1. SubSeq(used, 1, k) = [i \in 1..k |-> used[i]]
        BY <1>2, <1>3, <3>4
      <4> QED
        BY <3>5, <4>1
    <3> HIDE DEF s
    <3>7. s = [i \in 1..k |-> s[i]] /\ \A i \in 1..k : s[i] = used[i] /\ s[i] \in Cell
      BY <1>3, <3>4, <3>6
    <3>8. s \in Seq(Cell) /\ DOMAIN s = 1..k
      BY <3>4, <3>7, MakeTable
    <3> QED
      BY <1>3, <3>4, <3>7, <3>8
  <2> QED
    BY <2>1, <2>2
<1> HIDE DEF s
<1> QED
  BY <1>1, <1>2, <1>4

LEMMA StoreBase ==
  ASSUME ConstantsOK, Base, StoreNodelist
  PROVE  Base'
<1>1. UNCHANGED <<chain, pending, max, alloc, table, verified>>
  BY DEF StoreNodelist
<1>2. PICK s \in Seq(Cell) : /\ stored' = [stored EXCEPT ![chain] = s]
                            /\ \A i \in DOMAIN s : s[i].hash = "junk" \/ (table # NoTable /\ i \in DOMAIN table /\ s[i] = table[i])
  BY StoreFacts
<1>3. AllVerified(s, chain, verified)
  BY <1>2, BaseFacts DEF AllVerified
<1>4. \A c \in Chain : stored'[c] \in Seq(Cell) /\ AllVerified(stored'[c], c, verified)
  BY <1>2, <1>3 DEF Base
<1> QED
  BY <1>1, <1>2, <1>4 DEF Base, Outgrown, AllVerified

LEMMA InitBase == ASSUME ConstantsOK, Init PROVE Base
<1>1. \A c \in Chain : stored[c] = <<>>
  BY DEF Init
<1>2. stored = [c \in Chain |-> <<>>] /\ chain \in Chain /\ pending = 0 /\ max = DefaultMax /\ alloc = 0 /\ table = NoTable
  BY DEF Init
<1>3. \A c \in Chain : stored[c] \in Seq(Cell) /\ AllVerified(stored[c], c, verified)
  <2>1. <<>> \in Seq(Cell) /\ DOMAIN <<>> = {}
    OBVIOUS
  <2> QED
    BY <1>1, <2>1 DEF AllVerified
<1> QED
  BY <1>2, <1>3 DEF ConstantsOK, Base, Outgrown

LEMMA BaseStep ==
  ASSUME ConstantsOK, Base, [Next]_vars
  PROVE  Base'
<1>1. CASE NewRequest
  <2>1. UNCHANGED <<chain, max, alloc, table, stored, verified>> /\ pending' = pending + 1
    BY <1>1 DEF NewRequest
  <2>2. pending' \in Nat /\ Outgrown(table, max, alloc, pending')
    BY <2>1, BaseFacts DEF Outgrown
  <2> QED
    BY <2>1, <2>2 DEF Base, Outgrown, AllVerified
<1>2. CASE UNCHANGED vars
  BY <1>2 DEF vars, Base, Outgrown, AllVerified
<1>3. ASSUME NEW es \in Lists, NEW n \in {Len(es), Len(es) + 1}, ConfigHashes(es, n) PROVE Base'
  BY <1>3, ListFacts, ConfigHashesBase
<1> QED
  BY <1>1, <1>2, <1>3, FreeBase, StoreBase, VerifyBase, ConfigMaxBase, ConfigChainBase, RestartBase DEF Next


-----------------------------------------------------------------------------
(* A number has one hash, and the newest one is kept. *)

(* The cell for n: the first that is free or has it. *)
Fits(t, a, at, n) == (at <= a => t[at].num \in {0, n}) /\ \A j \in 1..a : j < at => t[j].num \notin {0, n}

Used(a, at, b) == b = IF at > a THEN at ELSE a

Kept(u, m, b, at, e) ==
  /\ b <= Len(u) /\ Ordered(u, Searched(u, m, b))
  /\ at \in DOMAIN u /\ u[at] = e

LEMMA AddedExact ==
  ASSUME NEW t \in Seq(Cell), NEW m \in Nat, NEW a \in Nat, a <= Len(t), Ordered(t, Searched(t, m, a)),
         NEW n \in Nat \ {0}, NEW at \in Slots(a),
         Fits(t, a, at, n), NEW e, e.num = n, NEW u, Added(t, a, at, e, u), NEW b \in Nat, Used(a, at, b)
  PROVE  Kept(u, m, b, at, e)
<1>0. /\ u \in Seq(Cell)
      /\ at > a => Len(u) = at /\ u[at] = e /\ \A i \in 1..a : i <= Len(t) => u[i] = t[i]
      /\ at <= a => /\ Len(u) = Len(t) /\ (at \in DOMAIN t => u[at] = e)
                    /\ \A i \in DOMAIN t : i # at => u[i] = t[i]
      /\ b = IF at > a THEN at ELSE a
      /\ at \in 1..(a + 1)
  BY DEF Added, Used, Slots
<1>00. (at <= a => t[at].num \in {0, n}) /\ \A j \in 1..a : j < at => t[j].num # 0 /\ t[j].num # n
  BY DEF Fits
<1>1. Len(t) \in Nat /\ DOMAIN t = 1..Len(t) /\ \A i \in DOMAIN t : t[i].num \in Nat
  BY Positions
<1>2. Len(u) \in Nat /\ DOMAIN u = 1..Len(u) /\ \A i \in DOMAIN u : u[i].num \in Nat
  BY <1>0, Positions
<1>3. CASE at > a
  <2>1. at = a + 1 /\ b = at /\ Len(u) = at /\ u[at] = e /\ u[at].num = n
    BY <1>0, <1>3
  <2>2. \A i \in 1..a : u[i] = t[i] /\ t[i].num # 0 /\ t[i].num # n /\ i \in Searched(t, m, a)
    <3>1. \A i \in 1..a : i < at /\ i <= Len(t) /\ i \in DOMAIN t
      BY <1>1, <2>1
    <3>2. \A i \in 1..a : u[i] = t[i]
      BY <1>0, <1>3, <3>1
    <3>3. \A i \in 1..a : t[i].num # 0 /\ t[i].num # n
      BY <1>00, <3>1
    <3>4. \A i \in 1..a : i \in Searched(t, m, a)
      BY <3>1 DEF Searched
    <3> QED
      BY <3>2, <3>3, <3>4
  <2>3. \A i, j \in DOMAIN u : i < j => i \in 1..a /\ (j = at \/ j \in 1..a)
    BY <1>2, <2>1
  <2>4. ASSUME NEW i \in DOMAIN u, NEW j \in DOMAIN u, i < j, u[i].num \in {0, u[j].num}
        PROVE  u[j].num = 0 \/ u[j].hash = "junk"
    <3>1. j # at
      BY <2>1, <2>2, <2>3, <2>4
    <3> QED
      BY <2>2, <2>3, <2>4, <3>1 DEF Ordered
  <2>5. Ordered(u, Searched(u, m, b))
    BY <2>4 DEF Ordered, Searched
  <2>6. b <= Len(u) /\ at \in DOMAIN u
    BY <1>0, <1>2, <2>1
  <2> QED
    BY <2>1, <2>5, <2>6 DEF Kept
<1>4. CASE at <= a
  <2>1. b = a /\ Len(u) = Len(t) /\ DOMAIN u = DOMAIN t /\ at \in DOMAIN t /\ u[at] = e /\ u[at].num = n
        /\ \A i \in DOMAIN t : i # at => u[i] = t[i]
    <3>1. ~(at > a) /\ at \in Nat /\ at >= 1 /\ at <= Len(t)
      BY <1>0, <1>1, <1>4
    <3>2. at \in DOMAIN t /\ b = a
      BY <1>0, <1>1, <3>1
    <3>3. Len(u) = Len(t) /\ DOMAIN u = DOMAIN t
      BY <1>0, <1>1, <1>2, <1>4
    <3> QED
      BY <1>0, <1>4, <3>2, <3>3
  <2> DEFINE S == Searched(t, m, a)
  <2>2. Searched(u, m, b) = S /\ S \subseteq DOMAIN t /\ at \in S /\ S \subseteq Nat
    BY <1>1, <1>4, <2>1 DEF Searched
  <2>3. \A j \in DOMAIN t : j < at => t[j].num # 0 /\ t[j].num # n
    <3>1. \A j \in DOMAIN t : j < at => j \in 1..a
      BY <1>0, <1>1, <1>4
    <3> QED
      BY <1>00, <3>1
  <2>4. Ordered(t, S) /\ t[at].num \in {0, n} /\ n # 0
    BY <1>00, <1>4
  <2> HIDE DEF S
  <2>5. ASSUME NEW i \in S, NEW j \in S, i < j, u[i].num \in {0, u[j].num}
        PROVE  u[j].num = 0 \/ u[j].hash = "junk"
    <3>1. CASE i = at
      <4>1. j # at /\ u[j] = t[j] /\ t[j].num = n
        BY <2>1, <2>2, <2>4, <2>5, <3>1
      <4> QED
        BY <2>4, <2>5, <3>1, <4>1 DEF Ordered
    <3>2. CASE j = at
      <4>1. i # at /\ u[i] = t[i] /\ i < at
        BY <2>1, <2>2, <2>5, <3>2
      <4> QED
        BY <2>1, <2>2, <2>3, <2>5, <3>2, <4>1
    <3>3. CASE i # at /\ j # at
      BY <2>1, <2>2, <2>4, <2>5, <3>3 DEF Ordered
    <3> QED
      BY <3>1, <3>2, <3>3
  <2>6. Ordered(u, S)
    BY <2>5 DEF Ordered
  <2> QED
    BY <1>4, <2>1, <2>2, <2>6 DEF Kept
<1> QED
  BY <1>0, <1>3, <1>4


LEMMA ExactFacts ==
  ASSUME Exact
  PROVE  /\ alloc < max => max = DefaultMax
         /\ alloc > max => max # 0 /\ newest # NoEntry
         /\ table # NoTable => /\ alloc <= Len(table)
                               /\ Ordered(table, Searched(table, max, alloc))
         /\ Newest(table, max, alloc, newest)
BY DEF Exact

LEMMA ZerosExact ==
  ASSUME ConstantsOK, NEW n \in Nat, NEW S \in SUBSET 1..n
  PROVE  Ordered(Zeros(n), S)
<1>1. \A i \in S : Zeros(n)[i].num = 0
  BY ZerosFacts
<1> QED
  BY <1>1 DEF Ordered

LEMMA VerifyExact ==
  ASSUME ConstantsOK, Base, Exact, NEW n \in Numbers, NEW h \in Hash[n], NEW answers, VerifyBlockheader(n, h, answers)
  PROVE  Exact'
<1> DEFINE t == Start
           a == InUse
           e == Entry(n, h)
<1>1. UNCHANGED <<chain, pending, max, stored>>
  BY DEF VerifyBlockheader
<1>2. CASE max = 0
  <2>1. UNCHANGED <<table, alloc, newest>>
    BY <1>2 DEF VerifyBlockheader, AddVerified
  <2> QED
    BY <1>1, <2>1 DEF Exact, Searched, Ordered, Newest
<1>3. CASE max # 0
  <2>0. PICK fill \in Fills(t, a + 1) : \E at \in {AddAt(Realloc(t, a + 1, fill), a, n, h)} : Adds(n, h, fill, at)
    BY <1>3, AddsSomewhere
  <2> DEFINE g == Realloc(t, a + 1, fill)
             at == AddAt(g, a, n, h)
             u == Put(t, a, at, n, h, fill)
  <2>01. /\ table' = u /\ alloc' = IF at > a THEN at ELSE a
         /\ newest' = IF at > a \/ g[at].num = 0 \/ newest.num = n THEN e ELSE newest
    BY <2>0 DEF Adds
  <2>2. t \in Seq(Cell) /\ t # NoTable /\ a \in Nat /\ a <= Len(t) /\ max \in Nat /\ AllVerified(t, chain, verified)
    BY BaseFacts, ExactFacts, ZerosFacts DEF Start, InUse
  <2>02. DOMAIN t = 1..Len(t) /\ Len(t) \in Nat
    BY <2>2, Positions
  <2>03. \A i \in 1..a : g[i] = t[i]
    <3>1. a + 1 \in Nat
      BY <2>2
    <3>2. Extended(t, a + 1, g)
      BY <2>2, <3>1, Reallocated
    <3> HIDE DEF g, t, a
    <3>3. \A i \in 1..a : i \in 1..(a + 1) /\ ~(i > Len(t))
      BY <2>2, <2>02
    <3> QED
      BY <2>2, <3>2, <3>3 DEF Extended
  <2>3. Ordered(t, Searched(t, max, a))
    <3>1. CASE table = NoTable
      <4>1. t = Zeros(max)
        BY <3>1 DEF Start
      <4>2. Searched(t, max, a) \in SUBSET 1..max
        BY <2>2, <4>1, ZerosFacts DEF Searched
      <4> QED
        BY <2>2, <4>1, <4>2, ZerosExact
    <3>2. CASE table # NoTable
      BY <3>2, ExactFacts DEF Start, InUse
    <3> QED
      BY <3>1, <3>2
  <2>4. at \in 1..(a + 1) /\ (at <= a => t[at].num \in {0, n}) /\ \A j \in 1..a : j < at => t[j].num \notin {0, n}
    <3>1. at \in 1..(a + 1) /\ (at <= a => g[at].num \in {0, n}) /\ \A j \in 1..a : j < at => g[j].num \notin {0, n}
      BY <2>2, AddAtFacts
    <3> HIDE DEF g, at, t, a
    <3>2. at <= a => at \in 1..a
      BY <2>2, <3>1
    <3> QED
      BY <2>03, <3>1, <3>2
  <2>1. /\ table' = u /\ alloc' = IF at > a THEN at ELSE a
        /\ newest' = IF at > a \/ t[at].num = 0 \/ newest.num = n THEN e ELSE newest
    <3>1. at <= a => at \in 1..a
      BY <2>2, <2>4
    <3>2. ~(at > a) => at <= a
      BY <2>2, <2>4
    <3> QED
      BY <2>01, <2>03, <3>1, <3>2
  <2>40. at \in Slots(a) /\ Fits(t, a, at, n)
    BY <2>4 DEF Slots, Fits
  <2>5. /\ a > max => newest # NoEntry /\ t[a] = newest /\ newest.num # 0 /\ newest.hash # "junk"
        /\ newest # NoEntry => newest.num # 0 /\ newest.hash # "junk" /\ \E i \in DOMAIN t : t[i] = newest
        /\ a < max => max = DefaultMax
    BY BaseFacts, ExactFacts DEF Newest, Start, InUse
  <2>6. n \in Nat \ {0} /\ e.num = n /\ e # NoEntry /\ e.hash # "junk"
    BY CellFacts DEF ConstantsOK, NoEntry
  <2> HIDE DEF t, a, at, e, g
  <2>70. Added(t, a, at, Entry(n, h), u)
    BY <2>2, <2>40, AddedVerified
  <2> HIDE DEF u
  <2>7. /\ u \in Seq(Cell)
        /\ at > a => Len(u) = at /\ u[at] = e /\ \A i \in 1..a : i <= Len(t) => u[i] = t[i]
        /\ at <= a => Len(u) = Len(t) /\ (at \in DOMAIN t => u[at] = e) /\ \A i \in DOMAIN t : i # at => u[i] = t[i]
    BY <2>70 DEF Added, e
  <2> DEFINE b == IF at > a THEN at ELSE a
  <2>8. b \in Nat
    BY <2>2, <2>4
  <2> HIDE DEF b
  <2>9. /\ b <= Len(u) /\ Ordered(u, Searched(u, max, b))
        /\ at \in DOMAIN u /\ u[at] = e
    <3>1. Used(a, at, b)
      BY DEF b, Used
    <3>2. Added(t, a, at, e, u)
      BY <2>70 DEF e
    <3>3. Kept(u, max, b, at, e)
      BY <2>2, <2>3, <2>40, <2>6, <2>8, <3>1, <3>2, AddedExact
    <3> QED
      BY <3>3 DEF Kept
  <2>10. u # NoTable
    BY <2>7 DEF ConstantsOK
  <2>11. DOMAIN t = 1..Len(t) /\ Len(t) \in Nat
    BY <2>2, Positions
  <2>12. Newest(u, max, b, newest')
    <3>1. CASE at > a
      BY <2>1, <2>6, <2>9, <2>10, <3>1 DEF Newest, b
    <3>2. CASE at <= a
      <4>1. b = a /\ at \in DOMAIN t /\ t[at].num \in {0, n} /\ u[at] = e
            /\ \A i \in DOMAIN t : i # at => u[i] = t[i] /\ DOMAIN u = DOMAIN t
        <5>1. DOMAIN u = 1..Len(u)
          BY <2>7, Positions
        <5>2. at \in Nat /\ at >= 1 /\ at <= Len(t) /\ ~(at > a)
          BY <2>2, <2>4, <2>11, <3>2
        <5>3. at \in DOMAIN t /\ b = a
          BY <2>11, <5>2 DEF b
        <5>4. Len(u) = Len(t) /\ DOMAIN u = DOMAIN t
          BY <2>7, <2>11, <3>2, <5>1
        <5> QED
          BY <2>4, <2>7, <3>2, <5>3, <5>4
      <4>2. ASSUME a > max, t[at].num = 0 \/ newest.num = n PROVE at = a
        <5>1. at \in Searched(t, max, a) /\ a \in Searched(t, max, a) /\ t[a] = newest /\ newest.num # 0 /\ newest.hash # "junk"
          BY <2>2, <2>4, <2>5, <2>11, <3>2, <4>2 DEF Searched
        <5>2. t[at].num \in {0, t[a].num}
          BY <4>1, <4>2, <5>1
        <5>3. ~(at < a)
          BY <2>3, <5>1, <5>2 DEF Ordered
        <5> QED
          BY <2>2, <2>4, <3>2, <5>3
      <4>3. CASE t[at].num = 0 \/ newest.num = n
        <5>1. newest' = e
          BY <2>1, <4>3
        <5>2. a > max => u[a] = e
          BY <4>1, <4>2, <4>3
        <5> QED
          BY <2>6, <2>9, <2>10, <4>1, <5>1, <5>2 DEF Newest
      <4>4. CASE ~(t[at].num = 0 \/ newest.num = n)
        <5>1. newest' = newest /\ t[at].num = n
          BY <2>1, <2>2, <2>4, <3>2, <4>1, <4>4
        <5>2. \A i \in DOMAIN t : t[i] = newest => u[i] = newest /\ i \in DOMAIN u
          BY <4>1, <4>4, <5>1
        <5>3. a > max => u[a] = newest
          BY <2>2, <2>5, <2>11, <5>2
        <5> QED
          BY <2>5, <2>10, <4>1, <5>1, <5>2, <5>3 DEF Newest
      <4> QED
        BY <4>3, <4>4
    <3> QED
      BY <2>2, <2>4, <3>1, <3>2
  <2>13. alloc' = b
    BY <2>1 DEF b
  <2>14. (b < max => max = DefaultMax) /\ (b > max => newest' # NoEntry)
    BY <2>1, <2>2, <2>4, <2>5, <2>6 DEF b
  <2> QED
    BY <1>1, <1>3, <2>1, <2>9, <2>12, <2>13, <2>14 DEF Exact, Ordered, Searched, Newest
<1> QED
  BY <1>2, <1>3

LEMMA FreeExact ==
  ASSUME ConstantsOK, Base, Exact, FreeRequest
  PROVE  Exact'
<1>1. UNCHANGED <<chain, max, stored, verified, newest>>
  BY DEF FreeRequest
<1>2. CASE pending' <= 1 /\ alloc > max
  <2> DEFINE u == Shrunk(table)
  <2>1. table' = u /\ alloc' = max
    BY <1>2 DEF FreeRequest
  <2>2. u \in Seq(Cell) /\ Len(u) = max /\ DOMAIN u = 1..max
        /\ \A i \in 1..max : u[i] = table[i + alloc - max] /\ i + alloc - max \in DOMAIN table
    BY <1>2, ShrunkFacts
  <2>3. max \in Nat /\ alloc \in Nat /\ alloc > max /\ max # 0 /\ newest # NoEntry /\ table # NoTable /\ Len(table) = alloc
    BY <1>2, BaseFacts, ExactFacts DEF Outgrown
  <2>4. Ordered(table, Searched(table, max, alloc))
        /\ table[alloc] = newest /\ newest.num # 0 /\ newest.hash # "junk"
    BY <2>3, ExactFacts DEF Newest
  <2>5. \A i \in 1..max : i + alloc - max \in Searched(table, max, alloc)
    BY <2>2, <2>3 DEF Searched
  <2> HIDE DEF u
  <2>6. Ordered(u, 1..max)
    <3> DEFINE p(i) == i + alloc - max
    <3>1. \A i \in 1..max : u[i] = table[p(i)] /\ p(i) \in Searched(table, max, alloc)
      BY <2>2, <2>5
    <3>2. \A i, j \in 1..max : i < j => p(i) < p(j)
      BY <2>3
    <3> HIDE DEF p
    <3> QED
      BY <2>4, <3>1, <3>2 DEF Ordered
  <2>7. Searched(u, max, max) = 1..max
    BY <2>2, <2>3 DEF Searched
  <2>8. u[max] = newest /\ max \in DOMAIN u
    BY <2>2, <2>3, <2>4
  <2>9. Newest(u, max, max, newest)
    BY <2>2, <2>3, <2>4, <2>8 DEF Newest, ConstantsOK
  <2>10. max <= Len(u)
    BY <2>2, <2>3
  <2>11. /\ alloc' <= Len(table')
         /\ Ordered(table', Searched(table', max', alloc'))
         /\ Newest(table', max', alloc', newest') /\ ~(alloc' > max') /\ ~(alloc' < max')
    BY <1>1, <2>1, <2>3, <2>6, <2>7, <2>9, <2>10
  <2> QED
    BY <1>1, <2>11 DEF Exact, Ordered, Searched, Newest
<1>3. CASE ~(pending' <= 1 /\ alloc > max)
  <2>1. UNCHANGED <<table, alloc>>
    BY <1>3 DEF FreeRequest
  <2> QED
    BY <1>1, <2>1 DEF Exact, Ordered, Searched, Newest
<1> QED
  BY <1>2, <1>3


(* maxVerifiedHashes is raised, and never lowered to its default or below. *)
Raised == \A m \in Sizes : m > DefaultMax

LEMMA ConfigMaxExact ==
  ASSUME ConstantsOK, Raised, Base, Exact, NEW m \in Sizes, ConfigMax(m)
  PROVE  Exact'
<1>1. UNCHANGED <<chain, pending, stored, verified>> /\ max' = m /\ alloc' = m /\ m \in Nat /\ newest' = NoEntry
  BY DEF ConfigMax, ConstantsOK
<1>2. max \in Nat /\ alloc \in Nat /\ m > DefaultMax
  BY BaseFacts DEF Raised
<1>3. ASSUME table' # NoTable
      PROVE  m <= Len(table') /\ Ordered(table', Searched(table', m, m))
  <2>1. CASE max < m
    <3>0. PICK fill \in Fills(table, m) : table' = Enlarged(table, max, m, fill)
      BY <2>1 DEF ConfigMax, Enlarged
    <3> DEFINE u == Enlarged(table, max, m, fill)
    <3>00. max <= m /\ (table # NoTable => table \in Seq(Cell))
      BY <1>1, <1>2, <2>1, BaseFacts
    <3>01. Grown(table, max, m, u)
      BY <1>1, <1>2, <3>00, GrownFacts
    <3>02. table' = u
      BY <3>0
    <3> HIDE DEF u
    <3>1. /\ u \in Seq(Cell) /\ Len(u) = m /\ DOMAIN u = 1..m
          /\ \A i \in 1..m : \/ u[i].num = 0 /\ i > max
                             \/ u[i].hash = "junk" /\ (table = NoTable \/ i > Len(table))
                             \/ table # NoTable /\ i <= max /\ i \in DOMAIN table /\ u[i] = table[i]
      BY <3>01 DEF Grown
    <3>2. Searched(u, m, m) \subseteq 1..m
      BY <3>1 DEF Searched
    <3>3. table # NoTable => /\ DOMAIN table = 1..Len(table) /\ Len(table) \in Nat
                             /\ Ordered(table, Searched(table, max, alloc))
      BY BaseFacts, ExactFacts, Positions
    <3>4. ASSUME NEW i \in 1..m, NEW j \in 1..m, i < j, u[i].num \in {0, u[j].num}
          PROVE  u[j].num = 0 \/ u[j].hash = "junk"
      <4> SUFFICES ASSUME u[j].num # 0, u[j].hash # "junk" PROVE FALSE
        OBVIOUS
      <4>1. table # NoTable /\ j <= max /\ j \in DOMAIN table /\ u[j] = table[j]
        BY <3>1
      <4>2. i <= max /\ i \in DOMAIN table /\ ~(i > Len(table)) /\ ~(i > max)
        BY <1>2, <3>3, <3>4, <4>1
      <4>3. u[i] = table[i]
        BY <3>1, <4>1, <4>2
      <4>4. i \in Searched(table, max, alloc) /\ j \in Searched(table, max, alloc)
        BY <4>1, <4>2 DEF Searched
      <4> QED
        BY <3>3, <3>4, <4>1, <4>3, <4>4 DEF Ordered
    <3>5. Ordered(u, Searched(u, m, m))
      BY <3>2, <3>4 DEF Ordered
    <3> QED
      BY <1>1, <3>02, <3>1, <3>5
  <2>2. CASE ~(max < m)
    <3>1. table' = table /\ table # NoTable
      BY <1>3, <2>2 DEF ConfigMax
    <3>2. Len(table) \in Nat /\ DOMAIN table = 1..Len(table) /\ alloc <= Len(table) /\ ~(alloc < max)
      BY <1>2, <2>2, <3>1, BaseFacts, ExactFacts, Positions DEF ConstantsOK
    <3>3. Searched(table, m, m) \subseteq Searched(table, max, alloc)
      BY <1>1, <1>2, <2>2, <3>2 DEF Searched
    <3>4. m <= Len(table)
      BY <1>1, <1>2, <2>2, <3>2
    <3>5. Ordered(table, Searched(table, m, m))
      BY <3>1, <3>3, ExactFacts DEF Ordered
    <3> QED
      BY <3>1, <3>4, <3>5
  <2> QED
    BY <2>1, <2>2
<1>4. Newest(table', m, m, newest')
  BY <1>1 DEF Newest
<1>5. ~(m < m) /\ ~(m > m)
  BY <1>1
<1> QED
  BY <1>1, <1>3, <1>4, <1>5 DEF Exact, Ordered, Searched, Newest

LEMMA ConfigHashesExact ==
  ASSUME ConstantsOK, Base, Exact, NEW es \in Lists, NEW n \in Nat, ConfigHashes(es, n), ~spoiled'
  PROVE  Exact'
<1>1. /\ UNCHANGED <<chain, pending, max, stored>> /\ newest' = NoEntry /\ pending = 0
      /\ alloc' = IF n = Len(es) THEN max ELSE alloc
      /\ table # NoTable => n = Len(es) /\ ~(Len(table) < max)
  BY DEF ConfigHashes
<1>2. max \in Nat /\ Len(es) \in Nat /\ Len(es) <= 1 /\ DOMAIN es = 1..Len(es) /\ \A i \in DOMAIN es : es[i].num # 0
  BY BaseFacts, ListFacts
<1>3. table' \in Seq(Cell) /\ Len(table') \in Nat /\ DOMAIN table' = 1..Len(table') /\ max <= Len(table')
  <2>1. table' \in Seq(Cell) /\ Len(table') \in Nat /\ DOMAIN table' = 1..Len(table')
    BY ConfigHashesTable, Positions
  <2>2. Len(table') = IF table = NoTable THEN max ELSE Len(table)
    BY ConfigHashesTable
  <2>3. CASE table = NoTable
    BY <1>2, <2>1, <2>2, <2>3
  <2>4. CASE table # NoTable
    BY <1>1, <1>2, <2>1, <2>2, <2>4
  <2> QED
    BY <2>3, <2>4
<1>4. alloc' \in Nat /\ alloc' <= max /\ (alloc' < max => max = DefaultMax)
  <2>0. pending = 0
    BY <1>1
  <2>1. alloc \in Nat /\ alloc <= max /\ (alloc < max => max = DefaultMax)
    BY <1>2, <2>0, BaseFacts, ExactFacts DEF Outgrown
  <2>2. CASE n = Len(es)
    <3>1. alloc' = max
      BY <1>1, <2>2
    <3> QED
      BY <1>2, <3>1
  <2>3. CASE n # Len(es)
    <3>1. alloc' = alloc
      BY <1>1, <2>3
    <3> QED
      BY <2>1, <3>1
  <2> QED
    BY <2>2, <2>3
<1>5. \A i \in Searched(table', max, alloc') : i \in 1..Len(table') /\ i <= max
  BY <1>2, <1>3, <1>4 DEF Searched
<1>6. \A i \in Searched(table', max, alloc') : i > Len(es) => table'[i].num = 0
  <2> SUFFICES ASSUME NEW i \in Searched(table', max, alloc'), i > Len(es) PROVE table'[i].num = 0
    OBVIOUS
  <2>a. i \in 1..Len(table') /\ i <= max
    BY <1>5
  <2>b. i \in Nat /\ max \in Nat /\ Len(es) \in Nat
    BY <1>2, <1>3, <2>a
  <2>c. ~(i <= Len(es)) /\ ~(i > max)
    BY <2>a, <2>b
  <2>1. i \in 1..Len(table') /\ ~(i <= Len(es)) /\ ~(i > max) /\ (n = Len(es) => ~(i <= n))
    BY <2>a, <2>c
  <2> QED
    BY <1>1, <2>1, ConfigHashesTable
<1>7. \A i, j \in Searched(table', max, alloc') : i < j => j > Len(es)
  BY <1>2, <1>3, <1>5
<1>8. Ordered(table', Searched(table', max, alloc'))
  BY <1>6, <1>7 DEF Ordered
<1>90. newest' = NoEntry
  BY <1>1
<1>9. Newest(table', max, alloc', newest') /\ ~(alloc' > max) /\ alloc' <= Len(table')
  BY <1>2, <1>3, <1>4, <1>90 DEF Newest
<1> QED
  BY <1>1, <1>3, <1>4, <1>8, <1>9 DEF Exact, Ordered, Searched, Newest

LEMMA LoadedExact ==
  ASSUME ConstantsOK, Base, Exact, NEW c \in Chain, NEW m \in Nat, NEW a \in Nat, a <= m, Loaded(c, m) # NoTable
  PROVE  a <= Len(Loaded(c, m)) /\ Ordered(Loaded(c, m), Searched(Loaded(c, m), m, a))
<1> DEFINE s == stored[c]
           u == Loaded(c, m)
<1>1. s # <<>>
  BY DEF Loaded, NewTable
<1>2. /\ u \in Seq(Cell) /\ Len(u) = m
      /\ \A i \in 1..m : (i \in DOMAIN s /\ u[i] = s[i]) \/ (i > Len(s) /\ u[i].num = 0)
  BY <1>1, LoadedFacts
<1>3. DOMAIN u = 1..m
  BY <1>2, Positions
<1>4. s \in Seq(Cell) /\ DOMAIN s = 1..Len(s) /\ Len(s) \in Nat /\ (\A i \in DOMAIN s : s[i].num # 0) /\ Ordered(s, DOMAIN s)
  BY Positions DEF Base, Exact
<1> HIDE DEF s, u
<1>5. Searched(u, m, a) \subseteq 1..m
  BY <1>3 DEF Searched
<1>6. ASSUME NEW i \in 1..m, NEW j \in 1..m, i < j, u[i].num \in {0, u[j].num}
      PROVE  u[j].num = 0 \/ u[j].hash = "junk"
  <2>1. CASE j \in DOMAIN s
    <3>1. i \in DOMAIN s /\ ~(i > Len(s)) /\ ~(j > Len(s))
      BY <1>4, <1>6, <2>1
    <3>2. u[i] = s[i] /\ u[j] = s[j]
      BY <1>2, <3>1
    <3> QED
      BY <1>4, <1>6, <2>1, <3>1, <3>2 DEF Ordered
  <2>2. CASE j \notin DOMAIN s
    BY <1>2, <2>2
  <2> QED
    BY <2>1, <2>2
<1>7. Ordered(u, Searched(u, m, a))
  BY <1>5, <1>6 DEF Ordered
<1> QED
  BY <1>2, <1>7 DEF u

LEMMA ConfigChainExact ==
  ASSUME ConstantsOK, Base, Exact, NEW c \in Chain, ConfigChain(c)
  PROVE  Exact'
<1>1. UNCHANGED <<pending, max, alloc, stored>> /\ newest' = NoEntry /\ pending = 0
      /\ (table' = NoTable \/ table' = Loaded(c, max))
  BY DEF ConfigChain, NewTable
<1>2. max \in Nat /\ alloc \in Nat /\ alloc <= max /\ (alloc < max => max = DefaultMax)
  BY <1>1, BaseFacts, ExactFacts DEF Outgrown
<1>3. table' # NoTable => alloc <= Len(table') /\ Ordered(table', Searched(table', max, alloc))
  BY <1>1, <1>2, LoadedExact
<1>4. Newest(table', max, alloc, newest') /\ ~(alloc > max)
  BY <1>1, <1>2 DEF Newest
<1> QED
  BY <1>1, <1>2, <1>3, <1>4 DEF Exact, Ordered, Searched, Newest

LEMMA RestartExact ==
  ASSUME ConstantsOK, Base, Exact, NEW c \in Chain, Restart(c)
  PROVE  Exact'
<1>1. DefaultMax \in Nat
  BY DEF ConstantsOK
<1>2. table' # NoTable => 0 <= Len(table') /\ Ordered(table', Searched(table', DefaultMax, 0))
  BY <1>1, RestartFacts, LoadedExact
<1>3. Newest(table', DefaultMax, 0, newest') /\ ~(0 > DefaultMax)
  BY <1>1, RestartFacts DEF Newest
<1> QED
  BY <1>1, <1>2, <1>3, RestartFacts DEF Exact, Ordered, Searched, Newest

LEMMA StoreExact ==
  ASSUME ConstantsOK, Base, Exact, StoreNodelist
  PROVE  Exact'
<1>1. UNCHANGED <<chain, pending, max, alloc, table, verified, newest>>
  BY DEF StoreNodelist
<1>2. PICK s \in Seq(Cell) :
        /\ stored' = [stored EXCEPT ![chain] = s]
        /\ \A i \in DOMAIN s : /\ i <= max /\ s[i].num # 0
                               /\ \/ table # NoTable /\ i \in DOMAIN table /\ s[i] = table[i]
                                  \/ (table = NoTable \/ i > Len(table)) /\ s[i].hash = "junk"
  BY StoreFacts
<1>3. ASSUME NEW i \in DOMAIN s, NEW j \in DOMAIN s, i < j, s[i].num = s[j].num, s[j].hash # "junk" PROVE FALSE
  <2>1. table # NoTable /\ j \in DOMAIN table /\ s[j] = table[j] /\ s[j].num # 0
    BY <1>2, <1>3
  <2>2. DOMAIN table = 1..Len(table) /\ Len(table) \in Nat /\ DOMAIN s = 1..Len(s) /\ Len(s) \in Nat
    BY <2>1, BaseFacts, Positions
  <2>3. i \in DOMAIN table
    BY <1>3, <2>1, <2>2
  <2>4. i \in Searched(table, max, alloc) /\ j \in Searched(table, max, alloc)
    BY <1>2, <2>1, <2>3 DEF Searched
  <2>5. Ordered(table, Searched(table, max, alloc))
    BY <2>1, ExactFacts
  <2>6. s[i] = table[i]
    BY <1>2, <2>1, <2>2, <2>3
  <2> QED
    BY <1>3, <2>1, <2>4, <2>5, <2>6 DEF Ordered
<1>4. \A c \in Chain : /\ \A i \in DOMAIN stored'[c] : stored'[c][i].num # 0
                       /\ Ordered(stored'[c], DOMAIN stored'[c])
  <2> SUFFICES ASSUME NEW c \in Chain
               PROVE  (\A i \in DOMAIN stored'[c] : stored'[c][i].num # 0) /\ Ordered(stored'[c], DOMAIN stored'[c])
    OBVIOUS
  <2>1. stored'[c] = IF c = chain THEN s ELSE stored[c]
    BY <1>2 DEF Base
  <2>2. Ordered(s, DOMAIN s)
    BY <1>2, <1>3 DEF Ordered
  <2> QED
    BY <1>2, <2>1, <2>2 DEF Exact
<1> QED
  BY <1>1, <1>4 DEF Exact, Ordered, Searched, Newest

LEMMA InitExact == ASSUME ConstantsOK, Init PROVE Exact
<1>1. max = DefaultMax /\ alloc = 0 /\ table = NoTable /\ newest = NoEntry /\ \A c \in Chain : stored[c] = <<>>
  BY DEF Init
<1>2. ~(alloc > max)
  BY <1>1 DEF ConstantsOK
<1> QED
  BY <1>1, <1>2 DEF Exact, Newest, Ordered

LEMMA ExactStep ==
  ASSUME ConstantsOK, Raised, Base, ~spoiled => Exact, [Next]_vars, ~spoiled'
  PROVE  Exact'
<1>0. Exact
  BY DEF Next, vars, NewRequest, FreeRequest, StoreNodelist, VerifyBlockheader, ConfigMax, ConfigHashes, ConfigChain, Restart
<1>1. CASE NewRequest
  BY <1>0, <1>1 DEF NewRequest, Exact, Ordered, Searched, Newest
<1>2. CASE UNCHANGED vars
  BY <1>0, <1>2 DEF vars, Exact, Ordered, Searched, Newest
<1>3. ASSUME NEW es \in Lists, NEW n \in {Len(es), Len(es) + 1}, ConfigHashes(es, n) PROVE Exact'
  BY <1>0, <1>3, ListFacts, ConfigHashesExact
<1> QED
  BY <1>0, <1>1, <1>2, <1>3, FreeExact, StoreExact, VerifyExact, ConfigMaxExact, ConfigChainExact, RestartExact DEF Next

-----------------------------------------------------------------------------
LEMMA BaseInvariance == ASSUME ConstantsOK PROVE Spec => []Base
<1>1. Init => Base
  BY InitBase
<1>2. Base /\ [Next]_vars => Base'
  BY BaseStep
<1> QED
  BY <1>1, <1>2, PTL DEF Spec

(* add_verified, in3_check_verified_hashes, in3_configure, the cache: a hash  *)
(* that was written to the table or to the cache was verified by signers or   *)
(* configured, for its number and on its chain, for tables of every size and  *)
(* whatever is configured, stored and loaded in between, over restarts of the *)
(* client and with any content of memory that nobody wrote or allocated.      *)
THEOREM VerifiedIsKnown ==
  ASSUME ConstantsOK
  PROVE  Spec => []KnownWasVerified
<1>1. Base => KnownWasVerified
  BY DEF Base, AllVerified, KnownWasVerified, WasVerified
<1> QED
  BY <1>1, BaseInvariance, PTL

(* add_verified, in3_check_verified_hashes: a block number has one hash among *)
(* the cells that are read, and the newest hash survives when a table that    *)
(* outgrew its limit shrinks, over restarts too, as long as maxVerifiedHashes *)
(* is only raised and no list of verified hashes was refused half way or      *)
(* written behind the table: a table from the cache is not counted in         *)
(* alloc_verified_hashes, so that add_verified makes it shorter than what is  *)
(* read and cleared.                                                          *)
THEOREM OneHashAndTheNewest ==
  ASSUME ConstantsOK, Raised
  PROVE  Spec => []TableIsExact
<1> DEFINE I == ~spoiled => Exact
<1>1. Init => I
  BY InitExact
<1>2. Base /\ I /\ [Next]_vars => I'
  BY ExactStep
<1>3. Base /\ I => TableIsExact
  <2> SUFFICES ASSUME Base, I, ~spoiled PROVE OneHashPerNumber /\ NewestIsKept
    BY DEF TableIsExact
  <2>0. Exact
    OBVIOUS
  <2>1. OneHashPerNumber
    <3> SUFFICES ASSUME table # NoTable, NEW i \in Searched(table, max, alloc), NEW j \in Searched(table, max, alloc),
                        table[i].num # 0, table[i].num = table[j].num, table[i].hash # "junk", table[j].hash # "junk"
                 PROVE  i = j
      BY DEF OneHashPerNumber, Searched
    <3>1. Ordered(table, Searched(table, max, alloc)) /\ i \in Nat /\ j \in Nat
      BY <2>0, BaseFacts, ExactFacts, Positions DEF Searched
    <3>2. ~(i < j) /\ ~(j < i)
      BY <3>1 DEF Ordered
    <3> QED
      BY <3>1, <3>2
  <2>2. NewestIsKept
    BY <2>0, ExactFacts DEF NewestIsKept, Newest
  <2> QED
    BY <2>1, <2>2
<1> HIDE DEF I
<1> QED
  BY <1>1, <1>2, <1>3, BaseInvariance, PTL DEF Spec
=============================================================================
