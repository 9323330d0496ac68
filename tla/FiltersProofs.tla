---------------------------- MODULE FiltersProofs ----------------------------
(***************************************************************************)
(* Filters implements Feed.                                                *)
(*                                                                         *)
(* A poll is answered from sub requests that earlier runs of the handler    *)
(* made, for the cursor the filter had then.  The invariant says what these *)
(* sub requests still are worth: as long as the filter in the slot is the   *)
(* one the request was made for, they cover every block from the cursor to  *)
(* the block number the request was given, since the cursor only grew.      *)
(***************************************************************************)
EXTENDS Filters, WellFoundedInduction, TLAPS

Filter == [type : {"event", "block"}, options : Options \cup {None}, last : Nat, first : BOOLEAN,
           gen : Nat, torn : BOOLEAN, seen : [Blocks -> Nat]]

(* An event filter was accepted by filter_opt_valid, and counts logs once. *)
FilterOK(f) ==
  /\ f \in Filter
  /\ f.gen <= installs
  /\ f.type = "event" =>
       /\ f.options \in Options /\ f.options.from # Bad /\ f.options.to # Bad
       /\ \A b \in Blocks : f.seen[b] <= 1

AskedFor(q) == q.need \cup DOMAIN q.subs

(* The block number is asked for first, and is one of the chain. *)
RequestOK(q) ==
  /\ q = [op |-> q.op, id |-> q.id, opt |-> q.opt, need |-> q.need, subs |-> q.subs, gen |-> q.gen]
  /\ q.gen \in Nat /\ q.gen <= installs
  /\ q.op \in {"event", "block", "changes"}
  /\ IF q.op = "event" THEN q.opt \in Options ELSE q.opt = None
  /\ BlockNumber \in DOMAIN q.subs \/ AskedFor(q) \subseteq {BlockNumber}
  /\ BlockNumber \in DOMAIN q.subs => q.subs[BlockNumber] \in 1..head
  /\ q.need \cap DOMAIN q.subs = {}

(* The blocks a request for logs covers, unless it begins with the latest. *)
Covers(s, b) == s[2] \in Nat /\ s[2] <= b /\ (s[3] \in {None, Latest} \/ b <= s[3])

(* The logs q asks for begin at the block of the user or at an earlier cursor. *)
LogsFollow(q, f) ==
  \A s \in AskedFor(q) :
    s[1] = "eth_getLogs" =>
      /\ s[3] = f.options.to
      /\ (s[2] = f.options.from /\ s[2] # None) \/ (s[2] \in Nat /\ s[2] <= f.last)
      /\ s \in DOMAIN q.subs => \A b \in 1..q.subs[BlockNumber] : Covers(s, b) => b \in q.subs[s]

(* If q asks for blocks at all, it asks for all of them. *)
BlocksFollow(q, f) ==
  (\E s \in AskedFor(q) : s[1] = "eth_getBlockByNumber") =>
    \A b \in (f.last + 1)..q.subs[BlockNumber] : GetBlock(b) \in AskedFor(q)

Follows(q, f) == IF f.type = "event" THEN LogsFollow(q, f) ELSE BlocksFollow(q, f)

(* The request is a poll of the filter that is in its slot now. *)
Polls(q) == q.op = "changes" /\ q.id \in DOMAIN slots /\ slots[q.id] # None /\ slots[q.id].gen = q.gen

SlotsOK == \A i \in DOMAIN slots : slots[i] # None => FilterOK(slots[i])
ReqsOK  == \A r \in Req : reqs[r] # None => RequestOK(reqs[r]) /\ (Polls(reqs[r]) => Follows(reqs[r], slots[reqs[r].id]))

(* The inductive invariant. *)
FInv ==
  /\ head \in 1..MaxHead /\ installs \in Nat
  /\ slots \in Seq(Filter \cup {None}) /\ Len(slots) <= MaxSlots
  /\ reqs = [r \in Req |-> reqs[r]]
  /\ SlotsOK /\ ReqsOK
-----------------------------------------------------------------------------
(* The initial states. *)
LEMMA InitFInv ==
  Init => FInv
<1> SUFFICES ASSUME Init PROVE FInv
  OBVIOUS
<1>1. head \in 1..MaxHead /\ installs \in Nat
  BY BoundAssumption DEF Init
<1>2. slots \in Seq(Filter \cup {None}) /\ Len(slots) <= MaxSlots /\ DOMAIN slots = {}
  BY BoundAssumption DEF Init
<1>3. reqs = [r \in Req |-> reqs[r]]
  BY DEF Init
<1>4. SlotsOK
  BY <1>2 DEF SlotsOK
<1>5. ReqsOK
  BY DEF ReqsOK, Init
<1> QED
  BY <1>1, <1>2, <1>3, <1>4, <1>5 DEF FInv

LEMMA InitFeed ==
  Init => F!Init
<1> SUFFICES ASSUME Init PROVE F!Init
  OBVIOUS
<1>1. DOMAIN slots = {}
  BY DEF Init
<1> QED
  BY <1>1 DEF Init, F!Init, FeedsOf

-----------------------------------------------------------------------------
(* A request that ends or asks for more changes no filter. *)
LEMMA QuietStep ==
  ASSUME FInv, NEW r \in Req, NEW q, UNCHANGED <<head, slots, installs>>,
         reqs' = [reqs EXCEPT ![r] = q],
         q # None => RequestOK(q) /\ (Polls(q) => Follows(q, slots[q.id]))
  PROVE  FInv' /\ UNCHANGED F!vars
<1>1. reqs' = [s \in Req |-> reqs'[s]]
  BY DEF FInv
<1>2. SlotsOK'
  BY DEF FInv, SlotsOK, FilterOK
<1>3. ReqsOK'
  <2> SUFFICES ASSUME NEW s \in Req, (reqs[s] # None)'
               PROVE  (RequestOK(reqs[s]) /\ (Polls(reqs[s]) => Follows(reqs[s], slots[reqs[s].id])))'
    BY DEF ReqsOK
  <2>1. CASE s = r
    <3>1. reqs'[s] = q /\ q # None
      BY <2>1 DEF FInv
    <3> QED
      BY <3>1 DEF RequestOK, Polls
  <2>2. CASE s # r
    <3>1. reqs'[s] = reqs[s] /\ reqs[s] # None
      BY <2>2 DEF FInv
    <3> QED
      BY <3>1 DEF FInv, ReqsOK, RequestOK, Polls
  <2> QED
    BY <2>1, <2>2
<1>4. UNCHANGED F!vars
  BY DEF F!vars, FeedsOf, FeedOf, Promised, Lower, Upper
<1> QED
  BY <1>1, <1>2, <1>3, <1>4 DEF FInv

(* End: the request is over. *)
LEMMA EndStep ==
  ASSUME FInv, NEW r \in Req, End(r), UNCHANGED <<head, slots, installs>>
  PROVE  FInv' /\ UNCHANGED F!vars
<1>1. reqs' = [reqs EXCEPT ![r] = None]
  BY DEF End
<1> QED
  BY <1>1, QuietStep

(* Ask: a request for more of the answers. *)
LEMMA AskStep ==
  ASSUME FInv, NEW r \in Req, reqs[r] # None, NEW subs, Ask(r, subs), UNCHANGED <<head, slots, installs>>,
         subs \cap DOMAIN reqs[r].subs = {},
         BlockNumber \in DOMAIN reqs[r].subs \/ (subs = {BlockNumber} /\ DOMAIN reqs[r].subs \subseteq {BlockNumber}),
         Polls(reqs[r]) => Follows([reqs[r] EXCEPT !.need = subs], slots[reqs[r].id])
  PROVE  FInv' /\ UNCHANGED F!vars
<1> DEFINE q == [reqs[r] EXCEPT !.need = subs]
<1>1. reqs' = [reqs EXCEPT ![r] = q]
  BY DEF Ask
<1>2. RequestOK(reqs[r])
  BY DEF FInv, ReqsOK
<1>3. /\ q = [op |-> q.op, id |-> q.id, opt |-> q.opt, need |-> q.need, subs |-> q.subs, gen |-> q.gen]
      /\ q.op = reqs[r].op /\ q.id = reqs[r].id /\ q.opt = reqs[r].opt /\ q.need = subs /\ q.subs = reqs[r].subs
      /\ q.gen = reqs[r].gen
  BY <1>2 DEF RequestOK
<1> HIDE DEF q
<1>4. RequestOK(q)
  BY <1>2, <1>3 DEF RequestOK, AskedFor
<1>5. Polls(q) => Follows(q, slots[q.id])
  BY <1>3 DEF Polls, q
<1> QED
  BY <1>1, <1>4, <1>5, QuietStep

-----------------------------------------------------------------------------
(* The actions that change no filter. *)
LEMMA StartStep ==
  ASSUME FInv, NEW r \in Req, NEW op \in {"event", "block", "changes"}, NEW id, NEW opt, Start(r, op, id, opt),
         op # "event" => opt = None
  PROVE  FInv' /\ UNCHANGED F!vars
<1> DEFINE g == IF id \in DOMAIN slots /\ slots[id] # None THEN slots[id].gen ELSE 0
           q == [op |-> op, id |-> id, opt |-> opt, need |-> {}, subs |-> <<>>, gen |-> g]
<1>1. reqs' = [reqs EXCEPT ![r] = q] /\ UNCHANGED <<head, slots, installs>> /\ (op = "event" => opt \in Options)
  BY DEF Start
<1>2. g \in Nat /\ g <= installs
  BY DEF FInv, SlotsOK, FilterOK, Filter
<1>3. DOMAIN q.subs = {} /\ AskedFor(q) = {}
  BY DEF AskedFor
<1>4. RequestOK(q)
  BY <1>1, <1>2, <1>3 DEF RequestOK
<1>5. Follows(q, slots[q.id])
  BY <1>3 DEF Follows, LogsFollow, BlocksFollow
<1> QED
  BY <1>1, <1>4, <1>5, QuietStep

LEMMA AnswerStep ==
  ASSUME FInv, NEW r \in Req, Answer(r)
  PROVE  FInv' /\ UNCHANGED F!vars
<1>1. reqs[r] # None
  BY DEF Answer
<1>2. PICK s \in reqs[r].need :
        reqs' = [reqs EXCEPT ![r].need = @ \ {s}, ![r].subs = [x \in DOMAIN @ \cup {s} |-> IF x = s THEN NodeAnswer(s) ELSE @[x]]]
  BY DEF Answer
<1> DEFINE p == reqs[r]
           all == [x \in DOMAIN p.subs \cup {s} |-> IF x = s THEN NodeAnswer(s) ELSE p.subs[x]]
           q == [op |-> p.op, id |-> p.id, opt |-> p.opt, need |-> p.need \ {s}, subs |-> all, gen |-> p.gen]
<1>3. RequestOK(p)
  BY <1>1 DEF FInv, ReqsOK
<1>4. reqs' = [reqs EXCEPT ![r] = q] /\ UNCHANGED <<head, slots, installs>>
  <2>1. reqs' = [reqs EXCEPT ![r] = [[p EXCEPT !.need = p.need \ {s}] EXCEPT !.subs = all]]
    BY <1>2
  <2>2. [[p EXCEPT !.need = p.need \ {s}] EXCEPT !.subs = all] = q
    <3>1. p = [op |-> p.op, id |-> p.id, opt |-> p.opt, need |-> p.need, subs |-> p.subs, gen |-> p.gen]
      BY <1>3 DEF RequestOK
    <3> DEFINE n == [p EXCEPT !.need = p.need \ {s}]
    <3> HIDE DEF p, all
    <3>2. n = [op |-> p.op, id |-> p.id, opt |-> p.opt, need |-> p.need \ {s}, subs |-> p.subs, gen |-> p.gen]
      BY <3>1
    <3> HIDE DEF n
    <3>3. [n EXCEPT !.subs = all] = q
      BY <3>2
    <3> QED
      BY <3>3 DEF n
  <2> QED
    BY <2>1, <2>2 DEF Answer
<1>5. /\ DOMAIN q.subs = DOMAIN p.subs \cup {s} /\ q.subs[s] = NodeAnswer(s) /\ s \notin DOMAIN p.subs
      /\ \A x \in DOMAIN p.subs : q.subs[x] = p.subs[x]
      /\ q.need = p.need \ {s} /\ q.op = p.op /\ q.id = p.id /\ q.opt = p.opt /\ q.gen = p.gen
      /\ q = [op |-> q.op, id |-> q.id, opt |-> q.opt, need |-> q.need, subs |-> q.subs, gen |-> q.gen]
  BY <1>3 DEF RequestOK
<1> HIDE DEF q, all
<1>6. AskedFor(q) = AskedFor(p)
  BY <1>5 DEF AskedFor
<1>7. CASE s = BlockNumber
  <2>1. NodeAnswer(s) = head
    BY <1>7 DEF NodeAnswer, BlockNumber
  <2>2. AskedFor(p) \subseteq {BlockNumber}
    BY <1>3, <1>5, <1>7 DEF RequestOK
  <2>3. RequestOK(q)
    BY <1>3, <1>5, <1>6, <1>7, <2>1, <2>2 DEF RequestOK, FInv
  <2>4. Follows(q, slots[q.id])
    BY <1>6, <2>2 DEF Follows, LogsFollow, BlocksFollow, BlockNumber
  <2> QED
    BY <1>4, <2>3, <2>4, QuietStep
<1>8. CASE s # BlockNumber
  <2>1. BlockNumber \in DOMAIN p.subs /\ q.subs[BlockNumber] = p.subs[BlockNumber] /\ p.subs[BlockNumber] \in 1..head
    BY <1>3, <1>5, <1>8 DEF RequestOK, AskedFor
  <2>2. RequestOK(q)
    BY <1>3, <1>5, <1>6, <2>1 DEF RequestOK
  <2>3. ASSUME Polls(q) PROVE Follows(q, slots[q.id])
    <3>1. Follows(p, slots[q.id])
      BY <1>1, <1>5, <2>3 DEF FInv, ReqsOK, Polls
    <3>2. CASE slots[q.id].type = "event"
      <4>1. LogsFollow(p, slots[q.id])
        BY <3>1, <3>2 DEF Follows
      <4>2. ASSUME s[1] = "eth_getLogs", NEW b \in 1..p.subs[BlockNumber], Covers(s, b)
            PROVE  b \in NodeAnswer(s)
        <5>1. NodeAnswer(s) = {x \in 1..head : (IF s[2] = Latest THEN x = head ELSE s[2] <= x) /\ (s[3] \in {None, Latest} \/ x <= s[3])}
          BY <4>2 DEF NodeAnswer
        <5>2. b \in 1..head
          BY <2>1 DEF FInv
        <5> QED
          BY <4>2, <5>1, <5>2, ValueAssumption DEF Covers
      <4>3. LogsFollow(q, slots[q.id])
        <5> SUFFICES ASSUME NEW t \in AskedFor(p), t[1] = "eth_getLogs"
                     PROVE  /\ t[3] = slots[q.id].options.to
                            /\ (t[2] = slots[q.id].options.from /\ t[2] # None) \/ (t[2] \in Nat /\ t[2] <= slots[q.id].last)
                            /\ t \in DOMAIN q.subs => \A b \in 1..q.subs[BlockNumber] : Covers(t, b) => b \in q.subs[t]
          BY <1>6 DEF LogsFollow
        <5>1. CASE t = s
          BY <4>1, <4>2, <5>1, <1>5, <2>1 DEF LogsFollow
        <5>2. CASE t # s
          BY <4>1, <5>2, <1>5, <2>1 DEF LogsFollow
        <5> QED
          BY <5>1, <5>2
      <4> QED
        BY <4>3, <3>2 DEF Follows
    <3>3. CASE slots[q.id].type # "event"
      BY <3>1, <3>3, <1>6, <2>1 DEF Follows, BlocksFollow
    <3> QED
      BY <3>2, <3>3
  <2> QED
    BY <1>4, <2>2, <2>3, QuietStep
<1> QED
  BY <1>7, <1>8

LEMMA FailStep ==
  ASSUME FInv, NEW r \in Req, Fail(r)
  PROVE  FInv' /\ UNCHANGED F!vars
BY EndStep DEF Fail

LEMMA GrowStep ==
  ASSUME FInv, Grow
  PROVE  FInv' /\ F!Grow
<1>1. FeedsOf' = FeedsOf
  BY DEF Grow, FeedsOf, FeedOf, Promised, Lower, Upper
<1>2. head' \in 1..MaxHead
  BY BoundAssumption DEF Grow, FInv
<1>3. SlotsOK'
  BY DEF Grow, FInv, SlotsOK, FilterOK
<1>4. ReqsOK'
  <2> SUFFICES ASSUME NEW s \in Req, (reqs[s] # None)'
               PROVE  (RequestOK(reqs[s]) /\ (Polls(reqs[s]) => Follows(reqs[s], slots[reqs[s].id])))'
    BY DEF ReqsOK
  <2>1. RequestOK(reqs[s]) /\ (Polls(reqs[s]) => Follows(reqs[s], slots[reqs[s].id])) /\ reqs' = reqs /\ slots' = slots /\ installs' = installs
    BY DEF Grow, FInv, ReqsOK
  <2>2. RequestOK(reqs[s])'
    BY <2>1 DEF RequestOK, Grow, FInv
  <2> QED
    BY <2>1, <2>2 DEF Polls
<1> QED
  BY <1>1, <1>2, <1>3, <1>4 DEF FInv, Grow, F!Grow

-----------------------------------------------------------------------------
(* What the feeds are after a change of one slot. *)
FeedIn(f) == IF Promised(f) THEN FeedOf(f) ELSE None

LEMMA FeedsAfter ==
  ASSUME FInv, NEW id \in Ids, id \in DOMAIN slots',
         \A i \in Ids \ {id} : (i \in DOMAIN slots' <=> i \in DOMAIN slots) /\ (i \in DOMAIN slots => slots'[i] = slots[i])
  PROVE  FeedsOf' = [FeedsOf EXCEPT ![id] = FeedIn(slots'[id])]
<1> DEFINE G(i) == IF i \in DOMAIN slots' /\ Promised(slots'[i]) THEN FeedOf(slots'[i]) ELSE None
           E(i) == IF i \in DOMAIN slots /\ Promised(slots[i]) THEN FeedOf(slots[i]) ELSE None
<1>1. FeedsOf' = [i \in Ids |-> G(i)]
  BY DEF FeedsOf, FeedOf, Promised, Lower, Upper
<1>2. FeedsOf = [i \in Ids |-> E(i)]
  BY DEF FeedsOf
<1>3. \A i \in Ids \ {id} : G(i) = E(i)
  OBVIOUS
<1>4. G(id) = FeedIn(slots'[id])
  BY DEF FeedIn
<1> HIDE DEF G, E
<1> QED
  BY <1>1, <1>2, <1>3, <1>4

(* A feed is a record. *)
LEMMA FeedIsRecord ==
  ASSUME NEW f \in Filter, Promised(f), f.type = "event" => f.options \in Options /\ f.options.from # Bad /\ f.options.to # Bad
  PROVE  FeedOf(f) # None
<1>1. Lower(f) \in Nat
  BY ValueAssumption, OptionAssumption DEF Filter, Promised, Lower, BlockTags
<1>2. Upper(f) \in Nat
  BY ValueAssumption, OptionAssumption, BoundAssumption DEF Filter, Promised, Upper, BlockTags
<1>3. f.type \in {"event", "block"} /\ f.last \in Nat /\ f.seen \in [1..MaxHead -> Nat]
  BY DEF Filter, Blocks
<1>4. FeedOf(f) \in [kind : {"event", "block"}, last : Nat, lo : Nat, hi : Nat, seen : [1..MaxHead -> Nat]]
  BY <1>1, <1>2, <1>3 DEF FeedOf
<1> QED
  BY <1>4, FeedAssumption

(* filter_remove, free_filters *)
LEMMA RemoveStep ==
  ASSUME FInv, NEW id \in Ids, filter_remove(id)
  PROVE  FInv' /\ F!Remove
<1>1. id \in DOMAIN slots /\ slots' = [slots EXCEPT ![id] = None] /\ UNCHANGED <<head, reqs, installs>>
  BY DEF filter_remove
<1>2. slots' \in Seq(Filter \cup {None}) /\ Len(slots') = Len(slots) /\ DOMAIN slots' = DOMAIN slots /\ slots'[id] = None
  BY <1>1 DEF FInv
<1>3. \A i \in DOMAIN slots \ {id} : slots'[i] = slots[i]
  BY <1>1, <1>2 DEF FInv
<1>4. SlotsOK'
  <2> SUFFICES ASSUME NEW i \in DOMAIN slots, slots'[i] # None PROVE FilterOK(slots[i])' 
    BY <1>2 DEF SlotsOK
  <2>1. i # id /\ slots'[i] = slots[i]
    BY <1>2, <1>3
  <2> QED
    BY <2>1, <1>1 DEF FInv, SlotsOK, FilterOK
<1>5. ReqsOK'
  <2> SUFFICES ASSUME NEW s \in Req, (reqs[s] # None)'
               PROVE  (RequestOK(reqs[s]) /\ (Polls(reqs[s]) => Follows(reqs[s], slots[reqs[s].id])))'
    BY DEF ReqsOK
  <2>1. RequestOK(reqs[s]) /\ (Polls(reqs[s]) => Follows(reqs[s], slots[reqs[s].id]))
    BY <1>1 DEF FInv, ReqsOK
  <2>2. RequestOK(reqs[s])'
    BY <1>1, <2>1 DEF RequestOK
  <2>3. ASSUME Polls(reqs[s])' PROVE Follows(reqs[s], slots[reqs[s].id])'
    BY <1>1, <1>2, <1>3, <2>1, <2>3 DEF Polls
  <2> QED
    BY <2>2, <2>3
<1>6. FeedsOf' = [FeedsOf EXCEPT ![id] = FeedIn(slots'[id])]
  <2>1. \A i \in Ids \ {id} : (i \in DOMAIN slots' <=> i \in DOMAIN slots) /\ slots'[i] = slots[i]
    BY <1>1, <1>2, <1>3 DEF FInv
  <2> QED
    BY <1>1, <1>2, <2>1, FeedsAfter
<1>7. F!Remove
  BY <1>1, <1>2, <1>6 DEF F!Remove, FeedIn, Promised, FeedsOf
<1> QED
  BY <1>1, <1>2, <1>4, <1>5, <1>7 DEF FInv

LEMMA FreeStep ==
  ASSUME FInv, free_filters
  PROVE  FInv' /\ F!Remove
<1>1. slots' = <<>> /\ DOMAIN slots' = {} /\ UNCHANGED <<head, reqs, installs>> /\ \A r \in Req : reqs[r] = None
  BY DEF free_filters
<1>2. slots' \in Seq(Filter \cup {None}) /\ Len(slots') <= MaxSlots
  BY <1>1, BoundAssumption
<1>3. SlotsOK' /\ ReqsOK'
  BY <1>1 DEF SlotsOK, ReqsOK
<1>4. FeedsOf' = [i \in Ids |-> None]
  BY <1>1 DEF FeedsOf
<1>5. F!Remove
  BY <1>1, <1>4 DEF F!Remove
<1> QED
  BY <1>1, <1>2, <1>3, <1>5 DEF FInv

-----------------------------------------------------------------------------
(* AddFilter: the slot that is used is the first free one, or a new one. *)
LEMMA FirstFree ==
  ASSUME NEW free \in SUBSET Nat, free # {}
  PROVE  (CHOOSE i \in free : \A j \in free : i <= j) \in free
<1>1. PICK x \in free : \A y \in free : ~(<<y, x>> \in OpToRel(<, Nat))
  BY NatLessThanWellFounded, WFMin
<1>2. ASSUME NEW y \in free PROVE <<y, x>> \in OpToRel(<, Nat) <=> y < x
  <2>1. <<y, x>> \in Nat \X Nat /\ <<y, x>>[1] = y /\ <<y, x>>[2] = x
    OBVIOUS
  <2>2. OpToRel(<, Nat) = {ss \in Nat \X Nat : ss[1] < ss[2]}
    BY Zenon DEF OpToRel
  <2> QED
    BY <2>1, <2>2
<1>3. \A y \in free : ~(y < x)
  BY <1>1, <1>2, Zenon
<1>4. \A y \in free : x <= y
  BY <1>3
<1> QED
  BY <1>4

LEMMA AddedAt ==
  ASSUME FInv, NEW f
  PROVE  \E id \in 1..(Len(slots) + 1) :
           /\ id \in DOMAIN slots => slots[id] = None
           /\ AddFilter(f)[id] = f
           /\ DOMAIN AddFilter(f) = DOMAIN slots \cup {id}
           /\ \A i \in DOMAIN slots \ {id} : AddFilter(f)[i] = slots[i]
           /\ f \in Filter => AddFilter(f) \in Seq(Filter \cup {None})
<1> DEFINE free == {i \in DOMAIN slots : slots[i] = None}
           least == CHOOSE i \in free : \A j \in free : i <= j
<1>1. slots \in Seq(Filter \cup {None}) /\ DOMAIN slots = 1..Len(slots) /\ Len(slots) \in Nat
  BY DEF FInv
<1>2. AddFilter(f) = IF free # {} THEN [slots EXCEPT ![least] = f] ELSE Append(slots, f)
  BY DEF AddFilter
<1>3. CASE free # {}
  <2>1. free \in SUBSET Nat
    BY <1>1
  <2>2. least \in free
    BY <1>3, <2>1, FirstFree
  <2>3. least \in DOMAIN slots /\ slots[least] = None
    BY <2>2
  <2> HIDE DEF least, free
  <2>4. AddFilter(f) = [slots EXCEPT ![least] = f]
    BY <1>2, <1>3
  <2>5. least \in 1..(Len(slots) + 1)
    BY <1>1, <2>3
  <2> QED
    BY <1>1, <2>3, <2>4, <2>5
<1>4. CASE free = {}
  <2>1. AddFilter(f) = Append(slots, f)
    BY <1>2, <1>4
  <2> WITNESS Len(slots) + 1 \in 1..(Len(slots) + 1)
  <2> QED
    BY <1>1, <2>1
<1> QED
  BY <1>3, <1>4

(* filter_add: a new filter belongs to no request that is under way. *)
LEMMA AddStep ==
  ASSUME FInv, NEW r \in Req, filter_add(r)
  PROVE  FInv' /\ (UNCHANGED F!vars \/ \E i \in Ids : F!Install(i))
<1> DEFINE q == reqs[r]
           new == filter_new(q.op, q.opt, q.subs[BlockNumber])
           adds == /\ installs' = installs + 1 /\ slots' = AddFilter(new) /\ Len(slots') <= MaxSlots /\ End(r)
                   /\ BlockNumber \in DOMAIN q.subs /\ (q.op = "event" => filter_opt_valid(q.opt))
<1>1. q # None /\ q.need = {} /\ q.op \in {"event", "block"} /\ head' = head
  BY DEF filter_add, Ready
<1>2. RequestOK(q)
  BY <1>1 DEF FInv, ReqsOK
<1>3. \/ End(r) /\ UNCHANGED <<slots, installs>>
      \/ BlockNumber \notin DOMAIN q.subs /\ Ask(r, {BlockNumber}) /\ UNCHANGED <<slots, installs>>
      \/ adds
  BY DEF filter_add, Has
<1>4. CASE End(r) /\ UNCHANGED <<slots, installs>>
  BY <1>1, <1>4, EndStep
<1>5. CASE BlockNumber \notin DOMAIN q.subs /\ Ask(r, {BlockNumber}) /\ UNCHANGED <<slots, installs>>
  <2>1. DOMAIN q.subs = {}
    BY <1>2, <1>5 DEF RequestOK, AskedFor
  <2>2. ~Polls(q)
    BY <1>1 DEF Polls
  <2> QED
    BY <1>1, <1>5, <2>1, <2>2, AskStep
<1>6. CASE adds
  <2>1. PICK f : f = new
    OBVIOUS
  <2>2. f = [type |-> q.op, options |-> q.opt, last |-> q.subs[BlockNumber], first |-> TRUE, gen |-> installs + 1, torn |-> FALSE, seen |-> Nothing]
    BY <2>1 DEF filter_new
  <2>3. q.subs[BlockNumber] \in 1..head /\ head \in Nat /\ installs \in Nat /\ installs' = installs + 1
    BY <1>2, <1>6, BoundAssumption DEF RequestOK, FInv
  <2>4. f \in Filter /\ FilterOK(f)'
    <3>1. Nothing \in [Blocks -> Nat] /\ \A b \in Blocks : Nothing[b] <= 1
      BY DEF Nothing
    <3>2. f \in Filter
      BY <1>1, <1>2, <2>2, <2>3, <3>1 DEF Filter, RequestOK
    <3>3. f.gen = installs' /\ f.type = q.op /\ f.options = q.opt /\ f.seen = Nothing
      BY <2>2, <2>3
    <3>4. q.op = "event" => q.opt \in Options /\ q.opt.from # Bad /\ q.opt.to # Bad
      BY <1>2, <1>6 DEF RequestOK, filter_opt_valid
    <3> QED
      BY <3>1, <3>2, <3>3, <3>4, <2>3 DEF FilterOK
  <2>5. PICK id \in 1..(Len(slots) + 1) :
           /\ id \in DOMAIN slots => slots[id] = None
           /\ slots'[id] = f
           /\ DOMAIN slots' = DOMAIN slots \cup {id}
           /\ \A i \in DOMAIN slots \ {id} : slots'[i] = slots[i]
           /\ slots' \in Seq(Filter \cup {None})
    <3>1. slots' = AddFilter(f)
      BY <1>6, <2>1
    <3> QED
      BY <3>1, <2>4, AddedAt
  <2>6. reqs' = [reqs EXCEPT ![r] = None] /\ reqs' = [s \in Req |-> reqs'[s]] /\ Len(slots') <= MaxSlots
    BY <1>6 DEF End, FInv
  <2>7. SlotsOK'
    <3> SUFFICES ASSUME NEW i \in DOMAIN slots', slots'[i] # None PROVE FilterOK(slots[i])'
      BY DEF SlotsOK
    <3>1. CASE i = id
      BY <3>1, <2>4, <2>5
    <3>2. CASE i # id
      <4>1. i \in DOMAIN slots /\ slots'[i] = slots[i] /\ slots[i] # None
        BY <3>2, <2>5
      <4>2. FilterOK(slots[i])
        BY <4>1 DEF FInv, SlotsOK
      <4> QED
        BY <4>1, <4>2, <2>3 DEF FilterOK, Filter
    <3> QED
      BY <3>1, <3>2
  <2>8. ReqsOK'
    <3> SUFFICES ASSUME NEW s \in Req, (reqs[s] # None)'
                 PROVE  (RequestOK(reqs[s]) /\ (Polls(reqs[s]) => Follows(reqs[s], slots[reqs[s].id])))'
      BY DEF ReqsOK
    <3>1. reqs'[s] = reqs[s] /\ reqs[s] # None
      BY <2>6 DEF FInv
    <3>2. RequestOK(reqs[s]) /\ (Polls(reqs[s]) => Follows(reqs[s], slots[reqs[s].id]))
      BY <3>1 DEF FInv, ReqsOK
    <3>3. RequestOK(reqs[s])'
      BY <1>1, <2>3, <3>1, <3>2 DEF RequestOK
    <3>4. ASSUME Polls(reqs[s])' PROVE Follows(reqs[s], slots[reqs[s].id])'
      <4>1. reqs[s].id \in DOMAIN slots' /\ slots'[reqs[s].id] # None /\ slots'[reqs[s].id].gen = reqs[s].gen /\ reqs[s].op = "changes"
        BY <3>1, <3>4 DEF Polls
      <4>2. f.gen = installs + 1 /\ reqs[s].gen <= installs /\ reqs[s].gen \in Nat
        BY <2>2, <3>2 DEF RequestOK
      <4>3. reqs[s].id # id
        BY <4>1, <4>2, <2>3, <2>5
      <4>4. reqs[s].id \in DOMAIN slots /\ slots'[reqs[s].id] = slots[reqs[s].id]
        BY <4>1, <4>3, <2>5
      <4>5. Follows(reqs[s], slots[reqs[s].id])
        BY <4>1, <4>4, <3>2 DEF Polls
      <4> QED
        BY <4>4, <4>5, <3>1
    <3> QED
      BY <3>3, <3>4
  <2>9. FInv'
    BY <1>1, <2>3, <2>5, <2>6, <2>7, <2>8 DEF FInv
  <2>10. id \in Ids
    <3>1. DOMAIN slots' = 1..Len(slots') /\ Len(slots') \in Nat /\ id \in DOMAIN slots'
      <4>1. slots' \in Seq(Filter \cup {None}) /\ id \in DOMAIN slots'
        BY <2>5
      <4> QED
        BY <4>1
    <3> QED
      BY <3>1, <2>6, BoundAssumption DEF Ids
  <2>11. FeedsOf' = [FeedsOf EXCEPT ![id] = FeedIn(f)]
    <3>1. \A i \in Ids \ {id} : (i \in DOMAIN slots' <=> i \in DOMAIN slots) /\ (i \in DOMAIN slots => slots'[i] = slots[i])
      BY <2>5
    <3> QED
      BY <2>5, <2>10, <3>1, FeedsAfter
  <2>12. FeedsOf[id] = None
    BY <2>5, <2>10 DEF FeedsOf, Promised
  <2>13. CASE Promised(f)
    <3>1. FeedOf(f) # None
      <4>1. FilterOK(f)'
        BY <2>4
      <4> QED
        BY <2>4, <4>1, FeedIsRecord, <2>13 DEF FilterOK
    <3>2. FeedsOf'[id] = FeedOf(f) /\ FeedsOf' = [FeedsOf EXCEPT ![id] = FeedsOf'[id]]
      BY <2>10, <2>11, <2>13 DEF FeedIn, FeedsOf
    <3>3. FeedOf(f).kind \in {"event", "block"} /\ FeedOf(f).last \in 1..head /\ FeedOf(f).seen = [b \in 1..MaxHead |-> 0]
      BY <1>1, <2>2, <2>3 DEF FeedOf, Nothing, Blocks
    <3>4. F!Install(id)
      BY <1>1, <2>12, <3>1, <3>2, <3>3 DEF F!Install, F!Changed
    <3> QED
      BY <2>9, <2>10, <3>4
  <2>14. CASE ~Promised(f)
    <3>1. FeedsOf' = FeedsOf
      BY <2>10, <2>11, <2>12, <2>14 DEF FeedIn, FeedsOf
    <3> QED
      BY <1>1, <2>9, <3>1 DEF F!vars
  <2> QED
    BY <2>13, <2>14
<1> QED
  BY <1>3, <1>4, <1>5, <1>6

-----------------------------------------------------------------------------
(* filter_get_changes *)

(* Moved changes the cursor and what was reported. *)
LEMMA MovedFields ==
  ASSUME NEW f \in Filter, NEW n \in Nat, NEW bs, NEW r
  PROVE  /\ Moved(f, n, bs, r) \in Filter
         /\ Moved(f, n, bs, r).type = f.type /\ Moved(f, n, bs, r).options = f.options /\ Moved(f, n, bs, r).gen = f.gen
         /\ Moved(f, n, bs, r).last = n /\ Moved(f, n, bs, r).seen = Count(f, bs)
         /\ Moved(f, n, bs, r).torn = (f.torn \/ f.gen # reqs[r].gen)
<1> DEFINE a == f.first /\ f.type # "event"
           c == Count(f, bs)
           t == f.torn \/ f.gen # reqs[r].gen
<1>1. c \in [Blocks -> Nat]
  BY DEF Count, Filter
<1>2. a \in BOOLEAN /\ t \in BOOLEAN
  BY DEF Filter
<1>3. Moved(f, n, bs, r) = [type |-> f.type, options |-> f.options, last |-> n, first |-> a, gen |-> f.gen, torn |-> t, seen |-> c]
  BY DEF Moved
<1>4. t = (f.torn \/ f.gen # reqs[r].gen) /\ c = Count(f, bs)
  OBVIOUS
<1> HIDE DEF a, c, t
<1>5. Moved(f, n, bs, r) \in Filter
  BY <1>1, <1>2, <1>3 DEF Filter
<1>6. /\ Moved(f, n, bs, r).type = f.type /\ Moved(f, n, bs, r).options = f.options /\ Moved(f, n, bs, r).gen = f.gen
      /\ Moved(f, n, bs, r).last = n /\ Moved(f, n, bs, r).seen = c
  BY <1>3
<1>7. Moved(f, n, bs, r).torn = t
  BY <1>3
<1> QED
  BY <1>4, <1>5, <1>6, <1>7, Zenon

(* The cursor of a filter grows, for whichever request: the other requests    *)
(* that poll it still cover what is left.                                     *)
LEMMA MoveStep ==
  ASSUME FInv, NEW r \in Req, NEW id \in DOMAIN slots, slots[id] # None, NEW g \in Filter,
         slots' = [slots EXCEPT ![id] = g], End(r), UNCHANGED <<head, installs>>,
         g.type = slots[id].type, g.options = slots[id].options, g.gen = slots[id].gen, g.last >= slots[id].last,
         g.type = "event" => \A b \in Blocks : g.seen[b] <= 1
  PROVE  FInv' /\ id \in Ids /\ FeedsOf' = [FeedsOf EXCEPT ![id] = FeedIn(g)] /\ FeedsOf[id] = FeedIn(slots[id])
<1>1. slots \in Seq(Filter \cup {None}) /\ DOMAIN slots = 1..Len(slots) /\ Len(slots) \in Nat /\ Len(slots) <= MaxSlots
  BY DEF FInv
<1>2. slots' \in Seq(Filter \cup {None}) /\ Len(slots') = Len(slots) /\ DOMAIN slots' = DOMAIN slots /\ slots'[id] = g
  BY <1>1
<1>3. \A i \in DOMAIN slots \ {id} : slots'[i] = slots[i]
  BY <1>1
<1>4. id \in Ids
  BY <1>1, BoundAssumption DEF Ids
<1>5. FilterOK(slots[id])
  BY DEF FInv, SlotsOK
<1>6. FilterOK(g)'
  BY <1>5 DEF FilterOK
<1>7. reqs' = [reqs EXCEPT ![r] = None] /\ reqs' = [s \in Req |-> reqs'[s]]
  BY DEF End, FInv
<1>8. SlotsOK'
  <2> SUFFICES ASSUME NEW i \in DOMAIN slots, slots'[i] # None PROVE FilterOK(slots[i])'
    BY <1>2 DEF SlotsOK
  <2>1. CASE i = id
    BY <2>1, <1>2, <1>6
  <2>2. CASE i # id
    BY <2>2, <1>3 DEF FInv, SlotsOK, FilterOK
  <2> QED
    BY <2>1, <2>2
<1>9. ReqsOK'
  <2> SUFFICES ASSUME NEW s \in Req, (reqs[s] # None)'
               PROVE  (RequestOK(reqs[s]) /\ (Polls(reqs[s]) => Follows(reqs[s], slots[reqs[s].id])))'
    BY DEF ReqsOK
  <2>1. reqs'[s] = reqs[s] /\ reqs[s] # None
    BY <1>7 DEF FInv
  <2>2. RequestOK(reqs[s]) /\ (Polls(reqs[s]) => Follows(reqs[s], slots[reqs[s].id]))
    BY <2>1 DEF FInv, ReqsOK
  <2>3. RequestOK(reqs[s])'
    BY <2>1, <2>2 DEF RequestOK
  <2>4. ASSUME Polls(reqs[s])' PROVE Follows(reqs[s], slots[reqs[s].id])'
    <3>1. reqs[s].id \in DOMAIN slots /\ slots'[reqs[s].id] # None /\ slots'[reqs[s].id].gen = reqs[s].gen /\ reqs[s].op = "changes"
      BY <1>2, <2>1, <2>4 DEF Polls
    <3>2. CASE reqs[s].id # id
      <4>1. Follows(reqs[s], slots[reqs[s].id])
        BY <1>3, <3>1, <3>2, <2>2 DEF Polls
      <4> QED
        BY <1>3, <2>1, <3>1, <3>2, <4>1
    <3>3. CASE reqs[s].id = id
      <4>1. Follows(reqs[s], slots[id])
        BY <1>2, <3>1, <3>3, <2>2 DEF Polls
      <4>2. g.last \in Nat /\ slots[id].last \in Nat
        BY <1>5 DEF FilterOK, Filter
      <4>3. CASE g.type = "event"
        <5>1. LogsFollow(reqs[s], slots[id])
          BY <4>1, <4>3 DEF Follows
        <5>2. LogsFollow(reqs[s], g)
          BY <5>1, <4>2 DEF LogsFollow
        <5> QED
          BY <5>2, <4>3, <1>2, <2>1, <3>3 DEF Follows
      <4>4. CASE g.type # "event"
        <5>1. BlocksFollow(reqs[s], slots[id])
          BY <4>1, <4>4 DEF Follows
        <5>2. BlocksFollow(reqs[s], g)
          <6> SUFFICES ASSUME \E x \in AskedFor(reqs[s]) : x[1] = "eth_getBlockByNumber",
                              NEW b \in (g.last + 1)..reqs[s].subs[BlockNumber]
                       PROVE  GetBlock(b) \in AskedFor(reqs[s])
            BY DEF BlocksFollow
          <6>1. BlockNumber \in DOMAIN reqs[s].subs
            BY <2>2 DEF RequestOK, BlockNumber
          <6>2. reqs[s].subs[BlockNumber] \in Int
            BY <6>1, <2>2, BoundAssumption DEF RequestOK, FInv
          <6>3. b \in (slots[id].last + 1)..reqs[s].subs[BlockNumber]
            BY <6>2, <4>2
          <6> QED
            BY <5>1, <6>3 DEF BlocksFollow
        <5> QED
          BY <5>2, <4>4, <1>2, <2>1, <3>3 DEF Follows
      <4> QED
        BY <4>3, <4>4
    <3> QED
      BY <3>2, <3>3
  <2> QED
    BY <2>3, <2>4
<1>10. FInv'
  BY <1>1, <1>2, <1>7, <1>8, <1>9 DEF FInv
<1>11. FeedsOf' = [FeedsOf EXCEPT ![id] = FeedIn(g)]
  BY <1>2, <1>3, <1>4, FeedsAfter
<1>12. FeedsOf[id] = FeedIn(slots[id])
  BY <1>4 DEF FeedsOf, FeedIn
<1> QED
  BY <1>4, <1>10, <1>11, <1>12

(* A poll that delivers what is promised of its filter is one of the feed; if *)
(* nothing is promised any more, the feed is gone.                            *)
LEMMA DeliverStep ==
  ASSUME FInv, NEW id \in Ids, NEW f \in Filter, NEW g \in Filter, NEW n \in f.last..head, head' = head,
         FeedsOf' = [FeedsOf EXCEPT ![id] = FeedIn(g)], FeedsOf[id] = FeedIn(f), FilterOK(f),
         g.type = f.type, g.options = f.options,
         g.last = IF f.type = "block" THEN n ELSE n + 1,
         Promised(g) => Promised(f) /\ F!Reports(FeedOf(f), n, g.seen)
  PROVE  F!Remove \/ F!Poll(id)
<1>1. CASE ~Promised(g)
  BY <1>1 DEF FeedIn, F!Remove, FeedsOf
<1>2. CASE Promised(g)
  <2>1. FeedsOf[id] = FeedOf(f) /\ FeedsOf'[id] = FeedOf(g) /\ FeedsOf' = [FeedsOf EXCEPT ![id] = FeedsOf'[id]]
    BY <1>2 DEF FeedIn, FeedsOf
  <2>2. FeedOf(f) # None /\ FeedOf(g) # None
    BY <1>2, FeedIsRecord DEF FilterOK
  <2>3. FeedOf(g) = [kind |-> f.type, last |-> g.last, lo |-> Lower(f), hi |-> Upper(f), seen |-> g.seen]
    BY DEF FeedOf, Lower, Upper
  <2>4. FeedOf(f) = [kind |-> f.type, last |-> f.last, lo |-> Lower(f), hi |-> Upper(f), seen |-> f.seen]
    BY DEF FeedOf
  <2>5. FeedOf(f).last = f.last /\ FeedOf(f).kind = f.type /\ FeedOf(g).seen = g.seen
    BY <2>3, <2>4
  <2>6. FeedOf(g) = [[FeedOf(f) EXCEPT !.last = g.last] EXCEPT !.seen = g.seen]
    <3> DEFINE h == [FeedOf(f) EXCEPT !.last = g.last]
    <3>1. h = [kind |-> f.type, last |-> g.last, lo |-> Lower(f), hi |-> Upper(f), seen |-> f.seen]
      BY <2>4
    <3> HIDE DEF h
    <3>2. FeedOf(g) = [h EXCEPT !.seen = g.seen]
      BY <2>3, <3>1
    <3> QED
      BY <3>2 DEF h
  <2>7. F!Reports(FeedOf(f), n, g.seen)
    BY <1>2
  <2>8. n \in FeedsOf[id].last..head
    BY <2>1, <2>5
  <2>9. g.last = (IF FeedsOf[id].kind = "block" THEN n ELSE n + 1) /\ g.seen = FeedsOf'[id].seen
    BY <2>1, <2>5
  <2>10. FeedsOf'[id] = [FeedsOf[id] EXCEPT !.last = IF FeedsOf[id].kind = "block" THEN n ELSE n + 1, !.seen = FeedsOf'[id].seen]
    BY <2>1, <2>6, <2>9, Zenon
  <2>11. F!Reports(FeedsOf[id], n, FeedsOf'[id].seen)
    BY <2>1, <2>7, <2>9, Zenon
  <2>12. FeedsOf[id] # None /\ FeedsOf'[id] # None
    BY <2>1, <2>2, Zenon
  <2> QED
    BY <2>1, <2>8, <2>10, <2>11, <2>12, Zenon DEF F!Poll, F!Changed
<1> QED
  BY <1>1, <1>2

(* A request whose handler runs, and the filter in its slot. *)
PollOf(r, id) ==
  /\ Ready(r) /\ reqs[r].op = "changes" /\ reqs[r].id = id
  /\ id \in DOMAIN slots /\ slots[id] # None
  /\ BlockNumber \in DOMAIN reqs[r].subs

LEMMA PollFacts ==
  ASSUME FInv, NEW r \in Req, NEW id, PollOf(r, id)
  PROVE  /\ RequestOK(reqs[r]) /\ FilterOK(slots[id]) /\ slots[id] \in Filter
         /\ reqs[r].subs[BlockNumber] \in 1..head /\ head \in Nat /\ reqs[r].subs[BlockNumber] \in Nat
         /\ slots[id].last \in Nat
         /\ slots[id].gen = reqs[r].gen => Polls(reqs[r]) /\ Follows(reqs[r], slots[id])
         /\ AskedFor(reqs[r]) = DOMAIN reqs[r].subs
<1>1. RequestOK(reqs[r]) /\ FilterOK(slots[id])
  BY DEF FInv, ReqsOK, SlotsOK, PollOf, Ready
<1>2. slots[id].gen = reqs[r].gen => Polls(reqs[r]) /\ Follows(reqs[r], slots[id])
  BY DEF FInv, ReqsOK, PollOf, Ready, Polls
<1>3. head \in 1..MaxHead
  BY DEF FInv
<1>4. AskedFor(reqs[r]) = DOMAIN reqs[r].subs
  BY DEF PollOf, Ready, AskedFor
<1>5. slots[id] \in Filter /\ slots[id].last \in Nat
  BY <1>1 DEF FilterOK, Filter
<1>6. reqs[r].subs[BlockNumber] \in 1..head
  BY <1>1 DEF RequestOK, PollOf
<1> QED
  BY <1>1, <1>2, <1>3, <1>4, <1>5, <1>6, BoundAssumption

LEMMA EventStep ==
  ASSUME FInv, NEW r \in Req, NEW id, PollOf(r, id), slots[id].type = "event",
         EventChanges(r, id, slots[id], reqs[r].subs[BlockNumber]), UNCHANGED <<head, installs>>
  PROVE  FInv' /\ (UNCHANGED F!vars \/ F!Remove \/ \E i \in Ids : F!Poll(i))
<1> DEFINE q == reqs[r]
           f == slots[id]
           blkno == q.subs[BlockNumber]
           from == filter_opt_set_fromBlock(f.options, f.last, ~f.first)
           s == CHOOSE x \in LogsOf(r) : TRUE
           g == Moved(f, blkno + 1, q.subs[s], r)
<1>1. /\ RequestOK(q) /\ FilterOK(f) /\ f \in Filter /\ blkno \in 1..head /\ head \in Nat /\ blkno \in Nat /\ f.last \in Nat
      /\ f.gen = q.gen => Polls(q) /\ Follows(q, f)
      /\ AskedFor(q) = DOMAIN q.subs
  BY PollFacts
<1>2. q # None /\ BlockNumber \in DOMAIN q.subs /\ q.id = id /\ id \in DOMAIN slots /\ f # None
  BY DEF PollOf, Ready
<1>3. \/ End(r) /\ UNCHANGED slots
      \/ LogsOf(r) = {} /\ Ask(r, {Logs(from, f.options.to)}) /\ UNCHANGED slots
      \/ ~(f.last > blkno) /\ LogsOf(r) # {} /\ slots' = [slots EXCEPT ![id] = g] /\ End(r)
  BY DEF EventChanges
<1>4. CASE End(r) /\ UNCHANGED slots
  BY <1>4, EndStep
<1>5. CASE LogsOf(r) = {} /\ Ask(r, {Logs(from, f.options.to)}) /\ UNCHANGED slots
  <2> DEFINE l == Logs(from, f.options.to)
             p == [q EXCEPT !.need = {l}]
  <2>1. l[1] = "eth_getLogs" /\ l[2] = from /\ l[3] = f.options.to
    BY DEF Logs
  <2>2. (from = f.options.from /\ from # None) \/ (from \in Nat /\ from <= f.last)
    BY <1>1 DEF filter_opt_set_fromBlock
  <2>3. p.need = {l} /\ p.subs = q.subs
    BY <1>1 DEF RequestOK
  <2>4. \A x \in DOMAIN q.subs : x[1] # "eth_getLogs"
    BY <1>5 DEF LogsOf
  <2>5. {l} \cap DOMAIN q.subs = {}
    BY <2>1, <2>4
  <2> HIDE DEF l, p, from
  <2>6. LogsFollow(p, f)
    BY <2>1, <2>2, <2>3, <2>4, <2>5 DEF LogsFollow, AskedFor
  <2>7. Follows(p, slots[q.id])
    BY <2>6, <1>2 DEF Follows
  <2>8. Ask(r, {l})
    BY <1>5 DEF l
  <2> QED
    BY <1>2, <1>5, <2>5, <2>7, <2>8, AskStep DEF p
<1>6. CASE ~(f.last > blkno) /\ LogsOf(r) # {} /\ slots' = [slots EXCEPT ![id] = g] /\ End(r)
  <2>1. s \in LogsOf(r)
    BY <1>6
  <2>2. s \in DOMAIN q.subs /\ s[1] = "eth_getLogs"
    BY <2>1 DEF LogsOf
  <2> HIDE DEF s
  <2>3. PICK bs : bs = q.subs[s]
    OBVIOUS
  <2>4. PICK h : h = g
    OBVIOUS
  <2>5. h = Moved(f, blkno + 1, bs, r)
    BY <2>3, <2>4
  <2>6. /\ h \in Filter /\ h.type = f.type /\ h.options = f.options /\ h.gen = f.gen
        /\ h.last = blkno + 1 /\ h.seen = Count(f, bs) /\ h.torn = (f.torn \/ f.gen # q.gen)
    BY <1>1, <2>5, MovedFields
  <2>7. \A b \in Blocks : f.seen[b] \in Nat /\ f.seen[b] <= 1 /\ h.seen[b] = IF b \in bs THEN 1 ELSE f.seen[b]
    BY <1>1, <2>6 DEF Count, FilterOK, Filter
  <2>8. /\ FInv' /\ id \in Ids /\ FeedsOf' = [FeedsOf EXCEPT ![id] = FeedIn(h)] /\ FeedsOf[id] = FeedIn(slots[id])
    <3>1. \A b \in Blocks : h.seen[b] <= 1
      BY <2>7
    <3>2. h.last >= f.last
      BY <1>1, <1>6, <2>6
    <3>3. slots' = [slots EXCEPT ![id] = h]
      BY <1>6, <2>4
    <3>4. End(r) /\ h \in Filter /\ id \in DOMAIN slots /\ slots[id] # None
      BY <1>2, <1>6, <2>6
    <3>5. h.type = slots[id].type /\ h.options = slots[id].options /\ h.gen = slots[id].gen /\ h.last >= slots[id].last
      BY <2>6, <3>2
    <3> HIDE DEF g, f, q, blkno
    <3> QED
      BY <3>1, <3>3, <3>4, <3>5, MoveStep
  <2>9. ASSUME Promised(h) PROVE Promised(f) /\ F!Reports(FeedOf(f), blkno, h.seen)
    <3>1. Promised(f) /\ f.gen = q.gen
      BY <2>6, <2>9, <1>2 DEF Promised
    <3>2. LogsFollow(q, f)
      BY <1>1, <3>1 DEF Follows
    <3>3. /\ s[3] = f.options.to
          /\ (s[2] = f.options.from /\ s[2] # None) \/ (s[2] \in Nat /\ s[2] <= f.last)
          /\ \A b \in 1..blkno : Covers(s, b) => b \in bs
      BY <1>1, <2>2, <2>3, <3>2 DEF LogsFollow
    <3>4. ASSUME NEW b \in 1..MaxHead, f.last <= b, b <= blkno, Lower(f) <= b, b <= Upper(f)
          PROVE  b \in bs
      <4>1. f.options.from \in BlockTags \ {Bad, Latest} /\ f.options.to \in BlockTags \ {Bad}
        BY <1>1, <3>1, OptionAssumption DEF FilterOK, Promised
      <4>2. s[2] \in Nat /\ s[2] <= b
        BY <1>1, <3>3, <3>4, <4>1 DEF Lower, BlockTags
      <4>3. s[3] \in {None, Latest} \/ b <= s[3]
        BY <3>3, <3>4 DEF Upper
      <4>4. b \in 1..blkno
        BY <3>4, <1>1
      <4> QED
        BY <3>3, <4>2, <4>3, <4>4 DEF Covers
    <3>5. \A b \in 1..MaxHead : f.last <= b /\ b <= blkno /\ Lower(f) <= b /\ b <= Upper(f) => h.seen[b] > 0
      BY <3>4, <2>7 DEF Blocks
    <3>6. \A b \in 1..MaxHead : h.seen[b] >= f.seen[b]
      BY <2>7 DEF Blocks
    <3>7. FeedOf(f).kind = "event" /\ FeedOf(f).last = f.last /\ FeedOf(f).lo = Lower(f) /\ FeedOf(f).hi = Upper(f) /\ FeedOf(f).seen = f.seen
      BY DEF FeedOf
    <3> QED
      BY <3>1, <3>5, <3>6, <3>7 DEF F!Reports
  <2>10. blkno \in f.last..head
    BY <1>1, <1>6
  <2>11. h.last = IF f.type = "block" THEN blkno ELSE blkno + 1
    BY <2>6
  <2>12. F!Remove \/ F!Poll(id)
    <3> HIDE DEF f, blkno, g
    <3>1. FeedsOf[id] = FeedIn(f)
      BY <2>8 DEF f
    <3> QED
      BY <1>1, <2>6, <2>8, <2>9, <2>10, <2>11, <3>1, DeliverStep
  <2> QED
    BY <2>8, <2>12
<1> QED
  BY <1>3, <1>4, <1>5, <1>6

LEMMA BlockStep ==
  ASSUME FInv, NEW r \in Req, NEW id, PollOf(r, id), slots[id].type # "event",
         BlockChanges(r, id, slots[id], reqs[r].subs[BlockNumber]), UNCHANGED <<head, installs>>
  PROVE  FInv' /\ (UNCHANGED F!vars \/ F!Remove \/ \E i \in Ids : F!Poll(i))
<1> DEFINE q == reqs[r]
           f == slots[id]
           blkno == q.subs[BlockNumber]
           new == f.last + 1..blkno
           there == {b \in new : Has(r, GetBlock(b))}
           g == Moved(f, blkno, there, r)
           wanted == {GetBlock(b) : b \in new \ there}
<1>1. /\ RequestOK(q) /\ FilterOK(f) /\ f \in Filter /\ blkno \in 1..head /\ head \in Nat /\ blkno \in Nat /\ f.last \in Nat
      /\ f.gen = q.gen => Polls(q) /\ Follows(q, f)
      /\ AskedFor(q) = DOMAIN q.subs
  BY PollFacts
<1>2. q # None /\ BlockNumber \in DOMAIN q.subs /\ q.id = id /\ id \in DOMAIN slots /\ f # None
  BY DEF PollOf, Ready
<1>3. f.type = "block"
  BY <1>1 DEF Filter
<1>4. \/ End(r) /\ UNCHANGED slots
      \/ Ask(r, wanted) /\ UNCHANGED slots
      \/ ~(blkno <= f.last) /\ blkno \in there /\ slots' = [slots EXCEPT ![id] = g] /\ End(r)
  BY DEF BlockChanges
<1>5. \A b \in new : b \in there <=> GetBlock(b) \in DOMAIN q.subs
  BY DEF Has
<1>6. CASE End(r) /\ UNCHANGED slots
  BY <1>6, EndStep
<1>7. CASE Ask(r, wanted) /\ UNCHANGED slots
  <2> DEFINE p == [q EXCEPT !.need = wanted]
  <2>1. p.need = wanted /\ p.subs = q.subs
    BY <1>1 DEF RequestOK
  <2>2. wanted \cap DOMAIN q.subs = {}
    BY <1>5
  <2>3. \A b \in new : GetBlock(b) \in wanted \cup DOMAIN q.subs
    BY <1>5
  <2> HIDE DEF p, wanted, there
  <2>4. BlocksFollow(p, f)
    BY <2>1, <2>3 DEF BlocksFollow, AskedFor
  <2>5. Follows(p, slots[q.id])
    BY <2>4, <1>2, <1>3 DEF Follows
  <2> QED
    BY <1>2, <1>7, <2>2, <2>5, AskStep DEF p
<1>8. CASE ~(blkno <= f.last) /\ blkno \in there /\ slots' = [slots EXCEPT ![id] = g] /\ End(r)
  <2>1. PICK bs : bs = there
    OBVIOUS
  <2>2. PICK h : h = g
    OBVIOUS
  <2>3. h = Moved(f, blkno, bs, r)
    BY <2>1, <2>2
  <2>4. /\ h \in Filter /\ h.type = f.type /\ h.options = f.options /\ h.gen = f.gen
        /\ h.last = blkno /\ h.seen = Count(f, bs) /\ h.torn = (f.torn \/ f.gen # q.gen)
    BY <1>1, <2>3, MovedFields
  <2>5. h.seen = [b \in Blocks |-> IF b \in bs THEN f.seen[b] + 1 ELSE f.seen[b]]
    BY <1>3, <2>4 DEF Count
  <2>6. blkno \in f.last..head /\ h.last >= f.last
    BY <1>1, <1>8, <2>4
  <2>7. /\ FInv' /\ id \in Ids /\ FeedsOf' = [FeedsOf EXCEPT ![id] = FeedIn(h)] /\ FeedsOf[id] = FeedIn(slots[id])
    <3>1. End(r) /\ h \in Filter /\ id \in DOMAIN slots /\ slots[id] # None /\ slots' = [slots EXCEPT ![id] = h]
      BY <1>2, <1>8, <2>2, <2>4
    <3>2. h.type = slots[id].type /\ h.options = slots[id].options /\ h.gen = slots[id].gen /\ h.last >= slots[id].last /\ h.type # "event"
      BY <1>3, <2>4, <2>6
    <3> HIDE DEF g, f, q, blkno
    <3> QED
      BY <3>1, <3>2, MoveStep
  <2>8. ASSUME Promised(h) PROVE Promised(f) /\ F!Reports(FeedOf(f), blkno, h.seen)
    <3>1. Promised(f) /\ f.gen = q.gen
      BY <2>4, <2>8, <1>2 DEF Promised
    <3>2. BlocksFollow(q, f)
      BY <1>1, <1>3, <3>1 DEF Follows
    <3>3. GetBlock(blkno) \in DOMAIN q.subs /\ GetBlock(blkno)[1] = "eth_getBlockByNumber"
      BY <1>8 DEF Has, GetBlock
    <3>4. \A b \in new : GetBlock(b) \in DOMAIN q.subs
      BY <1>1, <3>2, <3>3 DEF BlocksFollow
    <3>5. bs = new
      BY <2>1, <1>5, <3>4
    <3>6. \A b \in 1..MaxHead : b \in bs <=> (f.last < b /\ b <= blkno)
      BY <1>1, <3>5
    <3>7. h.seen = [b \in 1..MaxHead |-> IF f.last < b /\ b <= blkno THEN f.seen[b] + 1 ELSE f.seen[b]]
      <4> HIDE DEF f, blkno, there, new, g
      <4> QED
        BY <2>5, <3>6 DEF Blocks
    <3>8. FeedOf(f).kind = "block" /\ FeedOf(f).last = f.last /\ FeedOf(f).seen = f.seen
      BY <1>3 DEF FeedOf
    <3> QED
      BY <3>1, <3>7, <3>8 DEF F!Reports
  <2>9. h.last = IF f.type = "block" THEN blkno ELSE blkno + 1
    BY <1>3, <2>4
  <2>10. F!Remove \/ F!Poll(id)
    <3> HIDE DEF f, blkno, g
    <3>1. FeedsOf[id] = FeedIn(f)
      BY <2>7 DEF f
    <3> QED
      BY <1>1, <2>4, <2>6, <2>7, <2>8, <2>9, <3>1, DeliverStep
  <2> QED
    BY <2>7, <2>10
<1> QED
  BY <1>4, <1>6, <1>7, <1>8

LEMMA ChangesStep ==
  ASSUME FInv, NEW r \in Req, filter_get_changes(r)
  PROVE  FInv' /\ (UNCHANGED F!vars \/ F!Remove \/ \E i \in Ids : F!Poll(i))
<1> DEFINE q == reqs[r]
           id == q.id
<1>1. q # None /\ q.need = {} /\ q.op = "changes" /\ Ready(r) /\ UNCHANGED <<head, installs>>
  BY DEF filter_get_changes, Ready
<1>2. RequestOK(q)
  BY <1>1 DEF FInv, ReqsOK
<1>3. \/ End(r) /\ UNCHANGED slots
      \/ ~Has(r, BlockNumber) /\ Ask(r, {BlockNumber}) /\ UNCHANGED slots
      \/ PollOf(r, id) /\ slots[id].type = "event" /\ EventChanges(r, id, slots[id], q.subs[BlockNumber])
      \/ PollOf(r, id) /\ slots[id].type # "event" /\ BlockChanges(r, id, slots[id], q.subs[BlockNumber])
  BY <1>1 DEF filter_get_changes, PollOf, Has
<1>4. CASE End(r) /\ UNCHANGED slots
  BY <1>1, <1>4, EndStep
<1>5. CASE ~Has(r, BlockNumber) /\ Ask(r, {BlockNumber}) /\ UNCHANGED slots
  <2>1. DOMAIN q.subs = {}
    BY <1>2, <1>5 DEF RequestOK, AskedFor, Has
  <2> DEFINE p == [q EXCEPT !.need = {BlockNumber}]
  <2>2. p.need = {BlockNumber} /\ p.subs = q.subs
    BY <1>2 DEF RequestOK
  <2>3. \A s \in AskedFor(p) : s[1] = "eth_blockNumber"
    BY <2>1, <2>2 DEF AskedFor, BlockNumber
  <2> HIDE DEF p
  <2>4. Follows(p, slots[id])
    BY <2>3 DEF Follows, LogsFollow, BlocksFollow
  <2> QED
    BY <1>1, <1>5, <2>1, <2>4, AskStep DEF p
<1>6. CASE PollOf(r, id) /\ slots[id].type = "event" /\ EventChanges(r, id, slots[id], q.subs[BlockNumber])
  BY <1>1, <1>6, EventStep
<1>7. CASE PollOf(r, id) /\ slots[id].type # "event" /\ BlockChanges(r, id, slots[id], q.subs[BlockNumber])
  BY <1>1, <1>7, BlockStep
<1> QED
  BY <1>3, <1>4, <1>5, <1>6, <1>7

-----------------------------------------------------------------------------
(* Every step keeps the invariant, and is a step of the feeds or none. *)
LEMMA NextStep ==
  ASSUME FInv, [Next]_vars
  PROVE  FInv' /\ [F!Next]_F!vars
<1>1. CASE UNCHANGED vars
  <2>1. FInv'
    BY <1>1 DEF vars, FInv, SlotsOK, ReqsOK, FilterOK, RequestOK, Polls
  <2>2. UNCHANGED F!vars
    BY <1>1 DEF vars, F!vars, FeedsOf, FeedOf, Promised, Lower, Upper
  <2> QED
    BY <2>1, <2>2
<1>2. CASE Grow
  BY <1>2, GrowStep DEF F!Next
<1>3. ASSUME NEW r \in Req, NEW o \in Options, Start(r, "event", 0, o) PROVE FInv' /\ [F!Next]_F!vars
  BY <1>3, StartStep
<1>4. ASSUME NEW r \in Req, Start(r, "block", 0, None) PROVE FInv' /\ [F!Next]_F!vars
  BY <1>4, StartStep
<1>5. ASSUME NEW r \in Req, NEW id \in Ids, Start(r, "changes", id, None) PROVE FInv' /\ [F!Next]_F!vars
  BY <1>5, StartStep
<1>6. ASSUME NEW r \in Req, filter_add(r) PROVE FInv' /\ [F!Next]_F!vars
  BY <1>6, AddStep DEF F!Next
<1>7. ASSUME NEW r \in Req, filter_get_changes(r) PROVE FInv' /\ [F!Next]_F!vars
  BY <1>7, ChangesStep DEF F!Next
<1>8. ASSUME NEW r \in Req, Answer(r) PROVE FInv' /\ [F!Next]_F!vars
  BY <1>8, AnswerStep
<1>9. ASSUME NEW r \in Req, Fail(r) PROVE FInv' /\ [F!Next]_F!vars
  BY <1>9, FailStep
<1>10. ASSUME NEW id \in Ids, filter_remove(id) PROVE FInv' /\ [F!Next]_F!vars
  BY <1>10, RemoveStep DEF F!Next
<1>11. CASE free_filters
  BY <1>11, FreeStep DEF F!Next
<1> QED
  BY <1>1, <1>2, <1>3, <1>4, <1>5, <1>6, <1>7, <1>8, <1>9, <1>10, <1>11 DEF Next

(* filter_get_changes: for any number of requests, filters and blocks, polls  *)
(* that overlap or fail half way neither lose nor repeat a block behind the   *)
(* cursor of a block filter, and lose no log of an event filter in the blocks *)
(* from its cursor on: every behaviour of the filters is one of the feeds.    *)
(* Two kinds of filters are no feeds (Promised): event filters from "latest", *)
(* and a filter from the moment on that a poll which waited for an earlier    *)
(* filter of its id moves its cursor.                                         *)
THEOREM FiltersAreFeeds ==
  Spec => FiltersDeliver
<1>1. Init => FInv /\ F!Init
  BY InitFInv, InitFeed
<1>2. FInv /\ [Next]_vars => FInv' /\ [F!Next]_F!vars
  BY NextStep
<1> QED
  BY <1>1, <1>2, PTL DEF Spec, FiltersDeliver, F!Spec

=============================================================================
