---------------------------- MODULE MusigProofs ----------------------------
(***************************************************************************)
(* Proofs about Musig.  The invariant MusigInv says that every value in a  *)
(* session, in what a member was asked and in its answers is the one that  *)
(* its member makes for that message, whoever filled it in and whenever;   *)
(* that a member which verifies proofs has only filled its slot when there *)
(* was one; and that the rounds of every session are in order.  A run of   *)
(* the handler asks the members in a recursive function, which is shown to *)
(* exist (WalkExists) and to keep this, member by member (RoundKeeps).     *)
(***************************************************************************)
EXTENDS Musig, TLAPS, NaturalsInduction, WellFoundedInduction, SequenceTheorems

(* A set of numbers that is not empty has a least one. *)
LEMMA Least ==
  ASSUME NEW S \in SUBSET Nat, S # {}
  PROVE  \E i \in S : \A j \in S : i <= j
<1>1. PICK x \in S : \A y \in S : ~(<<y, x>> \in OpToRel(<, Nat))
  BY NatLessThanWellFounded, WFMin
<1>2. ASSUME NEW y \in S PROVE <<y, x>> \in OpToRel(<, Nat) <=> y < x
  <2>1. <<y, x>> \in Nat \X Nat /\ <<y, x>>[1] = y /\ <<y, x>>[2] = x
    OBVIOUS
  <2>2. OpToRel(<, Nat) = {ss \in Nat \X Nat : ss[1] < ss[2]}
    BY Zenon DEF OpToRel
  <2> QED
    BY <2>1, <2>2
<1>3. \A y \in S : ~(y < x)
  BY <1>1, <1>2, Zenon
<1> QED
  BY <1>3

(* f is the asking of the first n members. *)
Walk(f, n, h, round) == f = [i \in 0..n |-> IF i = 0 THEN h ELSE AskMember(f[i - 1], i, round)]

(* Such functions exist, and so the one of Round is one of them. *)
LEMMA WalkExtends ==
  ASSUME NEW n \in Nat, NEW f, NEW h, NEW round, Walk(f, n, h, round)
  PROVE  \E g : Walk(g, n + 1, h, round)
<1> DEFINE g == [i \in 0..(n + 1) |-> IF i = n + 1 THEN AskMember(f[n], n + 1, round) ELSE f[i]]
<1>1. \A i \in 0..n : f[i] = IF i = 0 THEN h ELSE AskMember(f[i - 1], i, round)
  BY DEF Walk
<1>2. ASSUME NEW i \in 0..(n + 1)
      PROVE  g[i] = IF i = 0 THEN h ELSE AskMember(g[i - 1], i, round)
  <2>1. CASE i = n + 1
    <3>1. g[i - 1] = f[n] /\ i # 0
      BY <2>1
    <3> QED
      BY <2>1, <3>1
  <2>2. CASE i = 0
    BY <1>1, <2>2
  <2>3. CASE i \in 1..n
    <3>1. g[i - 1] = f[i - 1] /\ g[i] = f[i] /\ i # 0 /\ i \in 0..n
      BY <2>3
    <3> QED
      BY <1>1, <3>1
  <2> QED
    BY <2>1, <2>2, <2>3
<1>3. g = [i \in 0..(n + 1) |-> g[i]]
  OBVIOUS
<1> HIDE DEF g
<1>4. Walk(g, n + 1, h, round)
  BY <1>2, <1>3 DEF Walk
<1> QED
  BY <1>4

LEMMA WalkExists ==
  ASSUME NEW h, NEW round
  PROVE  \A n \in Nat : \E f : Walk(f, n, h, round)
<1> DEFINE Bad == {n \in Nat : ~\E f : Walk(f, n, h, round)}
<1>1. ASSUME Bad # {} PROVE FALSE
  <2>1. PICK n \in Bad : \A j \in Bad : n <= j
    BY <1>1, Least
  <2>2. CASE n = 0
    <3>1. Walk([i \in 0..0 |-> h], 0, h, round)
      BY DEF Walk
    <3> QED
      BY <2>1, <2>2, <3>1
  <2>3. CASE n # 0
    <3>1. n - 1 \in Nat /\ n - 1 \notin Bad /\ (n - 1) + 1 = n
      BY <2>1, <2>3
    <3>2. PICK f : Walk(f, n - 1, h, round)
      BY <3>1
    <3>3. \E g : Walk(g, (n - 1) + 1, h, round)
      BY <3>1, <3>2, WalkExtends
    <3> QED
      BY <2>1, <3>1, <3>3
  <2> QED
    BY <2>2, <2>3
<1> QED
  BY <1>1

LEMMA RoundIsWalk ==
  ASSUME NEW h, NEW round, N \in Nat
  PROVE  \E f : Walk(f, N, h, round) /\ Round(h, round) = f[N]
<1> DEFINE upto == CHOOSE f : Walk(f, N, h, round)
<1>1. \E f : Walk(f, N, h, round)
  BY WalkExists
<1>2. Walk(upto, N, h, round)
  BY <1>1
<1>3. Round(h, round) = upto[N]
  BY DEF Round, Walk
<1> QED
  BY <1>2, <1>3

-----------------------------------------------------------------------------
(* A member takes part: if it verifies proofs, it has seen one. *)
TakesPart(i, m) == i \in Verifying \ {Client} => m \in Proven

(* What the slots of the message m hold once they are filled.                *)
AllPre(m) == [i \in Member |-> Precommitment(i, Seed(i, m))]
AllCom(m) == [i \in Member |-> Commitment(i, Seed(i, m))]
AllSig(m) == [i \in Member |-> Share(i, Seed(i, m), AllCom(m))]

Slots(full) == [Member -> {None} \cup {full[i] : i \in Member}]

(* A slot is empty, or holds the one value that its member makes. *)
Part(d, full) == \A i \in Member : d[i] = None \/ d[i] = full[i]

PreSlots(m) == {d \in Slots(AllPre(m)) : Part(d, AllPre(m)) /\ \A i \in Member : d[i] # None => TakesPart(i, m)}
ComSlots(m) == {d \in Slots(AllCom(m)) : Part(d, AllCom(m))}
SigSlots(m) == {d \in Slots(AllSig(m)) : Part(d, AllSig(m))}

SessionData(m) == [pre : PreSlots(m), com : ComSlots(m), sig : SigSlots(m)]

(* The rounds are in order in the session s of p. *)
InOrder(s, p) ==
  /\ s.com[p] # None => is_complete(s.pre)
  /\ s.sig[p] # None => is_complete(s.com)

SessionsFor(p, m) ==
  {s \in [id : {m}, seed : {Seed(p, m)}, pre : PreSlots(m), com : ComSlots(m), sig : SigSlots(m)] : InOrder(s, p)}

SessionsAt(p) == UNION {SessionsFor(p, m) : m \in Message}

Answers(m) == {None} \cup {<<d>> : d \in SessionData(m)}
Asked(m) == [to : Member \ {Client}, data : SessionData(m), answer : Answers(m)]

Runs(p, m) == [s : SessionsFor(p, m), subs : SUBSET Asked(m), ret : {"ok", "waiting", "error"}]

(* All slots are filled. *)
Finished(m) ==
  {d \in SessionData(m) : d.pre = AllPre(m) /\ d.com = AllCom(m) /\ d.sig = AllSig(m) /\ \A i \in Member : TakesPart(i, m)}

CallsFor(m) ==
  {v \in [msg : {m}, st : {"waiting", "done", "failed", "partial"}, subs : SUBSET Asked(m),
          out : {None} \cup {<<d>> : d \in Finished(m)}] : v.st = "done" => v.out # None}

(* No message has two sessions, and there are at most as many as allowed.     *)
ListOK(p, l) ==
  /\ l \in Seq(SessionsAt(p))
  /\ Len(l) <= MAX_SESSIONS + 1
  /\ \A j, k \in DOMAIN l : l[j].id = l[k].id => j = k

ListsOK == sessions = [p \in Member |-> sessions[p]] /\ \A p \in Member : ListOK(p, sessions[p])

AllCalls == {NoCall} \cup UNION {CallsFor(m) : m \in Message}

MusigInv == ListsOK /\ calls \in [Call -> AllCalls]

-----------------------------------------------------------------------------
(* The slots *)

LEMMA SlotFacts ==
  ASSUME NEW m, NEW i \in Member
  PROVE  /\ AllPre(m)[i] = Precommitment(i, Seed(i, m)) /\ AllPre(m)[i] # None
         /\ AllCom(m)[i] = Commitment(i, Seed(i, m)) /\ AllCom(m)[i] # None
         /\ AllSig(m)[i] = Share(i, Seed(i, m), AllCom(m)) /\ AllSig(m)[i] # None
<1>1. AllPre(m)[i] = Precommitment(i, Seed(i, m)) /\ AllCom(m)[i] = Commitment(i, Seed(i, m))
  BY DEF AllPre, AllCom
<1>2. AllSig(m)[i] = Share(i, Seed(i, m), AllCom(m))
  BY DEF AllSig
<1>3. \A x, s, c : Precommitment(x, s) # None /\ Commitment(x, s) # None /\ Share(x, s, c) # None
  BY DEF Precommitment, Commitment, Share, None
<1> QED
  BY <1>1, <1>2, <1>3

LEMMA SlotsByParts ==
  ASSUME NEW full, NEW d, d = [i \in Member |-> d[i]], Part(d, full)
  PROVE  d \in Slots(full)
  BY DEF Slots, Part

LEMMA CompleteIsAll ==
  ASSUME NEW full, NEW d \in Slots(full), Part(d, full), is_complete(d), full = [i \in Member |-> full[i]]
  PROVE  d = full
  BY DEF Slots, Part, is_complete

(* g has the slots of a and b, and those of p from a. *)
Merged(a, b, p, g, full) ==
  /\ g \in Slots(full) /\ Part(g, full)
  /\ g[p] = a[p]
  /\ \A i \in Member : g[i] = a[i] \/ g[i] = b[i]
  /\ is_complete(a) => is_complete(g)

LEMMA FillKeeps ==
  ASSUME NEW full, NEW a \in Slots(full), NEW b \in Slots(full), Part(a, full), Part(b, full), NEW p \in Member
  PROVE  Merged(a, b, p, Fill(a, b, p), full)
<1> DEFINE g == Fill(a, b, p)
<1>1. g = [i \in Member |-> g[i]] /\ \A i \in Member : g[i] = IF i # p /\ a[i] = None THEN b[i] ELSE a[i]
  BY DEF Fill
<1> HIDE DEF g
<1>2. Part(g, full)
  BY <1>1 DEF Part
<1>3. g \in Slots(full)
  BY <1>1, <1>2, SlotsByParts
<1>4. is_complete(a) => is_complete(g)
  BY <1>1 DEF is_complete
<1> QED
  BY <1>1, <1>2, <1>3, <1>4 DEF g, Merged

(* A slot is filled with the value of its member. *)
LEMMA SetSlot ==
  ASSUME NEW full, NEW d \in Slots(full), Part(d, full), NEW p \in Member
  PROVE  /\ [d EXCEPT ![p] = full[p]] \in Slots(full)
         /\ Part([d EXCEPT ![p] = full[p]], full)
         /\ is_complete(d) /\ full[p] # None => is_complete([d EXCEPT ![p] = full[p]])
         /\ \A i \in Member : i # p => [d EXCEPT ![p] = full[p]][i] = d[i]
  BY DEF Slots, Part, is_complete

-----------------------------------------------------------------------------
(* The handler *)

LEMMA UpdateKeeps ==
  ASSUME NEW m, NEW p \in Member, NEW s \in SessionsFor(p, m), NEW d \in SessionData(m)
  PROVE  update_session(s, d, p) \in SessionsFor(p, m)
<1> DEFINE a == Fill(s.pre, d.pre, p)
           b == Fill(s.com, d.com, p)
           c == Fill(s.sig, d.sig, p)
<1>1. /\ s.pre \in PreSlots(m) /\ s.com \in ComSlots(m) /\ s.sig \in SigSlots(m)
      /\ d.pre \in PreSlots(m) /\ d.com \in ComSlots(m) /\ d.sig \in SigSlots(m)
      /\ s = [id |-> m, seed |-> Seed(p, m), pre |-> s.pre, com |-> s.com, sig |-> s.sig]
      /\ InOrder(s, p)
  BY DEF SessionsFor, SessionData
<1>2. update_session(s, d, p) = [id |-> m, seed |-> Seed(p, m), pre |-> a, com |-> b, sig |-> c]
  <2>1. update_session(s, d, p) = [s EXCEPT !.pre = a, !.com = b, !.sig = c]
    BY Zenon DEF update_session
  <2> HIDE DEF a, b, c
  <2> DEFINE x == [s EXCEPT !.pre = a]
             y == [x EXCEPT !.com = b]
             z == [y EXCEPT !.sig = c]
  <2>2. x = [id |-> m, seed |-> Seed(p, m), pre |-> a, com |-> s.com, sig |-> s.sig]
    BY <1>1
  <2>3. update_session(s, d, p) = z
    BY <2>1, Zenon
  <2> HIDE DEF x
  <2>4. y = [id |-> m, seed |-> Seed(p, m), pre |-> a, com |-> b, sig |-> s.sig]
    BY <2>2
  <2> HIDE DEF y
  <2>5. z = [id |-> m, seed |-> Seed(p, m), pre |-> a, com |-> b, sig |-> c]
    BY <2>4
  <2> QED
    BY <2>3, <2>5
<1>3. /\ a \in PreSlots(m) /\ a[p] = s.pre[p] /\ (is_complete(s.pre) => is_complete(a))
  <2>1. a \in Slots(AllPre(m)) /\ Part(a, AllPre(m)) /\ a[p] = s.pre[p] /\ (is_complete(s.pre) => is_complete(a))
        /\ \A i \in Member : a[i] = s.pre[i] \/ a[i] = d.pre[i]
    <3>1. Merged(s.pre, d.pre, p, a, AllPre(m))
      BY <1>1, FillKeeps DEF PreSlots
    <3> QED
      BY <3>1 DEF Merged
  <2> HIDE DEF a
  <2> QED
    BY <1>1, <2>1 DEF PreSlots
<1>4. b \in ComSlots(m) /\ b[p] = s.com[p] /\ (is_complete(s.com) => is_complete(b))
  <2>1. Merged(s.com, d.com, p, b, AllCom(m))
    BY <1>1, FillKeeps DEF ComSlots
  <2> QED
    BY <2>1 DEF Merged, ComSlots
<1>5. c \in SigSlots(m) /\ c[p] = s.sig[p]
  <2>1. Merged(s.sig, d.sig, p, c, AllSig(m))
    BY <1>1, FillKeeps DEF SigSlots
  <2> QED
    BY <2>1 DEF Merged, SigSlots
<1> HIDE DEF a, b, c
<1> DEFINE u == [id |-> m, seed |-> Seed(p, m), pre |-> a, com |-> b, sig |-> c]
<1>6. InOrder(u, p)
  BY <1>1, <1>3, <1>4, <1>5 DEF InOrder
<1>7. u \in SessionsFor(p, m)
  BY <1>3, <1>4, <1>5, <1>6 DEF SessionsFor
<1> QED
  BY <1>2, <1>7

LEMMA PrecommitmentKeeps ==
  ASSUME NEW m, NEW p \in Member, NEW h \in Runs(p, m), NEW was
  PROVE  receive_precommitment(h, p, was) \in Runs(p, m)
<1>1. CASE ~(h.ret = "ok" /\ ~was /\ is_complete(h.s.pre))
  BY <1>1 DEF receive_precommitment
<1>2. CASE h.ret = "ok" /\ ~was /\ is_complete(h.s.pre)
  <2> DEFINE s == h.s
             com == [s.com EXCEPT ![p] = AllCom(m)[p]]
             u == [s EXCEPT !.com = com]
  <2>1. /\ s \in SessionsFor(p, m) /\ s.seed = Seed(p, m) /\ s.com \in ComSlots(m) /\ InOrder(s, p)
        /\ s = [id |-> m, seed |-> Seed(p, m), pre |-> s.pre, com |-> s.com, sig |-> s.sig]
        /\ s.pre \in PreSlots(m) /\ s.sig \in SigSlots(m)
        /\ h = [s |-> s, subs |-> h.subs, ret |-> h.ret]
        /\ h.subs \in SUBSET Asked(m) /\ h.ret \in {"ok", "waiting", "error"}
    BY DEF Runs, SessionsFor
  <2>2. AllCom(m)[p] = Commitment(p, s.seed) /\ AllCom(m)[p] # None
    BY <2>1, SlotFacts
  <2>3. receive_precommitment(h, p, was) = [s |-> u, subs |-> h.subs, ret |-> h.ret]
    BY <1>2, <2>1, <2>2 DEF receive_precommitment
  <2>4. com \in ComSlots(m) /\ (is_complete(s.com) => is_complete(com))
    BY <2>1, <2>2, SetSlot DEF ComSlots
  <2> HIDE DEF com
  <2>5. u = [id |-> m, seed |-> Seed(p, m), pre |-> s.pre, com |-> com, sig |-> s.sig]
    BY <2>1
  <2>6. InOrder(u, p)
    BY <1>2, <2>1, <2>4, <2>5 DEF InOrder
  <2> HIDE DEF u
  <2>7. u \in SessionsFor(p, m)
    BY <2>1, <2>4, <2>5, <2>6 DEF SessionsFor
  <2> QED
    BY <2>1, <2>3, <2>7 DEF Runs
<1> QED
  BY <1>1, <1>2

LEMMA CommitmentKeeps ==
  ASSUME NEW m, NEW p \in Member, NEW h \in Runs(p, m), NEW was
  PROVE  receive_commitment(h, p, was) \in Runs(p, m)
<1> DEFINE s == h.s
<1>1. /\ s \in SessionsFor(p, m) /\ s.seed = Seed(p, m) /\ s.com \in ComSlots(m) /\ InOrder(s, p)
      /\ s = [id |-> m, seed |-> Seed(p, m), pre |-> s.pre, com |-> s.com, sig |-> s.sig]
      /\ s.pre \in PreSlots(m) /\ s.sig \in SigSlots(m)
      /\ h = [s |-> s, subs |-> h.subs, ret |-> h.ret]
      /\ h.subs \in SUBSET Asked(m) /\ h.ret \in {"ok", "waiting", "error"}
  BY DEF Runs, SessionsFor
<1>2. CASE h.ret # "ok" \/ was \/ ~is_complete(h.s.com)
  BY <1>2 DEF receive_commitment
<1>3. CASE ~(h.ret # "ok" \/ was \/ ~is_complete(h.s.com)) /\ ~Opens(h.s.pre, h.s.com)
  <2>1. receive_commitment(h, p, was) = [s |-> s, subs |-> h.subs, ret |-> "error"]
    BY <1>1, <1>3 DEF receive_commitment
  <2> QED
    BY <1>1, <2>1 DEF Runs
<1>4. CASE ~(h.ret # "ok" \/ was \/ ~is_complete(h.s.com)) /\ Opens(h.s.pre, h.s.com)
  <2> DEFINE sig == [s.sig EXCEPT ![p] = AllSig(m)[p]]
             u == [s EXCEPT !.sig = sig]
  <2>1. s.com = AllCom(m)
    <3>1. AllCom(m) = [i \in Member |-> AllCom(m)[i]]
      BY DEF AllCom
    <3> QED
      BY <1>1, <1>4, <3>1, CompleteIsAll DEF ComSlots
  <2>2. AllSig(m)[p] = Share(p, s.seed, s.com) /\ AllSig(m)[p] # None
    BY <1>1, <2>1, SlotFacts
  <2>3. receive_commitment(h, p, was) = [s |-> u, subs |-> h.subs, ret |-> h.ret]
    BY <1>1, <1>4, <2>2 DEF receive_commitment
  <2>4. sig \in SigSlots(m)
    BY <1>1, SetSlot DEF SigSlots
  <2> HIDE DEF sig
  <2>5. u = [id |-> m, seed |-> Seed(p, m), pre |-> s.pre, com |-> s.com, sig |-> sig]
    BY <1>1
  <2>6. InOrder(u, p)
    BY <1>1, <1>4, <2>5 DEF InOrder
  <2> HIDE DEF u
  <2>7. u \in SessionsFor(p, m)
    BY <1>1, <2>4, <2>5, <2>6 DEF SessionsFor
  <2> QED
    BY <1>1, <2>3, <2>7 DEF Runs
<1> QED
  BY <1>2, <1>3, <1>4

LEMMA RequestKeeps ==
  ASSUME NEW m, Client \in Member, NEW h \in Runs(Client, m), NEW i \in Member \ {Client}, NEW round
  PROVE  request_message(h, i, round) \in Runs(Client, m)
<1> DEFINE d == DataOf(h.s)
           known == {x \in h.subs : x.data = d}
<1>1. /\ h.s \in SessionsFor(Client, m) /\ h.subs \in SUBSET Asked(m) /\ h.ret \in {"ok", "waiting", "error"}
      /\ h = [s |-> h.s, subs |-> h.subs, ret |-> h.ret]
  BY DEF Runs
<1>2. d \in SessionData(m)
  BY <1>1 DEF DataOf, SessionsFor, SessionData
<1> HIDE DEF d
<1>3. CASE known = {}
  <2> DEFINE x == [to |-> i, data |-> d, answer |-> None]
  <2>1. request_message(h, i, round) = [s |-> h.s, subs |-> h.subs \cup {x}, ret |-> "waiting"]
    BY <1>1, <1>3 DEF request_message, d
  <2>2. x \in Asked(m)
    BY <1>2 DEF Asked, Answers
  <2> QED
    BY <1>1, <2>1, <2>2 DEF Runs
<1>4. CASE known # {}
  <2> DEFINE k == CHOOSE x \in known : TRUE
             a == k.answer
             u == update_session(h.s, a[1], Client)
  <2>1. k \in known
    BY <1>4
  <2>2. a \in Answers(m)
    BY <1>1, <2>1 DEF Asked
  <2>3. request_message(h, i, round) =
          IF a = None THEN [h EXCEPT !.ret = "waiting"]
          ELSE IF u[round][i] = None THEN [h EXCEPT !.ret = "error"]
          ELSE [h EXCEPT !.s = u]
    BY <1>4 DEF request_message, d
  <2> HIDE DEF k
  <2>4. [h EXCEPT !.ret = "waiting"] \in Runs(Client, m) /\ [h EXCEPT !.ret = "error"] \in Runs(Client, m)
    BY <1>1 DEF Runs
  <2>5. ASSUME a # None PROVE [h EXCEPT !.s = u] \in Runs(Client, m)
    <3>1. a[1] \in SessionData(m)
      BY <2>2, <2>5 DEF Answers
    <3>2. u \in SessionsFor(Client, m)
      BY <1>1, <3>1, UpdateKeeps
    <3> HIDE DEF u
    <3>3. [h EXCEPT !.s = u] = [s |-> u, subs |-> h.subs, ret |-> h.ret]
      BY <1>1
    <3> QED
      BY <1>1, <3>2, <3>3 DEF Runs
  <2> HIDE DEF u, a
  <2> QED
    BY <2>3, <2>4, <2>5
<1> QED
  BY <1>3, <1>4

LEMMA AskKeeps ==
  ASSUME NEW m, Client \in Member, NEW h \in Runs(Client, m), NEW i \in Member, NEW round
  PROVE  AskMember(h, i, round) \in Runs(Client, m)
<1>1. CASE h.ret # "ok" \/ i = Client \/ h.s[round][i] # None
  BY <1>1 DEF AskMember
<1>2. CASE ~(h.ret # "ok" \/ i = Client \/ h.s[round][i] # None)
  <2>1. AskMember(h, i, round) = request_message(h, i, round)
    BY <1>2 DEF AskMember
  <2> QED
    BY <1>2, <2>1, RequestKeeps
<1> QED
  BY <1>1, <1>2

(* The members are asked one after the other: the first one after whom the    *)
(* run were not as it should be does not exist.                               *)
LEMMA RoundKeeps ==
  ASSUME NEW m, N \in Nat \ {0}, NEW h \in Runs(Client, m), NEW round
  PROVE  Round(h, round) \in Runs(Client, m)
<1>1. PICK f : Walk(f, N, h, round) /\ Round(h, round) = f[N]
  BY RoundIsWalk
<1>2. \A i \in 0..N : f[i] = IF i = 0 THEN h ELSE AskMember(f[i - 1], i, round)
  BY <1>1 DEF Walk
<1> DEFINE Bad == {i \in 0..N : f[i] \notin Runs(Client, m)}
<1>3. ASSUME Bad # {} PROVE FALSE
  <2>0. Bad \in SUBSET Nat
    OBVIOUS
  <2>1. PICK i \in Bad : \A j \in Bad : i <= j
    BY <1>3, <2>0, Least
  <2>2. i # 0
    BY <1>2, <2>1
  <2>3. i - 1 \in 0..N /\ i - 1 \notin Bad /\ i \in Member
    BY <2>1, <2>2 DEF Member
  <2>4. f[i - 1] \in Runs(Client, m) /\ Client \in Member
    BY <2>3 DEF Client, Member
  <2>5. AskMember(f[i - 1], i, round) \in Runs(Client, m)
    BY <2>3, <2>4, AskKeeps
  <2> QED
    BY <1>2, <2>1, <2>2, <2>5
<1> QED
  BY <1>1, <1>3

LEMMA ClientRunKeeps ==
  ASSUME NEW m, N \in Nat \ {0}, NEW s \in SessionsFor(Client, m), NEW subs \in SUBSET Asked(m)
  PROVE  SignAtClient(s, subs) \in Runs(Client, m)
<1> DEFINE a == Round([s |-> s, subs |-> subs, ret |-> "ok"], "pre")
           b == receive_precommitment(a, Client, is_complete(s.pre))
           c == Round(b, "com")
           d == receive_commitment(c, Client, is_complete(s.com))
<1>1. Client \in Member
  BY DEF Client, Member
<1>2. [s |-> s, subs |-> subs, ret |-> "ok"] \in Runs(Client, m)
  BY DEF Runs
<1>3. a \in Runs(Client, m)
  BY <1>2, RoundKeeps
<1>4. b \in Runs(Client, m)
  <2> HIDE DEF a
  <2> QED
    BY <1>1, <1>3, PrecommitmentKeeps
<1>5. c \in Runs(Client, m)
  <2> HIDE DEF b
  <2> QED
    BY <1>4, RoundKeeps
<1>6. d \in Runs(Client, m)
  <2> HIDE DEF c
  <2> QED
    BY <1>1, <1>5, CommitmentKeeps
<1>7. Round(d, "sig") \in Runs(Client, m)
  <2> HIDE DEF d
  <2> QED
    BY <1>6, RoundKeeps
<1> QED
  BY <1>7, Zenon DEF SignAtClient

LEMMA MemberRunKeeps ==
  ASSUME NEW m, NEW p \in Member, NEW s \in SessionsFor(p, m), NEW d \in SessionData(m)
  PROVE  SignAtMember(p, s, d) \in Runs(p, m)
<1> DEFINE a == [s |-> update_session(s, d, p), subs |-> {}, ret |-> "ok"]
           b == receive_precommitment(a, p, is_complete(s.pre))
<1>1. a \in Runs(p, m)
  <2>1. update_session(s, d, p) \in SessionsFor(p, m)
    BY UpdateKeeps
  <2> QED
    BY <2>1 DEF Runs
<1>2. b \in Runs(p, m)
  <2> HIDE DEF a
  <2> QED
    BY <1>1, PrecommitmentKeeps
<1>3. receive_commitment(b, p, is_complete(s.com)) \in Runs(p, m)
  <2> HIDE DEF b
  <2> QED
    BY <1>2, CommitmentKeeps
<1> QED
  BY <1>3, Zenon DEF SignAtMember

-----------------------------------------------------------------------------
(* The lists of sessions *)

LEMMA NewSession ==
  ASSUME NEW m, NEW p \in Member, TakesPart(p, m)
  PROVE  Session(p, m) \in SessionsFor(p, m)
<1> DEFINE pre == [Blank EXCEPT ![p] = AllPre(m)[p]]
<1>1. /\ Blank \in Slots(AllPre(m)) /\ Part(Blank, AllPre(m))
      /\ Blank \in ComSlots(m) /\ Blank \in SigSlots(m) /\ \A i \in Member : Blank[i] = None
  BY DEF Blank, Slots, Part, ComSlots, SigSlots
<1>2. AllPre(m)[p] = Precommitment(p, Seed(p, m))
  BY SlotFacts
<1>3. pre \in PreSlots(m)
  <2>1. /\ pre \in Slots(AllPre(m)) /\ Part(pre, AllPre(m)) /\ \A i \in Member : i # p => pre[i] = Blank[i]
    BY <1>1, SetSlot
  <2> HIDE DEF pre
  <2> QED
    BY <1>1, <2>1 DEF PreSlots
<1>4. Session(p, m) = [id |-> m, seed |-> Seed(p, m), pre |-> pre, com |-> Blank, sig |-> Blank]
  BY <1>2 DEF Session
<1> HIDE DEF pre
<1> QED
  BY <1>1, <1>3, <1>4 DEF SessionsFor, InOrder

LEMMA FoundSession ==
  ASSUME MusigConstantsOK, ListsOK, NEW p \in Member, NEW m \in Message,
         get_session(p, m) # {} \/ TakesPart(p, m)
  PROVE  SessionOf(p, m) \in SessionsFor(p, m)
<1>1. CASE get_session(p, m) # {}
  <2> DEFINE k == CHOOSE k \in get_session(p, m) : TRUE
  <2>1. SessionOf(p, m) = sessions[p][k] /\ k \in get_session(p, m)
    BY <1>1 DEF SessionOf
  <2> HIDE DEF k
  <2>2. k \in DOMAIN sessions[p] /\ sessions[p][k].id = m /\ sessions[p] \in Seq(SessionsAt(p))
    BY <2>1 DEF get_session, ListsOK, ListOK
  <2>3. sessions[p][k] \in SessionsAt(p)
    BY <2>2
  <2>4. PICK n \in Message : sessions[p][k] \in SessionsFor(p, n)
    BY <2>3 DEF SessionsAt
  <2>5. sessions[p][k].id = n
    BY <2>4 DEF SessionsFor
  <2> QED
    BY <2>1, <2>2, <2>4, <2>5
<1>2. CASE get_session(p, m) = {}
  BY <1>2, NewSession DEF SessionOf
<1> QED
  BY <1>1, <1>2

LEMMA CheckMaxKeeps ==
  ASSUME MusigConstantsOK, NEW p, NEW l, ListOK(p, l)
  PROVE  ListOK(p, check_max_sessions(l)) /\ Len(check_max_sessions(l)) <= MAX_SESSIONS
         /\ \A j \in DOMAIN check_max_sessions(l) : j \in DOMAIN l /\ check_max_sessions(l)[j] = l[j]
<1>1. /\ l \in Seq(SessionsAt(p)) /\ Len(l) \in Nat /\ Len(l) <= MAX_SESSIONS + 1 /\ MAX_SESSIONS \in Nat
      /\ \A j, k \in DOMAIN l : l[j].id = l[k].id => j = k
  BY DEF ListOK, MusigConstantsOK
<1>2. CASE Len(l) <= MAX_SESSIONS
  <2>1. ~(Len(l) > MAX_SESSIONS)
    BY <1>1, <1>2
  <2>2. check_max_sessions(l) = l
    BY <2>1, Zenon DEF check_max_sessions
  <2> QED
    BY <1>1, <1>2, <2>2
<1>3. CASE Len(l) > MAX_SESSIONS
  <2> DEFINE a == SubSeq(l, 1, MAX_SESSIONS)
             b == SubSeq(l, MAX_SESSIONS + 2, Len(l))
             c == a \o b
  <2>1. check_max_sessions(l) = c
    BY <1>3 DEF check_max_sessions
  <2>2. a \in Seq(SessionsAt(p)) /\ Len(a) = MAX_SESSIONS /\ \A j \in 1..MAX_SESSIONS : a[j] = l[j]
    BY <1>1, <1>3
  <2>3. b \in Seq(SessionsAt(p)) /\ Len(b) = 0
    BY <1>1, <1>3
  <2> HIDE DEF a, b
  <2>4. c \in Seq(SessionsAt(p)) /\ Len(c) = MAX_SESSIONS /\ \A j \in 1..MAX_SESSIONS : c[j] = a[j]
    BY <1>1, <2>2, <2>3
  <2> HIDE DEF c
  <2>5. DOMAIN c = 1..MAX_SESSIONS /\ DOMAIN l = 1..Len(l) /\ \A j \in 1..MAX_SESSIONS : j \in 1..Len(l) /\ c[j] = l[j]
    BY <1>1, <1>3, <2>2, <2>4
  <2>6. ListOK(p, c)
    BY <1>1, <2>4, <2>5 DEF ListOK
  <2> QED
    BY <1>1, <2>1, <2>4, <2>5, <2>6
<1> QED
  BY <1>1, <1>2, <1>3

LEMMA WithoutKeeps ==
  ASSUME MusigConstantsOK, NEW p, NEW l, ListOK(p, l), NEW m, \E k \in DOMAIN l : l[k].id = m
  PROVE  ListOK(p, Without(l, m))
<1>1. /\ l \in Seq(SessionsAt(p)) /\ Len(l) \in Nat /\ Len(l) <= MAX_SESSIONS + 1 /\ MAX_SESSIONS \in Nat
      /\ \A i, j \in DOMAIN l : l[i].id = l[j].id => i = j
      /\ DOMAIN l = 1..Len(l)
  BY DEF ListOK, MusigConstantsOK
<1> DEFINE k == CHOOSE k \in DOMAIN l : l[k].id = m
           a == SubSeq(l, 1, k - 1)
           b == SubSeq(l, k + 1, Len(l))
           c == a \o b
<1>2. k \in 1..Len(l) /\ Without(l, m) = c
  BY <1>1 DEF Without
<1> HIDE DEF k
<1>3. a \in Seq(SessionsAt(p)) /\ Len(a) = k - 1 /\ \A j \in 1..(k - 1) : a[j] = l[j]
  BY <1>1, <1>2
<1>4. b \in Seq(SessionsAt(p)) /\ Len(b) = Len(l) - k /\ \A j \in 1..(Len(l) - k) : b[j] = l[k + j]
  <2>1. b \in Seq(SessionsAt(p))
    BY <1>1, <1>2
  <2>2. Len(b) = Len(l) - k
    <3>1. k + 1 \in 1..(Len(l) + 1) /\ Len(l) \in (k + 1 - 1)..Len(l)
      BY <1>1, <1>2
    <3>2. Len(b) = IF k + 1 <= Len(l) THEN Len(l) - (k + 1) + 1 ELSE 0
      BY <1>1, <3>1, SubSeqProperties
    <3>3. k \in Int /\ k >= 1 /\ k <= Len(l) /\ Len(l) \in Int
      BY <1>1, <1>2
    <3> HIDE DEF b
    <3> QED
      BY <3>2, <3>3
  <2>3. ASSUME NEW j \in 1..(Len(l) - k) PROVE b[j] = l[k + j]
    <3>1. (k + 1) + j - 1 = k + j
      BY <1>2
    <3>2. b[j] = l[(k + 1) + j - 1]
      BY <1>1, <1>2
    <3> QED
      BY <3>1, <3>2
  <2> QED
    BY <2>1, <2>2, <2>3
<1> HIDE DEF a, b
<1>5. c \in Seq(SessionsAt(p)) /\ Len(c) = Len(l) - 1
      /\ \A j \in 1..(Len(l) - 1) : c[j] = IF j < k THEN a[j] ELSE b[j - k + 1]
  <2>1. c \in Seq(SessionsAt(p)) /\ Len(c) = Len(a) + Len(b)
    BY <1>3, <1>4, ConcatProperties
  <2>3. (k - 1) + (Len(l) - k) = Len(l) - 1
    BY <1>1, <1>2
  <2>2. ASSUME NEW j \in 1..(Len(l) - 1) PROVE c[j] = IF j < k THEN a[j] ELSE b[j - k + 1]
    <3>1. c[j] = IF j <= Len(a) THEN a[j] ELSE b[j - Len(a)]
      BY <1>1, <1>2, <1>3, <1>4
    <3>2. (j <= Len(a) <=> j < k) /\ j - Len(a) = j - k + 1
      BY <1>1, <1>2, <1>3
    <3> QED
      BY <3>1, <3>2
  <2> QED
    BY <1>3, <1>4, <2>1, <2>2, <2>3
<1> HIDE DEF c
<1>6. ASSUME NEW j \in 1..(Len(l) - 1) PROVE c[j] = IF j < k THEN l[j] ELSE l[j + 1]
  <2>1. CASE j < k
    BY <1>1, <1>2, <1>3, <1>5, <2>1
  <2>2. CASE ~(j < k)
    <3>1. j - k + 1 \in 1..(Len(l) - k) /\ k + (j - k + 1) = j + 1
      BY <1>1, <1>2, <2>2
    <3> QED
      BY <1>4, <1>5, <2>2, <3>1
  <2> QED
    BY <2>1, <2>2
<1>7. DOMAIN c = 1..(Len(l) - 1) /\ Len(c) <= MAX_SESSIONS + 1
  BY <1>1, <1>2, <1>5
<1>8. ASSUME NEW i \in DOMAIN c, NEW j \in DOMAIN c, c[i].id = c[j].id PROVE i = j
  <2> DEFINE at(x) == IF x < k THEN x ELSE x + 1
  <2>1. at(i) \in 1..Len(l) /\ at(j) \in 1..Len(l) /\ c[i] = l[at(i)] /\ c[j] = l[at(j)]
    BY <1>1, <1>2, <1>6, <1>7
  <2>2. at(i) = at(j)
    <3> HIDE DEF at
    <3> QED
      BY <1>1, <1>8, <2>1
  <2> QED
    BY <1>1, <1>2, <1>7, <2>2
<1> QED
  BY <1>2, <1>5, <1>7, <1>8 DEF ListOK

(* A session that is stored is in the list. *)
LEMMA StoredKeeps ==
  ASSUME MusigConstantsOK, ListsOK, NEW p \in Member, NEW m \in Message, NEW s \in SessionsFor(p, m)
  PROVE  ListOK(p, Stored(p, s)) /\ \E k \in DOMAIN Stored(p, s) : Stored(p, s)[k].id = m
<1> DEFINE l == sessions[p]
<1>1. s.id = m /\ s \in SessionsAt(p)
  BY DEF SessionsFor, SessionsAt
<1>2. /\ ListOK(p, l) /\ l \in Seq(SessionsAt(p)) /\ Len(l) \in Nat /\ Len(l) <= MAX_SESSIONS + 1
      /\ \A i, j \in DOMAIN l : l[i].id = l[j].id => i = j
      /\ DOMAIN l = 1..Len(l) /\ MAX_SESSIONS \in Nat
  BY DEF ListsOK, ListOK, MusigConstantsOK
<1>3. get_session(p, s.id) = {k \in DOMAIN l : l[k].id = m}
  BY <1>1 DEF get_session
<1>4. CASE get_session(p, s.id) # {}
  <2> DEFINE u == [k \in DOMAIN l |-> IF l[k].id = m THEN s ELSE l[k]]
  <2>1. Stored(p, s) = u
    BY <1>1, <1>4 DEF Stored
  <2> HIDE DEF l
  <2>2. \A k \in 1..Len(l) : u[k] \in SessionsAt(p) /\ u[k].id = l[k].id
    BY <1>1, <1>2
  <2>3. u \in Seq(SessionsAt(p)) /\ Len(u) = Len(l) /\ DOMAIN u = 1..Len(l)
    BY <1>2, <2>2
  <2> HIDE DEF u
  <2>4. ListOK(p, u)
    BY <1>2, <2>2, <2>3 DEF ListOK
  <2>5. \E k \in DOMAIN u : u[k].id = m
    BY <1>2, <1>3, <1>4, <2>2, <2>3
  <2> QED
    BY <2>1, <2>4, <2>5
<1>5. CASE get_session(p, s.id) = {}
  <2> DEFINE c == check_max_sessions(l)
             u == <<s>> \o c
  <2>1. Stored(p, s) = u
    BY <1>5 DEF Stored
  <2>2. \A j \in DOMAIN l : l[j].id # m
    BY <1>3, <1>5
  <2> HIDE DEF l
  <2>3. ListOK(p, c) /\ Len(c) <= MAX_SESSIONS /\ \A j \in DOMAIN c : j \in DOMAIN l /\ c[j] = l[j]
    BY <1>2, CheckMaxKeeps
  <2> HIDE DEF c
  <2>4. /\ c \in Seq(SessionsAt(p)) /\ Len(c) \in Nat /\ DOMAIN c = 1..Len(c)
        /\ \A i, j \in DOMAIN c : c[i].id = c[j].id => i = j
    BY <2>3 DEF ListOK
  <2>5. u \in Seq(SessionsAt(p)) /\ Len(u) = Len(c) + 1 /\ u[1] = s /\ \A j \in 2..(Len(c) + 1) : u[j] = c[j - 1]
    BY <1>1, <2>4
  <2> HIDE DEF u
  <2>6. DOMAIN u = 1..(Len(c) + 1) /\ Len(u) <= MAX_SESSIONS + 1
    BY <1>2, <2>3, <2>4, <2>5
  <2>7. \A j \in 2..(Len(c) + 1) : j - 1 \in DOMAIN c /\ u[j].id # m
    BY <2>2, <2>3, <2>4, <2>5
  <2>8. ASSUME NEW i \in DOMAIN u, NEW j \in DOMAIN u, u[i].id = u[j].id PROVE i = j
    <3>1. CASE i = 1 \/ j = 1
      BY <1>1, <2>4, <2>5, <2>6, <2>7, <2>8, <3>1
    <3>2. CASE i # 1 /\ j # 1
      <4>1. i \in 2..(Len(c) + 1) /\ j \in 2..(Len(c) + 1)
        BY <2>4, <2>6, <3>2
      <4>2. i - 1 = j - 1
        BY <2>4, <2>5, <2>7, <2>8, <4>1
      <4> QED
        BY <4>1, <4>2
    <3> QED
      BY <3>1, <3>2
  <2>9. ListOK(p, u)
    BY <2>5, <2>6, <2>8 DEF ListOK
  <2> QED
    BY <1>1, <2>1, <2>4, <2>5, <2>6, <2>9
<1> QED
  BY <1>4, <1>5

LEMMA DroppedKeeps ==
  ASSUME MusigConstantsOK, ListsOK, NEW p \in Member, NEW m
  PROVE  ListOK(p, Dropped(p, m))
<1>1. ListOK(p, sessions[p])
  BY DEF ListsOK
<1>2. CASE get_session(p, m) # {}
  <2>1. \E k \in DOMAIN sessions[p] : sessions[p][k].id = m
    BY <1>2 DEF get_session
  <2> QED
    BY <1>1, <1>2, <2>1, WithoutKeeps DEF Dropped
<1>3. CASE get_session(p, m) = {}
  BY <1>1, <1>3, CheckMaxKeeps DEF Dropped
<1> QED
  BY <1>2, <1>3

-----------------------------------------------------------------------------
(* The actions *)

LEMMA OneList ==
  ASSUME ListsOK, NEW p \in Member, NEW l, ListOK(p, l), sessions' = [sessions EXCEPT ![p] = l]
  PROVE  ListsOK'
<1>1. \A q \in Member : ListOK(q, sessions[q]) /\ sessions'[q] = IF q = p THEN l ELSE sessions[q]
  BY DEF ListsOK
<1>2. sessions' = [q \in Member |-> sessions'[q]]
  BY DEF ListsOK
<1>3. \A q \in Member : ListOK(q, sessions'[q])
  BY <1>1
<1> QED
  BY <1>2, <1>3 DEF ListsOK

LEMMA OneCall ==
  ASSUME calls \in [Call -> AllCalls], NEW c \in Call, NEW m \in Message, NEW v \in CallsFor(m),
         calls' = [calls EXCEPT ![c] = v]
  PROVE  calls' \in [Call -> AllCalls]
<1>1. v \in AllCalls
  BY DEF AllCalls
<1> QED
  BY <1>1

(* A call that was started is one for its message. *)
LEMMA StartedCall ==
  ASSUME calls \in [Call -> AllCalls], NEW c \in Call, calls[c].st # "free"
  PROVE  calls[c].msg \in Message /\ calls[c] \in CallsFor(calls[c].msg)
<1>1. PICK m \in Message : calls[c] \in CallsFor(m)
  BY DEF AllCalls, NoCall
<1>2. calls[c].msg = m
  BY <1>1 DEF CallsFor
<1> QED
  BY <1>1, <1>2

LEMMA CompleteIsFinished ==
  ASSUME MusigConstantsOK, NEW m, NEW s \in SessionsFor(Client, m), is_complete(s.sig)
  PROVE  DataOf(s) \in Finished(m)
<1>1. Client \in Member
  BY DEF MusigConstantsOK, Client, Member
<1>2. s.pre \in PreSlots(m) /\ s.com \in ComSlots(m) /\ s.sig \in SigSlots(m) /\ InOrder(s, Client)
  BY DEF SessionsFor
<1>3. is_complete(s.com)
  BY <1>1, <1>2 DEF InOrder, is_complete
<1>4. is_complete(s.pre)
  BY <1>1, <1>2, <1>3 DEF InOrder, is_complete
<1>5. /\ AllPre(m) = [i \in Member |-> AllPre(m)[i]]
      /\ AllCom(m) = [i \in Member |-> AllCom(m)[i]]
      /\ AllSig(m) = [i \in Member |-> AllSig(m)[i]]
  BY DEF AllPre, AllCom, AllSig
<1>6. s.pre = AllPre(m) /\ \A i \in Member : TakesPart(i, m)
  <2>1. s.pre = AllPre(m)
    BY <1>2, <1>4, <1>5, CompleteIsAll DEF PreSlots
  <2>2. \A i \in Member : TakesPart(i, m)
    BY <1>2, <1>4 DEF PreSlots, is_complete
  <2> QED
    BY <2>1, <2>2
<1>7. s.com = AllCom(m)
  BY <1>2, <1>3, <1>5, CompleteIsAll DEF ComSlots
<1>8. s.sig = AllSig(m)
  BY <1>2, <1>5, CompleteIsAll DEF SigSlots
<1> DEFINE d == DataOf(s)
<1>9. d = [pre |-> s.pre, com |-> s.com, sig |-> s.sig]
  BY DEF DataOf
<1> HIDE DEF d
<1>10. d \in SessionData(m) /\ d.pre = AllPre(m) /\ d.com = AllCom(m) /\ d.sig = AllSig(m)
  BY <1>2, <1>6, <1>7, <1>8, <1>9 DEF SessionData
<1>11. d \in Finished(m)
  BY <1>6, <1>10 DEF Finished
<1> QED
  BY <1>11 DEF d

LEMMA SignRunStep ==
  ASSUME MusigConstantsOK, MusigInv, NEW c \in Call, NEW m \in Message,
         calls[c].subs \in SUBSET Asked(m), SignRun(c, m)
  PROVE  MusigInv'
<1> DEFINE h == SignAtClient(SessionOf(Client, m), calls[c].subs)
           done == h.ret = "ok" /\ is_complete(h.s.sig)
           st == IF h.ret = "waiting" THEN "waiting" ELSE IF done THEN "done"
                 ELSE IF h.ret = "error" THEN "failed" ELSE "partial"
           out == IF done THEN <<DataOf(h.s)>> ELSE None
           v == [msg |-> m, subs |-> h.subs, out |-> out, st |-> st]
           l == IF h.ret = "error" THEN Dropped(Client, m)
                ELSE IF done THEN Without(Stored(Client, h.s), m) ELSE Stored(Client, h.s)
<1>1. Client \in Member /\ N \in Nat \ {0} /\ TakesPart(Client, m)
  BY DEF MusigConstantsOK, Client, Member, TakesPart
<1>2. SessionOf(Client, m) \in SessionsFor(Client, m)
  BY <1>1, FoundSession DEF MusigInv
<1>3. h \in Runs(Client, m)
  BY <1>1, <1>2, ClientRunKeeps
<1>4. calls' = [calls EXCEPT ![c] = v] /\ sessions' = [sessions EXCEPT ![Client] = l]
  BY Zenon DEF SignRun
<1> HIDE DEF h
<1>5. h.s \in SessionsFor(Client, m) /\ h.subs \in SUBSET Asked(m) /\ h.ret \in {"ok", "waiting", "error"}
  BY <1>3 DEF Runs
<1>6. ListOK(Client, l)
  <2>1. ListsOK
    BY DEF MusigInv
  <2> DEFINE k == Stored(Client, h.s)
  <2>2. ListOK(Client, k) /\ \E j \in DOMAIN k : k[j].id = m
    BY <1>1, <1>5, <2>1, StoredKeeps
  <2>3. ListOK(Client, Dropped(Client, m))
    BY <1>1, <2>1, DroppedKeeps
  <2> HIDE DEF k
  <2>4. ListOK(Client, Without(k, m))
    BY <2>2, WithoutKeeps
  <2>5. l = Dropped(Client, m) \/ l = Without(k, m) \/ l = k
    BY DEF k
  <2> HIDE DEF l
  <2> QED
    BY <2>2, <2>3, <2>4, <2>5
<1>7. v \in CallsFor(m)
  <2>1. done => DataOf(h.s) \in Finished(m)
    BY <1>5, CompleteIsFinished
  <2>2. out \in {None} \cup {<<d>> : d \in Finished(m)} /\ (done => out # None)
    BY <2>1 DEF None
  <2>3. st \in {"waiting", "done", "failed", "partial"} /\ (st = "done" => done)
    BY <1>5
  <2> HIDE DEF out, st, done
  <2> QED
    BY <1>5, <2>2, <2>3 DEF CallsFor
<1> HIDE DEF l, v
<1>8. ListsOK'
  BY <1>1, <1>4, <1>6, OneList DEF MusigInv
<1>9. (calls \in [Call -> AllCalls])'
  BY <1>4, <1>7, OneCall DEF MusigInv
<1> QED
  BY <1>8, <1>9 DEF MusigInv

LEMMA StartStep ==
  ASSUME MusigConstantsOK, MusigInv, NEW c \in Call, NEW m \in Message, Start(c, m)
  PROVE  MusigInv'
<1>1. calls[c].st = "free" /\ SignRun(c, m)
  BY DEF Start
<1>2. calls[c] = NoCall
  BY <1>1 DEF MusigInv, AllCalls, CallsFor
<1>3. calls[c].subs \in SUBSET Asked(m)
  BY <1>2 DEF NoCall
<1> QED
  BY <1>1, <1>3, SignRunStep

LEMMA ResumeStep ==
  ASSUME MusigConstantsOK, MusigInv, NEW c \in Call, Resume(c)
  PROVE  MusigInv'
<1>1. calls[c].st = "waiting" /\ SignRun(c, calls[c].msg)
  BY DEF Resume
<1>2. calls[c].msg \in Message /\ calls[c] \in CallsFor(calls[c].msg)
  BY <1>1, StartedCall DEF MusigInv
<1>3. calls[c].subs \in SUBSET Asked(calls[c].msg)
  BY <1>2 DEF CallsFor
<1> QED
  BY <1>1, <1>2, <1>3, SignRunStep

LEMMA FailStep ==
  ASSUME MusigInv, NEW c \in Call, calls[c].st # "free", FailCall(c)
  PROVE  (calls \in [Call -> AllCalls])'
<1> DEFINE m == calls[c].msg
           v == [calls[c] EXCEPT !.st = "failed"]
<1>1. m \in Message /\ calls[c] \in CallsFor(m)
  BY StartedCall DEF MusigInv
<1>2. calls' = [calls EXCEPT ![c] = v]
  BY DEF FailCall, MusigInv
<1>3. v \in CallsFor(m)
  BY <1>1 DEF CallsFor
<1> HIDE DEF v, m
<1> QED
  BY <1>1, <1>2, <1>3, OneCall DEF MusigInv

LEMMA AnsweredStep ==
  ASSUME MusigInv, NEW c \in Call, calls[c].st # "free", NEW x \in calls[c].subs,
         NEW d \in SessionData(calls[c].msg), Answered(c, x, d)
  PROVE  (calls \in [Call -> AllCalls])'
<1> DEFINE m == calls[c].msg
           y == [x EXCEPT !.answer = <<d>>]
           subs == (calls[c].subs \ {x}) \cup {y}
           v == [calls[c] EXCEPT !.subs = subs]
<1>1. m \in Message /\ calls[c] \in CallsFor(m)
  BY StartedCall DEF MusigInv
<1>2. calls' = [calls EXCEPT ![c] = v]
  BY DEF Answered, MusigInv
<1>3. calls[c].subs \in SUBSET Asked(m)
  BY <1>1 DEF CallsFor
<1>4. y \in Asked(m)
  BY <1>3 DEF Asked, Answers
<1>5. subs \in SUBSET Asked(m)
  <2> HIDE DEF y
  <2> QED
    BY <1>3, <1>4
<1> HIDE DEF subs
<1>6. v \in CallsFor(m)
  BY <1>1, <1>5 DEF CallsFor
<1> HIDE DEF v, m
<1> QED
  BY <1>1, <1>2, <1>6, OneCall DEF MusigInv

LEMMA ServeStep ==
  ASSUME MusigConstantsOK, MusigInv, NEW c \in Call, NEW x \in calls[c].subs, Serve(c, x)
  PROVE  MusigInv'
<1> DEFINE p == x.to
           m == calls[c].msg
           h == SignAtMember(p, SessionOf(p, m), x.data)
<1>1. calls[c].st = "waiting" /\ calls[c].st # "free"
  BY DEF Serve
<1>2. m \in Message /\ calls[c] \in CallsFor(m)
  BY <1>1, StartedCall DEF MusigInv
<1>3. x \in Asked(m)
  BY <1>2 DEF CallsFor
<1>4. p \in Member /\ p # Client /\ x.data \in SessionData(m)
  BY <1>3 DEF Asked
<1>5. CASE get_session(p, m) = {} /\ ~verify_proof(p, m)
  <2>1. FailCall(c) /\ UNCHANGED sessions
    BY <1>5 DEF Serve
  <2>2. (calls \in [Call -> AllCalls])'
    BY <1>1, <2>1, FailStep
  <2> QED
    BY <2>1, <2>2 DEF MusigInv, ListsOK
<1>6. CASE ~(get_session(p, m) = {} /\ ~verify_proof(p, m))
  <2>1. get_session(p, m) # {} \/ TakesPart(p, m)
    BY <1>6 DEF verify_proof, TakesPart
  <2>2. SessionOf(p, m) \in SessionsFor(p, m)
    BY <1>2, <1>4, <2>1, FoundSession DEF MusigInv
  <2>3. h \in Runs(p, m)
    BY <1>4, <2>2, MemberRunKeeps
  <2>4. \/ /\ sessions' = [sessions EXCEPT ![p] = Stored(p, h.s)]
           /\ Answered(c, x, DataOf(h.s)) \/ UNCHANGED calls
        \/ /\ sessions' = [sessions EXCEPT ![p] = Dropped(p, m)]
           /\ FailCall(c)
    BY <1>6, Zenon DEF Serve
  <2> HIDE DEF h
  <2>5. h.s \in SessionsFor(p, m)
    BY <2>3 DEF Runs
  <2>6. DataOf(h.s) \in SessionData(m)
    BY <2>5 DEF DataOf, SessionsFor, SessionData
  <2>7. ListsOK'
    <3>1. ListOK(p, Stored(p, h.s)) /\ ListOK(p, Dropped(p, m)) /\ ListsOK
      BY <1>2, <1>4, <2>5, StoredKeeps, DroppedKeeps DEF MusigInv
    <3> QED
      BY <1>4, <2>4, <3>1, OneList
  <2>8. (calls \in [Call -> AllCalls])'
    <3>1. CASE Answered(c, x, DataOf(h.s))
      BY <1>1, <2>6, <3>1, AnsweredStep
    <3>2. CASE UNCHANGED calls
      BY <3>2 DEF MusigInv
    <3>3. CASE FailCall(c)
      BY <1>1, <3>3, FailStep
    <3> QED
      BY <2>4, <3>1, <3>2, <3>3
  <2> QED
    BY <2>7, <2>8 DEF MusigInv
<1> QED
  BY <1>5, <1>6

LEMMA LoseStep ==
  ASSUME MusigInv, NEW c \in Call, Lose(c)
  PROVE  MusigInv'
<1>1. calls[c].st # "free" /\ FailCall(c) /\ UNCHANGED sessions
  BY DEF Lose
<1>2. (calls \in [Call -> AllCalls])'
  BY <1>1, FailStep
<1> QED
  BY <1>1, <1>2 DEF MusigInv, ListsOK

LEMMA ForgetStep ==
  ASSUME MusigConstantsOK, MusigInv, NEW p \in Member, Forget(p)
  PROVE  MusigInv'
<1>1. sessions' = [sessions EXCEPT ![p] = <<>>] /\ UNCHANGED calls
  BY DEF Forget
<1>2. ListOK(p, <<>>)
  BY DEF ListOK, MusigConstantsOK
<1>3. ListsOK'
  BY <1>1, <1>2, OneList DEF MusigInv
<1> QED
  BY <1>1, <1>3 DEF MusigInv

LEMMA MusigInvInit ==
  ASSUME MusigConstantsOK, MusigInit
  PROVE  MusigInv
<1>1. \A p \in Member : ListOK(p, <<>>)
  BY DEF ListOK, MusigConstantsOK
<1>2. ListsOK
  BY <1>1 DEF MusigInit, ListsOK
<1>3. calls \in [Call -> AllCalls]
  BY DEF MusigInit, AllCalls
<1> QED
  BY <1>2, <1>3 DEF MusigInv

LEMMA MusigInvNext ==
  ASSUME MusigConstantsOK, MusigInv, [MusigNext]_musigVars
  PROVE  MusigInv'
<1>1. CASE UNCHANGED musigVars
  BY <1>1 DEF musigVars, MusigInv, ListsOK
<1>2. CASE MusigNext
  BY <1>2, StartStep, ResumeStep, LoseStep, ServeStep, ForgetStep DEF MusigNext
<1> QED
  BY <1>1, <1>2

-----------------------------------------------------------------------------
(* What the invariant says *)

LEMMA InvCombined ==
  ASSUME MusigConstantsOK, MusigInv
  PROVE  CombinedIsValid
<1> SUFFICES ASSUME NEW c \in Call, calls[c].st = "done"
             PROVE  /\ \A i \in Member : /\ calls[c].out[1].pre[i] = Precommitment(i, Seed(i, calls[c].msg))
                                         /\ calls[c].out[1].com[i] = Commitment(i, calls[c].out[1].pre[i][3])
                                         /\ calls[c].out[1].sig[i] = Share(i, calls[c].out[1].pre[i][3], calls[c].out[1].com)
                    /\ Verifying \ {Client} # {} => calls[c].msg \in Proven
  BY DEF CombinedIsValid
<1> DEFINE m == calls[c].msg
           d == calls[c].out[1]
<1>1. m \in Message /\ calls[c] \in CallsFor(m)
  BY StartedCall DEF MusigInv
<1>2. d \in Finished(m)
  BY <1>1 DEF CallsFor
<1> HIDE DEF d
<1>3. d.pre = AllPre(m) /\ d.com = AllCom(m) /\ d.sig = AllSig(m) /\ \A i \in Member : TakesPart(i, m)
  BY <1>2 DEF Finished
<1> HIDE DEF m
<1>4. ASSUME NEW i \in Member
      PROVE  d.pre[i] = Precommitment(i, Seed(i, m)) /\ d.com[i] = Commitment(i, d.pre[i][3]) /\ d.sig[i] = Share(i, d.pre[i][3], d.com)
  <2>1. d.pre[i] = Precommitment(i, Seed(i, m)) /\ d.com[i] = Commitment(i, Seed(i, m))
        /\ d.sig[i] = Share(i, Seed(i, m), AllCom(m))
    BY <1>3, SlotFacts
  <2>2. d.pre[i][3] = Seed(i, m)
    BY <2>1 DEF Precommitment
  <2> QED
    BY <1>3, <2>1, <2>2
<1>5. Verifying \ {Client} # {} => m \in Proven
  BY <1>3 DEF TakesPart, MusigConstantsOK
<1> QED
  BY <1>4, <1>5 DEF d, m

LEMMA InvRounds ==
  ASSUME MusigInv
  PROVE  RoundsInOrder
<1> SUFFICES ASSUME NEW p \in Member, NEW k \in DOMAIN sessions[p]
             PROVE  InOrder(sessions[p][k], p)
  BY DEF RoundsInOrder, InOrder
<1>1. sessions[p] \in Seq(SessionsAt(p))
  BY DEF MusigInv, ListsOK, ListOK
<1>2. sessions[p][k] \in SessionsAt(p)
  BY <1>1
<1> QED
  BY <1>2 DEF SessionsAt, SessionsFor

LEMMA InvBounded ==
  ASSUME MusigInv
  PROVE  SessionsBounded
  BY DEF MusigInv, ListsOK, ListOK, SessionsBounded

(* zksync_musig_sign, for every number of members, messages and requests: a   *)
(* signature that is returned is made of the shares of all members, with the  *)
(* nonces they have for its message and over the same commitments, no member  *)
(* reveals a commitment or a share before it has what it must have seen, and  *)
(* the sessions of a member stay within their limit, one of a message,        *)
(* although members lose their sessions, requests for one message share a     *)
(* session and are run again for every answer.                                *)
THEOREM SignaturesAreWhole ==
  ASSUME MusigConstantsOK
  PROVE  MusigSpec => []MusigSigns
<1>1. MusigInit => MusigInv
  BY MusigInvInit
<1>2. MusigInv /\ [MusigNext]_musigVars => MusigInv'
  BY MusigInvNext
<1>3. MusigInv => MusigSigns
  BY InvCombined, InvRounds, InvBounded DEF MusigSigns
<1> QED
  BY <1>1, <1>2, <1>3, PTL DEF MusigSpec
============================================================================
