------------------------- MODULE RequestSafetyProofs -------------------------
(***************************************************************************)
(* Proofs about module Request for every value of its constants, on top of *)
(* the inductive invariant of RequestProofs: a successful request is a     *)
(* verified one, in3_send_req waits only for a response that can come, the *)
(* connections write to live responses, only nodes with a questionable     *)
(* answer are blamed, an attempt ends only when all its responses are in,  *)
(* and an accepted response stays.                                         *)
(***************************************************************************)
EXTENDS RequestProofs

-----------------------------------------------------------------------------
(* The shape of the chain *)

(* The kind of the request of the user. *)
RootKind == req[chain[1]].kind

(* Who may have asked for the context at i. *)
OwnerOK(i) ==
  LET r == req[chain[i]] IN
  /\ r.owner # NoCtx /\ r.kind \in {"rpc", "nodeList", "sign"}
  /\ r.kind = "sign" => i = 2 /\ Len(chain) = 2 /\ RootKind = "intern"
  /\ r.kind = "rpc" => \/ r.owner = chain[1] /\ (RootKind = "intern" => i = 2)
                       \/ i > 2 /\ RootKind = "intern" /\ r.owner = chain[2]

(* The addresses in the chain differ; a sub request belongs to the request of *)
(* the user or, if that one is handled by a plugin, to the plugin's call.     *)
Shape ==
  /\ \A i, j \in 1..Len(chain) : chain[i] = chain[j] => i = j
  /\ chain # <<>> => RootKind \in {"rpc", "intern", "direct"} /\ req[chain[1]].owner = NoCtx
  /\ \A i \in 2..Len(chain) : OwnerOK(i)
  /\ Len(chain) > 1 /\ RootKind = "intern" =>
       req[chain[2]].owner = chain[1] /\ req[chain[2]].kind # "nodeList"

-----------------------------------------------------------------------------
(* The fields of the contexts *)

(* What holds for the fields of a context at any time: what it accepted is a  *)
(* response of one of its nodes.                                              *)
Record(r) ==
  /\ r.raw = <<>> => r.resp = "none"
  /\ r.kind \in {"rpc", "nodeList"} /\ r.raw # <<>> => r.nodes # <<>>
  /\ r.kind = "intern" => \A n \in DOMAIN r.raw : r.raw[n].state # "WAITING"
  /\ r.kind = "sign" => r.resp = "none" /\ \A n \in DOMAIN r.raw : r.raw[n].state = "OK"
  /\ r.vstate = "OK" => r.resp # "none" /\ ~r.error
  /\ r.vstate = "OK" /\ r.kind \in {"rpc", "nodeList"} =>
       r.resp \in Acceptable /\ \E n \in DOMAIN r.nodes : r.raw[n] = [state |-> "OK", data |-> r.resp]

Records == \A c \in Ctx : Record(req[c])

(* Only the call of the user, or the one its plugin sends, gets an answer     *)
(* that needs another call.                                                   *)
NeedsOK ==
  \A i \in 1..Len(chain) : \A n \in DOMAIN req[chain[i]].raw :
    req[chain[i]].raw[n].data = "needs" =>
      req[chain[i]].kind = "rpc" /\ (i = 1 \/ (i = 2 /\ RootKind = "intern"))

(* The node of a response that is not plainly acceptable is recorded. *)
Suspected(r) ==
  \A n \in DOMAIN r.raw :
    r.raw[n].state # "WAITING" /\ Doubtful(r.raw[n]) /\ r.nodes # <<>> => r.nodes[n] \in suspect

AllSuspected == \A c \in Ctx : Suspected(req[c])

(* A connection writes to the responses of the current attempt. *)
Live(t) ==
  t.req # NoCtx =>
    /\ req[t.req].kind # "intern"
    /\ req[t.req].raw # <<>> /\ req[t.req].kind # "sign" => t.live

LiveOK == \A i \in DOMAIN transports : Live(transports[i])

DataInv == Shape /\ Records /\ NeedsOK /\ AllSuspected /\ LiveOK

(* What in3_req_execute does to the responses of a context: it drops them,    *)
(* answers the call itself, or replaces one that can not be accepted.         *)
Origin(r0, r) ==
  \/ r.raw = <<>>
  \/ r.nodes = <<>> /\ \A n \in DOMAIN r.raw : r.raw[n].data # "needs"
  \/ /\ r.nodes = r0.nodes /\ DOMAIN r.raw = DOMAIN r0.raw
     /\ \A n \in DOMAIN r.raw :
          \/ r.raw[n] = r0.raw[n]
          \/ /\ r0.raw[n].state = "OK" /\ Doubtful(r0.raw[n])
             /\ r.raw[n].data \in {"none", "msg"}

Tame(r0, r) ==
  /\ r.kind = r0.kind /\ r.owner = r0.owner
  /\ Record(r) /\ Origin(r0, r)
  /\ r.raw # <<>> => r0.raw # <<>> \/ r.kind = "intern"

-----------------------------------------------------------------------------
(* Which responses find_valid_result has looked at *)

(* The response the loop l is at waits for a sub request. *)
NeedsNow(l, r) == l.n \in DOMAIN r.raw /\ r.raw[l.n] = [state |-> "OK", data |-> "needs"]

(* The loop has passed a response: it is pending, and the loop remembers      *)
(* that, or it could not be accepted.                                         *)
Passed(l, e) ==
  \/ e.state = "WAITING" /\ l.pending
  \/ e.state = "ERR"
  \/ e.state = "OK" /\ e.data \notin {"good", "user"}

(* Everything in front of l.n was passed, and if the loop remembers a pending *)
(* response there is one.                                                     *)
Looked(l, r) ==
  /\ \A n \in DOMAIN r.raw : n < l.n => Passed(l, r.raw[n])
  /\ l.pending => \E n \in DOMAIN r.raw : r.raw[n].state = "WAITING"

LoopOK ==
  /\ pc = "verify" => Looked(loop, req[chain[cur]])
  /\ \A k \in fresh :
       req[chain[k]].raw # <<>> => Looked(loop, req[chain[k]]) /\ NeedsNow(loop, req[chain[k]])

-----------------------------------------------------------------------------
(* What the walk knows of the contexts behind the one being executed *)

(* The context has what it was sent for. *)
Done(r) == IF r.kind = "sign" THEN r.raw # <<>> ELSE Accepted(r)

Settled(r) == Done(r) \/ r.error

(* The context is to be sent, or waits for a response. *)
Waits(r) ==
  /\ ~r.error /\ r.resp = "none" /\ r.kind # "intern"
  /\ \/ r.raw = <<>> /\ (r.kind \in {"rpc", "nodeList"} => r.nodes # <<>>)
     \/ r.kind # "sign" /\ \E n \in DOMAIN r.raw : r.raw[n].state = "WAITING"

Behind(i) == (i + 1)..Len(chain)

AllSettled == \A j \in Behind(cur) : Settled(req[chain[j]])

Failed(S) == \E j \in S : req[chain[j]].error

(* The deepest context of S that is not accepted waits. *)
LastWaits(S) ==
  \E m \in S : Waits(req[chain[m]]) /\ \A j \in S : j > m => Accepted(req[chain[j]])

(* While in3_req_execute is at cur: nothing in front of cur has failed, and   *)
(* what is behind cur is as the return value says.                            *)
ExecOK ==
  /\ \A i \in 1..(cur - 1) : ~req[chain[i]].error
  /\ req[chain[cur]].error => ret = "OK" /\ fresh = {}
  /\ ret = "OK" => req[chain[cur]].error \/ AllSettled
  /\ ret \in {"ERR", "EIGNORE"} =>
       /\ cur < Len(chain) /\ req[chain[cur + 1]].error
       /\ fresh # {} => AllSettled
  /\ ret = "WAITING" => Failed(Behind(cur)) \/ LastWaits(Behind(cur))

(* While find_valid_result is at cur. *)
VerifyOK ==
  /\ \A i \in 1..(cur - 1) : ~req[chain[i]].error
  /\ AllSettled
  /\ req[chain[cur]].kind # "sign" /\ req[chain[cur]].raw # <<>>
  /\ loop.state = "OK" => Accepted(req[chain[cur]])
  /\ loop.state = "ERR" => req[chain[cur]].vstate # "OK"

(* When the walk is over: a context has failed, all have what they need, or   *)
(* the deepest one that has not waits.                                        *)
DispatchOK ==
  Failed(1..Len(chain)) \/ (\A j \in 1..Len(chain) : Done(req[chain[j]])) \/ LastWaits(1..Len(chain))

DoneOK == Failed(1..Len(chain)) \/ \A j \in 1..Len(chain) : Done(req[chain[j]])

WalkOK ==
  /\ pc = "exec" => ExecOK
  /\ pc = "verify" => VerifyOK
  /\ pc = "dispatch" => DispatchOK
  /\ pc = "done" => DoneOK

(* The call at i was accepted: so was everything behind it, or the walk is    *)
(* on its way to report an error.                                             *)
AcceptedAt(i) ==
  Accepted(req[chain[i]]) /\ req[chain[i]].kind # "intern" =>
    \/ \A j \in Behind(i) : Accepted(req[chain[j]])
    \/ pc = "verify" /\ cur = i
    \/ (pc \in {"exec", "verify"} => cur < i) /\ Failed(Behind(i))

AcceptedDeep == \A i \in 1..Len(chain) : AcceptedAt(i)

(* The answer accepted at i needs another call: that one has a result, or it  *)
(* failed.                                                                    *)
BackedAt(i) ==
  Accepted(req[chain[i]]) /\ req[chain[i]].kind = "rpc" /\ req[chain[i]].resp = "needs" =>
    \E j \in SubsOf(i, {"rpc"}) :
      req[chain[j]].error \/ (~NoResult(chain[j]) /\ Accepted(req[chain[j]]))

Backed == \A i \in 1..Len(chain) : BackedAt(i)

WalkInv == LoopOK /\ WalkOK /\ AcceptedDeep /\ Backed

Safe == DataInv /\ BlamedDeserveIt /\ WalkInv

(* Together with the invariant of RequestProofs: inductive. *)
SInv == IInv /\ Safe

-----------------------------------------------------------------------------
(* What the moves of the walk do to the contexts of the chain *)

(* The chain is a sequence of addresses. *)
LEMMA ChainSeq ==
  ASSUME ChainOK
  PROVE  /\ chain \in Seq(Ctx) /\ Len(chain) \in Nat /\ DOMAIN chain = 1..Len(chain)
         /\ \A i \in 1..Len(chain) : chain[i] \in Ctx
         /\ chain # <<>> => Len(chain) >= 1
BY LenProperties, ElementOfSeq, EmptySeq DEF ChainOK

(* One context of the chain changes its fields. *)
LEMMA SetPositions ==
  ASSUME ChainOK, DataOK, Shape, NEW k \in 1..Len(chain), NEW r,
         SetReq(chain[k], r), chain' = chain
  PROVE  /\ req'[chain[k]] = r
         /\ \A i \in 1..Len(chain) : i # k => req'[chain[i]] = req[chain[i]]
         /\ \A x \in Ctx : x # chain[k] => req'[x] = req[x]
BY ChainSeq DEF SetReq, DataOK, Shape

(* The contexts from j on are freed. *)
LEMMA RemoveFromPositions ==
  ASSUME ChainOK, DataOK, Shape, NEW j \in 2..(Len(chain) + 1), RemoveFrom(j)
  PROVE  /\ Len(chain') = j - 1 /\ chain' \in Seq(Ctx)
         /\ \A i \in 1..(j - 1) : chain'[i] = chain[i] /\ req'[chain'[i]] = req[chain[i]]
         /\ \A x \in Ctx : req'[x] = req[x] \/ req'[x] = Unused
<1>1. ChainOK' /\ Len(chain') = j - 1 /\ \A i \in 1..(j - 1) : chain'[i] = chain[i]
  BY ChainSeq, RemoveFromChain
<1>2. \A x \in Ctx : req'[x] = IF \E i \in j..Len(chain) : x = chain[i] THEN Unused ELSE req[x]
  BY DEF RemoveFrom
<1>3. ASSUME NEW i \in 1..(j - 1)
      PROVE  req'[chain[i]] = req[chain[i]]
  <2>1. i \in 1..Len(chain) /\ \A l \in j..Len(chain) : l \in 1..Len(chain) /\ l # i
    BY ChainSeq
  <2>2. \A l \in j..Len(chain) : chain[i] # chain[l]
    BY <2>1 DEF Shape
  <2>. QED
    BY <1>2, <2>1, <2>2, ChainSeq
<1>. QED
  BY <1>1, <1>2, <1>3 DEF ChainOK

(* The part of a sequence behind its first k members. *)
LEMMA BehindPart ==
  ASSUME NEW s, NEW n \in Nat, NEW k \in 0..n, \A i \in 1..n : s[i] \in Ctx
  PROVE  /\ SubSeq(s, k + 1, n) \in Seq(Ctx) /\ Len(SubSeq(s, k + 1, n)) = n - k
         /\ \A i \in 1..(n - k) : SubSeq(s, k + 1, n)[i] = s[i + k]
<1>. DEFINE m == k + 1
<1>1. m \in Int /\ n \in Int /\ m = k + 1 /\ \A i \in m..n : s[i] \in Ctx
  OBVIOUS
<1>. HIDE DEF m
<1>2. /\ SubSeq(s, m, n) \in Seq(Ctx)
      /\ Len(SubSeq(s, m, n)) = IF m <= n THEN n - m + 1 ELSE 0
      /\ \A i \in 1..(n - m + 1) : SubSeq(s, m, n)[i] = s[m + i - 1]
  BY <1>1, SubSeqProperties
<1>3. n - m + 1 = n - k /\ (~(m <= n) => n - k = 0) /\ \A i \in 1..(n - k) : m + i - 1 = i + k
  BY <1>1
<1>. QED
  BY <1>2, <1>3 DEF m

(* Two parts of a sequence put together. *)
LEMMA JoinedAt ==
  ASSUME NEW a \in Seq(Ctx), NEW b \in Seq(Ctx)
  PROVE  /\ a \o b \in Seq(Ctx) /\ Len(a \o b) = Len(a) + Len(b)
         /\ \A i \in 1..Len(a) : (a \o b)[i] = a[i]
         /\ \A i \in 1..Len(b) : (a \o b)[Len(a) + i] = b[i]
<1>. DEFINE m == Len(a)
            n == Len(b)
<1>0. m \in Nat /\ n \in Nat
  BY LenProperties
<1>1. /\ a \o b \in Seq(Ctx) /\ Len(a \o b) = m + n
      /\ \A i \in 1..(m + n) : (a \o b)[i] = IF i <= m THEN a[i] ELSE b[i - m]
  BY ConcatProperties
<1>. HIDE DEF m, n
<1>2. ASSUME NEW i \in 1..m PROVE (a \o b)[i] = a[i]
  BY <1>0, <1>1
<1>3. ASSUME NEW i \in 1..n PROVE (a \o b)[m + i] = b[i]
  <2>. DEFINE k == m + i
  <2>1. k \in 1..(m + n) /\ ~(k <= m) /\ k - m = i
    BY <1>0
  <2>. HIDE DEF k
  <2>2. (a \o b)[k] = IF k <= m THEN a[k] ELSE b[k - m]
    BY <1>1, <2>1
  <2>. QED
    BY <2>1, <2>2 DEF k
<1>. QED
  BY <1>1, <1>2, <1>3 DEF m, n

(* One context is taken out of the middle of the chain. *)
LEMMA RemoveOnePositions ==
  ASSUME ChainOK, NEW j \in 1..Len(chain),
         chain' = SubSeq(chain, 1, j - 1) \o SubSeq(chain, j + 1, Len(chain))
  PROVE  /\ Len(chain') = Len(chain) - 1 /\ chain' \in Seq(Ctx)
         /\ \A i \in 1..(j - 1) : chain'[i] = chain[i]
         /\ \A i \in (j + 1)..Len(chain) : chain'[i - 1] = chain[i]
<1>. DEFINE a == SubSeq(chain, 1, j - 1)
            b == SubSeq(chain, j + 1, Len(chain))
            n == Len(chain)
<1>0. n \in Nat /\ j \in 1..n /\ \A i \in 1..n : chain[i] \in Ctx
  BY ChainSeq
<1>1. a \in Seq(Ctx) /\ Len(a) = j - 1 /\ \A i \in 1..(j - 1) : a[i] = chain[i]
  BY ChainSeq, SubSeqProperties
<1>. HIDE DEF n
<1>2. /\ SubSeq(chain, j + 1, n) \in Seq(Ctx) /\ Len(SubSeq(chain, j + 1, n)) = n - j
      /\ \A i \in 1..(n - j) : SubSeq(chain, j + 1, n)[i] = chain[i + j]
  BY <1>0, BehindPart
<1>3. b \in Seq(Ctx) /\ Len(b) = n - j /\ \A i \in 1..(n - j) : b[i] = chain[i + j]
  BY <1>2 DEF n
<1>. HIDE DEF a, b
<1>4. /\ a \o b \in Seq(Ctx) /\ Len(a \o b) = (j - 1) + (n - j)
      /\ \A i \in 1..(j - 1) : (a \o b)[i] = a[i]
      /\ \A i \in 1..(n - j) : (a \o b)[(j - 1) + i] = b[i]
  <2>1. /\ a \o b \in Seq(Ctx) /\ Len(a \o b) = Len(a) + Len(b)
        /\ \A i \in 1..Len(a) : (a \o b)[i] = a[i]
        /\ \A i \in 1..Len(b) : (a \o b)[Len(a) + i] = b[i]
    BY <1>1, <1>3, JoinedAt
  <2>2. Len(a) = j - 1 /\ Len(b) = n - j
    BY <1>1, <1>3
  <2>. QED
    BY <2>1, <2>2, Zenon
<1>5. ASSUME NEW i \in (j + 1)..n
      PROVE  (a \o b)[i - 1] = chain[i]
  <2>1. i - j \in 1..(n - j) /\ (j - 1) + (i - j) = i - 1 /\ (i - j) + j = i
    BY <1>0
  <2>. QED
    BY <1>3, <1>4, <2>1
<1>6. chain' = a \o b /\ (j - 1) + (n - j) = n - 1
  BY <1>0 DEF a, b
<1>. QED
  BY <1>1, <1>4, <1>5, <1>6 DEF n

(* A new context goes right behind the one at k. *)
LEMMA InsertPositions ==
  ASSUME ChainOK, NEW k \in 1..Len(chain), NEW d \in Ctx, chain' = InsertAfter(k, d)
  PROVE  /\ Len(chain') = Len(chain) + 1 /\ chain' \in Seq(Ctx)
         /\ \A i \in 1..k : chain'[i] = chain[i]
         /\ chain'[k + 1] = d
         /\ \A i \in (k + 1)..Len(chain) : chain'[i + 1] = chain[i]
<1>. DEFINE a == SubSeq(chain, 1, k)
            b == SubSeq(chain, k + 1, Len(chain))
            ad == a \o <<d>>
            n == Len(chain)
<1>0. n \in Nat /\ k \in 1..n /\ \A i \in 1..n : chain[i] \in Ctx
  BY ChainSeq
<1>1. a \in Seq(Ctx) /\ Len(a) = k /\ \A i \in 1..k : a[i] = chain[i]
  BY ChainSeq, SubSeqProperties
<1>. HIDE DEF n
<1>2. /\ SubSeq(chain, k + 1, n) \in Seq(Ctx) /\ Len(SubSeq(chain, k + 1, n)) = n - k
      /\ \A i \in 1..(n - k) : SubSeq(chain, k + 1, n)[i] = chain[i + k]
  BY <1>0, BehindPart
<1>3. b \in Seq(Ctx) /\ Len(b) = n - k /\ \A i \in 1..(n - k) : b[i] = chain[i + k]
  BY <1>2 DEF n
<1>. HIDE DEF a, b
<1>4. /\ ad \in Seq(Ctx) /\ Len(ad) = k + 1
      /\ \A i \in 1..k : ad[i] = chain[i]
      /\ ad[k + 1] = d
  BY <1>1
<1>. HIDE DEF ad
<1>5. /\ ad \o b \in Seq(Ctx) /\ Len(ad \o b) = (k + 1) + (n - k)
      /\ \A i \in 1..(k + 1) : (ad \o b)[i] = ad[i]
      /\ \A i \in 1..(n - k) : (ad \o b)[(k + 1) + i] = b[i]
  <2>1. /\ ad \o b \in Seq(Ctx) /\ Len(ad \o b) = Len(ad) + Len(b)
        /\ \A i \in 1..Len(ad) : (ad \o b)[i] = ad[i]
        /\ \A i \in 1..Len(b) : (ad \o b)[Len(ad) + i] = b[i]
    BY <1>3, <1>4, JoinedAt
  <2>2. Len(ad) = k + 1 /\ Len(b) = n - k
    BY <1>3, <1>4
  <2>. QED
    BY <2>1, <2>2, Zenon
<1>6. ASSUME NEW i \in (k + 1)..n
      PROVE  (ad \o b)[i + 1] = chain[i]
  <2>1. i - k \in 1..(n - k) /\ (k + 1) + (i - k) = i + 1 /\ (i - k) + k = i
    BY <1>0
  <2>. QED
    BY <1>3, <1>5, <2>1
<1>7. chain' = ad \o b /\ (k + 1) + (n - k) = n + 1
  BY <1>0 DEF InsertAfter, ad, a, b
<1>8. (\A i \in 1..k : i \in 1..(k + 1)) /\ k + 1 \in 1..(k + 1)
  BY <1>0
<1>9. \A i \in 1..k : chain'[i] = chain[i]
  BY <1>4, <1>5, <1>7, <1>8
<1>10. chain'[k + 1] = d
  BY <1>4, <1>5, <1>7, <1>8
<1>. QED
  BY <1>5, <1>6, <1>7, <1>9, <1>10 DEF n

-----------------------------------------------------------------------------
(* The shape of the chain *)

(* Nothing but the fields of a context changes. *)
LEMMA ShapeKept ==
  ASSUME ChainOK, Shape, chain' = chain,
         \A x \in Ctx : req'[x].kind = req[x].kind /\ req'[x].owner = req[x].owner
  PROVE  Shape'
<1>1. /\ Len(chain) \in Nat /\ (chain # <<>> => Len(chain) >= 1)
      /\ \A i \in 1..Len(chain) :
           /\ req'[chain[i]].kind = req[chain[i]].kind
           /\ req'[chain[i]].owner = req[chain[i]].owner
  BY ChainSeq
<1>2. chain # <<>> => RootKind' = RootKind /\ req'[chain[1]].owner = req[chain[1]].owner
  BY <1>1 DEF RootKind
<1>3. ASSUME NEW i \in 2..Len(chain)
      PROVE  OwnerOK(i)'
  <2>1. OwnerOK(i) /\ i \in 1..Len(chain) /\ 1 \in 1..Len(chain)
    BY <1>1 DEF Shape
  <2>2. RootKind' = RootKind
    BY <1>1, <2>1 DEF RootKind
  <2>. QED
    BY <1>1, <2>1, <2>2 DEF OwnerOK
<1>4. Len(chain) > 1 => 2 \in 1..Len(chain) /\ 1 \in 1..Len(chain)
  BY <1>1
<1>5. Len(chain) > 1 /\ RootKind' = "intern" =>
        req'[chain[2]].owner = chain[1] /\ req'[chain[2]].kind # "nodeList"
  BY <1>1, <1>4 DEF Shape, RootKind
<1>. QED
  BY <1>1, <1>2, <1>3, <1>5 DEF Shape

(* The contexts from j on are freed. *)
LEMMA ShapeRemoveFrom ==
  ASSUME ChainOK, DataOK, Shape, NEW j \in 2..(Len(chain) + 1), RemoveFrom(j)
  PROVE  Shape'
<1>1. /\ Len(chain') = j - 1 /\ chain' \in Seq(Ctx) /\ Len(chain) \in Nat
      /\ \A i \in 1..(j - 1) : chain'[i] = chain[i] /\ req'[chain'[i]] = req[chain[i]]
  BY RemoveFromPositions, ChainSeq
<1>2. /\ \A i \in 1..(j - 1) : i \in 1..Len(chain)
      /\ 1 \in 1..(j - 1)
      /\ Len(chain') > 1 => 2 \in 1..(j - 1) /\ Len(chain) > 1
  BY <1>1
<1>3. chain # <<>>
  BY <1>1, <1>2, EmptySeq
<1>4. RootKind' = RootKind /\ chain'[1] = chain[1] /\ req'[chain'[1]] = req[chain[1]]
  BY <1>1, <1>2 DEF RootKind
<1>5. ASSUME NEW i \in 2..Len(chain')
      PROVE  OwnerOK(i)'
  <2>1. OwnerOK(i) /\ i \in 1..(j - 1) /\ 2 \in 1..(j - 1)
    BY <1>1 DEF Shape
  <2>2. req[chain[i]].kind = "sign" => Len(chain') = 2
    <3>1. req[chain[i]].kind = "sign" => Len(chain) = 2
      BY <2>1 DEF OwnerOK
    <3>2. Len(chain') \in Nat /\ Len(chain') >= 2 /\ Len(chain') <= Len(chain) /\ Len(chain) \in Nat
      BY <1>1
    <3>. QED
      BY <3>1, <3>2
  <2>. QED
    BY <1>1, <1>4, <2>1, <2>2 DEF OwnerOK
<1>6. \A i, l \in 1..Len(chain') : chain'[i] = chain'[l] => i = l
  BY <1>1, <1>2 DEF Shape
<1>7. Len(chain') > 1 /\ RootKind' = "intern" =>
        req'[chain'[2]].owner = chain'[1] /\ req'[chain'[2]].kind # "nodeList"
  BY <1>1, <1>2, <1>4 DEF Shape
<1>. QED
  BY <1>3, <1>4, <1>5, <1>6, <1>7 DEF Shape

(* One context is taken out and freed. *)
LEMMA ShapeRemoveOne ==
  ASSUME ChainOK, Shape, NEW j \in 2..Len(chain), RootKind = "intern" => j > 2 \/ Len(chain) = 2,
         chain' = SubSeq(chain, 1, j - 1) \o SubSeq(chain, j + 1, Len(chain)),
         \A x \in Ctx : x # chain[j] => req'[x].kind = req[x].kind /\ req'[x].owner = req[x].owner
  PROVE  Shape'
<1>. DEFINE n == Len(chain)
            at(i) == IF i < j THEN i ELSE i + 1
<1>0. n \in Nat /\ j \in 1..n /\ j >= 2 /\ \A i \in 1..n : chain[i] \in Ctx
  BY ChainSeq
<1>1. /\ n \in Nat /\ j \in 1..n /\ j >= 2
      /\ Len(chain') = n - 1 /\ chain' \in Seq(Ctx)
      /\ \A i \in 1..(j - 1) : chain'[i] = chain[i]
      /\ \A i \in (j + 1)..n : chain'[i - 1] = chain[i]
      /\ \A i \in 1..n : chain[i] \in Ctx
  BY <1>0, RemoveOnePositions
<1>. HIDE DEF n
<1>2. ASSUME NEW i \in 1..(n - 1)
      PROVE  /\ at(i) \in 1..n /\ at(i) # j /\ chain'[i] = chain[at(i)]
             /\ req'[chain'[i]].kind = req[chain[at(i)]].kind
             /\ req'[chain'[i]].owner = req[chain[at(i)]].owner
  <2>1. at(i) \in 1..n /\ at(i) # j
    BY <1>1
  <2>2. chain'[i] = chain[at(i)]
    <3>1. CASE i < j
      BY <1>1, <3>1
    <3>2. CASE ~(i < j)
      <4>1. i + 1 \in (j + 1)..n /\ (i + 1) - 1 = i
        BY <1>1, <3>2
      <4>. QED
        BY <1>1, <3>2, <4>1
    <3>. QED
      BY <3>1, <3>2
  <2>3. chain[at(i)] \in Ctx /\ chain[at(i)] # chain[j]
    BY <1>1, <2>1 DEF Shape, n
  <2>. QED
    BY <2>1, <2>2, <2>3
<1>3. 1 \in 1..(n - 1) /\ at(1) = 1 /\ chain # <<>>
  BY <1>1, EmptySeq DEF n
<1>4. RootKind' = RootKind /\ chain'[1] = chain[1] /\ req'[chain'[1]].owner = req[chain[1]].owner
  BY <1>2, <1>3 DEF RootKind
<1>5. RootKind \in {"rpc", "intern", "direct"} /\ req[chain[1]].owner = NoCtx
  BY <1>3 DEF Shape
<1>6. \A i, l \in 1..(n - 1) : at(i) = at(l) => i = l
  BY <1>1
<1>7. ASSUME NEW i \in 1..Len(chain'), NEW l \in 1..Len(chain'), chain'[i] = chain'[l]
      PROVE  i = l
  <2>. HIDE DEF at
  <2>1. i \in 1..(n - 1) /\ l \in 1..(n - 1)
    BY <1>1
  <2>2. at(i) \in 1..n /\ at(l) \in 1..n /\ chain[at(i)] = chain[at(l)]
    BY <1>2, <1>7, <2>1
  <2>3. at(i) = at(l)
    BY <2>2 DEF Shape, n
  <2>. QED
    BY <1>6, <2>1, <2>3
<1>8. ASSUME NEW i \in 2..Len(chain')
      PROVE  OwnerOK(i)'
  <2>1. at(i) \in 2..n /\ at(i) >= i /\ i \in 1..(n - 1) /\ n > 2
    BY <1>1
  <2>2. OwnerOK(at(i))
    BY <2>1 DEF Shape, n
  <2>3. req[chain[at(i)]].kind # "sign"
    <3>. HIDE DEF at
    <3>1. req[chain[at(i)]].kind = "sign" => n = 2
      BY <2>2 DEF OwnerOK, n
    <3>. QED
      BY <1>1, <2>1, <3>1
  <2>4. RootKind = "intern" => j > 2 /\ chain'[2] = chain[2] /\ (at(i) = 2 => i = 2) /\ (at(i) > 2 => i > 2)
    BY <1>1, <2>1 DEF n
  <2>. HIDE DEF at
  <2>. QED
    BY <1>2, <1>4, <2>1, <2>2, <2>3, <2>4 DEF OwnerOK
<1>9. Len(chain') > 1 /\ RootKind' = "intern" =>
        req'[chain'[2]].owner = chain'[1] /\ req'[chain'[2]].kind # "nodeList"
  <2>. SUFFICES ASSUME Len(chain') > 1, RootKind = "intern"
                PROVE  req'[chain'[2]].owner = chain'[1] /\ req'[chain'[2]].kind # "nodeList"
    BY <1>4
  <2>1. 2 \in 1..(n - 1) /\ at(2) = 2 /\ Len(chain) > 1
    BY <1>1 DEF n
  <2>. QED
    BY <1>2, <1>4, <2>1 DEF Shape
<1>. QED
  BY <1>4, <1>5, <1>7, <1>8, <1>9 DEF Shape

(* The position of a context before a new one was put behind k. *)
Before(k, i) == IF i <= k THEN i ELSE i - 1

(* What AddRequired does to the contexts. *)
LEMMA AddPositions ==
  ASSUME ChainOK, DataOK, Shape, cur \in 1..Len(chain), NEW kind, NEW r, AddRequired(kind, r)
  PROVE  \E d \in Ctx :
           /\ Len(chain') = Len(chain) + 1 /\ chain' \in Seq(Ctx)
           /\ chain'[cur + 1] = d /\ req'[d] = NewReq(kind, chain[cur])
           /\ req'[chain[cur]] = r
           /\ \A i \in 1..Len(chain') : i # cur + 1 =>
                /\ Before(cur, i) \in 1..Len(chain)
                /\ chain'[i] = chain[Before(cur, i)] /\ chain'[i] # d
                /\ i # cur => req'[chain'[i]] = req[chain[Before(cur, i)]]
           /\ \A x \in Ctx : x # d /\ x # chain[cur] => req'[x] = req[x]
<1>1. PICK d \in Ctx :
        /\ ~InChain(d)
        /\ req' = [req EXCEPT ![chain[cur]] = r, ![d] = NewReq(kind, chain[cur])]
        /\ chain' = InsertAfter(cur, d)
  BY DEF AddRequired
<1>. DEFINE n == Len(chain)
<1>2. /\ n \in Nat /\ cur \in 1..n /\ \A i \in 1..n : chain[i] \in Ctx /\ chain[i] # d
  BY <1>1, ChainSeq DEF InChain
<1>3. /\ Len(chain') = n + 1 /\ chain' \in Seq(Ctx)
      /\ \A i \in 1..cur : chain'[i] = chain[i]
      /\ chain'[cur + 1] = d
      /\ \A i \in (cur + 1)..n : chain'[i + 1] = chain[i]
  BY <1>1, InsertPositions
<1>. HIDE DEF n
<1>4. /\ req'[d] = NewReq(kind, chain[cur]) /\ req'[chain[cur]] = r
      /\ \A x \in Ctx : x # d /\ x # chain[cur] => req'[x] = req[x]
  BY <1>1, <1>2 DEF DataOK
<1>5. ASSUME NEW i \in 1..(n + 1), i # cur + 1
      PROVE  Before(cur, i) \in 1..n /\ chain'[i] = chain[Before(cur, i)]
  <2>1. CASE i <= cur
    BY <1>2, <1>3, <2>1 DEF Before
  <2>2. CASE ~(i <= cur)
    <3>1. i - 1 \in (cur + 1)..n /\ (i - 1) + 1 = i
      BY <1>2, <1>5, <2>2
    <3>. QED
      BY <1>2, <1>3, <2>2, <3>1 DEF Before
  <2>. QED
    BY <2>1, <2>2
<1>6. ASSUME NEW i \in 1..(n + 1), i # cur + 1, i # cur
      PROVE  chain[Before(cur, i)] # chain[cur]
  <2>1. Before(cur, i) # cur
    BY <1>2, <1>6 DEF Before
  <2>. QED
    BY <1>2, <1>5, <1>6, <2>1 DEF Shape, n
<1>7. ASSUME NEW i \in 1..Len(chain'), i # cur + 1
      PROVE  /\ Before(cur, i) \in 1..Len(chain)
             /\ chain'[i] = chain[Before(cur, i)] /\ chain'[i] # d
             /\ i # cur => req'[chain'[i]] = req[chain[Before(cur, i)]]
  BY <1>2, <1>3, <1>4, <1>5, <1>6, <1>7 DEF n
<1>. QED
  BY <1>3, <1>4, <1>7 DEF n

(* A new context is put behind the one being executed. *)
LEMMA ShapeAdd ==
  ASSUME ChainOK, DataOK, Shape, cur \in 1..Len(chain),
         NEW kind \in {"rpc", "sign", "nodeList"}, NEW r, AddRequired(kind, r),
         r.kind = req[chain[cur]].kind, r.owner = req[chain[cur]].owner,
         r.kind # "sign",
         RootKind = "intern" /\ cur = 1 => Len(chain) = 1 /\ kind # "nodeList",
         kind = "sign" => RootKind = "intern" /\ cur = 1,
         kind = "rpc" => cur = 1 \/ (cur = 2 /\ RootKind = "intern")
  PROVE  Shape'
<1>. DEFINE n == Len(chain)
            at(i) == Before(cur, i)
<1>1. PICK d \in Ctx :
        /\ Len(chain') = n + 1 /\ chain' \in Seq(Ctx)
        /\ chain'[cur + 1] = d /\ req'[d] = NewReq(kind, chain[cur])
        /\ req'[chain[cur]] = r
        /\ \A i \in 1..Len(chain') : i # cur + 1 =>
             /\ at(i) \in 1..n
             /\ chain'[i] = chain[at(i)] /\ chain'[i] # d
             /\ i # cur => req'[chain'[i]] = req[chain[at(i)]]
  BY AddPositions
<1>2. n \in Nat /\ cur \in 1..n /\ n = Len(chain) /\ chain # <<>>
  BY ChainSeq, EmptySeq
<1>. HIDE DEF n
<1>3. ASSUME NEW i \in 1..(n + 1), i # cur + 1
      PROVE  /\ at(i) \in 1..n /\ chain'[i] = chain[at(i)] /\ chain'[i] # d
             /\ req'[chain'[i]].kind = req[chain[at(i)]].kind
             /\ req'[chain'[i]].owner = req[chain[at(i)]].owner
             /\ at(i) = IF i <= cur THEN i ELSE i - 1
  <2>1. at(cur) = cur
    BY <1>2 DEF Before
  <2>. HIDE DEF at
  <2>2. CASE i = cur
    BY <1>1, <1>2, <1>3, <2>1, <2>2 DEF at, Before
  <2>3. CASE i # cur
    BY <1>1, <1>3, <2>3 DEF at, Before
  <2>. QED
    BY <2>2, <2>3
<1>4. /\ 1 \in 1..(n + 1) /\ 1 # cur + 1 /\ at(1) = 1
  BY <1>2 DEF Before
<1>5. /\ RootKind' = RootKind /\ chain'[1] = chain[1]
      /\ req'[chain'[1]].owner = req[chain[1]].owner
      /\ RootKind \in {"rpc", "intern", "direct"} /\ req[chain[1]].owner = NoCtx
  BY <1>2, <1>3, <1>4 DEF RootKind, Shape
<1>6. \A i, l \in 1..(n + 1) : i # cur + 1 /\ l # cur + 1 /\ at(i) = at(l) => i = l
  BY <1>2 DEF Before
<1>7. ASSUME NEW i \in 1..(n + 1), NEW l \in 1..(n + 1), chain'[i] = chain'[l]
      PROVE  i = l
  <2>. HIDE DEF at
  <2>1. CASE i # cur + 1 /\ l # cur + 1
    <3>1. at(i) \in 1..n /\ at(l) \in 1..n /\ chain[at(i)] = chain[at(l)]
      BY <1>3, <1>7, <2>1
    <3>2. at(i) = at(l)
      BY <1>2, <3>1 DEF Shape
    <3>. QED
      BY <1>6, <2>1, <3>2
  <2>2. CASE i = cur + 1 \/ l = cur + 1
    BY <1>1, <1>3, <1>7, <2>2
  <2>. QED
    BY <2>1, <2>2
<1>8. NewReq(kind, chain[cur]).kind = kind /\ NewReq(kind, chain[cur]).owner = chain[cur]
  BY DEF NewReq
<1>9. chain[cur] \in Ctx /\ chain[cur] # NoCtx
  BY <1>2, ChainSeq, CtxAssumption
<1>10. \A l \in 2..n : req[chain[l]].kind # "sign"
  <2>. SUFFICES ASSUME NEW l \in 2..n, req[chain[l]].kind = "sign" PROVE FALSE
    OBVIOUS
  <2>1. OwnerOK(l)
    BY <1>2 DEF Shape
  <2>2. l = 2 /\ n = 2 /\ RootKind = "intern"
    BY <1>2, <2>1 DEF OwnerOK
  <2>3. cur # 1 /\ cur # 2
    BY <1>2, <2>2
  <2>. QED
    BY <1>2, <2>2, <2>3
<1>11. ASSUME NEW i \in 2..(n + 1)
       PROVE  OwnerOK(i)'
  <2>1. CASE i = cur + 1
    <3>1. req'[chain'[i]].kind = kind /\ req'[chain'[i]].owner = chain[cur]
      BY <1>1, <1>8, <2>1
    <3>2. kind = "sign" => i = 2 /\ Len(chain') = 2 /\ RootKind' = "intern"
      BY <1>1, <1>2, <1>5, <2>1
    <3>3. CASE cur = 1
      BY <1>2, <1>5, <1>9, <2>1, <3>1, <3>2, <3>3 DEF OwnerOK
    <3>4. CASE cur # 1
      <4>1. kind # "sign"
        BY <3>4
      <4>2. kind = "rpc" => i > 2 /\ RootKind' = "intern" /\ chain[cur] = chain'[2]
        <5>1. cur = 2 => at(2) = 2 /\ 2 \in 1..(n + 1) /\ 2 # cur + 1
          BY <1>2 DEF Before
        <5>. QED
          BY <1>2, <1>3, <1>5, <2>1, <3>4, <5>1
      <4>. QED
        BY <1>9, <3>1, <4>1, <4>2 DEF OwnerOK
    <3>. QED
      BY <3>3, <3>4
  <2>2. CASE i # cur + 1
    <3>1. at(i) \in 2..n /\ i \in 1..(n + 1)
      BY <1>2, <2>2 DEF Before
    <3>2. OwnerOK(at(i)) /\ req[chain[at(i)]].kind # "sign"
      BY <1>2, <1>10, <3>1 DEF Shape
    <3>3. RootKind = "intern" => at(i) = i \/ (i > 2 /\ at(i) > 2)
      <4>1. RootKind = "intern" => cur >= 2 \/ n = 1
        BY <1>2
      <4>. QED
        BY <1>2, <2>2, <3>1, <4>1 DEF Before
    <3>4. RootKind = "intern" /\ n > 1 => chain'[2] = chain[2]
      <4>1. RootKind = "intern" /\ n > 1 => cur >= 2
        BY <1>2
      <4>2. cur >= 2 => at(2) = 2 /\ 2 \in 1..(n + 1) /\ 2 # cur + 1
        BY <1>2 DEF Before
      <4>. QED
        BY <1>3, <4>1, <4>2
    <3>5. n > 1
      BY <1>2, <3>1
    <3>. HIDE DEF at
    <3>. QED
      BY <1>3, <1>5, <2>2, <3>1, <3>2, <3>3, <3>4, <3>5 DEF OwnerOK
  <2>. QED
    BY <2>1, <2>2
<1>12. ASSUME RootKind = "intern"
       PROVE  req'[chain'[2]].owner = chain'[1] /\ req'[chain'[2]].kind # "nodeList"
  <2>1. CASE cur = 1
    BY <1>1, <1>2, <1>5, <1>8, <1>12, <2>1
  <2>2. CASE cur # 1
    <3>1. at(2) = 2 /\ 2 \in 1..(n + 1) /\ 2 # cur + 1 /\ n > 1
      BY <1>2, <2>2 DEF Before
    <3>. QED
      BY <1>2, <1>3, <1>5, <1>12, <3>1 DEF Shape
  <2>. QED
    BY <2>1, <2>2
<1>. QED
  BY <1>1, <1>5, <1>7, <1>11, <1>12 DEF Shape
-----------------------------------------------------------------------------
(* The fields of the contexts under the moves of the walk *)

(* A context that replaces its responses as in3_req_execute does. *)
LEMMA TameRecord ==
  ASSUME NEW r0, NEW r, Tame(r0, r), Suspected(r0), suspect' = suspect
  PROVE  /\ Suspected(r)'
         /\ \A n \in DOMAIN r.raw : r.raw[n].data = "needs" => n \in DOMAIN r0.raw /\ r0.raw[n].data = "needs"
BY DEF Tame, Suspected, Origin, Doubtful

(* The connections of freed responses are stale, the others are as they were. *)
LEMMA LiveKept ==
  ASSUME ConnOK, LiveOK, NEW cs,
         transports' = transports \/ transports' = Stale(transports, cs),
         transports' = Stale(transports, cs) => \A x \in cs : x \in Ctx => req'[x].raw = <<>>,
         \A x \in Ctx :
           /\ req'[x].kind = "intern" => req[x].kind = "intern"
           /\ req'[x].raw # <<>> /\ req'[x].kind \notin {"sign", "intern"} =>
                req[x].raw # <<>> /\ req[x].kind # "sign"
  PROVE  LiveOK'
<1>1. /\ \A i \in DOMAIN transports : transports[i] \in Slot
      /\ DOMAIN transports' = DOMAIN transports
      /\ \A i \in DOMAIN transports :
           /\ transports'[i].req = transports[i].req
           /\ transports[i].live => transports'[i].live \/ (transports' = Stale(transports, cs) /\ transports[i].req \in cs)
  <2>1. \A i \in DOMAIN transports : transports[i] \in Slot
    BY LenProperties, ElementOfSeq DEF ConnOK
  <2>2. CASE transports' = transports
    BY <2>1, <2>2
  <2>3. CASE transports' = Stale(transports, cs)
    BY <2>1, <2>3 DEF Stale, Slot
  <2>. QED
    BY <2>1, <2>2, <2>3
<1>2. ASSUME NEW i \in DOMAIN transports
      PROVE  Live(transports[i])'
  <2>. DEFINE x == transports[i].req
  <2>. SUFFICES ASSUME x # NoCtx
                PROVE  /\ req'[x].kind # "intern"
                       /\ req'[x].raw # <<>> /\ req'[x].kind # "sign" => transports'[i].live
    BY <1>1 DEF Live
  <2>1. x \in Ctx
    BY <1>1 DEF Slot
  <2>2. /\ req[x].kind # "intern"
        /\ req[x].raw # <<>> /\ req[x].kind # "sign" => transports[i].live
    BY DEF LiveOK, Live
  <2>3. req'[x].kind # "intern"
    BY <2>1, <2>2
  <2>4. ASSUME req'[x].raw # <<>>, req'[x].kind # "sign"
        PROVE  transports'[i].live
    BY <1>1, <2>1, <2>2, <2>3, <2>4
  <2>. QED
    BY <2>3, <2>4
<1>. QED
  BY <1>1, <1>2 DEF LiveOK

(* The connections are left alone. *)
LEMMA LiveSame ==
  ASSUME ConnOK, LiveOK, transports' = transports,
         \A x \in Ctx :
           /\ req'[x].kind = "intern" => req[x].kind = "intern"
           /\ req'[x].raw # <<>> /\ req'[x].kind \notin {"sign", "intern"} =>
                req[x].raw # <<>> /\ req[x].kind # "sign"
  PROVE  LiveOK'
<1>1. \A i \in DOMAIN transports : transports[i] \in Slot
  BY LenProperties, ElementOfSeq DEF ConnOK
<1>2. \A i \in DOMAIN transports : transports[i].req # NoCtx => transports[i].req \in Ctx
  BY <1>1 DEF Slot
<1>. QED
  BY <1>2 DEF LiveOK, Live

(* One context of the chain changes. *)
LEMMA TameSet ==
  ASSUME IInv, DataInv, NEW k \in 1..Len(chain), NEW r,
         SetReq(chain[k], r), Tame(req[chain[k]], r), chain' = chain, suspect' = suspect,
         \/ transports' = transports
         \/ transports' = Stale(transports, {chain[k]}) /\ r.raw = <<>>
  PROVE  DataInv'
<1>. USE DEF IInv
<1>1. /\ req'[chain[k]] = r /\ chain[k] \in Ctx
      /\ \A i \in 1..Len(chain) : i # k => req'[chain[i]] = req[chain[i]]
      /\ \A x \in Ctx : x # chain[k] => req'[x] = req[x]
  BY SetPositions, ChainSeq DEF DataInv
<1>2. \A x \in Ctx : req'[x] = req[x] \/ (x = chain[k] /\ req'[x] = r)
  BY <1>1
<1>3. Shape'
  <2>1. \A x \in Ctx : req'[x].kind = req[x].kind /\ req'[x].owner = req[x].owner
    BY <1>2 DEF Tame
  <2>. QED
    BY <2>1, ShapeKept DEF DataInv
<1>4. Records'
  BY <1>2 DEF DataInv, Records, Tame
<1>5. AllSuspected'
  <2>1. Suspected(r)'
    BY <1>1, TameRecord DEF DataInv, AllSuspected
  <2>2. \A x \in Ctx : Suspected(req[x])
    BY DEF DataInv, AllSuspected
  <2>3. ASSUME NEW x \in Ctx PROVE Suspected(req[x])'
    <3>1. CASE req'[x] = r
      BY <2>1, <3>1 DEF Suspected
    <3>2. CASE req'[x] = req[x]
      BY <2>2, <3>2 DEF Suspected
    <3>. QED
      BY <1>2, <3>1, <3>2
  <2>. QED
    BY <2>3 DEF AllSuspected
<1>6. NeedsOK'
  <2>1. \A n \in DOMAIN r.raw : r.raw[n].data = "needs" =>
          n \in DOMAIN req[chain[k]].raw /\ req[chain[k]].raw[n].data = "needs"
    BY <1>1, TameRecord DEF DataInv, AllSuspected
  <2>2. Len(chain) >= 1 => 1 \in 1..Len(chain)
    BY ChainSeq
  <2>3. \A i \in 1..Len(chain) : req'[chain[i]].kind = req[chain[i]].kind /\ Len(chain) >= 1
    BY <1>1, ChainSeq DEF Tame
  <2>4. \A i \in 1..Len(chain) : RootKind' = RootKind
    BY <2>2, <2>3 DEF RootKind
  <2>. SUFFICES ASSUME NEW i \in 1..Len(chain), NEW n \in DOMAIN req'[chain[i]].raw,
                       req'[chain[i]].raw[n].data = "needs"
                PROVE  req'[chain[i]].kind = "rpc" /\ (i = 1 \/ (i = 2 /\ RootKind' = "intern"))
    BY DEF NeedsOK
  <2>5. n \in DOMAIN req[chain[i]].raw /\ req[chain[i]].raw[n].data = "needs"
    BY <1>1, <2>1
  <2>. QED
    BY <2>3, <2>4, <2>5 DEF DataInv, NeedsOK
<1>7. LiveOK'
  <2>1. \A x \in Ctx :
           /\ req'[x].kind = "intern" => req[x].kind = "intern"
           /\ req'[x].raw # <<>> /\ req'[x].kind \notin {"sign", "intern"} =>
                req[x].raw # <<>> /\ req[x].kind # "sign"
    BY <1>2 DEF Tame
  <2>2. CASE transports' = transports
    BY <2>1, <2>2, LiveSame DEF DataInv
  <2>3. CASE transports' = Stale(transports, {chain[k]}) /\ r.raw = <<>>
    BY <1>1, <2>1, <2>3, LiveKept DEF DataInv
  <2>. QED
    BY <2>2, <2>3
<1>. QED
  BY <1>3, <1>4, <1>5, <1>6, <1>7 DEF DataInv

(* An address without a context is in order. *)
LEMMA UnusedData ==
  Record(Unused) /\ Suspected(Unused) /\ Suspected(Unused)' /\ Unused.raw = <<>> /\ Unused.kind = "rpc"
BY DEF Unused, NewReq, Record, Suspected

(* A context as req_new leaves it is in order. *)
LEMMA NewReqData ==
  ASSUME NEW kind, NEW owner
  PROVE  LET q == NewReq(kind, owner)
         IN  Record(q) /\ Suspected(q) /\ Suspected(q)' /\ q.raw = <<>> /\ q.kind = kind /\ q.owner = owner
             /\ ~q.error /\ q.resp = "none" /\ q.nodes = <<>> /\ q.vstate = "WAITING"
BY DEF NewReq, Record, Suspected

(* The contexts from j on are freed. *)
LEMMA DataRemoveFrom ==
  ASSUME IInv, DataInv, NEW j \in 2..(Len(chain) + 1), RemoveFrom(j), suspect' = suspect
  PROVE  DataInv'
<1>. USE DEF IInv
<1>1. /\ Len(chain') = j - 1 /\ chain' \in Seq(Ctx) /\ Len(chain) \in Nat
      /\ \A i \in 1..(j - 1) : chain'[i] = chain[i] /\ req'[chain'[i]] = req[chain[i]]
      /\ \A x \in Ctx : req'[x] = req[x] \/ req'[x] = Unused
  BY RemoveFromPositions, ChainSeq DEF DataInv
<1>2. Shape'
  BY ShapeRemoveFrom DEF DataInv
<1>3. Records'
  BY <1>1, UnusedData DEF DataInv, Records
<1>4. AllSuspected'
  <2>1. ASSUME NEW x \in Ctx PROVE Suspected(req[x])'
    <3>1. CASE req'[x] = Unused
      BY <3>1, UnusedData DEF Suspected
    <3>2. CASE req'[x] = req[x]
      BY <3>2 DEF DataInv, AllSuspected, Suspected
    <3>. QED
      BY <1>1, <3>1, <3>2
  <2>. QED
    BY <2>1 DEF AllSuspected
<1>5. NeedsOK'
  <2>1. 1 \in 1..(j - 1) /\ \A i \in 1..(j - 1) : i \in 1..Len(chain)
    BY <1>1
  <2>2. RootKind' = RootKind
    BY <1>1, <2>1 DEF RootKind
  <2>. QED
    BY <1>1, <2>1, <2>2 DEF DataInv, NeedsOK
<1>6. LiveOK'
  <2>. DEFINE cs == {chain[i] : i \in j..Len(chain)}
  <2>1. transports' = Stale(transports, cs)
    BY DEF RemoveFrom
  <2>2. \A x \in cs : x \in Ctx => req'[x].raw = <<>>
    <3>1. \A x \in Ctx : x \in cs => req'[x] = Unused
      BY DEF RemoveFrom
    <3>. QED
      BY <3>1, UnusedData
  <2>3. \A x \in Ctx :
           /\ req'[x].kind = "intern" => req[x].kind = "intern"
           /\ req'[x].raw # <<>> /\ req'[x].kind \notin {"sign", "intern"} =>
                req[x].raw # <<>> /\ req[x].kind # "sign"
    BY <1>1, UnusedData
  <2>. HIDE DEF cs
  <2>. QED
    BY <2>1, <2>2, <2>3, LiveKept DEF DataInv
<1>. QED
  BY <1>2, <1>3, <1>4, <1>5, <1>6 DEF DataInv

(* The sub request at j is freed and the context that asked for it changes. *)
LEMMA DataRemoveOne ==
  ASSUME IInv, DataInv, cur \in 1..Len(chain), NEW j \in (cur + 1)..Len(chain), RemoveOne(j),
         RootKind = "intern" => j > 2 \/ Len(chain) = 2,
         NEW r, Tame(req[chain[cur]], r), suspect' = suspect,
         req' = [req EXCEPT ![chain[cur]] = r, ![chain[j]] = Unused]
  PROVE  /\ DataInv'
         /\ req'[chain[cur]] = r /\ req'[chain[j]] = Unused
         /\ \A i \in 1..Len(chain) : i # cur /\ i # j => req'[chain[i]] = req[chain[i]]
<1>. USE DEF IInv
<1>1. /\ Len(chain) \in Nat /\ cur \in 1..Len(chain) /\ j \in 1..Len(chain) /\ j \in 2..Len(chain) /\ j # cur
      /\ chain[cur] \in Ctx /\ chain[j] \in Ctx /\ chain[cur] # chain[j]
      /\ \A i \in 1..Len(chain) : chain[i] \in Ctx
  <2>1. Len(chain) \in Nat /\ cur \in 1..Len(chain) /\ j \in 1..Len(chain) /\ j \in 2..Len(chain) /\ j # cur
    BY ChainSeq
  <2>. QED
    BY <2>1, ChainSeq DEF DataInv, Shape
<1>2. req'[chain[cur]] = r /\ req'[chain[j]] = Unused /\ \A x \in Ctx : x # chain[cur] /\ x # chain[j] => req'[x] = req[x]
  BY <1>1 DEF DataOK
<1>3. \A i \in 1..Len(chain) : i # cur /\ i # j => req'[chain[i]] = req[chain[i]]
  BY <1>1, <1>2 DEF DataInv, Shape
<1>4. chain' = SubSeq(chain, 1, j - 1) \o SubSeq(chain, j + 1, Len(chain))
  BY DEF RemoveOne
<1>5. /\ Len(chain') = Len(chain) - 1 /\ chain' \in Seq(Ctx)
      /\ \A i \in 1..(j - 1) : chain'[i] = chain[i]
      /\ \A i \in (j + 1)..Len(chain) : chain'[i - 1] = chain[i]
  BY <1>1, <1>4, RemoveOnePositions
<1>6. Shape'
  <2>1. \A x \in Ctx : x # chain[j] => req'[x].kind = req[x].kind /\ req'[x].owner = req[x].owner
    BY <1>2 DEF Tame
  <2>. QED
    BY <1>1, <1>4, <2>1, ShapeRemoveOne DEF DataInv
<1>7. Records'
  BY <1>2, UnusedData DEF DataInv, Records, Tame
<1>8. AllSuspected'
  <2>1. Suspected(r)'
    BY <1>1, TameRecord DEF DataInv, AllSuspected
  <2>2. ASSUME NEW x \in Ctx PROVE Suspected(req[x])'
    <3>1. CASE x = chain[cur]
      BY <1>2, <2>1, <3>1 DEF Suspected
    <3>2. CASE x = chain[j]
      BY <1>2, <3>2, UnusedData DEF Suspected
    <3>3. CASE x # chain[cur] /\ x # chain[j]
      <4>1. req'[x] = req[x]
        BY <1>2, <3>3
      <4>2. Suspected(req[x])
        BY DEF DataInv, AllSuspected
      <4>. QED
        BY <4>1, <4>2 DEF Suspected
    <3>. QED
      BY <3>1, <3>2, <3>3
  <2>. QED
    BY <2>2 DEF AllSuspected
<1>9. NeedsOK'
  <2>1. \A n \in DOMAIN r.raw : r.raw[n].data = "needs" =>
          n \in DOMAIN req[chain[cur]].raw /\ req[chain[cur]].raw[n].data = "needs"
    BY <1>1, TameRecord DEF DataInv, AllSuspected
  <2>2. RootKind' = RootKind
    <3>1. 1 \in 1..(j - 1) /\ 1 \in 1..Len(chain) /\ 1 # j
      BY <1>1
    <3>. QED
      BY <1>2, <1>3, <1>5, <3>1 DEF RootKind, Tame
  <2>. SUFFICES ASSUME NEW i \in 1..(Len(chain) - 1), NEW n \in DOMAIN req'[chain'[i]].raw,
                       req'[chain'[i]].raw[n].data = "needs"
                PROVE  req'[chain'[i]].kind = "rpc" /\ (i = 1 \/ (i = 2 /\ RootKind' = "intern"))
    BY <1>5 DEF NeedsOK
  <2>3. CASE i < j
    <3>1. i \in 1..(j - 1) /\ i \in 1..Len(chain) /\ i # j
      BY <1>1, <2>3
    <3>2. chain'[i] = chain[i]
      BY <1>5, <3>1
    <3>3. /\ req'[chain[i]].kind = req[chain[i]].kind
          /\ n \in DOMAIN req[chain[i]].raw /\ req[chain[i]].raw[n].data = "needs"
      <4>1. CASE i = cur
        BY <1>2, <2>1, <3>2, <4>1 DEF Tame
      <4>2. CASE i # cur
        BY <1>3, <3>1, <3>2, <4>2
      <4>. QED
        BY <4>1, <4>2
    <3>. QED
      BY <2>2, <3>1, <3>2, <3>3 DEF DataInv, NeedsOK
  <2>4. CASE ~(i < j)
    <3>1. i + 1 \in (j + 1)..Len(chain) /\ (i + 1) - 1 = i /\ i + 1 \in 1..Len(chain)
          /\ i + 1 # j /\ i + 1 # cur /\ i + 1 > 2
      BY <1>1, <2>4
    <3>2. chain'[i] = chain[i + 1] /\ req'[chain'[i]] = req[chain[i + 1]]
      BY <1>3, <1>5, <3>1
    <3>. QED
      BY <3>1, <3>2 DEF DataInv, NeedsOK
  <2>. QED
    BY <2>3, <2>4
<1>10. LiveOK'
  <2>. DEFINE cs == {chain[j]}
  <2>1. transports' = Stale(transports, cs) /\ \A x \in cs : x \in Ctx => req'[x].raw = <<>>
    BY <1>2, UnusedData DEF RemoveOne
  <2>2. \A x \in Ctx :
           /\ req'[x].kind = "intern" => req[x].kind = "intern"
           /\ req'[x].raw # <<>> /\ req'[x].kind \notin {"sign", "intern"} =>
                req[x].raw # <<>> /\ req[x].kind # "sign"
    BY <1>2, UnusedData DEF Tame
  <2>. HIDE DEF cs
  <2>. QED
    BY <2>1, <2>2, LiveKept DEF DataInv
<1>. QED
  BY <1>2, <1>3, <1>6, <1>7, <1>8, <1>9, <1>10 DEF DataInv

(* A sub request is added behind the context being executed. *)
LEMMA DataAdd ==
  ASSUME IInv, DataInv, cur \in 1..Len(chain),
         NEW kind \in {"rpc", "sign", "nodeList"}, NEW r, AddRequired(kind, r),
         Tame(req[chain[cur]], r), r.kind # "sign",
         RootKind = "intern" /\ cur = 1 => Len(chain) = 1 /\ kind # "nodeList",
         kind = "sign" => RootKind = "intern" /\ cur = 1,
         kind = "rpc" => cur = 1 \/ (cur = 2 /\ RootKind = "intern"),
         suspect' = suspect, transports' = transports
  PROVE  DataInv'
<1>. USE DEF IInv
<1>. DEFINE q == NewReq(kind, chain[cur])
<1>1. PICK d \in Ctx :
        /\ Len(chain') = Len(chain) + 1 /\ chain' \in Seq(Ctx)
        /\ chain'[cur + 1] = d /\ req'[d] = q
        /\ req'[chain[cur]] = r
        /\ \A i \in 1..Len(chain') : i # cur + 1 =>
             /\ Before(cur, i) \in 1..Len(chain)
             /\ chain'[i] = chain[Before(cur, i)] /\ chain'[i] # d
             /\ i # cur => req'[chain'[i]] = req[chain[Before(cur, i)]]
        /\ \A x \in Ctx : x # d /\ x # chain[cur] => req'[x] = req[x]
  BY AddPositions DEF DataInv
<1>2. Record(q) /\ Suspected(q)' /\ q.raw = <<>> /\ q.kind = kind
  BY NewReqData
<1>. HIDE DEF q
<1>3. Len(chain) \in Nat /\ cur \in 1..Len(chain) /\ chain[cur] \in Ctx
  BY ChainSeq
<1>4. Shape'
  BY ShapeAdd DEF DataInv, Tame
<1>5. Records'
  BY <1>1, <1>2 DEF DataInv, Records, Tame
<1>6. AllSuspected'
  <2>1. Suspected(r)'
    BY <1>3, TameRecord DEF DataInv, AllSuspected
  <2>2. ASSUME NEW x \in Ctx PROVE Suspected(req[x])'
    <3>1. CASE x = chain[cur]
      BY <1>1, <2>1, <3>1 DEF Suspected
    <3>2. CASE x = d
      BY <1>1, <1>2, <3>2 DEF Suspected
    <3>3. CASE x # chain[cur] /\ x # d
      BY <1>1, <3>3 DEF DataInv, AllSuspected, Suspected
    <3>. QED
      BY <3>1, <3>2, <3>3
  <2>. QED
    BY <2>2 DEF AllSuspected
<1>7. NeedsOK'
  <2>1. \A n \in DOMAIN r.raw : r.raw[n].data = "needs" =>
          n \in DOMAIN req[chain[cur]].raw /\ req[chain[cur]].raw[n].data = "needs"
    BY <1>3, TameRecord DEF DataInv, AllSuspected
  <2>. SUFFICES ASSUME NEW i \in 1..(Len(chain) + 1), NEW n \in DOMAIN req'[chain'[i]].raw,
                       req'[chain'[i]].raw[n].data = "needs"
                PROVE  req'[chain'[i]].kind = "rpc" /\ (i = 1 \/ (i = 2 /\ RootKind' = "intern"))
    BY <1>1 DEF NeedsOK
  <2>2. i # cur + 1
    BY <1>1, <1>2
  <2>3. /\ Before(cur, i) \in 1..Len(chain)
        /\ chain'[i] = chain[Before(cur, i)] /\ chain'[i] # d
        /\ i # cur => req'[chain'[i]] = req[chain[Before(cur, i)]]
    BY <1>1, <2>2
  <2>4. CASE i = cur
    <3>1. Before(cur, i) = cur
      BY <1>3, <2>4 DEF Before
    <3>2. /\ req'[chain'[i]].kind = req[chain[cur]].kind
          /\ n \in DOMAIN req[chain[cur]].raw /\ req[chain[cur]].raw[n].data = "needs"
      BY <1>1, <2>1, <2>3, <3>1 DEF Tame
    <3>3. req[chain[cur]].kind = "rpc" /\ (cur = 1 \/ (cur = 2 /\ RootKind = "intern"))
      BY <1>3, <3>2 DEF DataInv, NeedsOK
    <3>4. cur = 2 => RootKind' = RootKind
      <4>1. cur = 2 => Before(cur, 1) = 1 /\ 1 \in 1..(Len(chain) + 1) /\ 1 # cur + 1 /\ 1 # cur
        BY <1>3 DEF Before
      <4>. QED
        BY <1>1, <4>1 DEF RootKind
    <3>. QED
      BY <2>4, <3>2, <3>3, <3>4
  <2>5. CASE i # cur
    <3>1. /\ req'[chain'[i]] = req[chain[Before(cur, i)]]
          /\ req[chain[Before(cur, i)]].kind = "rpc"
          /\ Before(cur, i) = 1 \/ (Before(cur, i) = 2 /\ RootKind = "intern")
      BY <2>3, <2>5 DEF DataInv, NeedsOK
    <3>2. CASE i < cur
      <4>1. Before(cur, i) = i /\ Before(cur, 1) = 1 /\ 1 \in 1..(Len(chain) + 1) /\ 1 # cur + 1 /\ 1 # cur
        BY <1>3, <3>2 DEF Before
      <4>2. RootKind' = RootKind
        BY <1>1, <4>1 DEF RootKind
      <4>. QED
        BY <3>1, <4>1, <4>2
    <3>3. CASE ~(i < cur)
      <4>1. Before(cur, i) = i - 1 /\ i - 1 > cur /\ i - 1 <= Len(chain)
        BY <1>3, <2>2, <2>3, <2>5, <3>3 DEF Before
      <4>2. i - 1 = 2 /\ cur = 1 /\ RootKind = "intern"
        BY <1>3, <3>1, <4>1
      <4>3. Len(chain) = 1
        BY <4>2
      <4>. QED
        BY <4>1, <4>2, <4>3
    <3>. QED
      BY <3>2, <3>3
  <2>. QED
    BY <2>4, <2>5
<1>8. LiveOK'
  <2>1. \A x \in Ctx :
           /\ req'[x].kind = "intern" => req[x].kind = "intern"
           /\ req'[x].raw # <<>> /\ req'[x].kind \notin {"sign", "intern"} =>
                req[x].raw # <<>> /\ req[x].kind # "sign"
    BY <1>1, <1>2 DEF Tame
  <2>. QED
    BY <2>1, LiveSame DEF DataInv
<1>. QED
  BY <1>4, <1>5, <1>6, <1>7, <1>8 DEF DataInv
-----------------------------------------------------------------------------
(* The changes in3_req_execute makes to a context *)

(* Nothing changes. *)
LEMMA TameSame ==
  ASSUME NEW r, Record(r)
  PROVE  Tame(r, r)
BY DEF Tame, Origin

(* The responses stay, nothing is accepted. *)
LEMMA TameLike ==
  ASSUME NEW r, Record(r), NEW p,
         p.kind = r.kind, p.owner = r.owner, p.raw = r.raw, p.nodes = r.nodes,
         p.vstate # "OK", p.resp = r.resp \/ p.resp = "none" \/ (r.raw # <<>> /\ r.kind # "sign")
  PROVE  Tame(r, p)
BY DEF Tame, Origin, Record

(* The responses are dropped. *)
LEMMA TameDrop ==
  ASSUME NEW r, Record(r), NEW p,
         p.kind = r.kind, p.owner = r.owner, p.raw = <<>>, p.resp = "none", p.vstate # "OK"
  PROVE  Tame(r, p)
BY EmptySeq DEF Tame, Origin, Record

(* A response that can not be accepted is replaced. *)
LEMMA TamePut ==
  ASSUME NEW r, Record(r), NEW p, NEW n \in DOMAIN r.raw, NEW e,
         r.raw[n].state = "OK", Doubtful(r.raw[n]),
         e.data \in {"none", "msg"}, e.state # "WAITING",
         p.kind = r.kind, p.owner = r.owner, p.nodes = r.nodes,
         p.raw = [r.raw EXCEPT ![n] = e], p.vstate # "OK",
         r.raw # <<>>, r.kind # "sign"
  PROVE  Tame(r, p)
<1>1. /\ DOMAIN p.raw = DOMAIN r.raw
      /\ \A i \in DOMAIN r.raw : p.raw[i] = IF i = n THEN e ELSE r.raw[i]
  OBVIOUS
<1>2. p.raw # <<>>
  BY <1>1
<1>3. Origin(r, p)
  BY <1>1 DEF Origin
<1>4. Record(p)
  BY <1>1, <1>2 DEF Record
<1>. QED
  BY <1>3, <1>4 DEF Tame

(* req_set_error *)
LEMMA TameError ==
  ASSUME NEW r, ReqOK(r), Record(r), NEW code \in {"ERR", "EIGNORE"}
  PROVE  /\ Tame(r, WithError(r, code)) /\ WithError(r, code).error
         /\ WithError(r, code).vstate = code
         /\ WithError(r, code).kind = r.kind /\ WithError(r, code).raw = r.raw
<1>1. LET p == WithError(r, code)
      IN  /\ p.kind = r.kind /\ p.owner = r.owner /\ p.raw = r.raw /\ p.nodes = r.nodes
          /\ p.vstate = code /\ p.resp = r.resp /\ p.error
  BY DEF WithError, ReqOK, Request
<1>. QED
  BY <1>1, TameLike

(* A plugin answers the call. *)
LEMMA TameIntern ==
  ASSUME NEW r, ReqOK(r), Record(r), r.kind = "intern", r.raw = <<>>
  PROVE  LET p == [r EXCEPT !.raw = InternalAnswer]
         IN  Tame(r, p) /\ p.error = r.error /\ ~Accepted(p) /\ p.kind = "intern" /\ p.raw # <<>>
<1>. DEFINE p == [r EXCEPT !.raw = InternalAnswer]
<1>1. /\ p.kind = r.kind /\ p.owner = r.owner /\ p.nodes = <<>> /\ p.vstate = r.vstate
      /\ p.resp = r.resp /\ p.raw = InternalAnswer /\ p.error = r.error
  BY DEF ReqOK, Request
<1>2. /\ InternalAnswer # <<>> /\ DOMAIN InternalAnswer = {1}
      /\ InternalAnswer[1] = [state |-> "OK", data |-> "intern"]
  BY DEF InternalAnswer
<1>3. r.resp = "none" /\ r.vstate # "OK"
  BY DEF Record
<1>. HIDE DEF p
<1>4. Record(p) /\ Origin(r, p)
  BY <1>1, <1>2, <1>3 DEF Record, Origin
<1>. QED
  BY <1>1, <1>2, <1>3, <1>4 DEF Tame, Accepted, p

(* The nodes are picked. *)
LEMMA TameNodes ==
  ASSUME NEW r, ReqOK(r), Record(r), r.raw = <<>>, r.kind \in {"rpc", "nodeList"}, ~r.error,
         NEW ns, ns # <<>>
  PROVE  LET p == [r EXCEPT !.nodes = ns]
         IN  Tame(r, p) /\ Waits(p) /\ ~Accepted(p)
<1>. DEFINE p == [r EXCEPT !.nodes = ns]
<1>1. /\ p.kind = r.kind /\ p.owner = r.owner /\ p.nodes = ns /\ p.vstate = r.vstate
      /\ p.resp = r.resp /\ p.raw = r.raw /\ p.error = r.error
  BY DEF ReqOK, Request
<1>2. r.resp = "none" /\ r.vstate # "OK"
  BY DEF Record
<1>. HIDE DEF p
<1>. QED
  BY <1>1, <1>2, EmptySeq DEF Tame, Record, Origin, Waits, Accepted, p

(* The fields of a parsed response. *)
LEMMA ParsedFields ==
  ASSUME NEW r, ReqOK(r), NEW data
  PROVE  LET p == Parsed(r, data)
         IN  /\ p.kind = r.kind /\ p.owner = r.owner /\ p.raw = r.raw /\ p.nodes = r.nodes
             /\ p.resp = data /\ ~p.error /\ p.vstate \in {"OK", "WAITING"}
             /\ r.vstate # "OK" => p.vstate = "WAITING"
             /\ p.attempt = r.attempt /\ p.paid = r.paid
<1>1. LET q == CleanUp(r)
      IN  /\ q.kind = r.kind /\ q.owner = r.owner /\ q.raw = r.raw /\ q.nodes = r.nodes
          /\ q.error = FALSE /\ q.vstate = IF r.vstate = "OK" THEN "OK" ELSE "WAITING"
          /\ q.attempt = r.attempt /\ q.paid = r.paid
  BY DEF CleanUp, ReqOK, Request
<1>2. \A q : q = CleanUp(r) => LET p == [q EXCEPT !.resp = data, !.responses = "live"]
                              IN  /\ p.kind = q.kind /\ p.owner = q.owner /\ p.raw = q.raw /\ p.nodes = q.nodes
                                  /\ p.resp = data /\ p.error = q.error /\ p.vstate = q.vstate
                                  /\ p.attempt = q.attempt /\ p.paid = q.paid
  BY DEF CleanUp, ReqOK, Request
<1>. QED
  BY <1>1, <1>2 DEF Parsed

(* Overwriting fields of a parsed response. *)
LEMMA ParsedSet ==
  ASSUME NEW r, ReqOK(r), NEW data, NEW v, NEW e
  PROVE  LET p == [Parsed(r, data) EXCEPT !.vstate = v]
             q == [Parsed(r, data) EXCEPT !.vstate = v, !.error = e]
         IN  /\ p.kind = r.kind /\ p.owner = r.owner /\ p.raw = r.raw /\ p.nodes = r.nodes
             /\ p.resp = data /\ ~p.error /\ p.vstate = v
             /\ q.kind = r.kind /\ q.owner = r.owner /\ q.raw = r.raw /\ q.nodes = r.nodes
             /\ q.resp = data /\ q.error = e /\ q.vstate = v
BY DEF Parsed, CleanUp, ReqOK, Request

(* A response is accepted. *)
LEMMA TameAccept ==
  ASSUME NEW r, ReqOK(r), Record(r), NEW n \in DOMAIN r.raw, r.raw # <<>>, r.kind # "sign",
         r.raw[n].state = "OK", r.raw[n].data # "none", r.raw[n] \in Response,
         r.nodes # <<>> => r.raw[n].data \in Acceptable
  PROVE  LET p == [Parsed(r, r.raw[n].data) EXCEPT !.vstate = "OK"]
         IN  Tame(r, p) /\ Accepted(p) /\ p.kind = r.kind /\ p.raw = r.raw /\ p.resp = r.raw[n].data
<1>. DEFINE d == r.raw[n].data
            p == [Parsed(r, d) EXCEPT !.vstate = "OK"]
<1>1. /\ p.kind = r.kind /\ p.owner = r.owner /\ p.raw = r.raw /\ p.nodes = r.nodes
      /\ p.resp = d /\ ~p.error /\ p.vstate = "OK"
  BY ParsedSet
<1>2. r.raw[n] = [state |-> "OK", data |-> d]
  BY DEF Response
<1>3. r.nodes # <<>> => n \in DOMAIN r.nodes
  <2>1. r.raw \in Seq(Response) /\ r.nodes \in Seq(Nodes)
    BY DEF ReqOK, Request
  <2>2. r.nodes # <<>> => Len(r.raw) = Len(r.nodes)
    BY DEF ReqOK, RawFits
  <2>. QED
    BY <2>1, <2>2, LenProperties
<1>. HIDE DEF p
<1>4. Record(p)
  BY <1>1, <1>2, <1>3 DEF Record
<1>. QED
  BY <1>1, <1>4 DEF Tame, Origin, Accepted, p

(* A response fails verification. *)
LEMMA TameRejected ==
  ASSUME NEW r, ReqOK(r), Record(r), NEW n \in DOMAIN r.raw, r.raw # <<>>, r.kind # "sign",
         r.raw[n].state = "OK", Doubtful(r.raw[n]), NEW data, NEW msg \in BOOLEAN
  PROVE  LET p == Rejected(r, n, data, msg)
         IN  /\ Tame(r, p) /\ p.vstate = "ERR" /\ p.kind = r.kind
             /\ DOMAIN p.raw = DOMAIN r.raw /\ p.raw # <<>>
             /\ \A i \in DOMAIN r.raw : p.raw[i] = r.raw[i] \/ (i = n /\ p.raw[i].state = "ERR")
<1>. DEFINE q == [Parsed(r, data) EXCEPT !.vstate = "ERR", !.error = msg]
            e == [state |-> "ERR", data |-> "msg"]
            p == [q EXCEPT !.raw[n] = e]
<1>1. /\ q.kind = r.kind /\ q.owner = r.owner /\ q.raw = r.raw /\ q.nodes = r.nodes
      /\ q.resp = data /\ q.vstate = "ERR"
  BY ParsedSet
<1>2. /\ p.kind = q.kind /\ p.owner = q.owner /\ p.nodes = q.nodes /\ p.vstate = q.vstate
      /\ p.raw = [q.raw EXCEPT ![n] = e]
  BY DEF Parsed, CleanUp, ReqOK, Request
<1>3. Tame(r, q)
  <2>. HIDE DEF q
  <2>. QED
    BY <1>1, TameLike
<1>4. Tame(r, p)
  <2>1. e.data \in {"none", "msg"} /\ e.state # "WAITING"
    OBVIOUS
  <2>. HIDE DEF p, q, e
  <2>. QED
    BY <1>1, <1>2, <2>1, TamePut
<1>5. Rejected(r, n, data, msg) = IF msg THEN p ELSE q
  BY DEF Rejected
<1>6. CASE msg
  <2>. HIDE DEF p, q
  <2>. QED
    BY <1>1, <1>2, <1>4, <1>5, <1>6
<1>7. CASE ~msg
  <2>. HIDE DEF p, q
  <2>. QED
    BY <1>1, <1>3, <1>5, <1>7
<1>. QED
  BY <1>6, <1>7

(* What a response that can not be parsed leaves of the fields. *)
LEMMA UnparsedFields ==
  ASSUME NEW r \in Request, NEW u \in Unparsed(r)
  PROVE  /\ u \in Request /\ u.kind = r.kind /\ u.owner = r.owner /\ u.raw = r.raw /\ u.nodes = r.nodes
         /\ u.attempt = r.attempt
<1>. DEFINE k == CleanUp(r)
<1>1. /\ k \in Request /\ k.kind = r.kind /\ k.owner = r.owner /\ k.raw = r.raw /\ k.nodes = r.nodes
      /\ k.attempt = r.attempt
  BY DEF CleanUp, Request, RetCodes
<1>. HIDE DEF k
<1>2. PICK d \in {"none", "garbage"}, a \in {"null", "live", "freed"} :
        u = [k EXCEPT !.resp = d] \/ u = [k EXCEPT !.resp = d, !.responses = a]
  BY DEF Unparsed, Parsed, k
<1>. QED
  BY <1>1, <1>2 DEF Request, Data, AllAnswers

-----------------------------------------------------------------------------
(* The walk *)

(* Only a plugin of the user's request asks for a signature. *)
LEMMA NoSignBehind ==
  ASSUME ChainOK, Shape, NEW i \in 1..Len(chain), req[chain[i]].kind # "intern"
  PROVE  \A j \in Behind(i) : req[chain[j]].kind # "sign"
<1>. SUFFICES ASSUME NEW j \in Behind(i), req[chain[j]].kind = "sign"
              PROVE  FALSE
  OBVIOUS
<1>1. Len(chain) \in Nat /\ j \in 2..Len(chain) /\ i < j /\ i \in Nat
  BY ChainSeq DEF Behind
<1>2. OwnerOK(j)
  BY <1>1 DEF Shape
<1>3. j = 2 /\ RootKind = "intern"
  BY <1>2 DEF OwnerOK
<1>. QED
  BY <1>1, <1>3 DEF RootKind

(* Contexts that are settled have failed or are accepted. *)
LEMMA SettledBehind ==
  ASSUME ChainOK, Shape, NEW i \in 1..Len(chain), req[chain[i]].kind # "intern",
         \A j \in Behind(i) : Settled(req[chain[j]])
  PROVE  Failed(Behind(i)) \/ \A j \in Behind(i) : Accepted(req[chain[j]])
BY NoSignBehind DEF Settled, Done, Failed

(* An accepted context is neither failed nor waiting. *)
LEMMA AcceptedRecord ==
  ASSUME NEW r, Record(r), Accepted(r)
  PROVE  ~r.error /\ ~Waits(r) /\ r.raw # <<>> /\ r.resp # "none" /\ r.vstate = "OK" /\ Done(r) /\ r.kind # "sign"
BY DEF Record, Accepted, Waits, Done

(* If everything from cur on is accepted, in3_req_execute gets no other       *)
(* return value.                                                              *)
LEMMA AcceptedReturns ==
  ASSUME ChainOK, Records, ExecOK, cur \in 1..Len(chain), ret \in RetCodes,
         \A j \in cur..Len(chain) : Accepted(req[chain[j]])
  PROVE  ret = "OK" /\ ~req[chain[cur]].error
<1>1. \A j \in cur..Len(chain) : j \in 1..Len(chain) /\ chain[j] \in Ctx
  BY ChainSeq
<1>2. \A j \in cur..Len(chain) : ~req[chain[j]].error /\ ~Waits(req[chain[j]])
  BY <1>1, AcceptedRecord DEF Records
<1>3. cur \in cur..Len(chain) /\ (\A j \in Behind(cur) : j \in cur..Len(chain))
      /\ (cur < Len(chain) => cur + 1 \in cur..Len(chain))
  BY ChainSeq DEF Behind
<1>. QED
  BY <1>2, <1>3 DEF ExecOK, Failed, LastWaits, RetCodes

(* Behind an accepted call in front of cur everything is accepted. *)
LEMMA AcceptedInFront ==
  ASSUME ChainOK, AcceptedDeep, pc \in {"exec", "verify"}, cur \in 1..Len(chain),
         NEW i \in 1..Len(chain), Accepted(req[chain[i]]), req[chain[i]].kind # "intern",
         i < cur \/ (i = cur /\ pc = "exec")
  PROVE  \A j \in Behind(i) : Accepted(req[chain[j]])
<1>1. AcceptedAt(i) /\ ~(cur < i) /\ ~(pc = "verify" /\ cur = i)
  BY ChainSeq DEF AcceptedDeep
<1>. QED
  BY <1>1 DEF AcceptedAt

(* The parts of the invariant in the next state, written out. *)
LEMMA ExecNext ==
  ASSUME pc' = "exec",
         \A i \in 1..(cur' - 1) : ~req'[chain'[i]].error,
         req'[chain'[cur']].error => ret' = "OK" /\ fresh' = {},
         ret' = "OK" => \/ req'[chain'[cur']].error
                        \/ \A j \in (cur' + 1)..Len(chain') : Settled(req'[chain'[j]]),
         ret' \in {"ERR", "EIGNORE"} =>
           /\ cur' < Len(chain') /\ req'[chain'[cur' + 1]].error
           /\ fresh' # {} => \A j \in (cur' + 1)..Len(chain') : Settled(req'[chain'[j]]),
         ret' = "WAITING" =>
           \/ \E j \in (cur' + 1)..Len(chain') : req'[chain'[j]].error
           \/ \E m \in (cur' + 1)..Len(chain') :
                /\ Waits(req'[chain'[m]])
                /\ \A j \in (cur' + 1)..Len(chain') : j > m => Accepted(req'[chain'[j]])
  PROVE  WalkOK'
BY DEF WalkOK, ExecOK, AllSettled, Behind, Failed, LastWaits

(* How find_valid_result is in order in the next state. *)
LEMMA VerifyNext ==
  ASSUME pc' = "verify",
         \A i \in 1..(cur' - 1) : ~req'[chain'[i]].error,
         \A j \in (cur' + 1)..Len(chain') : Settled(req'[chain'[j]]),
         req'[chain'[cur']].kind # "sign" /\ req'[chain'[cur']].raw # <<>>,
         loop'.state = "OK" => Accepted(req'[chain'[cur']]),
         loop'.state = "ERR" => req'[chain'[cur']].vstate # "OK"
  PROVE  WalkOK'
BY DEF WalkOK, VerifyOK, AllSettled, Behind

(* How the end of the walk is in order in the next state. *)
LEMMA DispatchNext ==
  ASSUME pc' = "dispatch",
         \/ \E j \in 1..Len(chain') : req'[chain'[j]].error
         \/ \A j \in 1..Len(chain') : Done(req'[chain'[j]])
         \/ \E m \in 1..Len(chain') :
              /\ Waits(req'[chain'[m]])
              /\ \A j \in 1..Len(chain') : j > m => Accepted(req'[chain'[j]])
  PROVE  WalkOK'
BY DEF WalkOK, DispatchOK, Failed, LastWaits

(* How the loop over the responses is in order in the next state. *)
LEMMA LookedNext ==
  ASSUME pc' = "verify" => Looked(loop', req'[chain'[cur']]),
         \A k \in fresh' : req'[chain'[k]].raw # <<>> =>
           Looked(loop', req'[chain'[k]]) /\ NeedsNow(loop', req'[chain'[k]])
  PROVE  LoopOK'
BY DEF LoopOK

(* How what is behind an accepted call is in order in the next state. *)
LEMMA AcceptedNext ==
  ASSUME \A i \in 1..Len(chain') :
           Accepted(req'[chain'[i]]) /\ req'[chain'[i]].kind # "intern" =>
             \/ \A j \in (i + 1)..Len(chain') : Accepted(req'[chain'[j]])
             \/ pc' = "verify" /\ cur' = i
             \/ /\ pc' \in {"exec", "verify"} => cur' < i
                /\ \E j \in (i + 1)..Len(chain') : req'[chain'[j]].error
  PROVE  AcceptedDeep'
BY DEF AcceptedDeep, AcceptedAt, Behind, Failed

(* How the calls behind accepted answers are in order in the next state. *)
LEMMA BackedNext ==
  ASSUME \A i \in 1..Len(chain') :
           Accepted(req'[chain'[i]]) /\ req'[chain'[i]].kind = "rpc" /\ req'[chain'[i]].resp = "needs" =>
             \E j \in (i + 1)..Len(chain') :
               /\ req'[chain'[j]].kind = "rpc" /\ req'[chain'[j]].owner = chain'[i]
               /\ \/ req'[chain'[j]].error
                  \/ req'[chain'[j]].resp \notin {"user", "pay"} /\ Accepted(req'[chain'[j]])
  PROVE  Backed'
BY DEF Backed, BackedAt, SubsOf, NoResult

(* A context returns to the one in front of it. *)
LEMMA ReturnWalk ==
  ASSUME IInv, DataInv, WalkInv, pc \in {"exec", "verify"}, NEW r, NEW v,
         SetReq(chain[cur], r), Tame(req[chain[cur]], r), Return(v), chain' = chain,
         Accepted(r) => r = req[chain[cur]],
         (\A j \in cur..Len(chain) : Accepted(req[chain[j]])) => r = req[chain[cur]],
         \/ v = "OK" /\ Done(r) /\ AllSettled
         \/ v \in {"ERR", "EIGNORE"} /\ r.error /\ (fresh # {} => AllSettled)
         \/ v = "WAITING" /\ pc = "exec" /\ ret = "WAITING" /\ r = req[chain[cur]]
         \/ v = "WAITING" /\ Waits(r) /\ AllSettled
  PROVE  WalkInv'
<1>. USE DEF IInv
<1>. DEFINE n == Len(chain)
            old(i) == req[chain[i]]
            new(i) == req'[chain'[i]]
<1>1. /\ n \in Nat /\ cur \in 1..n /\ cur \in Nat /\ Len(chain') = n
      /\ new(cur) = r /\ \A i \in 1..n : i # cur => new(i) = old(i)
      /\ \A i \in 1..n : chain[i] \in Ctx
  BY ChainSeq, SetPositions DEF ControlOK, DataInv
<1>2. /\ \A i \in 1..n : Record(old(i))
      /\ \A i \in 1..n : new(i).kind = old(i).kind /\ new(i).owner = old(i).owner
  BY <1>1 DEF DataInv, Records, Tame
<1>3. /\ pc = "exec" => ExecOK
      /\ pc = "verify" => VerifyOK
      /\ LoopOK /\ AcceptedDeep /\ Backed
      /\ \A i \in 1..(cur - 1) : ~old(i).error
  BY DEF WalkInv, WalkOK, ExecOK, VerifyOK
<1>4. ASSUME v = "OK" PROVE \A j \in cur..n : Settled(new(j))
  <2>1. Done(r) /\ AllSettled
    BY <1>4
  <2>2. \A j \in cur..n : j = cur \/ (j \in Behind(cur) /\ j \in 1..n /\ j # cur)
    BY <1>1 DEF Behind
  <2>. QED
    BY <1>1, <2>1, <2>2 DEF AllSettled, Settled
<1>5. ASSUME v = "WAITING"
      PROVE  \/ \E j \in cur..n : new(j).error
             \/ \E m \in cur..n : Waits(new(m)) /\ \A j \in cur..n : j > m => Accepted(new(j))
  <2>1. (\A j \in Behind(cur) : j \in cur..n /\ j \in 1..n /\ j # cur /\ j > cur)
        /\ (\A j \in cur..n : j > cur => j \in Behind(cur)) /\ cur \in cur..n
    BY <1>1 DEF Behind
  <2>2. CASE pc = "exec" /\ ret = "WAITING"
    <3>1. Failed(Behind(cur)) \/ LastWaits(Behind(cur))
      BY <1>3, <2>2 DEF ExecOK
    <3>2. CASE Failed(Behind(cur))
      <4>1. PICK j \in Behind(cur) : old(j).error
        BY <3>2 DEF Failed
      <4>. QED
        BY <1>1, <2>1, <4>1
    <3>3. CASE LastWaits(Behind(cur))
      <4>1. PICK m \in Behind(cur) : Waits(old(m)) /\ \A j \in Behind(cur) : j > m => Accepted(old(j))
        BY <3>3 DEF LastWaits
      <4>2. \A j \in cur..n : j > m => j \in Behind(cur)
        BY <1>1, <2>1, <4>1 DEF Behind
      <4>. QED
        BY <1>1, <2>1, <4>1, <4>2
    <3>. QED
      BY <3>1, <3>2, <3>3
  <2>3. CASE Waits(r) /\ AllSettled
    <3>1. old(cur).kind # "intern"
      BY <1>1, <1>2, <2>3 DEF Waits
    <3>2. Failed(Behind(cur)) \/ \A j \in Behind(cur) : Accepted(old(j))
      BY <1>1, <2>3, <3>1, SettledBehind DEF AllSettled, DataInv
    <3>. QED
      BY <1>1, <2>1, <2>3, <3>2 DEF Failed
  <2>. QED
    BY <1>5, <2>2, <2>3
<1>6. v \in {"ERR", "EIGNORE"} => r.error /\ (fresh # {} => AllSettled)
  OBVIOUS
<1>7. v \in {"OK", "ERR", "EIGNORE", "WAITING"}
  OBVIOUS
<1>8. WalkOK'
  <2>1. CASE cur = 1
    <3>1. pc' = "dispatch"
      BY <2>1 DEF Return
    <3>2. \/ \E j \in 1..n : new(j).error
          \/ \A j \in 1..n : Done(new(j))
          \/ \E m \in 1..n : Waits(new(m)) /\ \A j \in 1..n : j > m => Accepted(new(j))
      <4>1. CASE v = "OK"
        BY <1>1, <1>4, <2>1, <4>1 DEF Settled
      <4>2. CASE v \in {"ERR", "EIGNORE"}
        BY <1>1, <1>6, <2>1, <4>2
      <4>3. CASE v = "WAITING"
        BY <1>1, <1>5, <2>1, <4>3
      <4>. QED
        BY <1>7, <4>1, <4>2, <4>3
    <3>. QED
      BY <1>1, <3>1, <3>2, DispatchNext
  <2>2. CASE cur # 1
    <3>1. pc' = "exec" /\ cur' = cur - 1 /\ ret' = v /\ fresh' = fresh \ {cur}
      BY <2>2 DEF Return
    <3>2. /\ cur - 1 \in 1..(cur - 1) /\ cur - 1 \in 1..n /\ cur - 1 # cur
          /\ \A i \in 1..(cur - 1 - 1) : i \in 1..(cur - 1) /\ i \in 1..n /\ i # cur
          /\ cur' < n /\ cur' + 1 = cur
      BY <1>1, <2>2, <3>1
    <3>3. (\A i \in 1..(cur' - 1) : ~new(i).error) /\ ~new(cur').error
      BY <1>1, <1>3, <3>1, <3>2
    <3>4. (cur' + 1)..Len(chain') = cur..n
      BY <1>1, <3>1, <3>2
    <3>6. v \in {"ERR", "EIGNORE"} =>
            new(cur' + 1).error /\ (fresh' # {} => \A j \in cur..n : Settled(new(j)))
      <4>1. ASSUME v \in {"ERR", "EIGNORE"}, fresh' # {}
            PROVE  \A j \in cur..n : Settled(new(j))
        <5>1. r.error /\ AllSettled
          BY <1>6, <3>1, <4>1
        <5>2. \A j \in cur..n : j = cur \/ (j \in Behind(cur) /\ j \in 1..n /\ j # cur)
          BY <1>1 DEF Behind
        <5>. QED
          BY <1>1, <5>1, <5>2 DEF AllSettled, Settled
      <4>. QED
        BY <1>1, <1>6, <3>2, <4>1
    <3>. QED
      BY <1>1, <1>4, <1>5, <3>1, <3>2, <3>3, <3>4, <3>6, ExecNext
  <2>. QED
    BY <2>1, <2>2
<1>9. LoopOK'
  <2>1. CASE cur = 1
    <3>1. pc' = "dispatch" /\ fresh' = {}
      BY <2>1 DEF Return
    <3>. QED
      BY <3>1, LookedNext
  <2>2. CASE cur # 1
    <3>1. pc' = "exec" /\ fresh' = fresh \ {cur} /\ loop' = loop
      BY <2>2 DEF Return
    <3>2. ASSUME NEW k \in fresh, k # cur
          PROVE  new(k) = old(k)
      <4>1. k \in 1..cur
        BY DEF ControlOK, StackOK
      <4>. QED
        BY <1>1, <3>2, <4>1
    <3>3. \A k \in fresh' : new(k).raw # <<>> => Looked(loop', new(k)) /\ NeedsNow(loop', new(k))
      BY <1>3, <3>1, <3>2 DEF LoopOK
    <3>. QED
      BY <3>1, <3>3, LookedNext
  <2>. QED
    BY <2>1, <2>2
<1>10. ASSUME NEW i \in 1..n, i < cur, Accepted(old(i)), old(i).kind # "intern"
       PROVE  r = old(cur)
  <2>1. \A j \in Behind(i) : Accepted(old(j))
    BY <1>1, <1>3, <1>10, AcceptedInFront
  <2>2. \A j \in cur..n : j \in Behind(i)
    BY <1>1, <1>10 DEF Behind
  <2>. QED
    BY <2>1, <2>2
<1>11. pc' \in {"exec", "dispatch"} /\ (pc' = "exec" => cur' = cur - 1)
  BY DEF Return
<1>12. AcceptedDeep'
  <2>. SUFFICES ASSUME NEW i \in 1..n, Accepted(new(i)), new(i).kind # "intern"
                PROVE  \/ \A j \in Behind(i) : Accepted(new(j))
                       \/ (pc' = "exec" => cur' < i) /\ \E j \in Behind(i) : new(j).error
    BY <1>1, <1>11, AcceptedNext DEF Behind
  <2>1. \A j \in Behind(i) : j \in 1..n /\ j > i
    BY <1>1 DEF Behind
  <2>2. CASE i < cur
    <3>1. Accepted(old(i)) /\ old(i).kind # "intern"
      BY <1>1, <2>2
    <3>2. \A j \in Behind(i) : new(j) = old(j)
      BY <1>1, <1>10, <2>1, <2>2, <3>1
    <3>3. \A j \in Behind(i) : Accepted(old(j))
      BY <1>1, <1>3, <2>2, <3>1, AcceptedInFront
    <3>. QED
      BY <3>2, <3>3
  <2>3. CASE i = cur
    <3>1. \A j \in Behind(i) : new(j) = old(j)
      BY <1>1, <2>1, <2>3
    <3>2. Accepted(r) /\ r = old(cur) /\ old(cur).kind # "intern"
      BY <1>1, <2>3
    <3>3. ~r.error /\ ~Waits(r)
      BY <1>1, <1>2, <3>2, AcceptedRecord
    <3>4. CASE v = "OK"
      <4>1. Failed(Behind(cur)) \/ \A j \in Behind(cur) : Accepted(old(j))
        <5>1. \A j \in Behind(cur) : Settled(old(j))
          BY <3>4 DEF AllSettled
        <5>. QED
          BY <1>1, <3>2, <5>1, SettledBehind DEF DataInv
      <4>. QED
        BY <1>1, <1>11, <2>3, <3>1, <4>1 DEF Failed
    <3>5. CASE v # "OK"
      <4>1. pc = "exec" /\ ret = "WAITING"
        BY <3>3, <3>5
      <4>2. \A j \in Behind(cur) : Accepted(old(j))
        BY <1>1, <1>3, <3>2, <4>1, AcceptedInFront
      <4>3. \A j \in cur..n : Accepted(old(j))
        BY <1>1, <3>2, <4>2 DEF Behind
      <4>4. ret = "OK"
        BY <1>1, <1>3, <4>1, <4>3, AcceptedReturns DEF DataInv, ControlOK
      <4>. QED
        BY <4>1, <4>4
    <3>. QED
      BY <3>4, <3>5
  <2>4. CASE i > cur
    <3>1. (\A j \in Behind(i) : new(j) = old(j)) /\ new(i) = old(i)
      BY <1>1, <2>1, <2>4
    <3>2. AcceptedAt(i)
      BY <1>1, <1>3 DEF AcceptedDeep
    <3>3. cur # i /\ (pc' = "exec" => cur' < i)
      BY <1>1, <1>11, <2>4
    <3>. QED
      BY <3>1, <3>2, <3>3 DEF AcceptedAt, Failed
  <2>. QED
    BY <1>1, <2>2, <2>3, <2>4
<1>13. Backed'
  <2>. SUFFICES ASSUME NEW i \in 1..n, Accepted(new(i)), new(i).kind = "rpc", new(i).resp = "needs"
                PROVE  \E j \in (i + 1)..n :
                         /\ new(j).kind = "rpc" /\ new(j).owner = chain[i]
                         /\ \/ new(j).error
                            \/ new(j).resp \notin {"user", "pay"} /\ Accepted(new(j))
    BY <1>1, BackedNext
  <2>1. new(i) = old(i)
    BY <1>1
  <2>2. PICK j \in SubsOf(i, {"rpc"}) : old(j).error \/ (~NoResult(chain[j]) /\ Accepted(old(j)))
    BY <1>3, <2>1 DEF Backed, BackedAt
  <2>3. j \in 1..n /\ i < j /\ j \in (i + 1)..n /\ old(j).kind = "rpc" /\ old(j).owner = chain[i]
    BY <1>1 DEF SubsOf
  <2>4. new(j) = old(j)
    <3>1. CASE j = cur
      BY <1>1, <1>10, <2>1, <2>3, <3>1
    <3>2. CASE j # cur
      BY <1>1, <2>3, <3>2
    <3>. QED
      BY <3>1, <3>2
  <2>. QED
    BY <2>2, <2>3, <2>4 DEF NoResult
<1>. QED
  BY <1>8, <1>9, <1>12, <1>13 DEF WalkInv

(* in3_req_execute or find_valid_result goes on with the same context. *)
LEMMA StayWalk ==
  ASSUME IInv, DataInv, WalkInv, pc \in {"exec", "verify"}, NEW r,
         SetReq(chain[cur], r), Tame(req[chain[cur]], r), chain' = chain, cur' = cur,
         AllSettled,
         \/ pc' = "exec" /\ ret' = "OK" /\ ~r.error /\ ~Accepted(r)
         \/ /\ pc' = "verify" /\ r.kind # "sign" /\ r.raw # <<>>
            /\ loop'.state = "OK" => Accepted(r)
            /\ loop'.state = "ERR" => r.vstate # "OK"
            /\ Looked(loop', r),
         fresh' = {} \/ (fresh' = fresh /\ loop' = loop /\ cur \notin fresh),
         Accepted(req[chain[cur]]) => r = req[chain[cur]],
         Accepted(r) /\ r.kind = "rpc" /\ r.resp = "needs" =>
           \E j \in SubsOf(cur, {"rpc"}) :
             req[chain[j]].error \/ (~NoResult(chain[j]) /\ Accepted(req[chain[j]]))
  PROVE  WalkInv'
<1>. USE DEF IInv
<1>. DEFINE n == Len(chain)
            old(i) == req[chain[i]]
            new(i) == req'[chain'[i]]
<1>1. /\ n \in Nat /\ cur \in 1..n /\ cur \in Nat /\ Len(chain') = n
      /\ new(cur) = r /\ \A i \in 1..n : i # cur => new(i) = old(i)
      /\ \A i \in 1..n : chain[i] \in Ctx
  BY ChainSeq, SetPositions DEF ControlOK, DataInv
<1>2. /\ \A i \in 1..n : Record(old(i))
      /\ \A i \in 1..n : new(i).kind = old(i).kind /\ new(i).owner = old(i).owner
  BY <1>1 DEF DataInv, Records, Tame
<1>3. /\ LoopOK /\ AcceptedDeep /\ Backed
      /\ \A i \in 1..(cur - 1) : ~old(i).error
  BY DEF WalkInv, WalkOK, ExecOK, VerifyOK
<1>4. (\A i \in 1..(cur' - 1) : ~new(i).error) /\ new(cur') = r
  <2>1. cur' = cur /\ \A i \in 1..(cur - 1) : i \in 1..n /\ i # cur
    BY <1>1
  <2>. QED
    BY <1>1, <1>3, <2>1
<1>5. \A j \in (cur' + 1)..Len(chain') : Settled(new(j))
  <2>1. \A j \in (cur' + 1)..Len(chain') : j \in Behind(cur) /\ j \in 1..n /\ j # cur
    BY <1>1 DEF Behind
  <2>. QED
    BY <1>1, <2>1 DEF AllSettled
<1>6. WalkOK'
  <2>1. CASE pc' = "exec" /\ ret' = "OK" /\ ~r.error
    BY <1>4, <1>5, <2>1, ExecNext
  <2>2. CASE /\ pc' = "verify" /\ r.kind # "sign" /\ r.raw # <<>>
             /\ loop'.state = "OK" => Accepted(r)
             /\ loop'.state = "ERR" => r.vstate # "OK"
    BY <1>4, <1>5, <2>2, VerifyNext
  <2>. QED
    BY <2>1, <2>2
<1>7. LoopOK'
  <2>1. pc' = "verify" => Looked(loop', new(cur'))
    BY <1>4
  <2>2. ASSUME NEW k \in fresh'
        PROVE  new(k).raw # <<>> => Looked(loop', new(k)) /\ NeedsNow(loop', new(k))
    <3>1. fresh' = fresh /\ loop' = loop /\ k # cur /\ k \in fresh
      BY <2>2
    <3>2. k \in 1..cur
      BY <3>1 DEF ControlOK, StackOK
    <3>3. new(k) = old(k)
      BY <1>1, <3>1, <3>2
    <3>. QED
      BY <1>3, <3>1, <3>3 DEF LoopOK
  <2>. QED
    BY <2>1, <2>2, LookedNext
<1>8. ASSUME NEW i \in 1..n, i < cur, Accepted(old(i)), old(i).kind # "intern"
      PROVE  (\A j \in Behind(i) : Accepted(old(j))) /\ r = old(cur)
  <2>1. \A j \in Behind(i) : Accepted(old(j))
    BY <1>1, <1>3, <1>8, AcceptedInFront
  <2>2. cur \in Behind(i)
    BY <1>1, <1>8 DEF Behind
  <2>. QED
    BY <2>1, <2>2
<1>9. AcceptedDeep'
  <2>. SUFFICES ASSUME NEW i \in 1..n, Accepted(new(i)), new(i).kind # "intern"
                PROVE  \/ \A j \in Behind(i) : Accepted(new(j))
                       \/ pc' = "verify" /\ cur = i
                       \/ cur < i /\ \E j \in Behind(i) : new(j).error
    BY <1>1, AcceptedNext DEF Behind
  <2>1. \A j \in Behind(i) : j \in 1..n /\ j > i
    BY <1>1 DEF Behind
  <2>2. CASE i < cur
    <3>1. Accepted(old(i)) /\ old(i).kind # "intern"
      BY <1>1, <2>2
    <3>2. \A j \in Behind(i) : new(j) = old(j)
      BY <1>1, <1>8, <2>1, <2>2, <3>1
    <3>. QED
      BY <1>8, <2>2, <3>1, <3>2
  <2>3. CASE i = cur
    BY <1>1, <2>3
  <2>4. CASE i > cur
    <3>1. (\A j \in Behind(i) : new(j) = old(j)) /\ new(i) = old(i) /\ cur # i /\ cur < i
      BY <1>1, <2>1, <2>4
    <3>2. AcceptedAt(i)
      BY <1>3 DEF AcceptedDeep
    <3>. QED
      BY <3>1, <3>2 DEF AcceptedAt, Failed
  <2>. QED
    BY <1>1, <2>2, <2>3, <2>4
<1>10. Backed'
  <2>. SUFFICES ASSUME NEW i \in 1..n, Accepted(new(i)), new(i).kind = "rpc", new(i).resp = "needs"
                PROVE  \E j \in (i + 1)..n :
                         /\ new(j).kind = "rpc" /\ new(j).owner = chain[i]
                         /\ \/ new(j).error
                            \/ new(j).resp \notin {"user", "pay"} /\ Accepted(new(j))
    BY <1>1, BackedNext
  <2>1. PICK j \in SubsOf(i, {"rpc"}) : old(j).error \/ (~NoResult(chain[j]) /\ Accepted(old(j)))
    <3>1. CASE i = cur
      BY <1>1, <3>1
    <3>2. CASE i # cur
      BY <1>1, <1>3, <3>2 DEF Backed, BackedAt
    <3>. QED
      BY <3>1, <3>2
  <2>2. j \in 1..n /\ i < j /\ j \in (i + 1)..n /\ old(j).kind = "rpc" /\ old(j).owner = chain[i]
    BY <1>1 DEF SubsOf
  <2>3. new(j) = old(j)
    <3>1. CASE j = cur
      BY <1>1, <1>8, <2>2, <3>1
    <3>2. CASE j # cur
      BY <1>1, <2>2, <3>2
    <3>. QED
      BY <3>1, <3>2
  <2>. QED
    BY <2>1, <2>2, <2>3 DEF NoResult
<1>. QED
  BY <1>6, <1>7, <1>9, <1>10 DEF WalkInv

(* A context starts over and its required context, which has failed, first. *)
LEMMA AgainWalk ==
  ASSUME IInv, DataInv, WalkInv, pc = "verify", NEW r,
         SetReq(chain[cur], r), Tame(req[chain[cur]], r), chain' = chain,
         cur < Len(chain), req[chain[cur + 1]].error, cur' = cur + 1,
         pc' = "exec", ret' = "OK", fresh' = {},
         ~r.error, ~Accepted(r), ~Accepted(req[chain[cur]])
  PROVE  WalkInv'
<1>. USE DEF IInv
<1>. DEFINE n == Len(chain)
            old(i) == req[chain[i]]
            new(i) == req'[chain'[i]]
<1>1. /\ n \in Nat /\ cur \in 1..n /\ cur \in Nat /\ Len(chain') = n
      /\ new(cur) = r /\ \A i \in 1..n : i # cur => new(i) = old(i)
      /\ \A i \in 1..n : chain[i] \in Ctx
  BY ChainSeq, SetPositions DEF ControlOK, DataInv
<1>2. /\ \A i \in 1..n : Record(old(i))
      /\ \A i \in 1..n : new(i).kind = old(i).kind /\ new(i).owner = old(i).owner
  BY <1>1 DEF DataInv, Records, Tame
<1>3. /\ AcceptedDeep /\ Backed
      /\ \A i \in 1..(cur - 1) : ~old(i).error
  BY DEF WalkInv, WalkOK, VerifyOK
<1>4. cur + 1 \in 1..n /\ new(cur + 1) = old(cur + 1) /\ new(cur + 1).error
  BY <1>1
<1>5. ~Accepted(new(cur + 1))
  BY <1>2, <1>4 DEF Record, Accepted
<1>6. WalkOK'
  <2>1. \A i \in 1..(cur' - 1) : i \in 1..n /\ (i = cur \/ i \in 1..(cur - 1))
    BY <1>1
  <2>2. \A i \in 1..(cur' - 1) : ~new(i).error
    BY <1>1, <1>3, <2>1
  <2>. QED
    BY <1>4, <2>2, ExecNext
<1>7. LoopOK'
  BY LookedNext
<1>8. ASSUME NEW i \in 1..n, i <= cur + 1, Accepted(new(i)), new(i).kind # "intern"
      PROVE  FALSE
  <2>1. i < cur
    BY <1>1, <1>5, <1>8
  <2>2. Accepted(old(i)) /\ old(i).kind # "intern"
    BY <1>1, <1>8, <2>1
  <2>3. \A j \in Behind(i) : Accepted(old(j))
    BY <1>1, <1>3, <2>1, <2>2, AcceptedInFront
  <2>4. cur \in Behind(i)
    BY <1>1, <2>1 DEF Behind
  <2>. QED
    BY <2>3, <2>4
<1>9. ASSUME NEW i \in 1..n, i > cur
      PROVE  new(i) = old(i) /\ \A j \in Behind(i) : j \in 1..n /\ j > cur /\ new(j) = old(j)
  BY <1>1, <1>9 DEF Behind
<1>10. AcceptedDeep'
  <2>. SUFFICES ASSUME NEW i \in 1..n, Accepted(new(i)), new(i).kind # "intern"
                PROVE  \/ \A j \in Behind(i) : Accepted(new(j))
                       \/ cur' < i /\ \E j \in Behind(i) : new(j).error
    BY <1>1, AcceptedNext DEF Behind
  <2>1. i > cur + 1
    BY <1>1, <1>8
  <2>2. (\A j \in Behind(i) : new(j) = old(j)) /\ new(i) = old(i) /\ cur # i
    BY <1>1, <1>9, <2>1
  <2>3. AcceptedAt(i)
    BY <1>3 DEF AcceptedDeep
  <2>. QED
    BY <1>1, <2>1, <2>2, <2>3 DEF AcceptedAt, Failed
<1>11. Backed'
  <2>. SUFFICES ASSUME NEW i \in 1..n, Accepted(new(i)), new(i).kind = "rpc", new(i).resp = "needs"
                PROVE  \E j \in (i + 1)..n :
                         /\ new(j).kind = "rpc" /\ new(j).owner = chain[i]
                         /\ \/ new(j).error
                            \/ new(j).resp \notin {"user", "pay"} /\ Accepted(new(j))
    BY <1>1, BackedNext
  <2>1. i > cur + 1
    BY <1>1, <1>8
  <2>2. new(i) = old(i) /\ \A j \in Behind(i) : new(j) = old(j)
    BY <1>1, <1>9, <2>1
  <2>3. PICK j \in SubsOf(i, {"rpc"}) : old(j).error \/ (~NoResult(chain[j]) /\ Accepted(old(j)))
    BY <1>3, <2>2 DEF Backed, BackedAt
  <2>4. j \in Behind(i) /\ j \in (i + 1)..n /\ old(j).kind = "rpc" /\ old(j).owner = chain[i]
    BY DEF SubsOf, Behind
  <2>. QED
    BY <2>2, <2>3, <2>4 DEF NoResult
<1>. QED
  BY <1>6, <1>7, <1>10, <1>11 DEF WalkInv

(* An answer that needs another call belongs to the first context, or to the  *)
(* one its plugin has added.                                                  *)
LEMMA NeedsInFront ==
  ASSUME ChainOK, Records, NeedsOK, NEW i \in 1..Len(chain),
         Accepted(req[chain[i]]), req[chain[i]].kind = "rpc", req[chain[i]].resp = "needs",
         RawFits(req[chain[i]]), req[chain[i]] \in Request
  PROVE  i = 1 \/ (i = 2 /\ RootKind = "intern")
<1>. DEFINE r == req[chain[i]]
<1>1. Record(r)
  BY ChainSeq DEF Records
<1>2. PICK n \in DOMAIN r.nodes : r.raw[n] = [state |-> "OK", data |-> r.resp]
  BY <1>1 DEF Record, Accepted
<1>3. r.raw # <<>> /\ r.nodes \in Seq(Nodes) /\ r.raw \in Seq(Response)
  BY <1>1, AcceptedRecord DEF Request
<1>4. r.nodes # <<>>
  BY <1>1, <1>3 DEF Record
<1>5. Len(r.raw) = Len(r.nodes)
  BY <1>3, <1>4 DEF RawFits
<1>6. n \in DOMAIN r.raw
  BY <1>2, <1>3, <1>5, LenProperties
<1>. QED
  BY <1>2, <1>6 DEF NeedsOK

(* The contexts from j on are freed, cur goes on. *)
LEMMA RemoveFromWalk ==
  ASSUME IInv, DataInv, WalkInv, pc = "exec", NEW j \in (cur + 1)..Len(chain), RemoveFrom(j),
         pc' = "exec", cur' = cur, ret' = "OK", fresh' = fresh, loop' = loop,
         \A i \in (cur + 1)..(j - 1) : Settled(req[chain[i]]),
         ~req[chain[cur]].error,
         req[chain[cur]].kind # "intern" \/ j = cur + 1,
         ~(\A l \in cur..Len(chain) : Accepted(req[chain[l]]))
  PROVE  WalkInv'
<1>. USE DEF IInv
<1>. DEFINE n == Len(chain)
            old(i) == req[chain[i]]
            new(i) == req'[chain'[i]]
<1>1. /\ n \in Nat /\ cur \in 1..n /\ cur \in Nat /\ j \in 2..(n + 1) /\ j \in Nat
      /\ \A i \in 1..n : chain[i] \in Ctx
  <2>1. n \in Nat /\ cur \in 1..n /\ \A i \in 1..n : chain[i] \in Ctx
    BY ChainSeq DEF ControlOK
  <2>. QED
    BY <2>1
<1>2. /\ Len(chain') = j - 1
      /\ \A i \in 1..(j - 1) : chain'[i] = chain[i] /\ new(i) = old(i)
  BY <1>1, RemoveFromPositions DEF DataInv
<1>3. /\ LoopOK /\ AcceptedDeep /\ Backed
      /\ \A i \in 1..(cur - 1) : ~old(i).error
  BY DEF WalkInv, WalkOK, ExecOK
<1>4. cur \in 1..(j - 1) /\ (\A i \in 1..(j - 1) : i \in 1..n) /\ \A i \in 1..(cur - 1) : i \in 1..(j - 1)
  BY <1>1
<1>5. WalkOK'
  <2>1. \A i \in 1..(cur' - 1) : ~new(i).error
    BY <1>2, <1>3, <1>4
  <2>2. \A i \in (cur' + 1)..Len(chain') : Settled(new(i))
    <3>1. \A i \in (cur' + 1)..Len(chain') : i \in (cur + 1)..(j - 1) /\ i \in 1..(j - 1)
      BY <1>1, <1>2
    <3>. QED
      BY <1>2, <3>1
  <2>3. ~new(cur').error
    BY <1>2, <1>4
  <2>. QED
    BY <2>1, <2>2, <2>3, ExecNext
<1>6. LoopOK'
  <2>1. ASSUME NEW k \in fresh'
        PROVE  new(k).raw # <<>> => Looked(loop', new(k)) /\ NeedsNow(loop', new(k))
    <3>1. k \in 1..cur /\ k \in fresh
      BY DEF ControlOK, StackOK
    <3>2. k \in 1..(j - 1)
      BY <1>1, <3>1
    <3>3. new(k) = old(k)
      BY <1>2, <3>2
    <3>. QED
      BY <1>3, <3>1, <3>3 DEF LoopOK
  <2>. QED
    BY <2>1, LookedNext
<1>7. ASSUME NEW i \in 1..n, i <= cur, Accepted(old(i)), old(i).kind # "intern"
      PROVE  FALSE
  <2>0. i < cur \/ (i = cur /\ pc = "exec")
    BY <1>1, <1>7
  <2>1. \A l \in Behind(i) : Accepted(old(l))
    BY <1>1, <1>3, <1>7, <2>0, AcceptedInFront
  <2>2. \A l \in cur..n : l \in Behind(i) \/ l = i
    BY <1>1, <1>7 DEF Behind
  <2>. QED
    BY <1>7, <2>1, <2>2
<1>8. AcceptedDeep'
  <2>. SUFFICES ASSUME NEW i \in 1..(j - 1), Accepted(old(i)), old(i).kind # "intern"
                PROVE  \/ \A l \in (i + 1)..(j - 1) : Accepted(new(l))
                       \/ cur < i /\ \E l \in (i + 1)..(j - 1) : new(l).error
    BY <1>2, AcceptedNext
  <2>0. i \in 1..n /\ i \in Nat
    BY <1>1, <1>4
  <2>1. i \in 1..n /\ cur < i /\ i \in Nat
    BY <1>1, <1>7, <2>0
  <2>2. \A l \in (i + 1)..(j - 1) : l \in (cur + 1)..(j - 1) /\ l \in 1..(j - 1) /\ l \in Behind(i)
    BY <1>1, <2>1 DEF Behind
  <2>3. \A l \in (i + 1)..(j - 1) : new(l) = old(l) /\ Settled(old(l)) /\ old(l).kind # "sign"
    BY <1>2, <2>1, <2>2, NoSignBehind DEF DataInv
  <2>. QED
    BY <2>1, <2>3 DEF Settled, Done
<1>9. Backed'
  <2>. SUFFICES ASSUME NEW i \in 1..(j - 1), Accepted(old(i)), old(i).kind = "rpc", old(i).resp = "needs"
                PROVE  FALSE
    BY <1>2, BackedNext
  <2>0. i \in 1..n /\ i \in Nat
    BY <1>1, <1>4
  <2>1. i \in 1..n /\ cur < i
    BY <1>1, <1>7, <2>0
  <2>2. i = 1 \/ (i = 2 /\ RootKind = "intern")
    BY <1>1, <2>1, NeedsInFront DEF DataInv, DataOK, ReqOK
  <2>3. cur = 1 /\ RootKind = "intern" /\ j # cur + 1
    BY <1>1, <2>1, <2>2
  <2>. QED
    BY <2>3 DEF RootKind
<1>. QED
  BY <1>5, <1>6, <1>8, <1>9 DEF WalkInv

(* The contexts behind cur that are left when the one at j is freed. *)
LEMMA RemoveOneAt ==
  ASSUME IInv, DataInv, cur \in 1..Len(chain), NEW j \in (cur + 1)..Len(chain), RemoveOne(j),
         NEW r, req'[chain[cur]] = r,
         \A i \in 1..Len(chain) : i # cur /\ i # j => req'[chain[i]] = req[chain[i]]
  PROVE  /\ Len(chain') = Len(chain) - 1
         /\ \A i \in 1..cur : chain'[i] = chain[i]
         /\ req'[chain'[cur]] = r
         /\ \A i \in 1..(cur - 1) : req'[chain'[i]] = req[chain[i]]
         /\ \A i \in (cur + 1)..(Len(chain) - 1) :
              LET a == IF i < j THEN i ELSE i + 1
              IN  a \in (cur + 1)..Len(chain) /\ chain'[i] = chain[a] /\ req'[chain'[i]] = req[chain[a]]
<1>. USE DEF IInv
<1>. DEFINE n == Len(chain)
<1>1. n \in Nat /\ cur \in Nat /\ j \in Nat /\ j \in 1..n
  <2>1. n \in Nat
    BY ChainSeq
  <2>. QED
    BY <2>1
<1>2. /\ Len(chain') = n - 1
      /\ \A i \in 1..(j - 1) : chain'[i] = chain[i]
      /\ \A i \in (j + 1)..n : chain'[i - 1] = chain[i]
  BY <1>1, RemoveOnePositions DEF RemoveOne
<1>3. \A i \in 1..cur : i \in 1..(j - 1) /\ i \in 1..n /\ i # j
  BY <1>1
<1>4. \A i \in 1..cur : chain'[i] = chain[i]
  BY <1>2, <1>3
<1>5. \A i \in 1..(cur - 1) : i \in 1..cur /\ i # cur
  BY <1>1
<1>6. cur \in 1..cur
  BY <1>1
<1>7. ASSUME NEW i \in (cur + 1)..(n - 1)
      PROVE  LET a == IF i < j THEN i ELSE i + 1
             IN  a \in (cur + 1)..n /\ chain'[i] = chain[a] /\ req'[chain'[i]] = req[chain[a]]
  <2>1. CASE i < j
    <3>1. i \in 1..(j - 1) /\ i \in 1..n /\ i # cur /\ i # j /\ i \in (cur + 1)..n
      BY <1>1, <2>1
    <3>. QED
      BY <1>2, <2>1, <3>1
  <2>2. CASE ~(i < j)
    <3>1. i + 1 \in (j + 1)..n /\ i + 1 \in 1..n /\ i + 1 # cur /\ i + 1 # j /\ (i + 1) - 1 = i
          /\ i + 1 \in (cur + 1)..n
      BY <1>1, <2>2
    <3>2. chain'[i] = chain[i + 1]
      BY <1>2, <3>1
    <3>. QED
      BY <2>2, <3>1, <3>2
  <2>. QED
    BY <2>1, <2>2
<1>. QED
  BY <1>2, <1>3, <1>4, <1>5, <1>6, <1>7

(* A sub request that was answered is freed, cur goes on. *)
LEMMA RemoveOneWalk ==
  ASSUME IInv, DataInv, WalkInv, pc \in {"exec", "verify"}, pc' = pc,
         NEW j \in (cur + 1)..Len(chain), RemoveOne(j),
         NEW r, req'[chain[cur]] = r,
         \A i \in 1..Len(chain) : i # cur /\ i # j => req'[chain[i]] = req[chain[i]],
         RootKind = "intern" => cur # 1 \/ Len(chain) = 2,
         cur' = cur, AllSettled, ~Accepted(req[chain[cur]]), ~Accepted(r),
         \/ pc' = "exec" /\ ret' = "OK" /\ ~r.error
         \/ /\ pc' = "verify" /\ r.kind # "sign" /\ r.raw # <<>>
            /\ loop'.state = "ERR" /\ r.vstate # "OK" /\ Looked(loop', r),
         fresh' = {} \/ (fresh' = fresh /\ loop' = loop /\ cur \notin fresh)
  PROVE  WalkInv'
<1>. USE DEF IInv
<1>. DEFINE n == Len(chain)
            old(i) == req[chain[i]]
            new(i) == req'[chain'[i]]
            at(i) == IF i < j THEN i ELSE i + 1
<1>1. n \in Nat /\ cur \in 1..n /\ cur \in Nat /\ j \in Nat /\ j \in 1..n
  <2>1. n \in Nat /\ cur \in 1..n
    BY ChainSeq DEF ControlOK
  <2>. QED
    BY <2>1
<1>2. /\ Len(chain') = n - 1
      /\ \A i \in 1..cur : chain'[i] = chain[i]
      /\ new(cur) = r
      /\ \A i \in 1..(cur - 1) : new(i) = old(i)
      /\ \A i \in (cur + 1)..(n - 1) : at(i) \in (cur + 1)..n /\ chain'[i] = chain[at(i)] /\ new(i) = old(at(i))
  BY <1>1, RemoveOneAt
<1>3. /\ LoopOK /\ AcceptedDeep
      /\ \A i \in 1..(cur - 1) : ~old(i).error
  BY DEF WalkInv, WalkOK, ExecOK, VerifyOK
<1>4. \A i \in (cur' + 1)..Len(chain') : Settled(new(i))
  BY <1>1, <1>2 DEF AllSettled, Behind
<1>5. WalkOK'
  <2>1. \A i \in 1..(cur' - 1) : ~new(i).error
    BY <1>2, <1>3
  <2>2. CASE pc' = "exec" /\ ret' = "OK" /\ ~r.error
    BY <1>2, <1>4, <2>1, <2>2, ExecNext
  <2>3. CASE pc' = "verify" /\ r.kind # "sign" /\ r.raw # <<>> /\ loop'.state = "ERR" /\ r.vstate # "OK"
    BY <1>2, <1>4, <2>1, <2>3, VerifyNext
  <2>. QED
    BY <2>2, <2>3
<1>6. LoopOK'
  <2>1. pc' = "verify" => Looked(loop', new(cur'))
    BY <1>2
  <2>2. ASSUME NEW k \in fresh'
        PROVE  new(k).raw # <<>> => Looked(loop', new(k)) /\ NeedsNow(loop', new(k))
    <3>1. fresh' = fresh /\ loop' = loop /\ k # cur /\ k \in fresh
      BY <2>2
    <3>2. k \in 1..cur
      BY <3>1 DEF ControlOK, StackOK
    <3>3. k \in 1..(cur - 1)
      BY <1>1, <3>1, <3>2
    <3>4. new(k) = old(k)
      BY <1>2, <3>3
    <3>. QED
      BY <1>3, <3>1, <3>4 DEF LoopOK
  <2>. QED
    BY <2>1, <2>2, LookedNext
<1>7. ASSUME NEW i \in 1..(n - 1), Accepted(new(i)), new(i).kind # "intern"
      PROVE  i \in (cur + 1)..(n - 1)
  <2>1. i # cur
    BY <1>2, <1>7
  <2>2. ASSUME i < cur PROVE FALSE
    <3>1. i \in 1..(cur - 1) /\ i \in 1..n /\ cur \in Behind(i)
      BY <1>1, <2>2 DEF Behind
    <3>2. Accepted(old(i)) /\ old(i).kind # "intern"
      BY <1>2, <1>7, <3>1
    <3>3. \A l \in Behind(i) : Accepted(old(l))
      BY <1>1, <1>3, <2>2, <3>1, <3>2, AcceptedInFront
    <3>. QED
      BY <3>1, <3>3
  <2>. QED
    BY <1>1, <2>1, <2>2
<1>8. AcceptedDeep'
  <2>. SUFFICES ASSUME NEW i \in 1..(n - 1), Accepted(new(i)), new(i).kind # "intern"
                PROVE  \/ \A l \in (i + 1)..(n - 1) : Accepted(new(l))
                       \/ cur < i /\ \E l \in (i + 1)..(n - 1) : new(l).error
    BY <1>2, AcceptedNext
  <2>1. i \in (cur + 1)..(n - 1) /\ i \in Nat /\ cur < i
    BY <1>1, <1>7
  <2>0. at(i) \in (cur + 1)..n /\ new(i) = old(at(i))
    BY <1>2, <2>1
  <2>2. at(i) \in 1..n /\ old(at(i)).kind # "intern"
    <3>1. \A x \in (cur + 1)..n : x \in 1..n
      BY <1>1
    <3>. QED
      BY <2>0, <3>1
  <2>3. ASSUME NEW l \in (i + 1)..(n - 1)
        PROVE  Settled(new(l)) /\ new(l).kind # "sign"
    <3>1. l \in (cur + 1)..(n - 1) /\ at(l) \in Behind(at(i))
      BY <1>1, <2>1 DEF Behind
    <3>2. new(l) = old(at(l))
      BY <1>2, <3>1
    <3>3. old(at(l)).kind # "sign"
      BY <2>2, <3>1, NoSignBehind DEF DataInv
    <3>4. l \in (cur' + 1)..Len(chain')
      BY <1>2, <3>1
    <3>. QED
      BY <1>4, <3>2, <3>3, <3>4
  <2>. QED
    BY <2>1, <2>3 DEF Settled, Done
<1>9. Backed'
  <2>. SUFFICES ASSUME NEW i \in 1..(n - 1), Accepted(new(i)), new(i).kind = "rpc", new(i).resp = "needs"
                PROVE  FALSE
    BY <1>2, BackedNext
  <2>1. i \in (cur + 1)..(n - 1) /\ i \in Nat
    BY <1>1, <1>7
  <2>0. at(i) \in (cur + 1)..n /\ new(i) = old(at(i))
    BY <1>2, <2>1
  <2>2. at(i) \in (cur + 1)..n /\ new(i) = old(at(i)) /\ at(i) \in 1..n
    <3>1. \A x \in (cur + 1)..n : x \in 1..n
      BY <1>1
    <3>. QED
      BY <2>0, <3>1
  <2>3. at(i) = 1 \/ (at(i) = 2 /\ RootKind = "intern")
    <3>1. chain[at(i)] \in Ctx
      BY <2>2, ChainSeq
    <3>. QED
      BY <2>2, <3>1, NeedsInFront DEF DataInv, DataOK, ReqOK
  <2>4. cur = 1 /\ RootKind = "intern" /\ n # 2
    BY <1>1, <2>1, <2>2, <2>3
  <2>. QED
    BY <2>4
<1>. QED
  BY <1>5, <1>6, <1>8, <1>9 DEF WalkInv

(* A sub request is added behind cur and executed. *)
LEMMA AddWalk ==
  ASSUME IInv, DataInv, WalkInv, pc \in {"exec", "verify"},
         NEW kind, NEW r, AddRequired(kind, r), loop' = loop,
         RootKind = "intern" /\ cur = 1 => Len(chain) = 1,
         AllSettled, ~r.error, ~Accepted(r), ~Accepted(req[chain[cur]]),
         r.raw # <<>> => Looked(loop, r) /\ NeedsNow(loop, r)
  PROVE  WalkInv'
<1>. USE DEF IInv
<1>. DEFINE n == Len(chain)
            old(i) == req[chain[i]]
            new(i) == req'[chain'[i]]
            q == NewReq(kind, chain[cur])
<1>1. n \in Nat /\ cur \in 1..n /\ cur \in Nat
  BY ChainSeq DEF ControlOK
<1>2. /\ pc' = "exec" /\ cur' = cur + 1 /\ ret' = "OK" /\ fresh' = fresh \cup {cur}
  BY DEF AddRequired
<1>3. PICK d \in Ctx :
        /\ Len(chain') = n + 1
        /\ chain'[cur + 1] = d /\ req'[d] = q
        /\ req'[chain[cur]] = r
        /\ \A i \in 1..Len(chain') : i # cur + 1 =>
             /\ Before(cur, i) \in 1..n
             /\ chain'[i] = chain[Before(cur, i)] /\ chain'[i] # d
             /\ i # cur => req'[chain'[i]] = req[chain[Before(cur, i)]]
  BY <1>1, AddPositions DEF DataInv
<1>. HIDE DEF q
<1>4. /\ new(cur + 1) = q
      /\ new(cur) = r
      /\ \A i \in 1..(cur - 1) : new(i) = old(i)
      /\ \A i \in (cur + 2)..(n + 1) : i - 1 \in (cur + 1)..n /\ new(i) = old(i - 1)
  <2>1. new(cur) = r
    <3>1. cur \in 1..Len(chain') /\ cur # cur + 1 /\ Before(cur, cur) = cur
      BY <1>1, <1>3 DEF Before
    <3>. QED
      BY <1>3, <3>1
  <2>2. ASSUME NEW i \in 1..(cur - 1) PROVE new(i) = old(i)
    <3>1. i \in 1..Len(chain') /\ i # cur + 1 /\ i # cur /\ Before(cur, i) = i
      BY <1>1, <1>3 DEF Before
    <3>. QED
      BY <1>3, <3>1
  <2>3. ASSUME NEW i \in (cur + 2)..(n + 1)
        PROVE  i - 1 \in (cur + 1)..n /\ new(i) = old(i - 1)
    <3>1. i \in 1..Len(chain') /\ i # cur + 1 /\ i # cur /\ Before(cur, i) = i - 1 /\ i - 1 \in (cur + 1)..n
      BY <1>1, <1>3 DEF Before
    <3>. QED
      BY <1>3, <3>1
  <2>. QED
    BY <1>3, <2>1, <2>2, <2>3
<1>5. /\ LoopOK /\ AcceptedDeep
      /\ \A i \in 1..(cur - 1) : ~old(i).error
  BY DEF WalkInv, WalkOK, ExecOK, VerifyOK
<1>6. ~q.error /\ ~Accepted(q) /\ q.raw = <<>>
  BY NewReqData DEF q, Accepted
<1>7. \A i \in (cur + 2)..(n + 1) : Settled(new(i))
  <2>1. \A i \in (cur + 2)..(n + 1) : i - 1 \in Behind(cur)
    BY <1>1 DEF Behind
  <2>. QED
    BY <1>4, <2>1 DEF AllSettled
<1>8. WalkOK'
  <2>1. \A i \in 1..(cur' - 1) : ~new(i).error
    <3>1. \A i \in 1..(cur' - 1) : i \in 1..(cur - 1) \/ i = cur
      BY <1>1, <1>2
    <3>. QED
      BY <1>4, <1>5, <3>1
  <2>2. ~new(cur').error
    BY <1>2, <1>4, <1>6
  <2>3. (cur' + 1)..Len(chain') = (cur + 2)..(n + 1)
    BY <1>1, <1>2, <1>3
  <2>. QED
    BY <1>2, <1>7, <2>1, <2>2, <2>3, ExecNext
<1>9. LoopOK'
  <2>1. ASSUME NEW k \in fresh'
        PROVE  new(k).raw # <<>> => Looked(loop', new(k)) /\ NeedsNow(loop', new(k))
    <3>1. CASE k = cur
      BY <1>4, <3>1
    <3>2. CASE k # cur
      <4>1. k \in fresh
        BY <1>2, <3>2
      <4>2. k \in 1..cur
        BY <4>1 DEF ControlOK, StackOK
      <4>3. k \in 1..(cur - 1)
        BY <1>1, <3>2, <4>2
      <4>4. new(k) = old(k)
        BY <1>4, <4>3
      <4>. QED
        BY <1>5, <4>1, <4>4 DEF LoopOK
    <3>. QED
      BY <3>1, <3>2
  <2>. QED
    BY <1>2, <2>1, LookedNext
<1>10. ASSUME NEW i \in 1..(n + 1), Accepted(new(i)), new(i).kind # "intern"
       PROVE  i \in (cur + 2)..(n + 1)
  <2>1. i # cur /\ i # cur + 1
    BY <1>4, <1>6, <1>10
  <2>2. ASSUME i < cur PROVE FALSE
    <3>1. i \in 1..(cur - 1) /\ i \in 1..n /\ cur \in Behind(i)
      BY <1>1, <2>2 DEF Behind
    <3>2. Accepted(old(i)) /\ old(i).kind # "intern"
      BY <1>4, <1>10, <3>1
    <3>3. \A l \in Behind(i) : Accepted(old(l))
      BY <1>1, <1>5, <2>2, <3>1, <3>2, AcceptedInFront
    <3>. QED
      BY <3>1, <3>3
  <2>. QED
    BY <1>1, <2>1, <2>2
<1>11. AcceptedDeep'
  <2>. SUFFICES ASSUME NEW i \in 1..(n + 1), Accepted(new(i)), new(i).kind # "intern"
                PROVE  \/ \A l \in (i + 1)..(n + 1) : Accepted(new(l))
                       \/ cur' < i /\ \E l \in (i + 1)..(n + 1) : new(l).error
    BY <1>3, AcceptedNext
  <2>1. i \in (cur + 2)..(n + 1) /\ cur' < i /\ i \in Nat
    BY <1>1, <1>2, <1>10
  <2>2. i - 1 \in 1..n /\ old(i - 1).kind # "intern"
    <3>1. i - 1 \in 1..n
      BY <1>1, <2>1
    <3>. QED
      BY <1>4, <2>1, <3>1
  <2>3. ASSUME NEW l \in (i + 1)..(n + 1)
        PROVE  Settled(new(l)) /\ new(l).kind # "sign"
    <3>1. l \in (cur + 2)..(n + 1) /\ l - 1 \in Behind(i - 1)
      BY <1>1, <2>1 DEF Behind
    <3>2. new(l) = old(l - 1)
      BY <1>4, <3>1
    <3>3. old(l - 1).kind # "sign"
      <4>1. \A x \in Behind(i - 1) : req[chain[x]].kind # "sign"
        BY <2>2, NoSignBehind DEF DataInv
      <4>. QED
        BY <3>1, <4>1
    <3>. QED
      BY <1>7, <3>1, <3>2, <3>3
  <2>. QED
    BY <2>1, <2>3 DEF Settled, Done
<1>12. Backed'
  <2>. SUFFICES ASSUME NEW i \in 1..(n + 1), Accepted(new(i)), new(i).kind = "rpc", new(i).resp = "needs"
                PROVE  FALSE
    BY <1>3, BackedNext
  <2>1. i \in (cur + 2)..(n + 1)
    BY <1>10
  <2>2. PICK a \in (cur + 1)..n : new(i) = old(a)
    BY <1>4, <2>1
  <2>3. a \in 1..n /\ a \in Nat /\ a # 1 /\ (a = 2 => cur = 1 /\ n # 1)
    <3>1. \A x, m \in Nat : \A y \in (x + 1)..m :
            x \in 1..m => y \in 1..m /\ y \in Nat /\ y # 1 /\ (y = 2 => x = 1 /\ m # 1)
      OBVIOUS
    <3>. HIDE DEF n
    <3>. QED
      BY <1>1, <3>1
  <2>4. a = 1 \/ (a = 2 /\ RootKind = "intern")
    <3>1. chain[a] \in Ctx
      BY <2>3, ChainSeq
    <3>. QED
      BY <2>2, <2>3, <3>1, NeedsInFront DEF DataInv, DataOK, ReqOK
  <2>5. cur = 1 /\ RootKind = "intern" /\ n # 1
    BY <2>3, <2>4
  <2>. QED
    BY <2>5
<1>. QED
  BY <1>8, <1>9, <1>11, <1>12 DEF WalkInv

-----------------------------------------------------------------------------
(* Between two walks *)

(* The state of a context that has what it needs, and of one that waits. *)
LEMMA LocalStates ==
  ASSUME NEW c, Record(req[c]), ReqOK(req[c])
  PROVE  /\ Done(req[c]) => LocalState(c) = "SUCCESS"
         /\ Waits(req[c]) => LocalState(c) \in {"TO_SEND", "FOR_RESPONSE"}
         /\ Waits(req[c]) /\ LocalState(c) = "FOR_RESPONSE" => Pending(c) # {}
         /\ Waits(req[c]) => req[c].resp = "none" /\ req[c].vstate # "OK" /\ ~Accepted(req[c]) /\ ~Done(req[c])
         /\ Accepted(req[c]) => Done(req[c]) /\ req[c].resp # "none"
<1>1. Done(req[c]) => LocalState(c) = "SUCCESS"
  <2>1. CASE req[c].kind = "sign" /\ req[c].raw # <<>>
    <3>1. 1 \in DOMAIN req[c].raw
      BY <2>1, EmptySeq, LenProperties DEF ReqOK, Request
    <3>. QED
      BY <2>1, <3>1 DEF LocalState, Record
  <2>2. CASE req[c].kind # "sign" /\ Accepted(req[c])
    BY <2>2, AcceptedRecord DEF LocalState
  <2>. QED
    BY <2>1, <2>2 DEF Done
<1>2. Waits(req[c]) => LocalState(c) \in {"TO_SEND", "FOR_RESPONSE"}
  <2>1. Waits(req[c]) => req[c].raw = <<>> \/ (req[c].kind # "sign" /\ req[c].resp = "none")
    BY DEF Waits
  <2>. QED
    BY <2>1 DEF LocalState
<1>3. Waits(req[c]) /\ LocalState(c) = "FOR_RESPONSE" => Pending(c) # {}
  BY DEF Waits, LocalState, Pending
<1>4. Waits(req[c]) => req[c].resp = "none" /\ req[c].vstate # "OK" /\ ~Accepted(req[c]) /\ ~Done(req[c])
  BY DEF Waits, Record, Accepted, Done
<1>5. Accepted(req[c]) => Done(req[c]) /\ req[c].resp # "none"
  BY AcceptedRecord
<1>. QED
  BY <1>1, <1>2, <1>3, <1>4, <1>5

(* The greatest member of a set of positions. *)
LEMMA Greatest ==
  ASSUME NEW S \in SUBSET Nat, NEW m \in S, \A j \in S : j <= m
  PROVE  (CHOOSE i \in S : \A j \in S : j <= i) = m
<1>. DEFINE x == CHOOSE i \in S : \A j \in S : j <= i
<1>1. x \in S /\ \A j \in S : j <= x
  OBVIOUS
<1>2. x \in Nat /\ m \in Nat /\ x <= m /\ m <= x
  BY <1>1
<1>. HIDE DEF x
<1>3. x = m
  BY <1>2
<1>. QED
  BY <1>3 DEF x

(* in3_req_state and in3_req_last_waiting agree about the deepest context     *)
(* that waits.                                                                *)
LEMMA StateOfWaiting ==
  ASSUME ChainOK, DataOK, Records, ~Failed(1..Len(chain)),
         NEW m \in 1..Len(chain), Waits(req[chain[m]]),
         \A j \in 1..Len(chain) : j > m => Accepted(req[chain[j]])
  PROVE  ReqState = LocalState(chain[m]) /\ LastWaiting = chain[m]
<1>. DEFINE n == Len(chain)
            w == {i \in DOMAIN chain : req[chain[i]].resp = "none"}
<1>1. n \in Nat /\ DOMAIN chain = 1..n /\ \A i \in 1..n : chain[i] \in Ctx
  BY ChainSeq
<1>2. \A i \in 1..n : Record(req[chain[i]]) /\ ReqOK(req[chain[i]])
  BY <1>1 DEF Records, DataOK
<1>3. /\ LocalState(chain[m]) # "SUCCESS" /\ req[chain[m]].resp = "none"
      /\ \A j \in 1..n : j > m => LocalState(chain[j]) = "SUCCESS" /\ req[chain[j]].resp # "none"
  BY <1>2, LocalStates
<1>4. Unfinished \in SUBSET Nat /\ m \in Unfinished /\ \A j \in Unfinished : j <= m
  BY <1>1, <1>3 DEF Unfinished
<1>5. w \in SUBSET Nat /\ m \in w /\ \A j \in w : j <= m
  BY <1>1, <1>3
<1>6. (CHOOSE i \in Unfinished : \A j \in Unfinished : j <= i) = m
  BY <1>4, Greatest
<1>7. (CHOOSE i \in w : \A j \in w : j <= i) = m
  <2>. HIDE DEF w
  <2>. QED
    BY <1>5, Greatest
<1>8. ~(\E i \in DOMAIN chain : req[chain[i]].error)
  BY <1>1 DEF Failed
<1>9. ReqState = LocalState(chain[m])
  BY <1>4, <1>6, <1>8 DEF ReqState
<1>10. LastWaiting = chain[m]
  <2>1. w # {}
    BY <1>5
  <2>. QED
    BY <1>7, <2>1, Zenon DEF LastWaiting
<1>. QED
  BY <1>9, <1>10

(* in3_req_state of a request all of whose contexts have what they need. *)
LEMMA StateOfDone ==
  ASSUME ChainOK, DataOK, Records
  PROVE  /\ Failed(1..Len(chain)) => ReqState = "ERROR"
         /\ ReqState = "ERROR" => Failed(1..Len(chain))
         /\ ~Failed(1..Len(chain)) /\ (\A j \in 1..Len(chain) : Done(req[chain[j]])) => ReqState = "SUCCESS"
<1>. DEFINE n == Len(chain)
<1>1. n \in Nat /\ DOMAIN chain = 1..n /\ \A i \in 1..n : chain[i] \in Ctx
  BY ChainSeq
<1>2. \A i \in 1..n : Record(req[chain[i]]) /\ ReqOK(req[chain[i]])
  BY <1>1 DEF Records, DataOK
<1>3. Failed(1..n) => ReqState = "ERROR"
  BY <1>1 DEF Failed, ReqState
<1>4. ASSUME ~Failed(1..n), \A j \in 1..n : Done(req[chain[j]])
      PROVE  ReqState = "SUCCESS"
  <2>1. Unfinished = {}
    BY <1>1, <1>2, <1>4, LocalStates DEF Unfinished
  <2>. QED
    BY <1>1, <1>4, <2>1 DEF ReqState, Failed
<1>5. ReqState = "ERROR" => Failed(1..n)
  BY <1>1 DEF ReqState, Failed, LocalState
<1>. QED
  BY <1>3, <1>4, <1>5

(* in3_send_req goes on with the deepest context that waits. *)
LEMMA WaitingAt ==
  ASSUME IInv, DataInv, WalkInv, pc = "dispatch", ReqState \notin {"ERROR", "SUCCESS"}
  PROVE  \E m \in 1..Len(chain) :
           /\ LastWaiting = chain[m] /\ ReqState = LocalState(chain[m])
           /\ Waits(req[chain[m]])
           /\ \A j \in 1..Len(chain) : j > m => Accepted(req[chain[j]])
           /\ ~Failed(1..Len(chain))
<1>. USE DEF IInv, DataInv
<1>1. ~Failed(1..Len(chain)) /\ ~(\A j \in 1..Len(chain) : Done(req[chain[j]]))
  BY StateOfDone
<1>2. DispatchOK
  BY DEF WalkInv, WalkOK
<1>3. PICK m \in 1..Len(chain) :
        Waits(req[chain[m]]) /\ \A j \in 1..Len(chain) : j > m => Accepted(req[chain[j]])
  BY <1>1, <1>2 DEF DispatchOK, LastWaits
<1>. QED
  BY <1>1, <1>3, StateOfWaiting

(* in3_send_req has sent or received something for the context at m and       *)
(* executes the chain again.                                                  *)
LEMMA EnterWalk ==
  ASSUME IInv, DataInv, WalkInv, pc = "dispatch", NEW m \in 1..Len(chain),
         Waits(req[chain[m]]), ~Failed(1..Len(chain)),
         NEW r, SetReq(chain[m], r), chain' = chain, loop' = loop, Enter,
         r.kind = req[chain[m]].kind, r.owner = req[chain[m]].owner, ~Accepted(r)
  PROVE  WalkInv'
<1>. USE DEF IInv, DataInv
<1>. DEFINE n == Len(chain)
            old(i) == req[chain[i]]
            new(i) == req'[chain'[i]]
            bad == {i \in DOMAIN chain : req'[chain[i]].error}
<1>1. n \in Nat /\ DOMAIN chain = 1..n /\ m \in Nat /\ \A i \in 1..n : chain[i] \in Ctx
  BY ChainSeq
<1>2. Len(chain') = n /\ new(m) = r /\ \A i \in 1..n : i # m => new(i) = old(i)
  BY SetPositions
<1>3. AcceptedDeep /\ Backed
  BY DEF WalkInv
<1>4. \A i \in 1..n : ~old(i).error
  BY DEF Failed
<1>5. ~Accepted(old(m))
  BY <1>1, LocalStates DEF Records, DataOK
<1>6. pc' = "exec" /\ ret' = "OK" /\ fresh' = {} /\ cur' = IF bad = {} THEN n ELSE FirstOf(bad)
  BY Zenon DEF Enter, Enters, EntryOf
<1>7. WalkOK'
  <2>1. CASE r.error
    <3>1. bad = {m}
      BY <1>1, <1>2, <1>4, <2>1
    <3>2. FirstOf({m}) = m
      <4>1. {m} \in SUBSET Nat /\ {m} # {}
        BY <1>1
      <4>2. FirstOf({m}) \in {m}
        BY <4>1, FirstOfIn, Zenon
      <4>. QED
        BY <4>2
    <3>3. cur' = m
      BY <1>6, <3>1, <3>2
    <3>4. \A i \in 1..(cur' - 1) : ~new(i).error
      BY <1>1, <1>2, <1>4, <3>3
    <3>5. new(cur').error
      BY <1>2, <2>1, <3>3
    <3>. QED
      BY <1>6, <3>4, <3>5, ExecNext
  <2>2. CASE ~r.error
    <3>1. bad = {}
      BY <1>1, <1>2, <1>4, <2>2
    <3>2. cur' = n
      BY <1>6, <3>1
    <3>3. \A i \in 1..n : ~new(i).error
      BY <1>2, <1>4, <2>2
    <3>4. /\ \A i \in 1..(cur' - 1) : i \in 1..n
          /\ \A i \in (cur' + 1)..Len(chain') : FALSE
          /\ cur' \in 1..n
      BY <1>1, <1>2, <3>2
    <3>. QED
      BY <1>6, <3>3, <3>4, ExecNext
  <2>. QED
    BY <2>1, <2>2
<1>8. LoopOK'
  BY <1>6, LookedNext
<1>9. ASSUME NEW i \in 1..n, Accepted(new(i)), new(i).kind # "intern"
      PROVE  i # m /\ new(i) = old(i) /\ \A j \in Behind(i) : Accepted(old(j)) /\ new(j) = old(j)
  <2>1. i # m /\ new(i) = old(i)
    BY <1>2, <1>9
  <2>2. ~Failed(Behind(i)) /\ \A j \in Behind(i) : j \in 1..n
    BY <1>1, <1>4 DEF Failed, Behind
  <2>3. \A j \in Behind(i) : Accepted(old(j))
    BY <1>3, <1>9, <2>1, <2>2 DEF AcceptedDeep, AcceptedAt
  <2>. QED
    BY <1>2, <1>5, <2>1, <2>2, <2>3
<1>10. AcceptedDeep'
  <2>1. \A i \in 1..n : Behind(i) = (i + 1)..Len(chain')
    BY <1>2 DEF Behind
  <2>. QED
    BY <1>2, <1>9, <2>1, AcceptedNext
<1>11. Backed'
  <2>. SUFFICES ASSUME NEW i \in 1..n, Accepted(new(i)), new(i).kind = "rpc", new(i).resp = "needs"
                PROVE  \E j \in (i + 1)..n :
                         /\ new(j).kind = "rpc" /\ new(j).owner = chain[i]
                         /\ \/ new(j).error
                            \/ new(j).resp \notin {"user", "pay"} /\ Accepted(new(j))
    BY <1>2, BackedNext
  <2>1. new(i) = old(i) /\ \A j \in Behind(i) : Accepted(old(j)) /\ new(j) = old(j)
    BY <1>9
  <2>2. PICK j \in SubsOf(i, {"rpc"}) : old(j).error \/ (~NoResult(chain[j]) /\ Accepted(old(j)))
    BY <1>3, <2>1 DEF Backed, BackedAt
  <2>3. j \in (i + 1)..n /\ old(j).kind = "rpc" /\ old(j).owner = chain[i]
    BY DEF SubsOf
  <2>. QED
    BY <2>1, <2>2, <2>3 DEF NoResult, Behind
<1>. QED
  BY <1>7, <1>8, <1>10, <1>11 DEF WalkInv

(* in3_send_req returns. *)
LEMMA FinishWalk ==
  ASSUME IInv, DataInv, WalkInv, Finish
  PROVE  WalkInv'
<1>. USE DEF IInv, DataInv
<1>1. pc = "dispatch" /\ pc' = "done" /\ UNCHANGED <<chain, req, cur, ret, fresh, loop>>
      /\ ReqState \in {"ERROR", "SUCCESS"}
  BY DEF Finish
<1>2. DispatchOK /\ LoopOK /\ AcceptedDeep /\ Backed
  BY <1>1 DEF WalkInv, WalkOK
<1>3. DoneOK
  <2>1. ASSUME ~Failed(1..Len(chain)), LastWaits(1..Len(chain)) PROVE FALSE
    <3>1. PICK m \in 1..Len(chain) :
            Waits(req[chain[m]]) /\ \A j \in 1..Len(chain) : j > m => Accepted(req[chain[j]])
      BY <2>1 DEF LastWaits
    <3>2. ReqState = LocalState(chain[m])
      BY <2>1, <3>1, StateOfWaiting
    <3>3. LocalState(chain[m]) \in {"TO_SEND", "FOR_RESPONSE"}
      BY <3>1, LocalStates, ChainSeq DEF Records, DataOK
    <3>. QED
      BY <1>1, <3>2, <3>3
  <2>. QED
    BY <1>2, <2>1 DEF DispatchOK, DoneOK
<1>4. WalkOK'
  BY <1>1, <1>3 DEF WalkOK, DoneOK, Failed
<1>5. fresh = {}
  BY <1>1 DEF ControlOK
<1>6. LoopOK'
  BY <1>1, <1>5, LookedNext
<1>7. AcceptedDeep'
  BY <1>1, <1>2 DEF AcceptedDeep, AcceptedAt, Behind, Failed
<1>8. Backed'
  BY <1>1, <1>2 DEF Backed, BackedAt, SubsOf, NoResult
<1>. QED
  BY <1>4, <1>6, <1>7, <1>8 DEF WalkInv

(* req_free and a chain without contexts. *)
LEMMA FreeWalk ==
  ASSUME IInv, DataInv, WalkInv, FreeRequest
  PROVE  WalkInv' /\ DataInv' /\ BlamedDeserveIt'
<1>. USE DEF IInv, DataInv
<1>1. /\ pc = "done" /\ pc' = "idle" /\ chain' = <<>> /\ req' = [c \in Ctx |-> Unused]
      /\ blamed' = {} /\ suspect' = {} /\ UNCHANGED <<cur, ret, fresh, loop, transports, open>>
  BY DEF FreeRequest
<1>2. Len(chain') = 0 /\ fresh = {} /\ open = 0
  BY <1>1 DEF ControlOK, ConnOK, ConnectionsAccounted
<1>3. WalkOK' /\ LoopOK' /\ AcceptedDeep' /\ Backed'
  <2>1. WalkOK'
    BY <1>1 DEF WalkOK
  <2>2. LoopOK'
    BY <1>1, <1>2, LookedNext
  <2>3. AcceptedDeep'
    BY <1>2 DEF AcceptedDeep
  <2>4. Backed'
    BY <1>2 DEF Backed
  <2>. QED
    BY <2>1, <2>2, <2>3, <2>4
<1>4. Shape'
  BY <1>1, <1>2 DEF Shape
<1>5. \A c \in Ctx : req'[c] = Unused
  BY <1>1
<1>6. Records' /\ AllSuspected'
  <2>1. Records'
    BY <1>5, UnusedData DEF Records
  <2>2. AllSuspected'
    BY <1>5, UnusedData, EmptySeq DEF AllSuspected, Suspected
  <2>. QED
    BY <2>1, <2>2
<1>7. NeedsOK'
  BY <1>2 DEF NeedsOK
<1>8. LiveOK'
  <2>1. \A x \in Ctx : req'[x].raw = <<>> /\ req'[x].kind = "rpc"
    BY <1>5, UnusedData
  <2>. QED
    BY <1>1, <2>1, LiveSame
<1>9. BlamedDeserveIt'
  BY <1>1 DEF BlamedDeserveIt
<1>. QED
  BY <1>3, <1>4, <1>6, <1>7, <1>8, <1>9 DEF WalkInv

(* req_new: the request of the user is the only context. *)
LEMMA NewWalk ==
  ASSUME IInv, DataInv, BlamedDeserveIt, NewRequest
  PROVE  WalkInv' /\ DataInv' /\ BlamedDeserveIt'
<1>. USE DEF IInv, DataInv
<1>1. PICK c \in Ctx, kind \in RootKinds, valid \in BOOLEAN :
        /\ chain' = <<c>>
        /\ SetReq(c, IF valid THEN NewReq(kind, NoCtx) ELSE WithError(NewReq(kind, NoCtx), "ERR"))
  BY Zenon DEF NewRequest
<1>. DEFINE r == IF valid THEN NewReq(kind, NoCtx) ELSE WithError(NewReq(kind, NoCtx), "ERR")
<1>2. /\ pc' = "exec" /\ cur' = 1 /\ ret' = "OK" /\ fresh' = {}
      /\ UNCHANGED <<loop, transports, open, blamed, suspect>> /\ pc = "idle"
  BY DEF NewRequest
<1>3. kind \in {"rpc", "intern", "direct"}
  BY RootAssumption
<1>4. /\ r.kind = kind /\ r.owner = NoCtx /\ r.raw = <<>> /\ r.nodes = <<>> /\ r.resp = "none"
      /\ r.vstate \in {"WAITING", "ERR"}
  BY DEF NewReq, WithError
<1>5. req' = [req EXCEPT ![c] = r] /\ chain' = <<c>>
  BY <1>1 DEF SetReq
<1>. HIDE DEF r
<1>6. /\ \A x \in Ctx : req'[x] = IF x = c THEN r ELSE req[x]
      /\ Len(chain') = 1 /\ chain'[1] = c /\ req'[chain'[1]] = r
  BY <1>5 DEF DataOK
<1>7. Record(r)
  BY <1>3, <1>4, EmptySeq DEF Record
<1>8. Shape'
  <2>1. \A i, j \in 1..Len(chain') : i = j
    BY <1>6
  <2>2. RootKind' = kind /\ (req[chain[1]].owner)' = NoCtx
    BY <1>4, <1>6 DEF RootKind
  <2>3. (\A i \in 2..Len(chain') : FALSE) /\ ~(Len(chain') > 1)
    BY <1>6
  <2>. QED
    BY <1>3, <2>1, <2>2, <2>3 DEF Shape
<1>9. Records'
  BY <1>6, <1>7 DEF Records
<1>10. NeedsOK'
  <2>1. \A i \in 1..Len(chain') : DOMAIN (req'[chain'[i]].raw) = {}
    BY <1>4, <1>6, EmptySeq
  <2>. QED
    BY <2>1 DEF NeedsOK
<1>11. AllSuspected'
  <2>1. Suspected(r)'
    BY <1>4, EmptySeq DEF Suspected
  <2>2. \A x \in Ctx : Suspected(req[x])
    BY DEF AllSuspected
  <2>3. ASSUME NEW x \in Ctx PROVE Suspected(req[x])'
    <3>1. CASE x = c
      BY <1>2, <1>6, <2>1, <3>1 DEF Suspected
    <3>2. CASE x # c
      BY <1>2, <1>6, <2>2, <3>2 DEF Suspected
    <3>. QED
      BY <3>1, <3>2
  <2>. QED
    BY <2>3 DEF AllSuspected
<1>12. LiveOK'
  <2>1. open = 0
    BY <1>2 DEF ConnOK, ConnectionsAccounted
  <2>2. \A i \in DOMAIN transports : transports[i].req = NoCtx
    <3>. DEFINE S == {i \in DOMAIN transports : transports[i].req # NoCtx}
    <3>1. IsFiniteSet(S)
      <4>1. DOMAIN transports = 1..Len(transports) /\ Len(transports) \in Nat
        BY LenProperties DEF ConnOK
      <4>2. IsFiniteSet(1..Len(transports))
        BY <4>1, FS_Interval
      <4>3. S \subseteq 1..Len(transports)
        BY <4>1
      <4>. QED
        BY <4>2, <4>3, FS_Subset
    <3>2. Cardinality(S) = 0
      BY <2>1 DEF ConnOK, ConnectionsAccounted
    <3>3. S = {}
      <4>. HIDE DEF S
      <4>. QED
        BY <3>1, <3>2, FS_EmptySet
    <3>. QED
      BY <3>3
  <2>3. \A i \in DOMAIN transports' : transports'[i].req = NoCtx
    BY <1>2, <2>2
  <2>. QED
    BY <2>3 DEF LiveOK, Live
<1>13. WalkOK'
  <2>1. (\A i \in 1..(cur' - 1) : FALSE) /\ (\A i \in (cur' + 1)..Len(chain') : FALSE)
    BY <1>2, <1>6
  <2>. QED
    BY <1>2, <2>1, ExecNext
<1>14. LoopOK'
  BY <1>2, LookedNext
<1>15. ~Accepted(r)
  BY <1>4 DEF Accepted
<1>16. \A i \in 1..Len(chain') : ~Accepted(req'[chain'[i]])
  BY <1>6, <1>15
<1>17. AcceptedDeep' /\ Backed'
  <2>1. AcceptedDeep'
    BY <1>16, AcceptedNext
  <2>2. Backed'
    BY <1>16, BackedNext
  <2>. QED
    BY <2>1, <2>2
<1>18. BlamedDeserveIt'
  BY <1>2 DEF BlamedDeserveIt
<1>. QED
  BY <1>8, <1>9, <1>10, <1>11, <1>12, <1>13, <1>14, <1>17, <1>18 DEF WalkInv

-----------------------------------------------------------------------------
(* in3_req_execute *)

(* What is known when in3_req_execute is called for c. *)
LEMMA AtExec ==
  ASSUME SInv, NEW c \in Ctx, Executing(c)
  PROVE  /\ c = chain[cur] /\ pc = "exec" /\ cur \in 1..Len(chain) /\ Len(chain) \in Nat
         /\ ReqOK(req[c]) /\ Record(req[c]) /\ ExecOK /\ ret \in RetCodes
         /\ ret = "OK" /\ ~req[c].error => AllSettled /\ cur \notin fresh
         /\ ret = "OK" /\ ~Quiet(req[c]) => fresh = {}
<1>. USE DEF SInv, IInv, Safe
<1>1. c = chain[cur] /\ pc = "exec"
  BY DEF Executing
<1>2. ExecOK
  BY <1>1 DEF WalkInv, WalkOK
<1>3. cur \in 1..Len(chain) /\ ret \in RetCodes
  BY <1>1 DEF ControlOK
<1>4. ret = "OK" => cur \notin fresh
  BY ExecutingFresh
<1>5. ret = "OK" /\ ~Quiet(req[c]) => fresh = {}
  BY ExecutingFresh
<1>. QED
  BY <1>1, <1>2, <1>3, <1>4, <1>5, ChainSeq DEF DataOK, DataInv, Records, ExecOK

(* A context without a response is not accepted. *)
LEMMA UnansweredRecord ==
  ASSUME NEW r, Record(r), r.raw = <<>>
  PROVE  ~Accepted(r) /\ r.resp = "none" /\ r.vstate # "OK"
BY DEF Record, Accepted

(* The context fails and returns its error. *)
LEMMA FailSafe ==
  ASSUME SInv, NEW c \in Ctx, Executing(c), ~req[c].error, NEW code \in {"ERR", "EIGNORE"},
         SetReq(c, WithError(req[c], code)), Return(code),
         UNCHANGED <<chain, transports, blamed, suspect>>,
         (ret = "OK" /\ ~Accepted(req[c])) \/ ret \in {"ERR", "EIGNORE"}
  PROVE  Safe'
<1>. USE DEF SInv, Safe
<1>. DEFINE r == WithError(req[c], code)
<1>1. /\ c = chain[cur] /\ pc = "exec" /\ cur \in 1..Len(chain) /\ Len(chain) \in Nat
      /\ ReqOK(req[c]) /\ Record(req[c]) /\ ExecOK /\ ret \in RetCodes
      /\ ret = "OK" => AllSettled
  BY AtExec
<1>2. Tame(req[c], r) /\ r.error /\ r.vstate = code
  BY <1>1, TameError
<1>3. ~Accepted(r)
  BY <1>2 DEF Accepted
<1>4. fresh # {} => AllSettled
  BY <1>1 DEF ExecOK
<1>5. ~(\A j \in cur..Len(chain) : Accepted(req[chain[j]]))
  <2>1. CASE ret = "OK"
    BY <1>1, <2>1
  <2>2. CASE ret # "OK"
    <3>1. ChainOK /\ Records
      BY DEF IInv, DataInv
    <3>. QED
      BY <1>1, <2>2, <3>1, AcceptedReturns
  <2>. QED
    BY <2>1, <2>2
<1>. HIDE DEF r
<1>6. SetReq(chain[cur], r) /\ Tame(req[chain[cur]], r)
  BY <1>1, <1>2 DEF r
<1>7. DataInv'
  BY <1>1, <1>6, TameSet
<1>8. WalkInv'
  BY <1>1, <1>2, <1>3, <1>4, <1>5, <1>6, ReturnWalk
<1>9. BlamedDeserveIt'
  BY DEF BlamedDeserveIt
<1>. QED
  BY <1>7, <1>8, <1>9

(* The context is as it was and returns. *)
LEMMA SameSafe ==
  ASSUME SInv, pc \in {"exec", "verify"}, NEW v, req' = req, Return(v),
         UNCHANGED <<chain, transports, blamed, suspect>>,
         \/ v = "OK" /\ Done(req[chain[cur]]) /\ AllSettled
         \/ v \in {"ERR", "EIGNORE"} /\ req[chain[cur]].error /\ (fresh # {} => AllSettled)
         \/ v = "WAITING" /\ pc = "exec" /\ ret = "WAITING"
         \/ v = "WAITING" /\ Waits(req[chain[cur]]) /\ AllSettled
  PROVE  Safe'
<1>. USE DEF SInv, Safe
<1>1. chain[cur] \in Ctx /\ cur \in 1..Len(chain)
  BY ChainSeq DEF IInv, ControlOK
<1>2. SetReq(chain[cur], req[chain[cur]])
  BY <1>1, SameReq DEF IInv
<1>3. Tame(req[chain[cur]], req[chain[cur]])
  BY <1>1, TameSame DEF DataInv, Records
<1>4. DataInv'
  BY <1>1, <1>2, <1>3, TameSet
<1>5. WalkInv'
  BY <1>2, <1>3, ReturnWalk
<1>6. BlamedDeserveIt'
  BY DEF BlamedDeserveIt
<1>. QED
  BY <1>4, <1>5, <1>6

(* A plugin answers the call of the context. *)
LEMMA AnswerSafe ==
  ASSUME SInv, NEW c \in Ctx, Unanswered(c), req[c].kind = "intern",
         SetReq(c, [req[c] EXCEPT !.raw = InternalAnswer]),
         UNCHANGED <<chain, pc, cur, ret, fresh, loop, transports, blamed, suspect>>
  PROVE  Safe'
<1>. USE DEF SInv, Safe
<1>. DEFINE r == [req[c] EXCEPT !.raw = InternalAnswer]
<1>1. Executing(c) /\ ~req[c].error /\ ret = "OK" /\ req[c].raw = <<>>
  BY DEF Unanswered, Body
<1>2. /\ c = chain[cur] /\ pc = "exec" /\ cur \in 1..Len(chain)
      /\ ReqOK(req[c]) /\ Record(req[c]) /\ AllSettled /\ cur \notin fresh
  BY <1>1, AtExec
<1>3. Tame(req[c], r) /\ r.error = req[c].error /\ ~Accepted(r) /\ ~Accepted(req[c])
  BY <1>1, <1>2, TameIntern, UnansweredRecord
<1>. HIDE DEF r
<1>4. SetReq(chain[cur], r) /\ Tame(req[chain[cur]], r)
  BY <1>2, <1>3 DEF r
<1>5. DataInv'
  BY <1>2, <1>4, TameSet
<1>6. WalkInv'
  BY <1>1, <1>2, <1>3, <1>4, StayWalk
<1>7. BlamedDeserveIt'
  BY DEF BlamedDeserveIt
<1>. QED
  BY <1>5, <1>6, <1>7

(* A request handled by a plugin is the request of the user; all its contexts *)
(* belong to one sub request of it.                                           *)
LEMMA InternIsRoot ==
  ASSUME SInv, cur \in 1..Len(chain), req[chain[cur]].kind = "intern"
  PROVE  /\ cur = 1 /\ RootKind = "intern"
         /\ SubsOf(cur, Kinds) = {} => Len(chain) = 1
         /\ \A j \in SubsOf(cur, {"sign"}) : j = 2 /\ Len(chain) = 2
<1>. USE DEF SInv, IInv, Safe, DataInv
<1>1. Len(chain) \in Nat
  BY ChainSeq
<1>2. cur = 1
  <2>1. ASSUME cur # 1 PROVE FALSE
    <3>1. cur \in 2..Len(chain)
      BY <1>1, <2>1
    <3>2. OwnerOK(cur)
      BY <3>1 DEF Shape
    <3>. QED
      BY <3>2 DEF OwnerOK
  <2>. QED
    BY <2>1
<1>3. RootKind = "intern"
  BY <1>2 DEF RootKind
<1>4. ASSUME SubsOf(cur, Kinds) = {}, Len(chain) # 1 PROVE FALSE
  <2>. HIDE DEF SInv, IInv, Safe, DataInv
  <2>0. Len(chain) >= 1
    BY <1>1, <1>2
  <2>1. Len(chain) > 1 /\ 2 \in (cur + 1)..Len(chain) /\ 2 \in 2..Len(chain)
    <3>1. \A m \in Nat : m >= 1 /\ m # 1 => m > 1 /\ 2 \in (1 + 1)..m /\ 2 \in 2..m
      OBVIOUS
    <3>. QED
      BY <1>1, <1>2, <1>4, <2>0, <3>1
  <2>. USE DEF SInv, Safe, DataInv
  <2>2. req[chain[2]].owner = chain[cur]
    BY <1>2, <1>3, <2>1 DEF Shape
  <2>3. OwnerOK(2)
    BY <2>1 DEF Shape
  <2>4. req[chain[2]].kind \in Kinds
    BY <2>3 DEF OwnerOK, Kinds
  <2>. QED
    BY <1>4, <2>1, <2>2, <2>4 DEF SubsOf
<1>5. ASSUME NEW j \in SubsOf(cur, {"sign"}) PROVE j = 2 /\ Len(chain) = 2
  <2>1. j \in 2..Len(chain) /\ req[chain[j]].kind = "sign"
    BY <1>1, <1>2 DEF SubsOf
  <2>2. OwnerOK(j)
    BY <2>1 DEF Shape
  <2>. QED
    BY <2>1, <2>2 DEF OwnerOK
<1>. QED
  BY <1>2, <1>3, <1>4, <1>5

(* The steps before the type switch. *)
LEMMA EntrySafe ==
  ASSUME SInv, NEW c \in Ctx,
         \/ ExecHasError(c) \/ ExecRequiredWaiting(c) \/ ExecRequiredFailed(c)
         \/ ExecFailable(c) \/ ExecDone(c) \/ ExecSign(c)
  PROVE  Safe'
<1>1. CASE ExecHasError(c)
  <2>. DEFINE v == IF req[c].vstate \in {"OK", "WAITING"} THEN "ERR" ELSE req[c].vstate
  <2>1. /\ Executing(c) /\ req[c].error /\ Return(v)
        /\ UNCHANGED <<req, chain, transports, blamed, suspect>>
    BY <1>1 DEF ExecHasError
  <2>2. c = chain[cur] /\ pc = "exec" /\ ExecOK /\ ReqOK(req[c])
    BY <2>1, AtExec
  <2>3. v \in {"ERR", "EIGNORE"}
    BY <2>2 DEF ReqOK, Request, RetCodes
  <2>4. fresh = {}
    BY <2>1, <2>2 DEF ExecOK
  <2>. HIDE DEF v
  <2>. QED
    BY <2>1, <2>2, <2>3, <2>4, SameSafe
<1>2. CASE ExecRequiredWaiting(c)
  <2>1. /\ Executing(c) /\ ret = "WAITING" /\ Return("WAITING")
        /\ UNCHANGED <<req, chain, transports, blamed, suspect>>
    BY <1>2 DEF ExecRequiredWaiting
  <2>. QED
    BY <2>1, SameSafe DEF Executing
<1>3. CASE ExecRequiredFailed(c)
  BY <1>3, FailSafe DEF ExecRequiredFailed
<1>4. CASE ExecFailable(c)
  <2>1. /\ Executing(c) /\ ~req[c].error /\ ret = "EIGNORE" /\ RemoveFrom(cur + 1) /\ ret' = "OK"
        /\ UNCHANGED <<pc, cur, fresh, loop, blamed, suspect>>
    BY <1>4 DEF ExecFailable
  <2>2. /\ c = chain[cur] /\ pc = "exec" /\ cur \in 1..Len(chain) /\ Len(chain) \in Nat
        /\ ExecOK /\ ret \in RetCodes
    BY <2>1, AtExec
  <2>3. cur < Len(chain)
    BY <2>1, <2>2 DEF ExecOK
  <2>4. cur + 1 \in 2..(Len(chain) + 1) /\ cur + 1 \in (cur + 1)..Len(chain) /\ \A i \in (cur + 1)..((cur + 1) - 1) : FALSE
    BY <2>2, <2>3
  <2>5. DataInv'
    BY <2>1, <2>4, DataRemoveFrom DEF SInv, Safe
  <2>6. ~(\A l \in cur..Len(chain) : Accepted(req[chain[l]]))
    <3>1. ChainOK /\ Records
      BY DEF SInv, Safe, IInv, DataInv
    <3>. QED
      BY <2>1, <2>2, <3>1, AcceptedReturns
  <2>7. WalkInv'
    <3>. DEFINE j == cur + 1
    <3>1. j \in (cur + 1)..Len(chain) /\ RemoveFrom(j) /\ (\A i \in (cur + 1)..(j - 1) : FALSE) /\ j = cur + 1
      BY <2>1, <2>4
    <3>. HIDE DEF j
    <3>2. IInv /\ DataInv /\ WalkInv
      BY DEF SInv, Safe
    <3>. QED
      BY <2>1, <2>2, <2>6, <3>1, <3>2, RemoveFromWalk
  <2>8. BlamedDeserveIt'
    BY <2>1 DEF SInv, Safe, BlamedDeserveIt
  <2>. QED
    BY <2>5, <2>7, <2>8 DEF Safe
<1>5. CASE ExecDone(c)
  <2>1. /\ Executing(c) /\ ~req[c].error /\ ret = "OK" /\ Accepted(req[c]) /\ Return("OK")
        /\ UNCHANGED <<req, chain, transports, blamed, suspect>>
    BY <1>5 DEF ExecDone, Body
  <2>2. c = chain[cur] /\ pc = "exec" /\ AllSettled /\ Record(req[c])
    BY <2>1, AtExec
  <2>3. Done(req[c])
    BY <2>1, <2>2, AcceptedRecord
  <2>. QED
    BY <2>1, <2>2, <2>3, SameSafe
<1>6. CASE ExecSign(c)
  <2>. DEFINE v == IF req[c].raw = <<>> THEN "WAITING" ELSE req[c].raw[1].state
  <2>1. /\ Executing(c) /\ ~req[c].error /\ ret = "OK" /\ req[c].kind = "sign" /\ Return(v)
        /\ UNCHANGED <<req, chain, transports, blamed, suspect>>
    BY <1>6 DEF ExecSign, Body
  <2>2. c = chain[cur] /\ pc = "exec" /\ AllSettled /\ Record(req[c]) /\ ReqOK(req[c])
    BY <2>1, AtExec
  <2>3. CASE req[c].raw = <<>>
    <3>1. Waits(req[c]) /\ v = "WAITING"
      BY <2>1, <2>2, <2>3 DEF Record, Waits
    <3>. QED
      BY <2>1, <2>2, <3>1, SameSafe
  <2>4. CASE req[c].raw # <<>>
    <3>1. 1 \in DOMAIN req[c].raw
      BY <2>2, <2>4, EmptySeq, LenProperties DEF ReqOK, Request
    <3>2. v = "OK" /\ Done(req[c])
      BY <2>1, <2>2, <2>4, <3>1 DEF Record, Done
    <3>. QED
      BY <2>1, <2>2, <3>2, SameSafe
  <2>. QED
    BY <2>3, <2>4
<1>. QED
  BY <1>1, <1>2, <1>3, <1>4, <1>5, <1>6

(* A context without a response: not accepted, its plugin called for the      *)
(* first time or again.                                                       *)
LEMMA AtUnanswered ==
  ASSUME SInv, NEW c \in Ctx, Unanswered(c)
  PROVE  /\ Executing(c) /\ ~req[c].error /\ ret = "OK" /\ req[c].raw = <<>> /\ req[c].kind # "sign"
         /\ c = chain[cur] /\ pc = "exec" /\ cur \in 1..Len(chain) /\ Len(chain) \in Nat
         /\ ReqOK(req[c]) /\ Record(req[c]) /\ AllSettled /\ cur \notin fresh
         /\ ~Accepted(req[c]) /\ req[c].resp = "none"
<1>1. Executing(c) /\ ~req[c].error /\ ret = "OK" /\ req[c].raw = <<>> /\ req[c].kind # "sign"
  BY DEF Unanswered, Body
<1>. QED
  BY <1>1, AtExec, UnansweredRecord

(* A sub request is added for a context. *)
LEMMA AddSafe ==
  ASSUME SInv, NEW c \in Ctx, Unanswered(c), NEW kind \in {"rpc", "sign", "nodeList"},
         AddRequired(kind, req[c]), UNCHANGED <<loop, transports, blamed, suspect>>,
         RootKind = "intern" /\ cur = 1 => Len(chain) = 1 /\ kind # "nodeList",
         kind # "nodeList" => RootKind = "intern" /\ cur = 1
  PROVE  Safe'
<1>. USE DEF SInv, Safe
<1>1. /\ ~req[c].error /\ req[c].raw = <<>> /\ req[c].kind # "sign"
      /\ c = chain[cur] /\ pc = "exec" /\ cur \in 1..Len(chain)
      /\ Record(req[c]) /\ AllSettled /\ ~Accepted(req[c])
  BY AtUnanswered
<1>2. Tame(req[c], req[c])
  BY <1>1, TameSame
<1>3. DataInv'
  BY <1>1, <1>2, DataAdd
<1>4. WalkInv'
  BY <1>1, AddWalk
<1>5. BlamedDeserveIt'
  BY DEF BlamedDeserveIt
<1>. QED
  BY <1>3, <1>4, <1>5

(* handle_internally *)
LEMMA HandleSafe ==
  ASSUME SInv, NEW c \in Ctx,
         \/ HandleInternally(c) \/ HandleNeedsSub(c) \/ HandleSubRefused(c)
         \/ HandleSubResult(c) \/ HandleSignature(c)
  PROVE  Safe'
<1>0. "ERR" \in {"ERR", "EIGNORE"}
  OBVIOUS
<1>1. CASE HandleInternally(c)
  <2>1. /\ Unanswered(c) /\ req[c].kind = "intern"
        /\ UNCHANGED <<chain, transports, blamed, suspect>>
    BY <1>1 DEF HandleInternally
  <2>2. CASE /\ SetReq(c, [req[c] EXCEPT !.raw = InternalAnswer])
             /\ UNCHANGED <<pc, cur, ret, fresh, loop>>
    BY <2>1, <2>2, AnswerSafe
  <2>3. CASE SetReq(c, WithError(req[c], "ERR")) /\ Return("ERR")
    BY <1>0, <2>1, <2>3, AtUnanswered, FailSafe
  <2>. QED
    BY <1>1, <2>2, <2>3 DEF HandleInternally
<1>2. CASE HandleNeedsSub(c)
  <2>1. /\ Unanswered(c) /\ req[c].kind = "intern" /\ SubsOf(cur, Kinds) = {}
        /\ UNCHANGED <<loop, transports, blamed, suspect>>
    BY <1>2 DEF HandleNeedsSub
  <2>2. PICK kind \in {"rpc", "sign"} : AddRequired(kind, req[c])
    BY <1>2 DEF HandleNeedsSub
  <2>3. c = chain[cur] /\ cur \in 1..Len(chain)
    BY <2>1, AtUnanswered
  <2>4. cur = 1 /\ RootKind = "intern" /\ Len(chain) = 1
    BY <2>1, <2>3, InternIsRoot
  <2>5. kind \in {"rpc", "sign", "nodeList"} /\ kind # "nodeList"
    OBVIOUS
  <2>. QED
    BY <2>1, <2>2, <2>4, <2>5, AddSafe
<1>3. CASE HandleSubRefused(c)
  BY <1>0, <1>3, FailSafe DEF HandleSubRefused
<1>4. CASE HandleSubResult(c)
  <2>1. /\ Unanswered(c) /\ req[c].kind = "intern"
        /\ UNCHANGED <<chain, transports, blamed, suspect>>
    BY <1>4 DEF HandleSubResult
  <2>2. CASE /\ SetReq(c, [req[c] EXCEPT !.raw = InternalAnswer])
             /\ UNCHANGED <<pc, cur, ret, fresh, loop>>
    BY <2>1, <2>2, AnswerSafe
  <2>3. CASE SetReq(c, WithError(req[c], "ERR")) /\ Return("ERR")
    BY <1>0, <2>1, <2>3, AtUnanswered, FailSafe
  <2>. QED
    BY <1>4, <2>2, <2>3 DEF HandleSubResult
<1>5. CASE HandleSignature(c)
  <2>1. Unanswered(c) /\ req[c].kind = "intern" /\ UNCHANGED <<blamed, suspect>>
    BY <1>5 DEF HandleSignature
  <2>2. PICK j \in SubsOf(cur, {"sign"}) :
          \/ /\ req' = [req EXCEPT ![c].raw = InternalAnswer, ![chain[j]] = Unused]
             /\ RemoveOne(j)
             /\ UNCHANGED <<pc, cur, ret, fresh, loop>>
          \/ /\ SetReq(c, WithError(req[c], "ERR"))
             /\ Return("ERR")
             /\ UNCHANGED <<chain, pending, transports>>
    BY <1>5 DEF HandleSignature
  <2>3. /\ c = chain[cur] /\ cur \in 1..Len(chain) /\ Executing(c) /\ ~req[c].error /\ ret = "OK"
        /\ pc = "exec" /\ ReqOK(req[c]) /\ Record(req[c]) /\ ~Accepted(req[c]) /\ req[c].raw = <<>>
        /\ AllSettled /\ cur \notin fresh /\ Len(chain) \in Nat
    BY <2>1, AtUnanswered
  <2>4. cur = 1 /\ j = 2 /\ Len(chain) = 2
    BY <2>1, <2>3, InternIsRoot
  <2>5. CASE /\ SetReq(c, WithError(req[c], "ERR"))
             /\ Return("ERR")
             /\ UNCHANGED <<chain, pending, transports>>
    BY <1>0, <2>1, <2>3, <2>5, FailSafe
  <2>6. CASE /\ req' = [req EXCEPT ![c].raw = InternalAnswer, ![chain[j]] = Unused]
             /\ RemoveOne(j)
             /\ UNCHANGED <<pc, cur, ret, fresh, loop>>
    <3>. DEFINE r == [req[c] EXCEPT !.raw = InternalAnswer]
    <3>1. Tame(req[c], r) /\ r.error = req[c].error /\ ~Accepted(r)
      BY <2>1, <2>3, TameIntern
    <3>2. [req EXCEPT ![c].raw = InternalAnswer] = [req EXCEPT ![c] = r]
      BY DEF SInv, IInv, DataOK
    <3>3. req' = [req EXCEPT ![chain[cur]] = r, ![chain[j]] = Unused]
      BY <2>3, <2>6, <3>2
    <3>. HIDE DEF r
    <3>4. j \in (cur + 1)..Len(chain)
      BY <2>4
    <3>5. /\ DataInv'
          /\ req'[chain[cur]] = r
          /\ \A i \in 1..Len(chain) : i # cur /\ i # j => req'[chain[i]] = req[chain[i]]
      BY <2>1, <2>3, <2>4, <2>6, <3>1, <3>3, <3>4, DataRemoveOne DEF SInv, Safe
    <3>6. WalkInv'
      <4>1. IInv /\ DataInv /\ WalkInv
        BY DEF SInv, Safe
      <4>2. pc' = pc /\ pc' = "exec" /\ ret' = "OK" /\ ~r.error /\ cur' = cur /\ fresh' = fresh /\ loop' = loop
        BY <2>3, <2>6, <3>1
      <4>3. ~Accepted(req[chain[cur]]) /\ ~Accepted(r)
        BY <2>3, <3>1
      <4>. QED
        BY <2>3, <2>4, <2>6, <3>4, <3>5, <4>1, <4>2, <4>3, RemoveOneWalk
    <3>7. BlamedDeserveIt'
      BY <2>1 DEF SInv, Safe, BlamedDeserveIt
    <3>. QED
      BY <3>5, <3>6, <3>7 DEF Safe
  <2>. QED
    BY <2>2, <2>5, <2>6
<1>. QED
  BY <1>1, <1>2, <1>3, <1>4, <1>5

(* A set of nodes picked by the node list is not empty. *)
LEMMA PickableNotEmpty ==
  ASSUME NEW ns \in PickableNodes
  PROVE  ns # <<>>
<1>1. PICK n \in 1..RequestCount : ns \in [1..n -> Nodes]
  BY DEF PickableNodes
<1>2. 1 \in DOMAIN ns
  BY <1>1, CountAssumption
<1>. QED
  BY <1>2, EmptySeq

(* select_nodes *)
LEMMA PickSafe ==
  ASSUME SInv, NEW c \in Ctx,
         \/ PickNeedsUpdate(c) \/ PickUpdated(c) \/ PickUpdateRejected(c)
         \/ PickNodes(c) \/ PickFails(c) \/ ExecWaitToSend(c)
  PROVE  Safe'
<1>0. "ERR" \in {"ERR", "EIGNORE"}
  OBVIOUS
<1>1. CASE PickNeedsUpdate(c)
  <2>1. /\ Unanswered(c) /\ req[c].kind = "rpc" /\ AddRequired("nodeList", req[c])
        /\ UNCHANGED <<loop, transports, blamed, suspect>>
    BY <1>1 DEF PickNeedsUpdate, Selecting, UpdateDue
  <2>2. c = chain[cur]
    BY <2>1, AtUnanswered
  <2>3. ~(RootKind = "intern" /\ cur = 1)
    BY <2>1, <2>2 DEF RootKind
  <2>. QED
    BY <2>1, <2>3, AddSafe
<1>2. CASE PickUpdated(c)
  <2>. DEFINE j == FirstOf(NodeListSubs(cur))
  <2>1. /\ Unanswered(c) /\ req[c].kind # "intern" /\ NodeListSubs(cur) # {}
        /\ UNCHANGED <<blamed, suspect>>
    BY <1>2 DEF PickUpdated, Selecting
  <2>2. /\ c = chain[cur] /\ cur \in 1..Len(chain) /\ Executing(c) /\ ~req[c].error /\ ret = "OK"
        /\ pc = "exec" /\ ~Accepted(req[c]) /\ AllSettled /\ Len(chain) \in Nat
    BY <2>1, AtUnanswered
  <2>3. j \in (cur + 1)..Len(chain)
    <3>1. NodeListSubs(cur) \in SUBSET Nat
      BY <2>2 DEF NodeListSubs
    <3>2. j \in NodeListSubs(cur)
      BY <2>1, <3>1, FirstOfIn
    <3>. QED
      BY <3>2 DEF NodeListSubs
  <2>4. CASE RemoveFrom(j) /\ UNCHANGED <<pc, cur, ret, fresh, loop>>
    <3>. HIDE DEF j
    <3>1. j \in 2..(Len(chain) + 1) /\ \A i \in (cur + 1)..(j - 1) : i \in Behind(cur)
      BY <2>2, <2>3 DEF Behind
    <3>2. DataInv'
      BY <2>1, <2>4, <3>1, DataRemoveFrom DEF SInv, Safe
    <3>3. WalkInv'
      <4>1. IInv /\ DataInv /\ WalkInv
        BY DEF SInv, Safe
      <4>2. \A i \in (cur + 1)..(j - 1) : Settled(req[chain[i]])
        BY <2>2, <3>1 DEF AllSettled
      <4>3. ~(\A l \in cur..Len(chain) : Accepted(req[chain[l]]))
        BY <2>2
      <4>. QED
        BY <2>1, <2>2, <2>3, <2>4, <4>1, <4>2, <4>3, RemoveFromWalk
    <3>4. BlamedDeserveIt'
      BY <2>1 DEF SInv, Safe, BlamedDeserveIt
    <3>. QED
      BY <3>2, <3>3, <3>4 DEF Safe
  <2>5. CASE /\ SetReq(c, WithError(req[c], "ERR"))
             /\ Return("ERR")
             /\ UNCHANGED <<chain, pending, transports>>
    BY <1>0, <2>1, <2>2, <2>5, FailSafe
  <2>. QED
    BY <1>2, <2>4, <2>5 DEF PickUpdated
<1>3. CASE PickUpdateRejected(c)
  <2>1. /\ Unanswered(c)
        /\ UNCHANGED <<chain, req, pc, cur, ret, fresh, loop, transports, blamed, suspect>>
    BY <1>3 DEF PickUpdateRejected, Selecting
  <2>2. /\ c = chain[cur] /\ cur \in 1..Len(chain) /\ ~req[c].error /\ ret = "OK"
        /\ pc = "exec" /\ ~Accepted(req[c]) /\ AllSettled /\ Record(req[c]) /\ cur \notin fresh
    BY <2>1, AtUnanswered
  <2>3. SetReq(chain[cur], req[chain[cur]])
    BY <2>1, <2>2, SameReq DEF SInv, IInv
  <2>4. Tame(req[chain[cur]], req[chain[cur]])
    BY <2>2, TameSame
  <2>5. IInv /\ DataInv /\ WalkInv
    BY DEF SInv, Safe
  <2>6. DataInv'
    BY <2>1, <2>2, <2>3, <2>4, <2>5, TameSet
  <2>7. WalkInv'
    BY <2>1, <2>2, <2>3, <2>4, <2>5, StayWalk
  <2>8. BlamedDeserveIt'
    BY <2>1 DEF SInv, Safe, BlamedDeserveIt
  <2>. QED
    BY <2>6, <2>7, <2>8 DEF Safe
<1>4. CASE PickNodes(c)
  <2>1. /\ Unanswered(c) /\ req[c].kind \in {"rpc", "nodeList"} /\ Return("WAITING")
        /\ UNCHANGED <<chain, transports, blamed, suspect>>
    BY <1>4 DEF PickNodes, Selecting
  <2>2. PICK ns \in PickableNodes : SetReq(c, [req[c] EXCEPT !.nodes = ns])
    BY <1>4 DEF PickNodes
  <2>3. /\ c = chain[cur] /\ cur \in 1..Len(chain) /\ ~req[c].error /\ pc = "exec"
        /\ ~Accepted(req[c]) /\ AllSettled /\ Record(req[c]) /\ ReqOK(req[c]) /\ req[c].raw = <<>>
        /\ Len(chain) \in Nat
    BY <2>1, AtUnanswered
  <2>. DEFINE r == [req[c] EXCEPT !.nodes = ns]
  <2>4. Tame(req[c], r) /\ Waits(r) /\ ~Accepted(r)
    BY <2>1, <2>3, PickableNotEmpty, TameNodes
  <2>5. SetReq(chain[cur], r) /\ Tame(req[chain[cur]], r) /\ Waits(r) /\ ~Accepted(r)
    BY <2>2, <2>3, <2>4
  <2>. HIDE DEF r
  <2>6. IInv /\ DataInv /\ WalkInv
    BY DEF SInv, Safe
  <2>7. DataInv'
    BY <2>1, <2>3, <2>5, <2>6, TameSet
  <2>8. ~(\A j \in cur..Len(chain) : Accepted(req[chain[j]]))
    BY <2>3
  <2>9. WalkInv'
    BY <2>1, <2>3, <2>5, <2>6, <2>8, ReturnWalk
  <2>10. BlamedDeserveIt'
    BY <2>1 DEF SInv, Safe, BlamedDeserveIt
  <2>. QED
    BY <2>7, <2>9, <2>10 DEF Safe
<1>5. CASE PickFails(c)
  <2>. DEFINE code == IF req[c].kind = "nodeList" THEN "EIGNORE" ELSE "ERR"
  <2>1. /\ Executing(c) /\ ~req[c].error /\ req[c].raw = <<>>
        /\ ret \in {"OK", "ERR", "EIGNORE"}
        /\ SetReq(c, WithError(req[c], code)) /\ Return(code)
        /\ UNCHANGED <<chain, transports, blamed, suspect>>
    BY <1>5 DEF PickFails
  <2>2. code \in {"ERR", "EIGNORE"}
    OBVIOUS
  <2>3. ~Accepted(req[c])
    BY <2>1, AtExec, UnansweredRecord
  <2>. HIDE DEF code
  <2>. QED
    BY <2>1, <2>2, <2>3, FailSafe
<1>6. CASE ExecWaitToSend(c)
  <2>1. /\ Unanswered(c) /\ (req[c].kind = "direct" \/ req[c].nodes # <<>>) /\ Return("WAITING")
        /\ UNCHANGED <<chain, req, transports, blamed, suspect>>
    BY <1>6 DEF ExecWaitToSend
  <2>2. /\ c = chain[cur] /\ ~req[c].error /\ pc = "exec" /\ req[c].resp = "none"
        /\ AllSettled /\ ReqOK(req[c]) /\ req[c].raw = <<>>
    BY <2>1, AtUnanswered
  <2>3. Waits(req[c])
    BY <2>1, <2>2 DEF Waits, ReqOK
  <2>. QED
    BY <2>1, <2>2, <2>3, SameSafe
<1>. QED
  BY <1>1, <1>2, <1>3, <1>4, <1>5, <1>6

(* Every step of in3_req_execute up to find_valid_result. *)
LEMMA ExecuteSafe ==
  ASSUME SInv, NEW c \in Ctx, Execute(c)
  PROVE  Safe'
BY EntrySafe, HandleSafe, PickSafe DEF Execute

-----------------------------------------------------------------------------
(* find_valid_result *)

(* What is known while find_valid_result looks at the responses of c. *)
LEMMA AtVerify ==
  ASSUME SInv, NEW c \in Ctx, pc = "verify", c = chain[cur]
  PROVE  /\ cur \in 1..Len(chain) /\ Len(chain) \in Nat
         /\ ReqOK(req[c]) /\ Record(req[c]) /\ VerifyOK /\ AllSettled /\ fresh = {}
         /\ req[c].kind # "sign" /\ req[c].raw # <<>> /\ req[c].raw \in Seq(Response)
         /\ DOMAIN req[c].raw = 1..Len(req[c].raw) /\ Len(req[c].raw) \in Nat
         /\ loop.state = "ERR" => ~Accepted(req[c]) /\ req[c].vstate # "OK"
         /\ loop.state = "OK" => Accepted(req[c])
         /\ Looked(loop, req[c]) /\ Suspected(req[c]) /\ loop \in Loops
<1>. USE DEF SInv, IInv, Safe
<1>1. VerifyOK /\ Looked(loop, req[c])
  BY DEF WalkInv, WalkOK, LoopOK
<1>2. cur \in 1..Len(chain) /\ fresh = {} /\ loop \in Loops
  BY DEF ControlOK
<1>3. ReqOK(req[c]) /\ Record(req[c]) /\ Suspected(req[c])
  BY DEF DataOK, DataInv, Records, AllSuspected
<1>4. req[c].raw \in Seq(Response)
  BY <1>3 DEF ReqOK, Request
<1>. QED
  BY <1>1, <1>2, <1>3, <1>4, ChainSeq, LenProperties DEF VerifyOK, Accepted

(* find_valid_result looks at a response that is there. *)
LEMMA AtResponse ==
  ASSUME SInv, NEW c \in Ctx, Verifying(c)
  PROVE  /\ pc = "verify" /\ c = chain[cur] /\ loop.state = "ERR"
         /\ loop.n \in DOMAIN req[c].raw /\ loop.n \in Nat /\ Current(c) \in Response
<1>1. pc = "verify" /\ c = chain[cur] /\ loop.state = "ERR" /\ loop.n <= Len(req[c].raw)
  BY DEF Verifying
<1>2. loop \in Loops /\ req[c].raw \in Seq(Response) /\ DOMAIN req[c].raw = 1..Len(req[c].raw)
      /\ Len(req[c].raw) \in Nat
  BY <1>1, AtVerify
<1>3. loop.n \in Nat \ {0}
  BY <1>2 DEF Loops
<1>4. loop.n \in 1..Len(req[c].raw)
  BY <1>1, <1>2, <1>3
<1>. QED
  BY <1>1, <1>2, <1>3, <1>4, ElementOfSeq DEF Current

(* The loop goes on to the next response. *)
LEMMA LookedStep ==
  ASSUME NEW r0, NEW r, NEW l \in Loops, NEW l1 \in Loops, Looked(l, r0),
         l1.n = l.n + 1, l1.pending = l.pending, l.n \in DOMAIN r0.raw, DOMAIN r0.raw \subseteq Nat,
         DOMAIN r.raw = DOMAIN r0.raw,
         \A i \in DOMAIN r0.raw : i # l.n => r.raw[i] = r0.raw[i],
         r0.raw[l.n].state # "WAITING",
         r.raw[l.n].state = "ERR" \/ (r.raw[l.n].state = "OK" /\ r.raw[l.n].data \notin {"good", "user"})
  PROVE  Looked(l1, r)
<1>1. l.n \in Nat /\ l1.n \in Nat
  BY DEF Loops
<1>2. ASSUME NEW i \in DOMAIN r.raw, i < l1.n
      PROVE  Passed(l1, r.raw[i])
  <2>1. CASE i = l.n
    BY <2>1 DEF Passed
  <2>2. CASE i # l.n
    <3>1. i < l.n /\ r.raw[i] = r0.raw[i]
      BY <1>1, <1>2, <2>2
    <3>2. Passed(l, r0.raw[i])
      BY <3>1 DEF Looked
    <3>. QED
      BY <3>1, <3>2 DEF Passed
  <2>. QED
    BY <2>1, <2>2
<1>3. ASSUME l1.pending
      PROVE  \E i \in DOMAIN r.raw : r.raw[i].state = "WAITING"
  <2>1. PICK i \in DOMAIN r0.raw : r0.raw[i].state = "WAITING"
    BY <1>3 DEF Looked
  <2>. QED
    BY <2>1
<1>. QED
  BY <1>2, <1>3 DEF Looked

(* The loop goes on by one response. *)
LEMMA LoopSteps ==
  ASSUME loop \in Loops, NextResponse("ERR")
  PROVE  loop' \in Loops /\ loop'.n = loop.n + 1 /\ loop'.pending = loop.pending /\ loop'.state = "ERR"
<1>1. loop.n \in Nat \ {0} /\ loop.n + 1 \in Nat \ {0}
  <2>1. loop.n \in Nat \ {0}
    BY DEF Loops
  <2>. QED
    BY <2>1
<1>2. loop' = [loop EXCEPT !.n = loop.n + 1, !.state = "ERR"]
  BY DEF NextResponse
<1>. QED
  BY <1>1, <1>2 DEF Loops

(* The node of a response that can not be accepted may be blamed. *)
LEMMA BlameSafe ==
  ASSUME BlamedDeserveIt, NEW c, Suspected(req[c]), loop.n \in DOMAIN req[c].raw,
         Current(c).state # "WAITING", Doubtful(Current(c)), suspect' = suspect,
         blamed' = blamed \/ blamed' = blamed \cup Blame(c)
  PROVE  BlamedDeserveIt'
BY DEF BlamedDeserveIt, Blame, NodeOf, Suspected, Current

(* A response is not accepted, the loop goes on. *)
LEMMA NextSafe ==
  ASSUME SInv, NEW c \in Ctx, Verifying(c), NEW r, SetReq(c, r), Tame(req[c], r),
         r.vstate # "OK", r.kind = req[c].kind, r.raw # <<>>, DOMAIN r.raw = DOMAIN req[c].raw,
         \A i \in DOMAIN req[c].raw : i # loop.n => r.raw[i] = req[c].raw[i],
         Current(c).state # "WAITING", Doubtful(Current(c)),
         r.raw[loop.n].state = "ERR" \/ (r.raw[loop.n].state = "OK" /\ r.raw[loop.n].data \notin {"good", "user"}),
         NextResponse("ERR"), blamed' = blamed \/ blamed' = blamed \cup Blame(c),
         fresh' = {}, pc' = "verify", UNCHANGED <<chain, cur, transports, suspect>>
  PROVE  Safe'
<1>1. /\ pc = "verify" /\ c = chain[cur] /\ loop.state = "ERR"
      /\ loop.n \in DOMAIN req[c].raw /\ loop.n \in Nat
  BY AtResponse
<1>2. /\ cur \in 1..Len(chain) /\ AllSettled /\ req[c].kind # "sign" /\ ~Accepted(req[c])
      /\ DOMAIN req[c].raw = 1..Len(req[c].raw) /\ Len(req[c].raw) \in Nat
      /\ Looked(loop, req[c]) /\ Suspected(req[c]) /\ loop \in Loops
  BY <1>1, AtVerify
<1>3. loop' \in Loops /\ loop'.n = loop.n + 1 /\ loop'.pending = loop.pending /\ loop'.state = "ERR"
  BY <1>2, LoopSteps
<1>4. DOMAIN req[c].raw \subseteq Nat
  BY <1>2
<1>5. Looked(loop', r)
  <2>1. req[c].raw[loop.n].state # "WAITING"
    BY DEF Current
  <2>2. \A i \in DOMAIN req[c].raw : i # loop.n => r.raw[i] = req[c].raw[i]
    OBVIOUS
  <2>. DEFINE l1 == loop'
              r0 == req[c]
  <2>3. /\ l1 \in Loops /\ loop \in Loops /\ Looked(loop, r0)
        /\ l1.n = loop.n + 1 /\ l1.pending = loop.pending /\ loop.n \in DOMAIN r0.raw /\ DOMAIN r0.raw \subseteq Nat
        /\ DOMAIN r.raw = DOMAIN r0.raw
        /\ (\A i \in DOMAIN r0.raw : i # loop.n => r.raw[i] = r0.raw[i])
        /\ r0.raw[loop.n].state # "WAITING"
        /\ (r.raw[loop.n].state = "ERR" \/ (r.raw[loop.n].state = "OK" /\ r.raw[loop.n].data \notin {"good", "user"}))
    BY <1>1, <1>2, <1>3, <1>4, <2>1, <2>2
  <2>. HIDE DEF l1, r0
  <2>4. Looked(l1, r)
    BY <2>3, LookedStep
  <2>. QED
    BY <2>4 DEF l1
<1>6. ~Accepted(r)
  BY DEF Accepted
<1>7. IInv /\ DataInv /\ WalkInv /\ BlamedDeserveIt
  BY DEF SInv, Safe
<1>8. SetReq(chain[cur], r) /\ Tame(req[chain[cur]], r)
  BY <1>1
<1>9. DataInv'
  BY <1>2, <1>7, <1>8, TameSet
<1>10. WalkInv'
  BY <1>1, <1>2, <1>3, <1>5, <1>6, <1>7, <1>8, StayWalk
<1>11. BlamedDeserveIt'
  BY <1>1, <1>2, <1>7, BlameSafe
<1>. QED
  BY <1>9, <1>10, <1>11 DEF Safe

(* find_valid_result begins, or skips a response that is pending. *)
LEMMA SkipSafe ==
  ASSUME SInv, NEW c \in Ctx, StartVerify(c) \/ VerifyPending(c)
  PROVE  Safe'
<1>. DEFINE r == req[c]
<1>1. UNCHANGED <<chain, req, cur, ret, fresh, transports, blamed, suspect>>
  BY DEF StartVerify, VerifyPending
<1>2. /\ pc \in {"exec", "verify"} /\ c = chain[cur] /\ cur \in 1..Len(chain) /\ AllSettled
      /\ Record(r) /\ ~Accepted(r) /\ r.vstate # "OK" /\ r.kind # "sign" /\ r.raw # <<>> /\ fresh = {}
      /\ pc' = "verify" /\ loop'.state = "ERR" /\ Looked(loop', r)
  <2>1. CASE StartVerify(c)
    <3>1. /\ Executing(c) /\ ~r.error /\ ret = "OK" /\ r.kind # "sign" /\ r.raw # <<>> /\ ~Accepted(r)
          /\ pc' = "verify" /\ loop' = NoLoop
      BY <2>1 DEF StartVerify, Body
    <3>2. /\ c = chain[cur] /\ pc = "exec" /\ cur \in 1..Len(chain) /\ ReqOK(r) /\ Record(r) /\ AllSettled
          /\ fresh = {}
      BY <3>1, AtExec DEF Quiet
    <3>3. r.vstate # "OK"
      BY <3>1, <3>2 DEF Record, Accepted
    <3>4. \A i \in DOMAIN r.raw : i \in Nat \ {0}
      BY <3>2, LenProperties DEF ReqOK, Request
    <3>5. Looked(loop', r) /\ loop'.state = "ERR"
      BY <3>1, <3>4 DEF NoLoop, Looked
    <3>. QED
      BY <3>1, <3>2, <3>3, <3>5
  <2>2. CASE VerifyPending(c)
    <3>1. /\ Verifying(c) /\ Current(c).state = "WAITING" /\ pc' = pc
          /\ loop' = [loop EXCEPT !.n = loop.n + 1, !.pending = TRUE]
      BY <2>2 DEF VerifyPending, IsPending
    <3>2. /\ pc = "verify" /\ c = chain[cur] /\ loop.state = "ERR"
          /\ loop.n \in DOMAIN r.raw /\ loop.n \in Nat
      BY <3>1, AtResponse
    <3>3. /\ cur \in 1..Len(chain) /\ Record(r) /\ AllSettled /\ fresh = {}
          /\ r.kind # "sign" /\ r.raw # <<>> /\ DOMAIN r.raw = 1..Len(r.raw) /\ Len(r.raw) \in Nat
          /\ ~Accepted(r) /\ r.vstate # "OK" /\ Looked(loop, r) /\ loop \in Loops
      BY <3>2, AtVerify
    <3>4. loop'.n = loop.n + 1 /\ loop'.pending = TRUE /\ loop'.state = "ERR"
      BY <3>1, <3>2, <3>3 DEF Loops
    <3>5. ASSUME NEW i \in DOMAIN r.raw, i < loop'.n
          PROVE  Passed(loop', r.raw[i])
      <4>1. CASE i = loop.n
        BY <3>1, <3>4, <4>1 DEF Passed, Current
      <4>2. CASE i # loop.n
        <5>1. i < loop.n
          BY <3>2, <3>3, <3>4, <3>5, <4>2
        <5>2. Passed(loop, r.raw[i])
          BY <3>3, <5>1 DEF Looked
        <5>. QED
          BY <3>4, <5>2 DEF Passed
      <4>. QED
        BY <4>1, <4>2
    <3>6. Looked(loop', r)
      BY <3>1, <3>2, <3>5 DEF Looked, Current
    <3>. QED
      BY <3>1, <3>2, <3>3, <3>4, <3>6
  <2>. QED
    BY <2>1, <2>2
<1>3. SetReq(chain[cur], r) /\ Tame(req[chain[cur]], r)
  BY <1>1, <1>2, SameReq, TameSame DEF SInv, IInv
<1>4. IInv /\ DataInv /\ WalkInv /\ BlamedDeserveIt
  BY DEF SInv, Safe
<1>5. DataInv'
  BY <1>1, <1>2, <1>3, <1>4, TameSet
<1>6. r = req[chain[cur]]
  BY <1>2
<1>. HIDE DEF r
<1>7. WalkInv'
  BY <1>1, <1>2, <1>3, <1>4, <1>6, StayWalk
<1>8. BlamedDeserveIt'
  BY <1>1, <1>4 DEF BlamedDeserveIt
<1>. QED
  BY <1>5, <1>7, <1>8 DEF Safe

(* The verdicts that leave the context as it is or with one response          *)
(* replaced.                                                                  *)
LEMMA RejectSafe ==
  ASSUME SInv, NEW c \in Ctx,
         \/ VerifyErrorResponse(c) \/ VerifyGarbage(c) \/ VerifySystemError(c) \/ VerifyReject(c)
         \/ VerifyUnpaid(c)
  PROVE  Safe'
<1>. DEFINE q == req[c]
            n == loop.n
<1>1. /\ Verifying(c) /\ NextResponse("ERR") /\ (blamed' = blamed \/ blamed' = blamed \cup Blame(c))
      /\ UNCHANGED <<chain, pc, cur, fresh, transports, suspect>>
  BY DEF VerifyErrorResponse, VerifyGarbage, VerifySystemError, VerifyReject, VerifyUnpaid, Arrived
<1>2. /\ pc = "verify" /\ c = chain[cur] /\ n \in DOMAIN q.raw /\ Current(c) = q.raw[n]
      /\ q.raw[n] \in Response
  BY <1>1, AtResponse DEF Current
<1>3. /\ ReqOK(q) /\ Record(q) /\ fresh = {} /\ q.kind # "sign" /\ q.raw # <<>> /\ q.vstate # "OK"
  BY <1>1, <1>2, AtVerify DEF Verifying
<1>. HIDE DEF q, n
<1>4. PICK r :
        /\ SetReq(c, r) /\ Tame(q, r) /\ r.vstate # "OK" /\ r.kind = q.kind /\ r.raw # <<>>
        /\ DOMAIN r.raw = DOMAIN q.raw
        /\ \A i \in DOMAIN q.raw : i # n => r.raw[i] = q.raw[i]
        /\ Current(c).state # "WAITING" /\ Doubtful(Current(c))
        /\ r.raw[n].state = "ERR" \/ (r.raw[n].state = "OK" /\ r.raw[n].data \notin {"good", "user"})
  <2>1. CASE VerifyErrorResponse(c)
    <3>. DEFINE r == WithError(q, "ERR")
    <3>1. SetReq(c, r) /\ q.raw[n].state # "WAITING" /\ (q.raw[n].state # "OK" \/ q.raw[n].data = "none")
      BY <1>2, <2>1 DEF VerifyErrorResponse, IsPending, q
    <3>2. Tame(q, r) /\ r.vstate = "ERR" /\ r.kind = q.kind /\ r.raw = q.raw
      BY <1>3, TameError
    <3>3. q.raw[n].state \in {"WAITING", "OK", "ERR"}
      BY <1>2 DEF Response
    <3>. HIDE DEF r
    <3>. QED
      BY <1>2, <1>3, <3>1, <3>2, <3>3 DEF Doubtful
  <2>2. CASE VerifyGarbage(c)
    <3>0. PICK u \in Unparsed(q) : SetReq(c, [WithError(u, "ERR") EXCEPT !.raw[n].data = "none"])
      BY <2>2 DEF VerifyGarbage, q, n
    <3>. DEFINE r == [WithError(u, "ERR") EXCEPT !.raw[n].data = "none"]
    <3>1. SetReq(c, r) /\ q.raw[n].state = "OK" /\ q.raw[n].data = "garbage"
      BY <1>2, <2>2, <3>0 DEF VerifyGarbage, Arrived, q, n
    <3>2. q.raw[n] = [state |-> "OK", data |-> "garbage"]
      BY <1>2, <3>1 DEF Response
    <3>3. /\ Tame(q, r) /\ r.vstate = "ERR" /\ r.kind = q.kind
          /\ DOMAIN r.raw = DOMAIN q.raw /\ r.raw # <<>>
          /\ \A i \in DOMAIN q.raw :
               r.raw[i] = q.raw[i] \/ (i = n /\ r.raw[i] = [state |-> "OK", data |-> "none"])
      <4>. DEFINE w == WithError(u, "ERR")
                  e == [state |-> "OK", data |-> "none"]
      <4>1. u \in Request /\ u.kind = q.kind /\ u.owner = q.owner /\ u.raw = q.raw /\ u.nodes = q.nodes
        BY <1>3, UnparsedFields DEF ReqOK
      <4>2. /\ w \in Request /\ w.kind = q.kind /\ w.owner = q.owner /\ w.raw = q.raw /\ w.nodes = q.nodes
            /\ w.vstate = "ERR"
        BY <4>1 DEF WithError, Request, RetCodes
      <4>. HIDE DEF w
      <4>3. /\ r.kind = w.kind /\ r.owner = w.owner /\ r.nodes = w.nodes /\ r.vstate = w.vstate
            /\ r.raw = [w.raw EXCEPT ![n] = [w.raw[n] EXCEPT !.data = "none"]]
        BY <4>2 DEF w, Request
      <4>4. [q.raw[n] EXCEPT !.data = "none"] = e
        BY <3>2
      <4>. HIDE DEF r
      <4>5. r.raw = [q.raw EXCEPT ![n] = e]
        BY <4>2, <4>3, <4>4
      <4>6. Doubtful(q.raw[n]) /\ e.data \in {"none", "msg"} /\ e.state # "WAITING"
        BY <3>2 DEF Doubtful
      <4>. HIDE DEF e
      <4>7. Tame(q, r)
        BY <1>2, <1>3, <3>1, <4>2, <4>3, <4>5, <4>6, TamePut
      <4>. QED
        BY <1>2, <1>3, <4>2, <4>3, <4>5, <4>7 DEF e
    <3>. HIDE DEF r
    <3>4. \A i \in DOMAIN q.raw : i # n => r.raw[i] = q.raw[i]
      BY <3>3
    <3>5. r.raw[n].state = "OK" /\ r.raw[n].data \notin {"good", "user"}
      BY <1>2, <3>2, <3>3
    <3>6. Current(c).state # "WAITING" /\ Doubtful(Current(c))
      BY <1>2, <3>2 DEF Doubtful
    <3>. QED
      BY <3>1, <3>3, <3>4, <3>5, <3>6
  <2>3. CASE VerifySystemError(c)
    <3>. DEFINE r == WithError(Parsed(q, "sys"), "ERR")
    <3>1. SetReq(c, r) /\ q.raw[n].state = "OK" /\ q.raw[n].data = "sys"
      BY <1>2, <2>3 DEF VerifySystemError, Arrived, q
    <3>2. /\ r.kind = q.kind /\ r.owner = q.owner /\ r.raw = q.raw /\ r.nodes = q.nodes
          /\ r.vstate = "ERR"
      BY <1>3 DEF WithError, Parsed, CleanUp, ReqOK, Request
    <3>3. Tame(q, r)
      BY <1>3, <3>2, TameLike
    <3>. HIDE DEF r
    <3>. QED
      BY <1>2, <1>3, <3>1, <3>2, <3>3 DEF Doubtful
  <2>4. CASE VerifyReject(c)
    <3>. DEFINE r == Rejected(q, n, Current(c).data, Logging)
    <3>1. SetReq(c, r) /\ q.raw[n].state = "OK" /\ q.raw[n].data \in {"bad", "soft"}
      BY <1>2, <2>4 DEF VerifyReject, Arrived, q, n
    <3>2. Doubtful(q.raw[n])
      BY <3>1 DEF Doubtful
    <3>3. /\ Tame(q, r) /\ r.vstate = "ERR" /\ r.kind = q.kind
          /\ DOMAIN r.raw = DOMAIN q.raw /\ r.raw # <<>>
          /\ \A i \in DOMAIN q.raw : r.raw[i] = q.raw[i] \/ (i = n /\ r.raw[i].state = "ERR")
      BY <1>2, <1>3, <3>1, <3>2, BuildAssumption, TameRejected
    <3>. HIDE DEF r
    <3>4. \A i \in DOMAIN q.raw : i # n => r.raw[i] = q.raw[i]
      BY <3>3
    <3>5. r.raw[n].state = "ERR" \/ (r.raw[n].state = "OK" /\ r.raw[n].data \notin {"good", "user"})
      BY <1>2, <3>1, <3>3
    <3>. QED
      BY <1>2, <3>1, <3>2, <3>3, <3>4, <3>5
  <2>5. CASE VerifyUnpaid(c)
    <3>. DEFINE r == Rejected(q, n, "pay", TRUE)
    <3>1. SetReq(c, r) /\ q.raw[n].state = "OK" /\ q.raw[n].data = "pay"
      BY <1>2, <2>5 DEF VerifyUnpaid, Arrived, q, n
    <3>2. Doubtful(q.raw[n])
      BY <3>1 DEF Doubtful
    <3>3. /\ Tame(q, r) /\ r.vstate = "ERR" /\ r.kind = q.kind
          /\ DOMAIN r.raw = DOMAIN q.raw /\ r.raw # <<>>
          /\ \A i \in DOMAIN q.raw : r.raw[i] = q.raw[i] \/ (i = n /\ r.raw[i].state = "ERR")
      <4>. DEFINE t == TRUE
      <4>1. t \in BOOLEAN
        OBVIOUS
      <4>. HIDE DEF t, q, n
      <4>2. LET p == Rejected(q, n, "pay", t)
            IN  /\ Tame(q, p) /\ p.vstate = "ERR" /\ p.kind = q.kind
                /\ DOMAIN p.raw = DOMAIN q.raw /\ p.raw # <<>>
                /\ \A i \in DOMAIN q.raw : p.raw[i] = q.raw[i] \/ (i = n /\ p.raw[i].state = "ERR")
        BY <1>2, <1>3, <3>1, <3>2, <4>1, TameRejected
      <4>. QED
        BY <4>2 DEF t
    <3>. HIDE DEF r
    <3>4. \A i \in DOMAIN q.raw : i # n => r.raw[i] = q.raw[i]
      BY <3>3
    <3>5. r.raw[n].state = "ERR" \/ (r.raw[n].state = "OK" /\ r.raw[n].data \notin {"good", "user"})
      BY <1>2, <3>1, <3>3
    <3>. QED
      BY <1>2, <3>1, <3>2, <3>3, <3>4, <3>5
  <2>. QED
    BY <2>1, <2>2, <2>3, <2>4, <2>5
<1>. QED
  BY <1>1, <1>2, <1>3, <1>4, NextSafe DEF q, n

(* A response is accepted. *)
LEMMA AcceptSafe ==
  ASSUME SInv, NEW c \in Ctx, VerifyAccept(c)
  PROVE  Safe'
<1>. DEFINE q == req[c]
            n == loop.n
            r == [Parsed(q, q.raw[n].data) EXCEPT !.vstate = "OK"]
<1>1. /\ Verifying(c) /\ loop' = [loop EXCEPT !.state = "OK"]
      /\ SetReq(c, [Parsed(q, Current(c).data) EXCEPT !.vstate = "OK"])
      /\ UNCHANGED <<chain, pc, cur, fresh, transports, blamed, suspect>>
  BY DEF VerifyAccept, Arrived
<1>2. /\ pc = "verify" /\ c = chain[cur] /\ n \in DOMAIN q.raw /\ Current(c) = q.raw[n]
      /\ q.raw[n] \in Response
  BY <1>1, AtResponse DEF Current
<1>3. /\ ReqOK(q) /\ Record(q) /\ fresh = {} /\ q.kind # "sign" /\ q.raw # <<>> /\ ~Accepted(q)
      /\ cur \in 1..Len(chain) /\ AllSettled /\ Looked(loop, q) /\ loop \in Loops
  BY <1>1, <1>2, AtVerify DEF Verifying
<1>4. /\ q.raw[n].state = "OK" /\ q.raw[n].data # "none"
      /\ q.nodes # <<>> => /\ q.raw[n].data \in Acceptable
                           /\ q.raw[n].data = "needs" => \E j \in SubsOf(cur, {"rpc"}) : ~NoResult(chain[j])
  BY <1>2 DEF VerifyAccept, Arrived, Unverified, Acceptable
<1>5. SetReq(chain[cur], r)
  BY <1>1, <1>2
<1>. HIDE DEF q, n
<1>6. Tame(q, r) /\ Accepted(r) /\ r.kind = q.kind /\ r.raw = q.raw /\ r.resp = q.raw[n].data
  BY <1>2, <1>3, <1>4, TameAccept
<1>. HIDE DEF r
<1>7. ASSUME r.kind = "rpc", r.resp = "needs"
      PROVE  \E j \in SubsOf(cur, {"rpc"}) :
               req[chain[j]].error \/ (~NoResult(chain[j]) /\ Accepted(req[chain[j]]))
  <2>1. q.nodes # <<>>
    BY <1>3, <1>6, <1>7 DEF Record
  <2>2. PICK j \in SubsOf(cur, {"rpc"}) : ~NoResult(chain[j])
    BY <1>4, <1>6, <1>7, <2>1
  <2>3. j \in Behind(cur) /\ req[chain[j]].kind = "rpc"
    BY DEF SubsOf, Behind
  <2>. QED
    BY <1>3, <2>2, <2>3 DEF AllSettled, Settled, Done
<1>8. loop'.state = "OK" /\ Looked(loop', r)
  <2>1. loop'.state = "OK" /\ loop'.n = loop.n /\ loop'.pending = loop.pending
    BY <1>1, <1>3 DEF Loops
  <2>. QED
    BY <1>3, <1>6, <2>1 DEF Looked, Passed
<1>9. IInv /\ DataInv /\ WalkInv /\ BlamedDeserveIt
  BY DEF SInv, Safe
<1>10. Tame(req[chain[cur]], r) /\ ~Accepted(req[chain[cur]])
  BY <1>2, <1>3, <1>6 DEF q
<1>11. DataInv'
  BY <1>1, <1>3, <1>5, <1>9, <1>10, TameSet
<1>12. pc' = "verify" /\ r.kind # "sign" /\ r.raw # <<>> /\ fresh' = {}
  BY <1>1, <1>2, <1>3, <1>6
<1>13. WalkInv'
  BY <1>1, <1>2, <1>3, <1>5, <1>6, <1>7, <1>8, <1>9, <1>10, <1>12, StayWalk
<1>14. BlamedDeserveIt'
  BY <1>1, <1>9 DEF BlamedDeserveIt
<1>. QED
  BY <1>11, <1>13, <1>14 DEF Safe

(* The context whose answer needs another call is the call of the user, or    *)
(* the one its plugin has sent.                                               *)
LEMMA AtNeeds ==
  ASSUME SInv, NEW c \in Ctx, c = chain[cur], cur \in 1..Len(chain), NeedsNow(loop, req[c])
  PROVE  /\ req[c].kind = "rpc" /\ (cur = 1 \/ (cur = 2 /\ RootKind = "intern"))
         /\ Doubtful(req[c].raw[loop.n]) /\ req[c].raw[loop.n].state = "OK"
         /\ RootKind = "intern" => cur # 1
<1>1. req[c].kind = "rpc" /\ (cur = 1 \/ (cur = 2 /\ RootKind = "intern"))
  BY DEF SInv, Safe, DataInv, NeedsOK, NeedsNow
<1>2. Doubtful(req[c].raw[loop.n]) /\ req[c].raw[loop.n].state = "OK"
  BY DEF NeedsNow, Doubtful
<1>. QED
  BY <1>1, <1>2 DEF RootKind

(* The response being looked at needs another call. *)
LEMMA ArrivedNeeds ==
  ASSUME SInv, NEW c \in Ctx, Arrived(c, {"needs"})
  PROVE  NeedsNow(loop, req[c]) /\ Verifying(c)
<1>1. Verifying(c) /\ Current(c).state = "OK" /\ Current(c).data = "needs"
  BY DEF Arrived
<1>2. loop.n \in DOMAIN req[c].raw /\ Current(c) \in Response
  BY <1>1, AtResponse
<1>3. req[c].raw[loop.n] = [state |-> "OK", data |-> "needs"]
  BY <1>1, <1>2 DEF Response, Current
<1>. QED
  BY <1>1, <1>2, <1>3 DEF NeedsNow

(* The verifier sends another call first. *)
LEMMA NeedsSubSafe ==
  ASSUME SInv, NEW c \in Ctx, VerifyNeedsSub(c)
  PROVE  Safe'
<1>. DEFINE r == [Parsed(req[c], "needs") EXCEPT !.vstate = "WAITING"]
<1>1. /\ Arrived(c, {"needs"}) /\ AddRequired("rpc", r)
      /\ UNCHANGED <<loop, transports, blamed, suspect>>
  BY DEF VerifyNeedsSub
<1>2. NeedsNow(loop, req[c]) /\ Verifying(c)
  BY <1>1, ArrivedNeeds
<1>3. pc = "verify" /\ c = chain[cur] /\ loop.state = "ERR"
  BY <1>2, AtResponse
<1>4. /\ ReqOK(req[c]) /\ Record(req[c]) /\ req[c].kind # "sign" /\ req[c].raw # <<>> /\ ~Accepted(req[c])
      /\ cur \in 1..Len(chain) /\ AllSettled /\ Looked(loop, req[c])
  BY <1>3, AtVerify
<1>5. req[c].kind = "rpc" /\ (cur = 1 \/ (cur = 2 /\ RootKind = "intern")) /\ (RootKind = "intern" => cur # 1)
  BY <1>2, <1>3, <1>4, AtNeeds
<1>6. /\ r.kind = req[c].kind /\ r.owner = req[c].owner /\ r.raw = req[c].raw /\ r.nodes = req[c].nodes
      /\ ~r.error /\ r.vstate = "WAITING"
  BY <1>4, ParsedSet
<1>. HIDE DEF r
<1>7. Tame(req[c], r) /\ ~Accepted(r)
  BY <1>4, <1>6, TameLike DEF Accepted
<1>8. Looked(loop, r) /\ NeedsNow(loop, r)
  BY <1>2, <1>4, <1>6 DEF Looked, NeedsNow
<1>9. IInv /\ DataInv /\ WalkInv /\ BlamedDeserveIt
  BY DEF SInv, Safe
<1>10. DataInv'
  BY <1>1, <1>3, <1>4, <1>5, <1>6, <1>7, <1>9, DataAdd
<1>11. WalkInv'
  BY <1>1, <1>3, <1>4, <1>5, <1>6, <1>7, <1>8, <1>9, AddWalk
<1>12. BlamedDeserveIt'
  BY <1>1, <1>9 DEF BlamedDeserveIt
<1>. QED
  BY <1>10, <1>11, <1>12 DEF Safe

(* The call the verifier needs has failed. *)
LEMMA SubFailsSafe ==
  ASSUME SInv, NEW c \in Ctx, VerifySubFails(c)
  PROVE  Safe'
<1>1. /\ blamed' = blamed \cup Blame(c) /\ pc' = "verify" /\ fresh' = fresh \ {cur} /\ NextResponse("ERR")
      /\ UNCHANGED <<chain, cur, ret, transports, suspect>>
  BY DEF VerifySubFails
<1>2. CASE /\ Arrived(c, {"needs"})
           /\ SetReq(c, Rejected(req[c], loop.n, "needs", Logging))
  <2>. DEFINE q == req[c]
              n == loop.n
              r == Rejected(q, n, "needs", Logging)
  <2>1. NeedsNow(loop, q) /\ Verifying(c)
    BY <1>2, ArrivedNeeds
  <2>2. pc = "verify" /\ c = chain[cur] /\ loop.state = "ERR" /\ n \in DOMAIN q.raw /\ Current(c) = q.raw[n]
    BY <2>1, AtResponse DEF Current
  <2>3. /\ ReqOK(q) /\ Record(q) /\ q.kind # "sign" /\ q.raw # <<>> /\ fresh = {}
        /\ cur \in 1..Len(chain)
    BY <2>2, AtVerify
  <2>4. Doubtful(q.raw[n]) /\ q.raw[n].state = "OK"
    BY <2>1, <2>2, <2>3, AtNeeds
  <2>5. q.raw[n].data = "needs"
    BY <2>1 DEF NeedsNow
  <2>6. SetReq(c, r)
    BY <1>2
  <2>. HIDE DEF q, n
  <2>7. /\ Tame(q, r) /\ r.vstate = "ERR" /\ r.kind = q.kind
        /\ DOMAIN r.raw = DOMAIN q.raw /\ r.raw # <<>>
        /\ \A i \in DOMAIN q.raw : r.raw[i] = q.raw[i] \/ (i = n /\ r.raw[i].state = "ERR")
    BY <2>2, <2>3, <2>4, BuildAssumption, TameRejected
  <2>. HIDE DEF r
  <2>8. /\ \A i \in DOMAIN q.raw : i # n => r.raw[i] = q.raw[i]
        /\ r.raw[n].state = "ERR" \/ (r.raw[n].state = "OK" /\ r.raw[n].data \notin {"good", "user"})
    BY <2>2, <2>4, <2>5, <2>7
  <2>9. fresh' = {} /\ Current(c).state # "WAITING" /\ Doubtful(Current(c))
    BY <1>1, <2>2, <2>3, <2>4
  <2>. QED
    BY <1>1, <2>1, <2>6, <2>7, <2>8, <2>9, NextSafe DEF q, n
<1>3. CASE /\ Executing(c) /\ ~req[c].error /\ req[c].raw # <<>>
           /\ ret \in {"ERR", "EIGNORE"} /\ cur \in fresh
           /\ SetReq(c, [req[c] EXCEPT !.vstate = "ERR"])
  <2>. DEFINE q == req[c]
              r == [q EXCEPT !.vstate = "ERR"]
  <2>1. /\ c = chain[cur] /\ pc = "exec" /\ cur \in 1..Len(chain) /\ Len(chain) \in Nat
        /\ ReqOK(q) /\ Record(q) /\ ExecOK /\ ret \in RetCodes
    BY <1>3, AtExec
  <2>2. IInv /\ DataInv /\ WalkInv /\ BlamedDeserveIt
    BY DEF SInv, Safe
  <2>3. NeedsNow(loop, q) /\ Looked(loop, q)
    BY <1>3, <2>1, <2>2 DEF WalkInv, LoopOK
  <2>4. q.kind = "rpc" /\ Doubtful(q.raw[loop.n]) /\ q.raw[loop.n].state = "OK"
    BY <2>1, <2>3, AtNeeds
  <2>5. AllSettled
    BY <1>3, <2>1 DEF ExecOK
  <2>6. ~Accepted(q)
    <3>1. ASSUME Accepted(q) PROVE FALSE
      <4>1. ChainOK /\ AcceptedDeep /\ Records
        BY <2>2 DEF IInv, WalkInv, DataInv
      <4>2. \A j \in Behind(cur) : Accepted(req[chain[j]])
        BY <2>1, <2>4, <3>1, <4>1, AcceptedInFront
      <4>3. \A j \in cur..Len(chain) : j = cur \/ j \in Behind(cur)
        BY <2>1 DEF Behind
      <4>4. \A j \in cur..Len(chain) : Accepted(req[chain[j]])
        BY <2>1, <3>1, <4>2, <4>3
      <4>5. ret = "OK"
        BY <2>1, <4>1, <4>4, AcceptedReturns
      <4>. QED
        BY <1>3, <4>5
    <3>. QED
      BY <3>1
  <2>7. /\ r.kind = q.kind /\ r.owner = q.owner /\ r.raw = q.raw /\ r.nodes = q.nodes
        /\ r.vstate = "ERR" /\ r.resp = q.resp
    BY <2>1 DEF ReqOK, Request
  <2>8. SetReq(chain[cur], r)
    BY <1>3, <2>1
  <2>. HIDE DEF r
  <2>9. Tame(q, r) /\ ~Accepted(r)
    BY <2>1, <2>7, TameLike DEF Accepted
  <2>10. fresh' = {}
    <3>1. ASSUME NEW k \in fresh, k # cur PROVE FALSE
      <4>1. k \in 1..cur /\ \A i \in (k + 1)..cur : Quiet(req[chain[i]])
        BY <2>2 DEF IInv, ControlOK, StackOK
      <4>2. cur \in (k + 1)..cur
        BY <2>1, <3>1, <4>1
      <4>. QED
        BY <1>3, <2>1, <4>1, <4>2 DEF Quiet
    <3>. QED
      BY <1>1, <3>1
  <2>11. loop \in Loops
    BY <2>2 DEF IInv, ControlOK
  <2>12. loop' \in Loops /\ loop'.n = loop.n + 1 /\ loop'.pending = loop.pending /\ loop'.state = "ERR"
    BY <1>1, <2>11, LoopSteps
  <2>13. Looked(loop', r)
    <3>. DEFINE l1 == loop'
    <3>1. /\ l1 \in Loops /\ loop \in Loops /\ Looked(loop, q)
          /\ l1.n = loop.n + 1 /\ l1.pending = loop.pending /\ loop.n \in DOMAIN q.raw /\ DOMAIN q.raw \subseteq Nat
          /\ DOMAIN r.raw = DOMAIN q.raw
          /\ (\A i \in DOMAIN q.raw : i # loop.n => r.raw[i] = q.raw[i])
          /\ q.raw[loop.n].state # "WAITING"
          /\ (r.raw[loop.n].state = "OK" /\ r.raw[loop.n].data \notin {"good", "user"})
      <4>1. DOMAIN q.raw \subseteq Nat
        BY <2>1, LenProperties DEF ReqOK, Request
      <4>2. loop.n \in DOMAIN q.raw /\ q.raw[loop.n].data = "needs"
        BY <2>3 DEF NeedsNow
      <4>. QED
        BY <2>3, <2>4, <2>7, <2>11, <2>12, <4>1, <4>2
    <3>. HIDE DEF l1, q
    <3>2. Looked(l1, r)
      BY <3>1, LookedStep
    <3>. QED
      BY <3>2 DEF l1
  <2>14. Tame(req[chain[cur]], r) /\ ~Accepted(req[chain[cur]]) /\ r.kind # "sign" /\ r.raw # <<>>
    BY <1>3, <2>1, <2>4, <2>6, <2>7, <2>9
  <2>15. DataInv'
    BY <1>1, <2>1, <2>2, <2>8, <2>14, TameSet
  <2>16. WalkInv'
    BY <1>1, <2>1, <2>2, <2>5, <2>7, <2>8, <2>9, <2>10, <2>12, <2>13, <2>14, StayWalk
  <2>17. BlamedDeserveIt'
    <3>1. Suspected(q) /\ loop.n \in DOMAIN q.raw
      BY <2>2, <2>3 DEF DataInv, AllSuspected, NeedsNow
    <3>. QED
      BY <1>1, <2>2, <2>4, <3>1, BlameSafe DEF Current
  <2>. QED
    BY <2>15, <2>16, <2>17 DEF Safe
<1>. QED
  BY <1>2, <1>3 DEF VerifySubFails

(* The call the verifier needs has a result that does not fit. *)
LEMMA SubWrongSafe ==
  ASSUME SInv, NEW c \in Ctx, VerifySubWrong(c)
  PROVE  Safe'
<1>. DEFINE q == req[c]
            n == loop.n
            r == Rejected(q, n, "needs", Logging)
<1>1. /\ Arrived(c, {"needs"}) /\ blamed' = blamed \cup Blame(c) /\ NextResponse("ERR")
      /\ UNCHANGED <<pc, cur, ret, fresh, suspect>>
  BY DEF VerifySubWrong
<1>2. PICK j \in SubsOf(cur, {"rpc"}) :
        RemoveOne(j) /\ req' = [req EXCEPT ![c] = r, ![chain[j]] = Unused]
  BY DEF VerifySubWrong
<1>3. NeedsNow(loop, q) /\ Verifying(c)
  BY <1>1, ArrivedNeeds
<1>4. pc = "verify" /\ c = chain[cur] /\ loop.state = "ERR" /\ n \in DOMAIN q.raw /\ Current(c) = q.raw[n]
  BY <1>3, AtResponse DEF Current
<1>5. /\ ReqOK(q) /\ Record(q) /\ q.kind # "sign" /\ q.raw # <<>> /\ fresh = {} /\ ~Accepted(q)
      /\ cur \in 1..Len(chain) /\ Len(chain) \in Nat /\ AllSettled /\ Looked(loop, q) /\ loop \in Loops /\ Suspected(q)
      /\ DOMAIN q.raw = 1..Len(q.raw) /\ Len(q.raw) \in Nat
  BY <1>4, AtVerify
<1>6. /\ Doubtful(q.raw[n]) /\ q.raw[n].state = "OK" /\ (cur = 1 \/ (cur = 2 /\ RootKind = "intern"))
      /\ RootKind = "intern" => cur # 1
  BY <1>3, <1>4, <1>5, AtNeeds
<1>7. q.raw[n].data = "needs"
  BY <1>3 DEF NeedsNow
<1>8. j \in (cur + 1)..Len(chain) /\ (RootKind = "intern" => j > 2)
  <2>1. j \in (cur + 1)..Len(chain)
    BY DEF SubsOf
  <2>. QED
    BY <1>5, <1>6, <2>1
<1>9. req' = [req EXCEPT ![chain[cur]] = r, ![chain[j]] = Unused]
  BY <1>2, <1>4
<1>. HIDE DEF q, n
<1>10. /\ Tame(q, r) /\ r.vstate = "ERR" /\ r.kind = q.kind
       /\ DOMAIN r.raw = DOMAIN q.raw /\ r.raw # <<>>
       /\ \A i \in DOMAIN q.raw : r.raw[i] = q.raw[i] \/ (i = n /\ r.raw[i].state = "ERR")
  BY <1>4, <1>5, <1>6, BuildAssumption, TameRejected
<1>. HIDE DEF r
<1>11. /\ \A i \in DOMAIN q.raw : i # n => r.raw[i] = q.raw[i]
       /\ r.raw[n].state = "ERR" \/ (r.raw[n].state = "OK" /\ r.raw[n].data \notin {"good", "user"})
  BY <1>4, <1>6, <1>7, <1>10
<1>12. loop' \in Loops /\ loop'.n = loop.n + 1 /\ loop'.pending = loop.pending /\ loop'.state = "ERR"
  BY <1>1, <1>5, LoopSteps
<1>13. Looked(loop', r)
  <2>. DEFINE l1 == loop'
  <2>1. /\ l1 \in Loops /\ loop \in Loops /\ Looked(loop, q)
        /\ l1.n = loop.n + 1 /\ l1.pending = loop.pending /\ loop.n \in DOMAIN q.raw /\ DOMAIN q.raw \subseteq Nat
        /\ DOMAIN r.raw = DOMAIN q.raw
        /\ (\A i \in DOMAIN q.raw : i # loop.n => r.raw[i] = q.raw[i])
        /\ q.raw[loop.n].state # "WAITING"
        /\ (r.raw[loop.n].state = "ERR" \/ (r.raw[loop.n].state = "OK" /\ r.raw[loop.n].data \notin {"good", "user"}))
    BY <1>4, <1>5, <1>6, <1>10, <1>11, <1>12 DEF n
  <2>. HIDE DEF l1
  <2>2. Looked(l1, r)
    BY <2>1, LookedStep
  <2>. QED
    BY <2>2 DEF l1
<1>14. Tame(req[chain[cur]], r) /\ ~Accepted(req[chain[cur]]) /\ ~Accepted(r) /\ r.kind # "sign"
  BY <1>4, <1>5, <1>10 DEF q, Accepted
<1>15. IInv /\ DataInv /\ WalkInv /\ BlamedDeserveIt
  BY DEF SInv, Safe
<1>16. /\ DataInv'
       /\ req'[chain[cur]] = r
       /\ \A i \in 1..Len(chain) : i # cur /\ i # j => req'[chain[i]] = req[chain[i]]
  BY <1>1, <1>2, <1>5, <1>8, <1>9, <1>14, <1>15, DataRemoveOne
<1>17. WalkInv'
  <2>1. pc' = pc /\ pc' = "verify" /\ cur' = cur /\ fresh' = {} /\ r.vstate # "OK" /\ r.raw # <<>>
    BY <1>1, <1>4, <1>5, <1>10
  <2>. QED
    BY <1>2, <1>4, <1>5, <1>6, <1>8, <1>12, <1>13, <1>14, <1>15, <1>16, <2>1, RemoveOneWalk
<1>18. BlamedDeserveIt'
  BY <1>1, <1>4, <1>5, <1>6, <1>15, BlameSafe DEF q, n
<1>. QED
  BY <1>16, <1>17, <1>18 DEF Safe

(* While find_valid_result has found nothing, the context returns with its    *)
(* responses dropped or kept.                                                 *)
LEMMA VerifyReturns ==
  ASSUME SInv, NEW c \in Ctx, pc = "verify", c = chain[cur], loop.state = "ERR",
         NEW r, SetReq(c, r), Tame(req[c], r), r.vstate # "OK", NEW v, Return(v),
         \/ v \in {"ERR", "EIGNORE"} /\ r.error
         \/ v = "WAITING" /\ Waits(r),
         \/ transports' = transports
         \/ transports' = Stale(transports, {c}) /\ r.raw = <<>>,
         UNCHANGED <<chain, blamed, suspect>>
  PROVE  Safe'
<1>1. /\ cur \in 1..Len(chain) /\ Len(chain) \in Nat /\ AllSettled /\ fresh = {} /\ ~Accepted(req[c])
  BY AtVerify
<1>2. IInv /\ DataInv /\ WalkInv /\ BlamedDeserveIt
  BY DEF SInv, Safe
<1>3. ~Accepted(r)
  BY DEF Accepted
<1>4. SetReq(chain[cur], r) /\ Tame(req[chain[cur]], r) /\ ~Accepted(req[chain[cur]])
  BY <1>1
<1>5. DataInv'
  BY <1>1, <1>2, <1>4, TameSet
<1>6. ~(\A j \in cur..Len(chain) : Accepted(req[chain[j]]))
  BY <1>1, <1>4
<1>7. WalkInv'
  BY <1>1, <1>2, <1>3, <1>4, <1>6, ReturnWalk
<1>8. BlamedDeserveIt'
  BY <1>2 DEF BlamedDeserveIt
<1>. QED
  BY <1>5, <1>7, <1>8 DEF Safe

(* The client pays and sends the request again. *)
LEMMA PaySafe ==
  ASSUME SInv, NEW c \in Ctx, VerifyPay(c)
  PROVE  Safe'
<1>. DEFINE q == req[c]
            r == [CleanUp(q) EXCEPT !.paid = TRUE, !.raw = <<>>, !.resp = "none", !.responses = "null"]
<1>1. /\ Verifying(c) /\ q.nodes # <<>> /\ SetReq(c, r) /\ transports' = Stale(transports, {c})
      /\ Return("WAITING") /\ UNCHANGED <<chain, blamed, suspect>>
  BY DEF VerifyPay, Arrived, Unverified
<1>2. pc = "verify" /\ c = chain[cur] /\ loop.state = "ERR"
  BY <1>1, AtResponse
<1>3. ReqOK(q) /\ Record(q) /\ q.kind # "sign" /\ q.vstate # "OK"
  BY <1>2, AtVerify
<1>4. /\ r.kind = q.kind /\ r.owner = q.owner /\ r.raw = <<>> /\ r.resp = "none" /\ r.vstate = "WAITING"
      /\ r.nodes = q.nodes /\ ~r.error
  BY <1>3 DEF ReqOK, Request, CleanUp
<1>5. q.kind # "intern"
  BY <1>1, <1>3 DEF ReqOK
<1>. HIDE DEF r, q
<1>6. Tame(q, r) /\ Waits(r)
  BY <1>1, <1>3, <1>4, <1>5, TameDrop DEF Waits
<1>. QED
  BY <1>1, <1>2, <1>4, <1>6, VerifyReturns DEF q

(* find_valid_result is over. *)
LEMMA EndSafe ==
  ASSUME SInv, NEW c \in Ctx, EndAccepted(c) \/ EndStillPending(c) \/ EndGiveUp(c)
  PROVE  Safe'
<1>. DEFINE q == req[c]
<1>1. pc = "verify" /\ c = chain[cur]
  BY DEF EndAccepted, EndStillPending, EndGiveUp, Exhausted, Verified
<1>2. /\ cur \in 1..Len(chain) /\ ReqOK(q) /\ Record(q) /\ q.kind # "sign" /\ Looked(loop, q) /\ AllSettled
      /\ loop.state = "OK" => Accepted(q)
      /\ q.raw # <<>>
  BY <1>1, AtVerify
<1>3. CASE EndAccepted(c)
  <2>1. /\ loop.state = "OK" /\ Return("OK") /\ req' = req
        /\ UNCHANGED <<chain, transports, blamed, suspect>>
    BY <1>3 DEF EndAccepted
  <2>2. Done(req[chain[cur]])
    BY <1>1, <1>2, <2>1 DEF Done
  <2>. QED
    BY <1>1, <1>2, <2>1, <2>2, SameSafe
<1>4. CASE EndStillPending(c)
  <2>. DEFINE r == DropRejected(q)
  <2>1. /\ loop.state = "ERR" /\ loop.pending /\ SetReq(c, r) /\ Return("WAITING")
        /\ UNCHANGED <<chain, transports, blamed, suspect>>
    BY <1>4 DEF EndStillPending, StillPending
  <2>2. /\ r.kind = q.kind /\ r.owner = q.owner /\ r.raw = q.raw /\ r.resp = "none" /\ r.vstate = "WAITING"
        /\ r.nodes = q.nodes /\ ~r.error
    BY <1>2 DEF ReqOK, Request, DropRejected
  <2>3. \E n \in DOMAIN q.raw : q.raw[n].state = "WAITING"
    BY <1>2, <2>1 DEF Looked
  <2>4. q.kind # "intern"
    BY <1>2, <2>3 DEF Record
  <2>. HIDE DEF r, q
  <2>5. Tame(q, r) /\ Waits(r)
    BY <1>2, <2>2, <2>3, <2>4, TameLike DEF Waits
  <2>. QED
    BY <1>1, <2>1, <2>2, <2>5, VerifyReturns DEF q
<1>5. CASE EndGiveUp(c)
  <2>. DEFINE v == GiveUpCode(q)
              r == WithError(NextAttempt(q), v)
  <2>1. /\ loop.state = "ERR" /\ SetReq(c, r) /\ Return(v) /\ transports' = Stale(transports, {c})
        /\ UNCHANGED <<chain, blamed, suspect>>
    BY <1>5 DEF EndGiveUp, Exhausted
  <2>2. v \in {"ERR", "EIGNORE"}
    BY DEF GiveUpCode
  <2>. HIDE DEF v
  <2>3. /\ r.kind = q.kind /\ r.owner = q.owner /\ r.raw = <<>> /\ r.resp = "none" /\ r.vstate = v /\ r.error
    BY <1>2 DEF ReqOK, Request, WithError, NextAttempt, Freed
  <2>. HIDE DEF r, q
  <2>4. Tame(q, r) /\ r.vstate # "OK"
    BY <1>2, <2>2, <2>3, TameDrop
  <2>. QED
    BY <1>1, <2>1, <2>2, <2>3, <2>4, VerifyReturns DEF q
<1>. QED
  BY <1>3, <1>4, <1>5

(* All responses failed and the context starts over. *)
LEMMA RetrySafe ==
  ASSUME SInv, NEW c \in Ctx, EndRetry(c)
  PROVE  Safe'
<1>. DEFINE q == req[c]
            r == [NextAttempt(q) EXCEPT !.error = FALSE, !.vstate = "WAITING"]
<1>1. /\ pc = "verify" /\ c = chain[cur] /\ loop.state = "ERR" /\ SetReq(c, r)
      /\ transports' = Stale(transports, {c}) /\ pc' = "exec" /\ ret' = "OK" /\ cur' = Again(cur)
      /\ UNCHANGED <<chain, fresh, loop, blamed, suspect>>
  BY DEF EndRetry, Exhausted, Verified
<1>2. /\ cur \in 1..Len(chain) /\ ReqOK(q) /\ Record(q) /\ AllSettled /\ ~Accepted(q) /\ fresh = {}
  BY <1>1, AtVerify
<1>3. /\ r.kind = q.kind /\ r.owner = q.owner /\ r.raw = <<>> /\ r.resp = "none" /\ r.vstate = "WAITING"
      /\ ~r.error
  BY <1>2 DEF ReqOK, Request, NextAttempt, Freed
<1>. HIDE DEF r
<1>4. Tame(q, r) /\ ~Accepted(r)
  BY <1>2, <1>3, TameDrop DEF Accepted
<1>5. /\ SetReq(chain[cur], r) /\ Tame(req[chain[cur]], r) /\ ~Accepted(req[chain[cur]])
      /\ transports' = Stale(transports, {chain[cur]})
  BY <1>1, <1>2, <1>4
<1>. HIDE DEF q
<1>6. IInv /\ DataInv /\ WalkInv /\ BlamedDeserveIt
  BY DEF SInv, Safe
<1>7. DataInv'
  BY <1>1, <1>2, <1>3, <1>5, <1>6, TameSet
<1>8. WalkInv'
  <2>1. CASE cur' = cur
    BY <1>1, <1>2, <1>3, <1>4, <1>5, <1>6, <2>1, StayWalk
  <2>2. CASE cur < Len(chain) /\ req[chain[cur + 1]].error /\ cur' = cur + 1
    BY <1>1, <1>2, <1>3, <1>4, <1>5, <1>6, <2>2, AgainWalk
  <2>. QED
    BY <1>1, <2>1, <2>2 DEF Again
<1>9. BlamedDeserveIt'
  BY <1>1, <1>6 DEF BlamedDeserveIt
<1>. QED
  BY <1>7, <1>8, <1>9 DEF Safe

(* Every step of find_valid_result. *)
LEMMA VerifySafe ==
  ASSUME SInv, NEW c \in Ctx, Verify(c)
  PROVE  Safe'
BY SkipSafe, RejectSafe, AcceptSafe, NeedsSubSafe, SubFailsSafe, SubWrongSafe, PaySafe, EndSafe, RetrySafe
   DEF Verify

-----------------------------------------------------------------------------
(* in3_send_req *)

(* The context the transport works on gets new fields: its responses are in   *)
(* order and the node of a doubtful one is recorded.                          *)
LEMMA DeliverSafe ==
  ASSUME SInv, pc = "dispatch", ReqState \notin {"ERROR", "SUCCESS"}, NEW c \in Ctx, c = LastWaiting,
         NEW r, SetReq(c, r), r.kind = req[c].kind, r.owner = req[c].owner,
         Record(r), r.vstate # "OK",
         \A n \in DOMAIN r.raw : r.raw[n].data = "needs" =>
           CanNeed(c) \/ (n \in DOMAIN req[c].raw /\ req[c].raw[n].data = "needs"),
         suspect \subseteq suspect', Suspected(r)', LiveOK',
         Enter, UNCHANGED <<chain, loop, blamed>>
  PROVE  Safe'
<1>1. IInv /\ DataInv /\ WalkInv /\ BlamedDeserveIt /\ ChainOK /\ DataOK
  BY DEF SInv, Safe, IInv
<1>2. Shape /\ Records /\ NeedsOK /\ AllSuspected
  BY <1>1 DEF DataInv
<1>3. PICK m \in 1..Len(chain) :
        LastWaiting = chain[m] /\ Waits(req[chain[m]]) /\ ~Failed(1..Len(chain))
  BY <1>1, WaitingAt
<1>4. c = chain[m] /\ SetReq(chain[m], r) /\ Len(chain) \in Nat
  BY <1>1, <1>3, ChainSeq
<1>5. WalkInv'
  <2>1. ~Accepted(r)
    BY DEF Accepted
  <2>2. r.kind = req[chain[m]].kind /\ r.owner = req[chain[m]].owner
    BY <1>4
  <2>. QED
    BY <1>1, <1>3, <1>4, <2>1, <2>2, EnterWalk
<1>6. /\ req'[chain[m]] = r
      /\ \A i \in 1..Len(chain) : i # m => req'[chain[i]] = req[chain[i]]
      /\ \A x \in Ctx : x # chain[m] => req'[x] = req[x]
  BY <1>1, <1>2, <1>4, SetPositions
<1>7. \A x \in Ctx : req'[x] = req[x] \/ (x = c /\ req'[x] = r)
  BY <1>4, <1>6
<1>8. \A x \in Ctx : req'[x].kind = req[x].kind /\ req'[x].owner = req[x].owner
  BY <1>7
<1>9. Shape'
  BY <1>1, <1>2, <1>8, ShapeKept
<1>10. Records'
  BY <1>2, <1>7 DEF Records
<1>11. AllSuspected'
  <2>1. ASSUME NEW x \in Ctx PROVE Suspected(req[x])'
    <3>1. CASE req'[x] = r
      BY <3>1 DEF Suspected
    <3>2. CASE req'[x] = req[x]
      <4>1. Suspected(req[x])
        BY <1>2 DEF AllSuspected
      <4>. QED
        BY <3>2, <4>1 DEF Suspected
    <3>. QED
      BY <1>7, <3>1, <3>2
  <2>. QED
    BY <2>1 DEF AllSuspected
<1>12. CanNeed(c) => m = 1 \/ (m = 2 /\ RootKind = "intern")
  <2>. SUFFICES ASSUME CanNeed(c), m # 1 PROVE m = 2 /\ RootKind = "intern"
    OBVIOUS
  <2>1. m \in 2..Len(chain) /\ 2 \in 2..Len(chain)
    BY <1>3, <1>4
  <2>2. OwnerOK(m) /\ OwnerOK(2)
    BY <1>2, <2>1 DEF Shape
  <2>3. /\ req[chain[m]].kind = "rpc" /\ req[chain[m]].owner # NoCtx
        /\ req[req[chain[m]].owner].kind = "intern"
    BY <1>4, <2>2 DEF CanNeed, OwnerOK
  <2>4. req[chain[2]].kind # "intern"
    BY <2>2 DEF OwnerOK
  <2>5. req[chain[m]].owner = chain[1] /\ (RootKind = "intern" => m = 2)
    BY <2>2, <2>3, <2>4 DEF OwnerOK
  <2>. QED
    BY <2>3, <2>5 DEF RootKind
<1>13. NeedsOK'
  <2>1. 1 \in 1..Len(chain)
    BY <1>3, <1>4
  <2>2. RootKind' = RootKind
    <3>1. chain[1] \in Ctx
      BY <1>1, <2>1, ChainSeq
    <3>. QED
      BY <1>8, <3>1 DEF RootKind
  <2>. SUFFICES ASSUME NEW i \in 1..Len(chain), NEW n \in DOMAIN req'[chain[i]].raw,
                       req'[chain[i]].raw[n].data = "needs"
                PROVE  req'[chain[i]].kind = "rpc" /\ (i = 1 \/ (i = 2 /\ RootKind' = "intern"))
    BY DEF NeedsOK
  <2>3. chain[i] \in Ctx
    BY <1>1, ChainSeq
  <2>4. CASE n \in DOMAIN req[chain[i]].raw /\ req[chain[i]].raw[n].data = "needs"
    BY <1>2, <1>8, <2>2, <2>3, <2>4 DEF NeedsOK
  <2>5. CASE i = m /\ CanNeed(c)
    BY <1>4, <1>8, <1>12, <2>2, <2>3, <2>5 DEF CanNeed
  <2>. QED
    BY <1>4, <1>6, <2>4, <2>5
<1>14. BlamedDeserveIt'
  BY <1>1 DEF BlamedDeserveIt
<1>. QED
  BY <1>5, <1>9, <1>10, <1>11, <1>13, <1>14 DEF Safe, DataInv

(* What is known of the context the transport works on. *)
LEMMA AtWaiting ==
  ASSUME SInv, pc = "dispatch", ReqState \in {"TO_SEND", "FOR_RESPONSE"}, NEW c \in Ctx, c = LastWaiting
  PROVE  /\ ReqState \notin {"ERROR", "SUCCESS"}
         /\ ReqOK(req[c]) /\ Record(req[c]) /\ Suspected(req[c]) /\ Waits(req[c]) /\ ReqState = LocalState(c)
         /\ req[c].vstate # "OK" /\ req[c].kind # "intern" /\ req[c].resp = "none"
         /\ LiveOK /\ ConnOK
<1>1. IInv /\ DataInv /\ WalkInv
  BY DEF SInv, Safe
<1>2. ReqState \notin {"ERROR", "SUCCESS"}
  OBVIOUS
<1>3. Waits(req[c]) /\ ReqState = LocalState(c)
  BY <1>1, <1>2, WaitingAt
<1>4. ReqOK(req[c]) /\ Record(req[c]) /\ Suspected(req[c]) /\ LiveOK /\ ConnOK
  BY <1>1 DEF IInv, DataOK, DataInv, Records, AllSuspected
<1>. QED
  BY <1>2, <1>3, <1>4 DEF Waits, Record

(* The signer has answered or failed, or the payload could not be created. *)
LEMMA SignSafe ==
  ASSUME SInv, NEW c \in Ctx, SendSign(c) \/ SendNoPayload(c)
  PROVE  Safe'
<1>. DEFINE q == req[c]
<1>1. /\ pc = "dispatch" /\ ReqState = "TO_SEND" /\ c = LastWaiting /\ Enter
      /\ UNCHANGED <<chain, loop, transports, blamed, suspect>>
  BY DEF SendSign, SendNoPayload
<1>2. /\ ReqState \notin {"ERROR", "SUCCESS"}
      /\ ReqOK(q) /\ Record(q) /\ Suspected(q) /\ ReqState = LocalState(c)
      /\ q.vstate # "OK" /\ q.kind # "intern" /\ q.resp = "none"
      /\ LiveOK /\ ConnOK
  BY <1>1, AtWaiting
<1>3. \E r : /\ SetReq(c, r) /\ r.kind = q.kind /\ r.owner = q.owner /\ r.nodes = q.nodes
             /\ Record(r) /\ r.vstate # "OK"
             /\ \A n \in DOMAIN r.raw : r.raw[n].data # "needs" \/ r.raw = q.raw
             /\ r.raw = q.raw \/ (q.kind = "sign" /\ q.nodes = <<>>)
  <2>1. ASSUME SendSign(c), NEW d \in {"sig", "none"}, NEW r,
               \/ r = [q EXCEPT !.raw = <<[state |-> "OK", data |-> d]>>]
               \/ r = WithError([q EXCEPT !.raw = <<[state |-> "OK", data |-> d]>>], "ERR")
        PROVE  /\ r.kind = q.kind /\ r.owner = q.owner /\ r.nodes = q.nodes
               /\ Record(r) /\ r.vstate # "OK"
               /\ \A n \in DOMAIN r.raw : r.raw[n].data # "needs"
               /\ q.kind = "sign" /\ q.nodes = <<>>
    <3>1. q.kind = "sign" /\ q.nodes = <<>>
      BY <1>2, <2>1 DEF SendSign, ReqOK
    <3>2. /\ r.kind = q.kind /\ r.owner = q.owner /\ r.nodes = q.nodes /\ r.resp = q.resp
          /\ r.vstate # "OK" /\ r.raw = <<[state |-> "OK", data |-> d]>>
      BY <1>2, <2>1 DEF ReqOK, Request, WithError
    <3>3. \A n \in DOMAIN r.raw : r.raw[n] = [state |-> "OK", data |-> d]
      BY <3>2
    <3>4. r.raw # <<>>
      BY <3>2
    <3>. QED
      BY <1>2, <2>1, <3>1, <3>2, <3>3, <3>4 DEF Record
  <2>2. CASE SendSign(c)
    <3>1. PICK d \in {"sig", "none"} : \E r :
            /\ SetReq(c, r)
            /\ \/ r = [q EXCEPT !.raw = <<[state |-> "OK", data |-> d]>>]
               \/ r = WithError([q EXCEPT !.raw = <<[state |-> "OK", data |-> d]>>], "ERR")
      BY <2>2 DEF SendSign
    <3>2. PICK r :
            /\ SetReq(c, r)
            /\ \/ r = [q EXCEPT !.raw = <<[state |-> "OK", data |-> d]>>]
               \/ r = WithError([q EXCEPT !.raw = <<[state |-> "OK", data |-> d]>>], "ERR")
      BY <3>1
    <3>. QED
      BY <2>1, <2>2, <3>2
  <2>3. CASE SendNoPayload(c)
    <3>. DEFINE r == WithError(q, "ERR")
    <3>1. SetReq(c, r)
      BY <2>3 DEF SendNoPayload
    <3>2. Tame(q, r) /\ r.kind = q.kind /\ r.raw = q.raw /\ r.vstate = "ERR"
      BY <1>2, TameError
    <3>3. r.nodes = q.nodes
      BY <1>2 DEF WithError, ReqOK, Request
    <3>. HIDE DEF r
    <3>. QED
      BY <3>1, <3>2, <3>3 DEF Tame
  <2>. QED
    BY <2>2, <2>3
<1>4. PICK r : /\ SetReq(c, r) /\ r.kind = q.kind /\ r.owner = q.owner /\ r.nodes = q.nodes
               /\ Record(r) /\ r.vstate # "OK"
               /\ \A n \in DOMAIN r.raw : r.raw[n].data # "needs" \/ r.raw = q.raw
               /\ r.raw = q.raw \/ (q.kind = "sign" /\ q.nodes = <<>>)
  BY <1>3
<1>5. Suspected(r)'
  <2>1. CASE r.raw = q.raw
    BY <1>1, <1>2, <1>4, <2>1 DEF Suspected
  <2>2. CASE q.nodes = <<>>
    BY <1>4, <2>2 DEF Suspected
  <2>. QED
    BY <1>4, <2>1, <2>2
<1>6. LiveOK'
  <2>1. \A x \in Ctx : req'[x] = req[x] \/ (x = c /\ req'[x] = r)
    BY <1>4 DEF SetReq, SInv, IInv, DataOK
  <2>2. \A x \in Ctx :
           /\ req'[x].kind = "intern" => req[x].kind = "intern"
           /\ req'[x].raw # <<>> /\ req'[x].kind \notin {"sign", "intern"} =>
                req[x].raw # <<>> /\ req[x].kind # "sign"
    BY <1>4, <2>1
  <2>. QED
    BY <1>1, <1>2, <2>2, LiveSame
<1>7. suspect \subseteq suspect'
  BY <1>1
<1>8. \A n \in DOMAIN r.raw : r.raw[n].data = "needs" =>
        CanNeed(c) \/ (n \in DOMAIN req[c].raw /\ req[c].raw[n].data = "needs")
  BY <1>4
<1>. QED
  BY <1>1, <1>2, <1>4, <1>5, <1>6, <1>7, <1>8, DeliverSafe

(* transport_cleanup leaves the entries of the other contexts as they are. *)
LEMMA CleanedSlots ==
  ASSUME ConnOK, NEW c \in Ctx
  PROVE  /\ CleanedOf(c) \in Seq(Slot)
         /\ \A j \in DOMAIN CleanedOf(c) :
              \/ CleanedOf(c)[j].req = NoCtx
              \/ j \in DOMAIN transports /\ CleanedOf(c)[j] = transports[j] /\ transports[j].req # c
<1>. DEFINE ts == CleanedOf(c)
<1>1. transports \in Seq(Slot) /\ Distinct(transports)
  BY DEF ConnOK, ConnectionsAccounted, Distinct
<1>2. CASE EntriesOf(c) = {}
  <2>1. ts = transports
    BY <1>2 DEF CleanedOf
  <2>. QED
    BY <1>1, <1>2, <2>1 DEF EntriesOf
<1>3. CASE EntriesOf(c) # {}
  <2>. DEFINE x == FirstOf(EntriesOf(c))
              e == [req |-> NoCtx, live |-> FALSE]
  <2>1. EntriesOf(c) \in SUBSET Nat
    BY <1>1, LenProperties DEF EntriesOf
  <2>2. x \in EntriesOf(c)
    BY <1>3, <2>1, FirstOfIn
  <2>3. x \in DOMAIN transports /\ transports[x].req = c /\ c # NoCtx
    BY <2>2, CtxAssumption DEF EntriesOf
  <2>4. ts = [transports EXCEPT ![x] = e]
    BY <1>3 DEF CleanedOf
  <2>5. e \in Slot /\ e.req = NoCtx
    BY DEF Slot
  <2>. HIDE DEF x, ts, e
  <2>6. ts \in Seq(Slot) /\ DOMAIN ts = DOMAIN transports
    BY <1>1, <2>3, <2>4, <2>5, ExceptSeq, LenProperties
  <2>7. ts[x] = e /\ \A j \in DOMAIN transports : j # x => ts[j] = transports[j] /\ transports[j].req # c
    BY <1>1, <2>3, <2>4 DEF Distinct
  <2>. QED
    BY <2>5, <2>6, <2>7 DEF ts
<1>. QED
  BY <1>2, <1>3

(* A stored connection writes to the responses just created, the other        *)
(* entries are as before.                                                     *)
LEMMA StoredSlots ==
  ASSUME NEW ts \in Seq(Slot), NEW c
  PROVE  \A j \in DOMAIN Store(ts, c) :
           \/ Store(ts, c)[j] = [req |-> c, live |-> TRUE]
           \/ j \in DOMAIN ts /\ Store(ts, c)[j] = ts[j]
<1>. DEFINE free == {i \in DOMAIN ts : ts[i].req = NoCtx}
            e == [req |-> c, live |-> TRUE]
            us == Store(ts, c)
<1>1. DOMAIN ts = 1..Len(ts) /\ Len(ts) \in Nat
  BY LenProperties
<1>2. CASE free = {}
  <2>1. us = Append(ts, e)
    BY <1>2 DEF Store
  <2>. HIDE DEF us, e
  <2>2. DOMAIN us = 1..(Len(ts) + 1) /\ us[Len(ts) + 1] = e /\ \A j \in 1..Len(ts) : us[j] = ts[j]
    BY <1>1, <2>1
  <2>. QED
    BY <1>1, <2>2 DEF us, e
<1>3. CASE free # {}
  <2>. DEFINE x == FirstOf(free)
  <2>1. us = [ts EXCEPT ![x] = e]
    BY <1>3 DEF Store
  <2>. HIDE DEF us, e, x
  <2>2. DOMAIN us = DOMAIN ts /\ \A j \in DOMAIN ts : us[j] = e \/ us[j] = ts[j]
    BY <2>1
  <2>. QED
    BY <2>2 DEF us, e
<1>. QED
  BY <1>2, <1>3

(* in3_handle_rpc: what the transport has answered so far is stored, its      *)
(* connections are kept.                                                      *)
LEMMA SendRpcSafe ==
  ASSUME SInv, NEW c \in Ctx, ReadyToSend(c), NEW sent, NEW cptr \in BOOLEAN, NEW ok \in BOOLEAN,
         \A i \in DOMAIN sent : i \in 1..UrlCount(c) /\ sent[i] \in Delivery(c),
         SendRpc(c, sent, cptr, ok)
  PROVE  Safe'
<1>. DEFINE q   == req[c]
            n   == UrlCount(c)
            raw == [i \in 1..n |-> IF i \in DOMAIN sent THEN sent[i] ELSE Waiting]
            p   == [q EXCEPT !.raw = raw]
            ts  == CleanedOf(c)
<1>1. /\ pc = "dispatch" /\ ReqState = "TO_SEND" /\ c = LastWaiting /\ q.kind # "sign"
  BY DEF ReadyToSend
<1>2. /\ SetReq(c, IF ok THEN p ELSE WithError(p, "ERR")) /\ transports' = (IF cptr THEN Store(ts, c) ELSE ts)
      /\ suspect' = suspect \cup UNION {NodeOf(c, i) : i \in {j \in DOMAIN sent : Doubtful(sent[j])}}
      /\ Enter /\ UNCHANGED <<chain, loop, blamed>>
  BY DEF SendRpc
<1>3. /\ ReqState \notin {"ERROR", "SUCCESS"}
      /\ ReqOK(q) /\ Waits(q) /\ LocalState(c) = "TO_SEND"
      /\ q.vstate # "OK" /\ q.kind # "intern" /\ q.resp = "none"
      /\ LiveOK /\ ConnOK
  BY <1>1, AtWaiting
<1>4. q.raw = <<>> /\ (q.kind \in {"rpc", "nodeList"} => q.nodes # <<>>)
  <2>1. q.raw = <<>>
    BY <1>3 DEF LocalState
  <2>. QED
    BY <1>3, <2>1 DEF Waits
<1>5. n \in Nat /\ n >= 1
  <2>1. q.nodes \in Seq(Nodes)
    BY <1>3 DEF ReqOK, Request
  <2>. QED
    BY <2>1, EmptySeq, LenProperties DEF UrlCount
<1>6. DOMAIN raw = 1..n /\ raw # <<>> /\ \A i \in 1..n : raw[i] = IF i \in DOMAIN sent THEN sent[i] ELSE Waiting
  <2>1. DOMAIN raw = 1..n /\ \A i \in 1..n : raw[i] = IF i \in DOMAIN sent THEN sent[i] ELSE Waiting
    OBVIOUS
  <2>2. 1 \in DOMAIN raw
    BY <1>5, <2>1
  <2>3. 1 \notin DOMAIN <<>>
    OBVIOUS
  <2>. HIDE DEF raw, n
  <2>. QED
    BY <2>1, <2>2, <2>3
<1>. HIDE DEF raw
<1>7. /\ p.kind = q.kind /\ p.owner = q.owner /\ p.nodes = q.nodes /\ p.raw = raw /\ p.vstate = q.vstate
  BY <1>3 DEF ReqOK, Request
<1>8. PICK r : /\ SetReq(c, r) /\ r.kind = q.kind /\ r.owner = q.owner /\ r.nodes = q.nodes
               /\ r.raw = raw /\ r.vstate # "OK"
  <2>1. CASE ok
    BY <1>2, <1>3, <1>7, <2>1
  <2>2. CASE ~ok
    <3>. DEFINE w == WithError(p, "ERR")
    <3>1. SetReq(c, w)
      BY <1>2, <2>2
    <3>2. w.kind = q.kind /\ w.owner = q.owner /\ w.nodes = q.nodes /\ w.raw = raw /\ w.vstate = "ERR"
      BY <1>3 DEF WithError, ReqOK, Request
    <3>. HIDE DEF w
    <3>. QED
      BY <3>1, <3>2
  <2>. QED
    BY <2>1, <2>2
<1>. HIDE DEF p
<1>9. Record(r)
  BY <1>1, <1>3, <1>4, <1>6, <1>8 DEF Record
<1>10. suspect \subseteq suspect'
  BY <1>2
<1>11. Suspected(r)'
  <2>. SUFFICES ASSUME NEW i \in DOMAIN r.raw, r.raw[i].state # "WAITING", Doubtful(r.raw[i]), r.nodes # <<>>
                PROVE  r.nodes[i] \in suspect'
    BY DEF Suspected
  <2>1. i \in DOMAIN sent /\ r.raw[i] = sent[i]
    BY <1>6, <1>8 DEF Waiting
  <2>2. NodeOf(c, i) \subseteq suspect'
    BY <1>2, <2>1
  <2>. QED
    BY <1>8, <2>2 DEF NodeOf
<1>12. \A i \in DOMAIN r.raw : r.raw[i].data = "needs" => CanNeed(c)
  <2>. SUFFICES ASSUME NEW i \in DOMAIN r.raw, r.raw[i].data = "needs" PROVE CanNeed(c)
    OBVIOUS
  <2>1. i \in DOMAIN sent /\ r.raw[i] = sent[i]
    BY <1>6, <1>8 DEF Waiting
  <2>. QED
    BY <2>1 DEF Delivery
<1>13. LiveOK'
  <2>1. /\ ts \in Seq(Slot)
        /\ \A j \in DOMAIN ts :
             \/ ts[j].req = NoCtx
             \/ j \in DOMAIN transports /\ ts[j] = transports[j] /\ transports[j].req # c
    BY <1>3, CleanedSlots
  <2>. HIDE DEF ts
  <2>2. \A j \in DOMAIN transports' :
          \/ transports'[j] = [req |-> c, live |-> TRUE]
          \/ transports'[j].req = NoCtx
          \/ j \in DOMAIN transports /\ transports'[j] = transports[j] /\ transports[j].req # c
    <3>1. CASE cptr
      <4>1. \A j \in DOMAIN Store(ts, c) :
              \/ Store(ts, c)[j] = [req |-> c, live |-> TRUE]
              \/ j \in DOMAIN ts /\ Store(ts, c)[j] = ts[j]
        BY <2>1, StoredSlots
      <4>. QED
        BY <1>2, <2>1, <3>1, <4>1
    <3>2. CASE ~cptr
      BY <1>2, <2>1, <3>2
    <3>. QED
      BY <3>1, <3>2
  <2>3. \A x : x # c => req'[x] = req[x]
    BY <1>8 DEF SetReq
  <2>4. req'[c] = r
    BY <1>8 DEF SetReq, SInv, IInv, DataOK
  <2>. SUFFICES ASSUME NEW j \in DOMAIN transports'
                PROVE  Live(transports[j])'
    BY DEF LiveOK
  <2>5. CASE transports'[j] = [req |-> c, live |-> TRUE]
    BY <1>3, <1>8, <2>4, <2>5 DEF Live
  <2>6. CASE transports'[j].req = NoCtx
    BY <2>6 DEF Live
  <2>7. CASE j \in DOMAIN transports /\ transports'[j] = transports[j] /\ transports[j].req # c
    BY <1>3, <2>3, <2>7 DEF Live, LiveOK
  <2>. QED
    BY <2>2, <2>5, <2>6, <2>7
<1>. QED
  BY <1>1, <1>2, <1>3, <1>8, <1>9, <1>10, <1>11, <1>12, <1>13, DeliverSafe

(* in3_handle_rpc_next: a pending response arrives, or is given up. *)
LEMMA ReceiveSafe ==
  ASSUME SInv, NEW c \in Ctx, Receive(c) \/ ReceiveNothing(c)
  PROVE  Safe'
<1>. DEFINE q == req[c]
<1>1. /\ pc = "dispatch" /\ ReqState = "FOR_RESPONSE" /\ c = LastWaiting
      /\ Enter /\ UNCHANGED <<chain, loop, transports, blamed>>
  BY DEF Receive, ReceiveNothing, AwaitsResponse
<1>2. /\ ReqState \notin {"ERROR", "SUCCESS"}
      /\ ReqOK(q) /\ Record(q) /\ Suspected(q) /\ Waits(q) /\ LocalState(c) = "FOR_RESPONSE"
      /\ q.vstate # "OK" /\ q.kind # "intern" /\ q.resp = "none"
      /\ LiveOK /\ ConnOK
  BY <1>1, AtWaiting
<1>3. q.raw # <<>> /\ q.kind # "sign"
  <2>1. q.raw # <<>>
    BY <1>2 DEF LocalState
  <2>. QED
    BY <1>2, <2>1 DEF Waits
<1>4. Pending(c) \in SUBSET Nat /\ Pending(c) \subseteq DOMAIN q.raw /\ q.raw \in Seq(Response)
  <2>1. q.raw \in Seq(Response)
    BY <1>2 DEF ReqOK, Request
  <2>. QED
    BY <2>1, LenProperties DEF Pending
<1>5. PICK r : /\ SetReq(c, r) /\ r.kind = q.kind /\ r.owner = q.owner /\ r.nodes = q.nodes
               /\ r.vstate # "OK" /\ r.resp = "none"
               /\ DOMAIN r.raw = DOMAIN q.raw /\ r.raw # <<>>
               /\ suspect \subseteq suspect'
               /\ \A n \in DOMAIN q.raw :
                    \/ r.raw[n] = q.raw[n]
                    \/ /\ r.raw[n].data = "needs" => CanNeed(c)
                       /\ Doubtful(r.raw[n]) /\ q.nodes # <<>> => q.nodes[n] \in suspect'
  <2>1. ASSUME NEW i \in Pending(c), NEW d, SetReq(c, [q EXCEPT !.raw[i] = d]),
               d.data = "needs" => CanNeed(c), suspect \subseteq suspect',
               Doubtful(d) => NodeOf(c, i) \subseteq suspect'
        PROVE  \E r : /\ SetReq(c, r) /\ r.kind = q.kind /\ r.owner = q.owner /\ r.nodes = q.nodes
                      /\ r.vstate # "OK" /\ r.resp = "none"
                      /\ DOMAIN r.raw = DOMAIN q.raw /\ r.raw # <<>>
                      /\ suspect \subseteq suspect'
                      /\ \A n \in DOMAIN q.raw :
                           \/ r.raw[n] = q.raw[n]
                           \/ /\ r.raw[n].data = "needs" => CanNeed(c)
                              /\ Doubtful(r.raw[n]) /\ q.nodes # <<>> => q.nodes[n] \in suspect'
    <3>. DEFINE r == [q EXCEPT !.raw[i] = d]
    <3>1. /\ r.kind = q.kind /\ r.owner = q.owner /\ r.nodes = q.nodes /\ r.vstate = q.vstate /\ r.resp = q.resp
          /\ r.raw = [q.raw EXCEPT ![i] = d]
      BY <1>2 DEF ReqOK, Request
    <3>2. SetReq(c, r)
      BY <2>1
    <3>. HIDE DEF r
    <3>3. DOMAIN r.raw = DOMAIN q.raw /\ \A n \in DOMAIN q.raw : r.raw[n] = q.raw[n] \/ (n = i /\ r.raw[n] = d)
      BY <3>1
    <3>4. r.raw # <<>>
      <4>1. i \in DOMAIN r.raw
        BY <1>4, <3>3
      <4>. QED
        BY <4>1
    <3>5. q.nodes # <<>> => NodeOf(c, i) = {q.nodes[i]}
      BY DEF NodeOf
    <3>. HIDE DEF q
    <3>. QED
      BY <1>2, <2>1, <3>1, <3>2, <3>3, <3>4, <3>5
  <2>2. CASE Receive(c)
    <3>1. PICK i \in Pending(c), d \in Delivery(c) :
            /\ SetReq(c, [q EXCEPT !.raw[i] = d])
            /\ suspect' = IF Doubtful(d) THEN suspect \cup NodeOf(c, i) ELSE suspect
      BY <2>2 DEF Receive
    <3>2. d.data = "needs" => CanNeed(c)
      BY DEF Delivery
    <3>3. suspect \subseteq suspect' /\ (Doubtful(d) => NodeOf(c, i) \subseteq suspect')
      BY <3>1
    <3>. QED
      BY <2>1, <3>1, <3>2, <3>3
  <2>3. CASE ReceiveNothing(c) /\ q.nodes # <<>> /\ Pending(c) # {}
    <3>. DEFINE i == FirstOf(Pending(c))
                d == [state |-> "ERR", data |-> "msg"]
    <3>1. i \in Pending(c)
      BY <1>4, <2>3, FirstOfIn
    <3>2. SetReq(c, [q EXCEPT !.raw[i] = d]) /\ suspect' = suspect \cup NodeOf(c, i)
      BY <2>3 DEF ReceiveNothing
    <3>3. d.data # "needs" /\ suspect \subseteq suspect' /\ NodeOf(c, i) \subseteq suspect'
      BY <3>2
    <3>. HIDE DEF i, d
    <3>. QED
      BY <2>1, <3>1, <3>2, <3>3
  <2>4. CASE ReceiveNothing(c) /\ ~(q.nodes # <<>> /\ Pending(c) # {})
    <3>. DEFINE r == WithError(q, "ERR")
    <3>1. SetReq(c, r) /\ suspect' = suspect
      BY <2>4 DEF ReceiveNothing
    <3>2. /\ r.kind = q.kind /\ r.owner = q.owner /\ r.nodes = q.nodes /\ r.vstate = "ERR" /\ r.resp = q.resp
          /\ r.raw = q.raw
      BY <1>2 DEF ReqOK, Request, WithError
    <3>. HIDE DEF r
    <3>. QED
      BY <1>2, <1>3, <3>1, <3>2
  <2>. QED
    BY <2>2, <2>3, <2>4
<1>6. Record(r)
  BY <1>2, <1>3, <1>5 DEF Record
<1>7. Suspected(r)'
  <2>. SUFFICES ASSUME NEW i \in DOMAIN r.raw, r.raw[i].state # "WAITING", Doubtful(r.raw[i]), r.nodes # <<>>
                PROVE  r.nodes[i] \in suspect'
    BY DEF Suspected
  <2>1. CASE r.raw[i] = q.raw[i]
    <3>1. q.nodes[i] \in suspect
      BY <1>2, <1>5, <2>1 DEF Suspected
    <3>. QED
      BY <1>5, <3>1
  <2>2. CASE r.raw[i] # q.raw[i]
    BY <1>5, <2>2
  <2>. QED
    BY <2>1, <2>2
<1>8. LiveOK'
  <2>1. \A x \in Ctx : req'[x] = req[x] \/ (x = c /\ req'[x] = r)
    BY <1>5 DEF SetReq, SInv, IInv, DataOK
  <2>2. \A x \in Ctx :
           /\ req'[x].kind = "intern" => req[x].kind = "intern"
           /\ req'[x].raw # <<>> /\ req'[x].kind \notin {"sign", "intern"} =>
                req[x].raw # <<>> /\ req[x].kind # "sign"
    BY <1>3, <1>5, <2>1
  <2>. QED
    BY <1>1, <1>2, <2>2, LiveSame
<1>9. \A n \in DOMAIN r.raw : r.raw[n].data = "needs" =>
        CanNeed(c) \/ (n \in DOMAIN q.raw /\ q.raw[n].data = "needs")
  BY <1>5
<1>. QED
  BY <1>1, <1>2, <1>5, <1>6, <1>7, <1>8, <1>9, DeliverSafe

(* Every step of in3_send_req on the waiting context. *)
LEMMA TransportSafe ==
  ASSUME SInv, NEW c \in Ctx, Transport(c)
  PROVE  Safe'
<1>1. CASE SendNonBlocking(c)
  <2>1. PICK i \in 1..UrlCount(c), d \in Delivery(c) :
          SendRpc(c, [j \in {i} |-> d], UrlCount(c) > 1, TRUE)
    BY <1>1 DEF SendNonBlocking
  <2>. DEFINE sent == [j \in {i} |-> d]
  <2>2. \A k \in DOMAIN sent : k \in 1..UrlCount(c) /\ sent[k] \in Delivery(c)
    OBVIOUS
  <2>3. (UrlCount(c) > 1) \in BOOLEAN /\ TRUE \in BOOLEAN
    OBVIOUS
  <2>4. ReadyToSend(c)
    BY <1>1 DEF SendNonBlocking
  <2>. HIDE DEF sent
  <2>. QED
    BY <2>1, <2>2, <2>3, <2>4, SendRpcSafe DEF sent
<1>2. CASE SendBlocking(c)
  <2>1. PICK sent \in [1..UrlCount(c) -> Delivery(c)] : SendRpc(c, sent, FALSE, TRUE)
    BY <1>2 DEF SendBlocking
  <2>2. \A k \in DOMAIN sent : k \in 1..UrlCount(c) /\ sent[k] \in Delivery(c)
    OBVIOUS
  <2>3. ReadyToSend(c)
    BY <1>2 DEF SendBlocking
  <2>. QED
    BY <2>1, <2>2, <2>3, SendRpcSafe
<1>3. CASE SendNothing(c)
  <2>1. PICK ok \in BOOLEAN : SendRpc(c, <<>>, FALSE, ok)
    BY <1>3 DEF SendNothing
  <2>2. \A k \in DOMAIN <<>> : k \in 1..UrlCount(c) /\ <<>>[k] \in Delivery(c)
    OBVIOUS
  <2>3. ReadyToSend(c)
    BY <1>3 DEF SendNothing
  <2>. QED
    BY <2>1, <2>2, <2>3, SendRpcSafe
<1>. QED
  BY <1>1, <1>2, <1>3, SignSafe, ReceiveSafe DEF Transport

-----------------------------------------------------------------------------
(* The invariant is inductive *)

(* The invariant holds before the first request. *)
LEMMA InitSafe == Init => SInv
<1>. SUFFICES ASSUME Init PROVE SInv
  OBVIOUS
<1>1. IInv
  BY InitIInv
<1>2. /\ chain = <<>> /\ transports = <<>> /\ pc = "idle" /\ fresh = {} /\ blamed = {}
      /\ \A c \in Ctx : req[c] = Unused
  BY DEF Init
<1>3. Len(chain) = 0 /\ DOMAIN transports = {} /\ \A i \in 1..Len(chain) : FALSE
  BY <1>2
<1>4. Shape
  BY <1>2, <1>3 DEF Shape
<1>5. Records /\ AllSuspected
  BY <1>2, UnusedData DEF Records, AllSuspected
<1>6. NeedsOK /\ LiveOK
  BY <1>3 DEF NeedsOK, LiveOK
<1>7. BlamedDeserveIt
  BY <1>2 DEF BlamedDeserveIt
<1>8. WalkInv
  BY <1>2, <1>3 DEF WalkInv, LoopOK, WalkOK, AcceptedDeep, Backed
<1>. QED
  BY <1>1, <1>4, <1>5, <1>6, <1>7, <1>8 DEF SInv, Safe, DataInv

(* in3_send_req returns. *)
LEMMA FinishSafe ==
  ASSUME SInv, Finish
  PROVE  Safe'
<1>1. IInv /\ DataInv /\ WalkInv /\ BlamedDeserveIt
  BY DEF SInv, Safe
<1>2. transports' = <<>> /\ UNCHANGED <<chain, req, blamed, suspect>>
  BY DEF Finish
<1>3. WalkInv'
  BY <1>1, FinishWalk
<1>4. Shape' /\ Records' /\ NeedsOK' /\ AllSuspected'
  BY <1>1, <1>2 DEF DataInv, Shape, OwnerOK, RootKind, Records, NeedsOK, AllSuspected, Suspected
<1>5. LiveOK'
  BY <1>2 DEF LiveOK
<1>. QED
  BY <1>1, <1>2, <1>3, <1>4, <1>5 DEF Safe, DataInv, BlamedDeserveIt

(* The invariant only depends on the variables. *)
LEMMA StutterSafe ==
  ASSUME SInv, UNCHANGED vars
  PROVE  Safe'
<1>. USE DEF vars
<1>1. DataInv /\ BlamedDeserveIt /\ WalkInv
  BY DEF SInv, Safe
<1>2. DataInv'
  BY <1>1 DEF DataInv, Shape, OwnerOK, RootKind, Records, NeedsOK, AllSuspected, Suspected, LiveOK, Live
<1>3. LoopOK'
  BY <1>1 DEF WalkInv, LoopOK
<1>4. WalkOK'
  BY <1>1 DEF WalkInv, WalkOK, ExecOK, VerifyOK, DispatchOK, DoneOK, AllSettled, Behind, Failed, LastWaits
<1>5. AcceptedDeep'
  BY <1>1 DEF WalkInv, AcceptedDeep, AcceptedAt, Behind, Failed
<1>6. Backed'
  BY <1>1 DEF WalkInv, Backed, BackedAt, SubsOf, NoResult
<1>. QED
  BY <1>1, <1>2, <1>3, <1>4, <1>5, <1>6 DEF Safe, WalkInv, BlamedDeserveIt

(* Every step keeps the invariant. *)
LEMMA NextSInv == SInv /\ [Next]_vars => SInv'
<1>. SUFFICES ASSUME SInv, [Next]_vars PROVE SInv'
  OBVIOUS
<1>1. IInv'
  BY NextIInv DEF SInv
<1>2. ASSUME SendReq PROVE Safe'
  BY <1>2, ExecuteSafe, VerifySafe, TransportSafe, FinishSafe DEF SendReq
<1>3. IInv /\ DataInv /\ WalkInv /\ BlamedDeserveIt
  BY DEF SInv, Safe
<1>4. ASSUME NewRequest PROVE Safe'
  <2>1. WalkInv' /\ DataInv' /\ BlamedDeserveIt'
    BY <1>3, <1>4, NewWalk
  <2>. QED
    BY <2>1 DEF Safe
<1>5. ASSUME FreeRequest PROVE Safe'
  <2>1. WalkInv' /\ DataInv' /\ BlamedDeserveIt'
    BY <1>3, <1>5, FreeWalk
  <2>. QED
    BY <2>1 DEF Safe
<1>6. Safe'
  BY <1>2, <1>4, <1>5, StutterSafe DEF Next
<1>. QED
  BY <1>1, <1>6 DEF SInv

(* The invariant always holds. *)
LEMMA SInvHolds == Spec => []SInv
BY InitSafe, NextSInv, PTL DEF Spec

-----------------------------------------------------------------------------
(* The theorems *)

(* REQ_SUCCESS means that every context sent to nodes holds a response of one *)
(* of its nodes that verification has accepted, and that an answer which      *)
(* depends on another call is backed by a result of that call, whatever the   *)
(* nodes answer, in whatever order their responses arrive, and whichever sub  *)
(* requests are added and removed on the way.                                 *)
THEOREM SuccessVerified == Spec => []SuccessIsVerified
<1>1. ASSUME SInv PROVE SuccessIsVerified
  <2>1. IInv /\ DataInv /\ WalkInv /\ ChainOK /\ DataOK /\ Records /\ NeedsOK
    BY <1>1 DEF SInv, Safe, IInv, DataInv
  <2>2. DOMAIN chain = 1..Len(chain)
    BY <2>1, ChainSeq
  <2>. SUFFICES ASSUME pc \in {"dispatch", "done"}, ReqState = "SUCCESS", NEW i \in 1..Len(chain),
                       req[chain[i]].kind \in {"rpc", "nodeList"}
                PROVE  LET r == req[chain[i]]
                       IN  /\ r.vstate = "OK"
                           /\ r.resp \in Acceptable
                           /\ \E n \in DOMAIN r.nodes : r.raw[n] = [state |-> "OK", data |-> r.resp]
                           /\ r.resp = "needs" => \E j \in SubsOf(i, {"rpc"}) : ~NoResult(chain[j])
    BY <2>2 DEF SuccessIsVerified
  <2>. DEFINE r == req[chain[i]]
  <2>3. ~Failed(1..Len(chain))
    BY <2>1, StateOfDone
  <2>4. ~LastWaits(1..Len(chain))
    <3>1. ASSUME NEW m \in 1..Len(chain), Waits(req[chain[m]]),
                 \A j \in 1..Len(chain) : j > m => Accepted(req[chain[j]])
          PROVE  FALSE
      <4>1. ReqState = LocalState(chain[m])
        BY <2>1, <2>3, <3>1, StateOfWaiting
      <4>2. LocalState(chain[m]) \in {"TO_SEND", "FOR_RESPONSE"}
        BY <2>1, <3>1, LocalStates, ChainSeq DEF Records, DataOK
      <4>. QED
        BY <4>1, <4>2
    <3>. QED
      BY <3>1 DEF LastWaits
  <2>5. \A j \in 1..Len(chain) : Done(req[chain[j]])
    BY <2>1, <2>3, <2>4 DEF WalkInv, WalkOK, DispatchOK, DoneOK
  <2>6. Accepted(r) /\ Record(r) /\ r \in Request /\ RawFits(r) /\ chain[i] \in Ctx
    BY <2>1, <2>5, ChainSeq DEF Done, Records, DataOK, ReqOK
  <2>7. /\ r.vstate = "OK" /\ r.resp \in Acceptable
        /\ \E n \in DOMAIN r.nodes : r.raw[n] = [state |-> "OK", data |-> r.resp]
    BY <2>6 DEF Accepted, Record
  <2>8. ASSUME r.resp = "needs"
        PROVE  \E j \in SubsOf(i, {"rpc"}) : ~NoResult(chain[j])
    <3>1. PICK n \in DOMAIN r.nodes : r.raw[n] = [state |-> "OK", data |-> r.resp]
      BY <2>7
    <3>2. r.raw # <<>> /\ r.nodes \in Seq(Nodes) /\ r.raw \in Seq(Response)
      BY <2>6, AcceptedRecord DEF Request
    <3>3. Len(r.raw) = Len(r.nodes)
      BY <2>6, <3>2 DEF RawFits, Record
    <3>4. n \in DOMAIN r.raw
      BY <3>1, <3>2, <3>3, LenProperties
    <3>5. r.kind = "rpc"
      BY <2>1, <2>8, <3>1, <3>4 DEF NeedsOK
    <3>6. PICK j \in SubsOf(i, {"rpc"}) :
            req[chain[j]].error \/ (~NoResult(chain[j]) /\ Accepted(req[chain[j]]))
      BY <2>1, <2>6, <2>8, <3>5 DEF WalkInv, Backed, BackedAt
    <3>7. j \in 1..Len(chain)
      <4>1. j \in (i + 1)..Len(chain) /\ Len(chain) \in Nat
        BY <2>1, ChainSeq DEF SubsOf
      <4>. QED
        BY <4>1
    <3>. QED
      BY <2>3, <3>6, <3>7 DEF Failed
  <2>. QED
    BY <2>7, <2>8
<1>. QED
  BY <1>1, SInvHolds, PTL

(* in3_send_req sends only a context that has not been sent, and it asks the  *)
(* transport for a response only of a context that has one still to come: the *)
(* context found by in3_req_last_waiting is the one in3_req_state is about.   *)
THEOREM SomeoneIsWaitedFor == Spec => []WaitsForSomeone
<1>1. ASSUME SInv PROVE WaitsForSomeone
  <2>. SUFFICES ASSUME pc = "dispatch", ReqState \in {"TO_SEND", "FOR_RESPONSE"}
                PROVE  /\ ReqState = LocalState(LastWaiting)
                       /\ ReqState = "FOR_RESPONSE" => Pending(LastWaiting) # {}
    BY DEF WaitsForSomeone
  <2>1. IInv /\ DataInv /\ WalkInv /\ ChainOK /\ DataOK /\ Records
    BY <1>1 DEF SInv, Safe, IInv, DataInv
  <2>2. ReqState \notin {"ERROR", "SUCCESS"}
    OBVIOUS
  <2>3. PICK m \in 1..Len(chain) :
          LastWaiting = chain[m] /\ ReqState = LocalState(chain[m]) /\ Waits(req[chain[m]])
    BY <2>1, <2>2, WaitingAt
  <2>4. Record(req[chain[m]]) /\ ReqOK(req[chain[m]])
    BY <2>1, <2>3, ChainSeq DEF Records, DataOK
  <2>. QED
    BY <2>3, <2>4, LocalStates
<1>. QED
  BY <1>1, SInvHolds, PTL

(* A connection in3_handle_rpc_next receives from writes to the responses of  *)
(* the current attempt: after a retry, a payment or the reuse of an address   *)
(* no connection to freed responses is used.                                  *)
THEOREM ReceivedIsLive == Spec => []ReceivesIntoLiveResponses
<1>1. ASSUME SInv PROVE ReceivesIntoLiveResponses
  <2>. SUFFICES ASSUME pc = "dispatch", ReqState = "FOR_RESPONSE", NEW i \in EntriesOf(LastWaiting)
                PROVE  transports[i].live
    BY DEF ReceivesIntoLiveResponses
  <2>1. IInv /\ DataInv /\ WalkInv /\ ChainOK
    BY <1>1 DEF SInv, Safe, IInv
  <2>2. ReqState \notin {"ERROR", "SUCCESS"}
    OBVIOUS
  <2>3. PICK m \in 1..Len(chain) :
          LastWaiting = chain[m] /\ ReqState = LocalState(chain[m]) /\ Waits(req[chain[m]])
    BY <2>1, <2>2, WaitingAt
  <2>4. chain[m] \in Ctx
    BY <2>1, ChainSeq
  <2>5. i \in DOMAIN transports /\ transports[i].req = chain[m] /\ chain[m] # NoCtx
    BY <2>3, <2>4, CtxAssumption DEF EntriesOf
  <2>6. req[chain[m]].raw # <<>> /\ req[chain[m]].kind # "sign"
    BY <2>3 DEF LocalState, Waits
  <2>. QED
    BY <2>1, <2>5, <2>6 DEF DataInv, LiveOK, Live
<1>. QED
  BY <1>1, SInvHolds, PTL

(* Only a node whose response has arrived and was not plainly acceptable is   *)
(* blacklisted, never one that is slow or lost the race.                      *)
THEOREM BlameIsDeserved == Spec => []BlamedDeserveIt
<1>1. SInv => BlamedDeserveIt
  BY DEF SInv, Safe
<1>. QED
  BY <1>1, SInvHolds, PTL

-----------------------------------------------------------------------------
(* When an attempt ends *)

(* No context has begun another attempt. *)
NoNewAttempt == \A x \in Ctx : req'[x].attempt <= req[x].attempt

(* A context keeps its attempt or is a new one. *)
LEMMA AttemptKept ==
  ASSUME DataOK, \A x \in Ctx : req'[x].attempt = req[x].attempt \/ req'[x].attempt = 0
  PROVE  NoNewAttempt
<1>1. \A x \in Ctx : req[x].attempt \in Nat
  BY DEF DataOK, Request
<1>. QED
  BY <1>1 DEF NoNewAttempt

(* One context gets new fields, the attempt is the same. *)
LEMMA AttemptSet ==
  ASSUME DataOK, NEW c \in Ctx, NEW r, SetReq(c, r), r.attempt = req[c].attempt
  PROVE  NoNewAttempt
<1>1. \A x \in Ctx : req'[x].attempt = req[x].attempt
  BY DEF SetReq, DataOK
<1>. QED
  BY <1>1, AttemptKept

(* Setting an error, parsing and rejecting a response do not touch the        *)
(* attempt.                                                                   *)
LEMMA AttemptFields ==
  ASSUME NEW r \in Request
  PROVE  /\ \A code : WithError(r, code).attempt = r.attempt
         /\ \A code, raw : WithError([r EXCEPT !.raw = raw], code).attempt = r.attempt
         /\ \A raw : [r EXCEPT !.raw = raw].attempt = r.attempt
         /\ \A nodes : [r EXCEPT !.nodes = nodes].attempt = r.attempt
         /\ \A n, d : [r EXCEPT !.raw[n] = d].attempt = r.attempt
         /\ \A d, v : [Parsed(r, d) EXCEPT !.vstate = v].attempt = r.attempt
         /\ \A v : [r EXCEPT !.vstate = v].attempt = r.attempt
         /\ \A d, code : WithError(Parsed(r, d), code).attempt = r.attempt
         /\ DropRejected(r).attempt = r.attempt
BY DEF Request, WithError, Parsed, CleanUp, DropRejected

(* The same for a response that is rejected. *)
LEMMA AttemptRejected ==
  ASSUME NEW r \in Request, NEW n, NEW data, NEW msg \in BOOLEAN
  PROVE  Rejected(r, n, data, msg).attempt = r.attempt
<1>. DEFINE p == [Parsed(r, data) EXCEPT !.vstate = "ERR", !.error = msg]
<1>1. p.attempt = r.attempt
  BY DEF Request, Parsed, CleanUp
<1>2. [p EXCEPT !.raw[n] = [state |-> "ERR", data |-> "msg"]].attempt = r.attempt
  BY DEF Request, Parsed, CleanUp
<1>. QED
  BY <1>1, <1>2 DEF Rejected

(* The same for one that can not be parsed, and for one that is dropped. *)
LEMMA AttemptDropped ==
  ASSUME NEW r \in Request, NEW n
  PROVE  /\ \A u \in Unparsed(r) : [WithError(u, "ERR") EXCEPT !.raw[n].data = "none"].attempt = r.attempt
         /\ [CleanUp(r) EXCEPT !.paid = TRUE, !.raw = <<>>, !.resp = "none", !.responses = "null"].attempt = r.attempt
<1>1. ASSUME NEW u \in Unparsed(r) PROVE [WithError(u, "ERR") EXCEPT !.raw[n].data = "none"].attempt = r.attempt
  <2>1. u \in Request /\ u.attempt = r.attempt
    BY UnparsedFields
  <2>. QED
    BY <2>1 DEF Request, WithError
<1>2. [CleanUp(r) EXCEPT !.paid = TRUE, !.raw = <<>>, !.resp = "none", !.responses = "null"].attempt = r.attempt
  BY DEF Request, CleanUp
<1>. QED
  BY <1>1, <1>2

(* Adding and removing sub requests does not begin an attempt. *)
LEMMA AttemptChain ==
  ASSUME IInv, cur \in 1..Len(chain)
  PROVE  /\ \A kind, r : AddRequired(kind, r) /\ r.attempt = req[chain[cur]].attempt => NoNewAttempt
         /\ \A j : RemoveFrom(j) => NoNewAttempt
         /\ \A j, r : /\ req' = [req EXCEPT ![chain[cur]] = r, ![chain[j]] = Unused]
                      /\ r.attempt = req[chain[cur]].attempt
                      => NoNewAttempt
<1>1. DataOK /\ chain[cur] \in Ctx /\ Unused.attempt = 0 /\ \A kind, owner : NewReq(kind, owner).attempt = 0
  BY ChainSeq DEF IInv, Unused, NewReq
<1>2. ASSUME NEW kind, NEW r, AddRequired(kind, r), r.attempt = req[chain[cur]].attempt
      PROVE  NoNewAttempt
  <2>1. PICK d \in Ctx : req' = [req EXCEPT ![chain[cur]] = r, ![d] = NewReq(kind, chain[cur])]
    BY <1>2 DEF AddRequired
  <2>. HIDE DEF NewReq
  <2>2. ASSUME NEW x \in Ctx PROVE req'[x].attempt = req[x].attempt \/ req'[x].attempt = 0
    BY <1>1, <1>2, <2>1 DEF DataOK
  <2>. QED
    BY <1>1, <2>2, AttemptKept
<1>3. ASSUME NEW j, RemoveFrom(j) PROVE NoNewAttempt
  <2>1. ASSUME NEW x \in Ctx PROVE req'[x].attempt = req[x].attempt \/ req'[x].attempt = 0
    BY <1>1, <1>3 DEF RemoveFrom
  <2>. QED
    BY <1>1, <2>1, AttemptKept
<1>4. ASSUME NEW j, NEW r, req' = [req EXCEPT ![chain[cur]] = r, ![chain[j]] = Unused],
             r.attempt = req[chain[cur]].attempt
      PROVE  NoNewAttempt
  <2>1. ASSUME NEW x \in Ctx PROVE req'[x].attempt = req[x].attempt \/ req'[x].attempt = 0
    BY <1>1, <1>4 DEF DataOK
  <2>. QED
    BY <1>1, <2>1, AttemptKept
<1>. QED
  BY <1>2, <1>3, <1>4

(* Neither executing a context nor the transport begins an attempt. *)
LEMMA AttemptExecute ==
  ASSUME IInv, NEW c \in Ctx, Execute(c) \/ Transport(c)
  PROVE  NoNewAttempt
<1>1. DataOK /\ req[c] \in Request
  BY DEF IInv, DataOK
<1>2. ASSUME req' = req PROVE NoNewAttempt
  BY <1>1, <1>2, AttemptKept
<1>3. ASSUME NEW r, SetReq(c, r), r.attempt = req[c].attempt PROVE NoNewAttempt
  BY <1>1, <1>3, AttemptSet
<1>4. ASSUME NEW code, SetReq(c, WithError(req[c], code)) PROVE NoNewAttempt
  BY <1>1, <1>3, <1>4, AttemptFields
<1>5. ASSUME NEW raw, SetReq(c, [req[c] EXCEPT !.raw = raw]) PROVE NoNewAttempt
  BY <1>1, <1>3, <1>5, AttemptFields
<1>6. ASSUME Executing(c)
      PROVE  /\ c = chain[cur]
             /\ \A kind : AddRequired(kind, req[c]) => NoNewAttempt
             /\ \A j : RemoveFrom(j) => NoNewAttempt
             /\ \A j, r : /\ req' = [req EXCEPT ![c] = r, ![chain[j]] = Unused]
                          /\ r.attempt = req[c].attempt
                          => NoNewAttempt
  <2>1. c = chain[cur] /\ cur \in 1..Len(chain)
    BY <1>6 DEF Executing, IInv, ControlOK
  <2>. QED
    BY <2>1, AttemptChain
<1>7. CASE ExecHasError(c) \/ ExecRequiredWaiting(c) \/ ExecDone(c) \/ ExecSign(c) \/ ExecWaitToSend(c)
           \/ PickUpdateRejected(c)
  BY <1>2, <1>7 DEF ExecHasError, ExecRequiredWaiting, ExecDone, ExecSign, ExecWaitToSend, PickUpdateRejected
<1>8. CASE ExecRequiredFailed(c) \/ HandleSubRefused(c) \/ PickFails(c)
  BY <1>4, <1>8 DEF ExecRequiredFailed, HandleSubRefused, PickFails
<1>9. CASE ExecFailable(c)
  BY <1>6, <1>9 DEF ExecFailable
<1>10. CASE HandleInternally(c) \/ HandleSubResult(c)
  BY <1>4, <1>5, <1>10 DEF HandleInternally, HandleSubResult
<1>11. CASE HandleNeedsSub(c) \/ PickNeedsUpdate(c)
  BY <1>6, <1>11 DEF HandleNeedsSub, PickNeedsUpdate, Selecting, Unanswered, Body
<1>12. CASE HandleSignature(c)
  <2>1. Executing(c)
    BY <1>12 DEF HandleSignature, Unanswered, Body
  <2>2. CASE SetReq(c, WithError(req[c], "ERR"))
    BY <1>4, <2>2
  <2>3. ASSUME NEW j, req' = [req EXCEPT ![c].raw = InternalAnswer, ![chain[j]] = Unused]
        PROVE  NoNewAttempt
    <3>. DEFINE r == [req[c] EXCEPT !.raw = InternalAnswer]
    <3>1. r.attempt = req[c].attempt
      BY <1>1, AttemptFields
    <3>2. req' = [req EXCEPT ![c] = r, ![chain[j]] = Unused]
      BY <2>3
    <3>. HIDE DEF r
    <3>. QED
      BY <1>6, <2>1, <3>1, <3>2
  <2>. QED
    BY <1>12, <2>2, <2>3 DEF HandleSignature
<1>13. CASE PickUpdated(c)
  <2>1. Executing(c)
    BY <1>13 DEF PickUpdated, Selecting, Unanswered, Body
  <2>. QED
    BY <1>4, <1>6, <1>13, <2>1 DEF PickUpdated
<1>14. CASE PickNodes(c)
  BY <1>1, <1>3, <1>14, AttemptFields DEF PickNodes
<1>15. CASE SendSign(c)
  <2>1. \A d : [req[c] EXCEPT !.raw = <<[state |-> "OK", data |-> d]>>].attempt = req[c].attempt
    BY <1>1 DEF Request
  <2>2. WithError([req[c] EXCEPT !.raw = <<[state |-> "OK", data |-> "none"]>>], "ERR").attempt = req[c].attempt
    BY <1>1 DEF Request, WithError
  <2>. QED
    BY <1>3, <1>15, <2>1, <2>2 DEF SendSign
<1>16. CASE SendNoPayload(c)
  BY <1>4, <1>16 DEF SendNoPayload
<1>17. ASSUME NEW sent, NEW cptr, NEW ok, SendRpc(c, sent, cptr, ok) PROVE NoNewAttempt
  <2>. DEFINE raw == [i \in 1..UrlCount(c) |-> IF i \in DOMAIN sent THEN sent[i] ELSE Waiting]
              r   == [req[c] EXCEPT !.raw = raw]
  <2>1. SetReq(c, IF ok THEN r ELSE WithError(r, "ERR"))
    BY <1>17 DEF SendRpc
  <2>. HIDE DEF raw
  <2>2. r.attempt = req[c].attempt /\ WithError(r, "ERR").attempt = req[c].attempt
    BY <1>1 DEF Request, WithError
  <2>. HIDE DEF r
  <2>. QED
    BY <1>3, <2>1, <2>2
<1>18. CASE SendNonBlocking(c) \/ SendBlocking(c) \/ SendNothing(c)
  BY <1>17, <1>18 DEF SendNonBlocking, SendBlocking, SendNothing
<1>19. CASE Receive(c)
  BY <1>1, <1>3, <1>19, AttemptFields DEF Receive
<1>20. CASE ReceiveNothing(c)
  BY <1>1, <1>3, <1>20, AttemptFields DEF ReceiveNothing
<1>. QED
  BY <1>7, <1>8, <1>9, <1>10, <1>11, <1>12, <1>13, <1>14, <1>15, <1>16, <1>18, <1>19, <1>20
  DEF Execute, Transport

(* find_valid_result begins an attempt only at its end. *)
LEMMA AttemptVerify ==
  ASSUME IInv, NEW c \in Ctx, Verify(c), ~EndRetry(c), ~EndGiveUp(c)
  PROVE  NoNewAttempt
<1>1. DataOK /\ req[c] \in Request
  BY DEF IInv, DataOK
<1>2. ASSUME req' = req PROVE NoNewAttempt
  BY <1>1, <1>2, AttemptKept
<1>3. ASSUME NEW r, SetReq(c, r), r.attempt = req[c].attempt PROVE NoNewAttempt
  BY <1>1, <1>3, AttemptSet
<1>4. \A n, data : Rejected(req[c], n, data, Logging).attempt = req[c].attempt
  <2>. SUFFICES ASSUME NEW n, NEW data PROVE Rejected(req[c], n, data, Logging).attempt = req[c].attempt
    OBVIOUS
  <2>. DEFINE q == req[c]
              m == Logging
  <2>1. q \in Request /\ m \in BOOLEAN
    BY <1>1, BuildAssumption
  <2>. HIDE DEF q, m
  <2>2. Rejected(q, n, data, m).attempt = q.attempt
    BY <2>1, AttemptRejected
  <2>. QED
    BY <2>2 DEF q, m
<1>5. CASE StartVerify(c) \/ VerifyPending(c) \/ EndAccepted(c)
  BY <1>2, <1>5 DEF StartVerify, VerifyPending, EndAccepted
<1>6. CASE VerifyErrorResponse(c) \/ VerifySystemError(c) \/ VerifyAccept(c) \/ EndStillPending(c)
  <2>1. CASE VerifyErrorResponse(c)
    BY <1>1, <1>3, <2>1, AttemptFields DEF VerifyErrorResponse
  <2>2. CASE VerifySystemError(c)
    BY <1>1, <1>3, <2>2, AttemptFields DEF VerifySystemError
  <2>3. CASE VerifyAccept(c)
    <3>. DEFINE r == [Parsed(req[c], Current(c).data) EXCEPT !.vstate = "OK"]
    <3>1. SetReq(c, r)
      BY <2>3 DEF VerifyAccept
    <3>2. r.attempt = req[c].attempt
      BY <1>1, AttemptFields
    <3>. QED
      BY <1>3, <3>1, <3>2
  <2>4. CASE EndStillPending(c)
    BY <1>1, <1>3, <2>4, AttemptFields DEF EndStillPending
  <2>. QED
    BY <1>6, <2>1, <2>2, <2>3, <2>4
<1>7. CASE VerifyGarbage(c) \/ VerifyPay(c)
  BY <1>1, <1>3, <1>7, AttemptDropped DEF VerifyGarbage, VerifyPay
<1>8. CASE VerifyReject(c) \/ VerifyUnpaid(c)
  <2>1. Rejected(req[c], loop.n, "pay", TRUE).attempt = req[c].attempt
    BY <1>1, AttemptRejected
  <2>. QED
    BY <1>3, <1>4, <1>8, <2>1 DEF VerifyReject, VerifyUnpaid
<1>9. ASSUME VerifyNeedsSub(c) \/ VerifySubWrong(c)
      PROVE  c = chain[cur] /\ cur \in 1..Len(chain)
  BY <1>9 DEF VerifyNeedsSub, VerifySubWrong, Arrived, Verifying, IInv, ControlOK
<1>10. CASE VerifyNeedsSub(c)
  <2>. DEFINE r == [Parsed(req[c], "needs") EXCEPT !.vstate = "WAITING"]
  <2>1. AddRequired("rpc", r) /\ r.attempt = req[c].attempt
    BY <1>1, <1>10, AttemptFields DEF VerifyNeedsSub
  <2>. HIDE DEF r
  <2>. QED
    BY <1>9, <1>10, <2>1, AttemptChain
<1>11. CASE VerifySubFails(c)
  BY <1>1, <1>3, <1>4, <1>11, AttemptFields DEF VerifySubFails
<1>12. CASE VerifySubWrong(c)
  <2>. DEFINE r == Rejected(req[c], loop.n, "needs", Logging)
  <2>1. PICK j : req' = [req EXCEPT ![c] = r, ![chain[j]] = Unused]
    BY <1>12 DEF VerifySubWrong
  <2>2. r.attempt = req[c].attempt
    BY <1>4
  <2>. HIDE DEF r
  <2>. QED
    BY <1>9, <1>12, <2>1, <2>2, AttemptChain
<1>. QED
  BY <1>5, <1>6, <1>7, <1>8, <1>10, <1>11, <1>12 DEF Verify

(* An attempt is counted only when every response of it has arrived and none  *)
(* of them could be accepted: a retry never abandons a node that may still    *)
(* answer correctly.                                                          *)
THEOREM RetriesAreLast == Spec => RetryOnlyWhenExhausted
<1>. DEFINE Given(c) == \A i \in DOMAIN req[c].raw :
                          \/ req[c].raw[i].state = "ERR"
                          \/ req[c].raw[i].state = "OK" /\ req[c].raw[i].data \notin {"good", "user"}
<1>1. ASSUME SInv, [Next]_vars
      PROVE  [\A c \in Ctx : req'[c].attempt > req[c].attempt => Given(c)]_vars
  <2>. SUFFICES ASSUME NEW c \in Ctx, req'[c].attempt > req[c].attempt, Next
                PROVE  Given(c)
    BY <1>1
  <2>1. IInv /\ DataOK /\ req[c].attempt \in Nat
    BY <1>1 DEF SInv, IInv, DataOK, Request
  <2>2. ~NoNewAttempt
    <3>1. ASSUME req'[c].attempt <= req[c].attempt PROVE FALSE
      <4>1. CASE req'[c].attempt \in Int
        BY <2>1, <3>1, <4>1
      <4>2. req'[c].attempt \in Nat
        BY <1>1, NextIInv DEF SInv, IInv, DataOK, Request
      <4>. QED
        BY <4>1, <4>2
    <3>. QED
      BY <3>1 DEF NoNewAttempt
  <2>3. PICK d \in Ctx : EndRetry(d) \/ EndGiveUp(d)
    <3>1. ASSUME NewRequest \/ FreeRequest \/ Finish PROVE FALSE
      <4>1. \A x \in Ctx : req'[x].attempt = req[x].attempt \/ req'[x].attempt = 0
        <5>1. CASE Finish
          BY <5>1 DEF Finish
        <5>2. CASE FreeRequest
          BY <5>2 DEF FreeRequest, Unused, NewReq
        <5>3. CASE NewRequest
          <6>1. PICK x \in Ctx : \E r : SetReq(x, r) /\ r.attempt = 0
            <7>1. PICK x \in Ctx, kind \in RootKinds, valid \in BOOLEAN :
                    SetReq(x, IF valid THEN NewReq(kind, NoCtx) ELSE WithError(NewReq(kind, NoCtx), "ERR"))
              BY <5>3 DEF NewRequest
            <7>2. NewReq(kind, NoCtx).attempt = 0 /\ WithError(NewReq(kind, NoCtx), "ERR").attempt = 0
              BY DEF NewReq, WithError
            <7>. QED
              BY <7>1, <7>2
          <6>. QED
            BY <2>1, <6>1 DEF SetReq, DataOK
        <5>. QED
          BY <3>1, <5>1, <5>2, <5>3
      <4>. QED
        BY <2>1, <2>2, <4>1, AttemptKept
    <3>. QED
      BY <2>1, <2>2, <3>1, AttemptExecute, AttemptVerify DEF Next, SendReq
  <2>4. pc = "verify" /\ d = chain[cur] /\ loop.state = "ERR" /\ loop.n > Len(req[d].raw) /\ ~loop.pending
    BY <2>3 DEF EndRetry, EndGiveUp, Exhausted, Verified, StillPending
  <2>5. \E r : SetReq(d, r)
    BY <2>3 DEF EndRetry, EndGiveUp
  <2>6. c = d
    <3>1. c # d => req'[c] = req[c]
      BY <2>1, <2>5 DEF SetReq, DataOK
    <3>. QED
      BY <2>1, <3>1
  <2>7. /\ Looked(loop, req[c]) /\ DOMAIN req[c].raw = 1..Len(req[c].raw) /\ Len(req[c].raw) \in Nat
        /\ loop \in Loops
    BY <1>1, <2>4, <2>6, AtVerify
  <2>8. \A i \in DOMAIN req[c].raw : i < loop.n
    BY <2>4, <2>6, <2>7 DEF Loops
  <2>9. \A i \in DOMAIN req[c].raw : Passed(loop, req[c].raw[i])
    BY <2>7, <2>8 DEF Looked
  <2>. QED
    BY <2>4, <2>9 DEF Passed
<1>. QED
  BY <1>1, SInvHolds, PTL DEF Spec, RetryOnlyWhenExhausted

-----------------------------------------------------------------------------
(* What becomes of an accepted response *)

(* The contexts that stay at their place in the chain keep what they accepted. *)
Steady ==
  \A i \in DOMAIN chain :
    req[chain[i]].vstate = "OK" /\ i <= Len(chain') /\ chain'[i] = chain[i] =>
      req'[chain[i]].vstate = "OK" /\ req'[chain[i]].resp = req[chain[i]].resp

(* No context is accepted by this step. *)
NoneAccepted == \A x \in Ctx : req'[x].vstate = "OK" => req[x].vstate = "OK"

Calm == Steady /\ NoneAccepted /\ chain'[1] = chain[1]

(* Once the request of the user is accepted the walk is over: the chain is    *)
(* not executed again, so no late error of a sub request can reach it.        *)
RootDone ==
  chain # <<>> /\ req[chain[1]].vstate = "OK" =>
    \/ pc = "verify" /\ cur = 1
    \/ pc = "dispatch" /\ ReqState \in {"ERROR", "SUCCESS"}
    \/ pc = "done"

(* A step that leaves the contexts alone. *)
LEMMA CalmSame ==
  ASSUME req' = req, chain' = chain
  PROVE  Calm
BY DEF Calm, Steady, NoneAccepted

(* A step that changes one context, which is accepted neither before nor      *)
(* after it.                                                                  *)
LEMMA CalmSet ==
  ASSUME IInv, NEW c \in Ctx, NEW r, SetReq(c, r), chain' = chain,
         req[c].vstate # "OK", r.vstate # "OK"
  PROVE  Calm
<1>1. req'[c] = r /\ \A x \in Ctx : x # c => req'[x] = req[x]
  BY DEF SetReq, IInv, DataOK
<1>2. \A i \in DOMAIN chain : chain[i] \in Ctx
  BY ChainSeq DEF IInv
<1>. QED
  BY <1>1, <1>2 DEF Calm, Steady, NoneAccepted

(* Errors, and the fields that are no verdict. *)
LEMMA VerdictFields ==
  ASSUME NEW r \in Request
  PROVE  /\ \A code : WithError(r, code).vstate = code
         /\ \A code, raw : WithError([r EXCEPT !.raw = raw], code).vstate = code
         /\ \A raw : [r EXCEPT !.raw = raw].vstate = r.vstate
         /\ \A nodes : [r EXCEPT !.nodes = nodes].vstate = r.vstate
         /\ \A n, d : [r EXCEPT !.raw[n] = d].vstate = r.vstate
         /\ \A d, v : [Parsed(r, d) EXCEPT !.vstate = v].vstate = v
         /\ \A v : [r EXCEPT !.vstate = v].vstate = v
         /\ \A d, code : WithError(Parsed(r, d), code).vstate = code
         /\ DropRejected(r).vstate = "WAITING"
         /\ [NextAttempt(r) EXCEPT !.error = FALSE, !.vstate = "WAITING"].vstate = "WAITING"
         /\ \A code : WithError(NextAttempt(r), code).vstate = code
BY DEF Request, WithError, Parsed, CleanUp, DropRejected, NextAttempt, Freed

(* A response that is rejected. *)
LEMMA VerdictRejected ==
  ASSUME NEW r \in Request, NEW n, NEW data, NEW msg \in BOOLEAN
  PROVE  Rejected(r, n, data, msg).vstate = "ERR"
<1>. DEFINE p == [Parsed(r, data) EXCEPT !.vstate = "ERR", !.error = msg]
<1>1. p.vstate = "ERR"
  BY DEF Request, Parsed, CleanUp
<1>2. [p EXCEPT !.raw[n] = [state |-> "ERR", data |-> "msg"]].vstate = "ERR"
  BY DEF Request, Parsed, CleanUp
<1>. QED
  BY <1>1, <1>2 DEF Rejected

(* One that can not be parsed, and one that is dropped to be paid for. *)
LEMMA VerdictDropped ==
  ASSUME NEW r \in Request, NEW n, r.vstate # "OK"
  PROVE  /\ \A u \in Unparsed(r) : [WithError(u, "ERR") EXCEPT !.raw[n].data = "none"].vstate = "ERR"
         /\ [CleanUp(r) EXCEPT !.paid = TRUE, !.raw = <<>>, !.resp = "none", !.responses = "null"].vstate = "WAITING"
<1>1. ASSUME NEW u \in Unparsed(r) PROVE [WithError(u, "ERR") EXCEPT !.raw[n].data = "none"].vstate = "ERR"
  <2>1. u \in Request
    BY UnparsedFields
  <2>. QED
    BY <2>1 DEF Request, WithError
<1>2. [CleanUp(r) EXCEPT !.paid = TRUE, !.raw = <<>>, !.resp = "none", !.responses = "null"].vstate = "WAITING"
  BY DEF Request, CleanUp
<1>. QED
  BY <1>1, <1>2

(* A sub request is added: its address was free. *)
LEMMA CalmAdd ==
  ASSUME IInv, Shape, cur \in 1..Len(chain), NEW kind, NEW r, AddRequired(kind, r),
         r = req[chain[cur]] \/ (req[chain[cur]].vstate # "OK" /\ r.vstate # "OK")
  PROVE  Calm
<1>1. PICK d \in Ctx : /\ chain'[cur + 1] = d /\ req'[d] = NewReq(kind, chain[cur])
                       /\ req'[chain[cur]] = r /\ Len(chain') = Len(chain) + 1
                       /\ \A i \in 1..Len(chain') : i # cur + 1 => chain'[i] = chain[Before(cur, i)] /\ chain'[i] # d
                       /\ \A x \in Ctx : x # d /\ x # chain[cur] => req'[x] = req[x]
  BY AddPositions DEF IInv
<1>2. Len(chain) \in Nat /\ DOMAIN chain = 1..Len(chain) /\ \A i \in 1..Len(chain) : chain[i] \in Ctx
  BY ChainSeq DEF IInv
<1>3. NewReq(kind, chain[cur]).vstate # "OK"
  BY DEF NewReq
<1>4. chain'[1] = chain[1]
  BY <1>1, <1>2 DEF Before
<1>5. NoneAccepted
  BY <1>1, <1>3 DEF NoneAccepted
<1>6. ASSUME NEW i \in DOMAIN chain, req[chain[i]].vstate = "OK", i <= Len(chain'), chain'[i] = chain[i]
      PROVE  req'[chain[i]] = req[chain[i]]
  <2>1. chain[i] # d
    <3>1. CASE i # cur + 1
      BY <1>1, <1>2, <1>6, <3>1
    <3>2. CASE i = cur + 1
      <4>1. i + 1 \in 1..Len(chain') /\ i + 1 # cur + 1 /\ Before(cur, i + 1) = i
        BY <1>1, <1>2, <3>2 DEF Before
      <4>. QED
        BY <1>1, <4>1
    <3>. QED
      BY <3>1, <3>2
  <2>. QED
    BY <1>1, <1>2, <1>6, <2>1
<1>. QED
  BY <1>4, <1>5, <1>6 DEF Calm, Steady

(* Sub requests are removed: those in front stay what they are. *)
LEMMA CalmRemoveFrom ==
  ASSUME IInv, Shape, NEW j \in 2..(Len(chain) + 1), RemoveFrom(j)
  PROVE  Calm
<1>1. /\ Len(chain') = j - 1
      /\ \A i \in 1..(j - 1) : chain'[i] = chain[i] /\ req'[chain'[i]] = req[chain[i]]
      /\ \A x \in Ctx : req'[x] = req[x] \/ req'[x] = Unused
  BY RemoveFromPositions DEF IInv
<1>2. Len(chain) \in Nat /\ DOMAIN chain = 1..Len(chain)
  BY ChainSeq DEF IInv
<1>3. Unused.vstate # "OK"
  BY DEF Unused, NewReq
<1>4. NoneAccepted
  BY <1>1, <1>3 DEF NoneAccepted
<1>5. Steady
  BY <1>1, <1>2 DEF Steady
<1>. QED
  BY <1>1, <1>4, <1>5 DEF Calm

(* One sub request of the context being executed is removed. *)
LEMMA CalmRemoveOne ==
  ASSUME IInv, Shape, cur \in 1..Len(chain), NEW j \in 2..Len(chain), RemoveOne(j),
         NEW r, req' = [req EXCEPT ![chain[cur]] = r, ![chain[j]] = Unused],
         req[chain[cur]].vstate # "OK", r.vstate # "OK"
  PROVE  Calm
<1>1. /\ Len(chain) \in Nat /\ DOMAIN chain = 1..Len(chain) /\ \A i \in 1..Len(chain) : chain[i] \in Ctx
      /\ req \in [Ctx -> Request]
  BY ChainSeq DEF IInv, DataOK
<1>2. /\ Len(chain') = Len(chain) - 1
      /\ \A i \in 1..(j - 1) : chain'[i] = chain[i]
      /\ \A i \in (j + 1)..Len(chain) : chain'[i - 1] = chain[i]
  <2>1. j \in 1..Len(chain) /\ ChainOK
    BY <1>1 DEF IInv
  <2>2. chain' = SubSeq(chain, 1, j - 1) \o SubSeq(chain, j + 1, Len(chain))
    BY DEF RemoveOne
  <2>. QED
    BY <2>1, <2>2, RemoveOnePositions
<1>3. Unused.vstate # "OK"
  BY DEF Unused, NewReq
<1>. HIDE DEF Unused
<1>4. \A x \in Ctx : req'[x] = req[x] \/ req'[x] = Unused \/ (x = chain[cur] /\ req'[x] = r)
  BY <1>1
<1>5. NoneAccepted
  BY <1>3, <1>4 DEF NoneAccepted
<1>6. ASSUME NEW i \in DOMAIN chain, req[chain[i]].vstate = "OK", i <= Len(chain'), chain'[i] = chain[i]
      PROVE  req'[chain[i]] = req[chain[i]]
  <2>1. CASE i >= j
    <3>1. i + 1 \in (j + 1)..Len(chain) /\ (i + 1) - 1 = i
      BY <1>1, <1>2, <1>6, <2>1
    <3>2. chain[i + 1] = chain[i]
      BY <1>2, <1>6, <3>1
    <3>. QED
      BY <1>1, <3>1, <3>2 DEF Shape
  <2>2. CASE i < j
    <3>1. chain[i] # chain[j]
      BY <1>1, <2>2 DEF Shape
    <3>. QED
      BY <1>1, <1>6, <3>1
  <2>. QED
    BY <1>1, <2>1, <2>2
<1>7. chain'[1] = chain[1]
  BY <1>1, <1>2
<1>. QED
  BY <1>5, <1>6, <1>7 DEF Calm, Steady

(* A context is told that the one behind it has failed only if it was not     *)
(* accepted itself.                                                           *)
LEMMA FailedIsOpen ==
  ASSUME SInv, RootDone, NEW c \in Ctx, Executing(c), ~req[c].error, ret \in {"ERR", "EIGNORE"}
  PROVE  req[c].vstate # "OK"
<1>. SUFFICES ASSUME req[c].vstate = "OK" PROVE FALSE
  OBVIOUS
<1>. USE DEF SInv, IInv, Safe, DataInv
<1>1. c = chain[cur] /\ pc = "exec" /\ cur \in 1..Len(chain) /\ Len(chain) \in Nat /\ Record(req[c]) /\ ExecOK
  BY AtExec
<1>2. Accepted(req[c])
  BY <1>1 DEF Record, Accepted
<1>3. cur # 1
  <2>1. chain # <<>>
    BY <1>1 DEF ControlOK
  <2>. QED
    BY <1>1, <2>1 DEF RootDone
<1>4. req[c].kind # "intern"
  BY <1>1, <1>3, InternIsRoot
<1>5. cur + 1 \in Behind(cur) /\ req[chain[cur + 1]].error /\ chain[cur + 1] \in Ctx
  BY <1>1, ChainSeq DEF ExecOK, Behind
<1>6. ~Accepted(req[chain[cur + 1]])
  BY <1>5 DEF Records, Record, Accepted
<1>7. AcceptedAt(cur)
  BY <1>1 DEF WalkInv, AcceptedDeep
<1>. QED
  BY <1>1, <1>2, <1>4, <1>5, <1>6, <1>7 DEF AcceptedAt

(* in3_req_execute does not touch a context that was accepted, nor does it    *)
(* accept one.                                                                *)
LEMMA CalmExecute ==
  ASSUME SInv, RootDone, NEW c \in Ctx, Execute(c)
  PROVE  Calm
<1>1. IInv /\ Shape /\ req[c] \in Request
  BY DEF SInv, IInv, Safe, DataInv, DataOK
<1>2. ASSUME NEW code \in {"ERR", "EIGNORE"}, SetReq(c, WithError(req[c], code)), chain' = chain,
             req[c].vstate # "OK"
      PROVE  Calm
  <2>1. WithError(req[c], code).vstate = code
    BY <1>1, VerdictFields
  <2>. QED
    BY <1>1, <1>2, <2>1, CalmSet
<1>3. ASSUME NEW raw, SetReq(c, [req[c] EXCEPT !.raw = raw]), chain' = chain, req[c].vstate # "OK"
      PROVE  Calm
  <2>1. [req[c] EXCEPT !.raw = raw].vstate # "OK"
    BY <1>1, <1>3, VerdictFields
  <2>. QED
    BY <1>1, <1>3, <2>1, CalmSet
<1>4. ASSUME Unanswered(c) PROVE c = chain[cur] /\ cur \in 1..Len(chain) /\ req[c].vstate # "OK"
  BY <1>4, AtUnanswered, UnansweredRecord
<1>5. CASE ExecHasError(c) \/ ExecRequiredWaiting(c) \/ ExecDone(c) \/ ExecSign(c) \/ ExecWaitToSend(c)
           \/ PickUpdateRejected(c)
  BY <1>5, CalmSame
  DEF ExecHasError, ExecRequiredWaiting, ExecDone, ExecSign, ExecWaitToSend, PickUpdateRejected
<1>6. CASE ExecRequiredFailed(c) \/ HandleSubRefused(c)
  <2>1. Executing(c) /\ ~req[c].error /\ ret = "ERR" /\ SetReq(c, WithError(req[c], "ERR")) /\ chain' = chain
    BY <1>6 DEF ExecRequiredFailed, HandleSubRefused
  <2>2. req[c].vstate # "OK"
    BY <2>1, FailedIsOpen
  <2>. QED
    BY <1>2, <2>1, <2>2
<1>7. CASE PickFails(c)
  <2>1. Executing(c) /\ req[c].raw = <<>> /\ chain' = chain
        /\ \E code \in {"ERR", "EIGNORE"} : SetReq(c, WithError(req[c], code))
    BY <1>7 DEF PickFails
  <2>2. req[c].vstate # "OK"
    BY <2>1, AtExec, UnansweredRecord
  <2>. QED
    BY <1>2, <2>1, <2>2
<1>8. CASE ExecFailable(c)
  <2>1. Executing(c) /\ RemoveFrom(cur + 1)
    BY <1>8 DEF ExecFailable
  <2>2. cur + 1 \in 2..(Len(chain) + 1)
    BY <2>1, AtExec
  <2>. QED
    BY <1>1, <2>1, <2>2, CalmRemoveFrom
<1>9. CASE HandleInternally(c) \/ HandleSubResult(c)
  <2>1. /\ Unanswered(c) /\ chain' = chain
        /\ SetReq(c, [req[c] EXCEPT !.raw = InternalAnswer]) \/ SetReq(c, WithError(req[c], "ERR"))
    BY <1>9 DEF HandleInternally, HandleSubResult
  <2>. QED
    BY <1>2, <1>3, <1>4, <2>1
<1>10. CASE HandleNeedsSub(c) \/ PickNeedsUpdate(c)
  <2>1. Unanswered(c) /\ \E kind : AddRequired(kind, req[c])
    BY <1>10 DEF HandleNeedsSub, PickNeedsUpdate, Selecting
  <2>. QED
    BY <1>1, <1>4, <2>1, CalmAdd
<1>11. CASE HandleSignature(c)
  <2>1. Unanswered(c)
    BY <1>11 DEF HandleSignature
  <2>2. PICK j \in SubsOf(cur, {"sign"}) :
          \/ /\ req' = [req EXCEPT ![c].raw = InternalAnswer, ![chain[j]] = Unused]
             /\ RemoveOne(j)
          \/ SetReq(c, WithError(req[c], "ERR")) /\ chain' = chain
    BY <1>11 DEF HandleSignature
  <2>3. CASE SetReq(c, WithError(req[c], "ERR")) /\ chain' = chain
    BY <1>2, <1>4, <2>1, <2>3
  <2>4. CASE req' = [req EXCEPT ![c].raw = InternalAnswer, ![chain[j]] = Unused] /\ RemoveOne(j)
    <3>. DEFINE r == [req[c] EXCEPT !.raw = InternalAnswer]
    <3>1. r.vstate # "OK"
      BY <1>1, <1>4, <2>1, VerdictFields
    <3>2. req' = [req EXCEPT ![c] = r, ![chain[j]] = Unused]
      BY <2>4
    <3>3. j \in 2..Len(chain)
      BY <2>1, AtUnanswered DEF SubsOf
    <3>. HIDE DEF r
    <3>. QED
      BY <1>1, <1>4, <2>1, <2>4, <3>1, <3>2, <3>3, CalmRemoveOne
  <2>. QED
    BY <2>2, <2>3, <2>4
<1>12. CASE PickUpdated(c)
  <2>1. /\ Unanswered(c) /\ NodeListSubs(cur) # {}
        /\ RemoveFrom(FirstOf(NodeListSubs(cur))) \/ (SetReq(c, WithError(req[c], "ERR")) /\ chain' = chain)
    BY <1>12 DEF PickUpdated, Selecting
  <2>2. cur \in 1..Len(chain) /\ Len(chain) \in Nat
    BY <2>1, AtUnanswered
  <2>3. FirstOf(NodeListSubs(cur)) \in 2..(Len(chain) + 1)
    <3>1. NodeListSubs(cur) \in SUBSET Nat /\ \A j \in NodeListSubs(cur) : j \in 2..(Len(chain) + 1)
      BY <2>2 DEF NodeListSubs
    <3>. QED
      BY <2>1, <3>1, FirstOfIn
  <2>. QED
    BY <1>1, <1>2, <1>4, <2>1, <2>3, CalmRemoveFrom
<1>13. CASE PickNodes(c)
  <2>1. PICK ns : SetReq(c, [req[c] EXCEPT !.nodes = ns]) /\ chain' = chain /\ Unanswered(c)
    BY <1>13 DEF PickNodes, Selecting
  <2>2. [req[c] EXCEPT !.nodes = ns].vstate # "OK" /\ req[c].vstate # "OK"
    BY <1>1, <1>4, <2>1, VerdictFields
  <2>. QED
    BY <1>1, <2>1, <2>2, CalmSet
<1>. QED
  BY <1>5, <1>6, <1>7, <1>8, <1>9, <1>10, <1>11, <1>12, <1>13 DEF Execute

(* Neither does the transport: it works on a context that waits. *)
LEMMA CalmTransport ==
  ASSUME SInv, NEW c \in Ctx, Transport(c)
  PROVE  Calm
<1>1. IInv /\ req[c] \in Request
  BY DEF SInv, IInv, DataOK
<1>2. pc = "dispatch" /\ ReqState \in {"TO_SEND", "FOR_RESPONSE"} /\ c = LastWaiting /\ chain' = chain
  BY DEF Transport, SendSign, SendNoPayload, SendNonBlocking, SendBlocking, SendNothing, Receive,
         ReceiveNothing, ReadyToSend, AwaitsResponse, SendRpc
<1>3. req[c].vstate # "OK"
  BY <1>2, AtWaiting
<1>4. ASSUME NEW r, SetReq(c, r), r.vstate \in {req[c].vstate, "ERR"} PROVE Calm
  BY <1>1, <1>2, <1>3, <1>4, CalmSet
<1>5. CASE SendSign(c)
  <2>1. \A d : [req[c] EXCEPT !.raw = <<[state |-> "OK", data |-> d]>>].vstate = req[c].vstate
    BY <1>1 DEF Request
  <2>2. WithError([req[c] EXCEPT !.raw = <<[state |-> "OK", data |-> "none"]>>], "ERR").vstate = "ERR"
    BY <1>1 DEF Request, WithError
  <2>. QED
    BY <1>4, <1>5, <2>1, <2>2 DEF SendSign
<1>6. CASE SendNoPayload(c)
  BY <1>1, <1>4, <1>6, VerdictFields DEF SendNoPayload
<1>7. ASSUME NEW sent, NEW cptr, NEW ok, SendRpc(c, sent, cptr, ok) PROVE Calm
  <2>. DEFINE raw == [i \in 1..UrlCount(c) |-> IF i \in DOMAIN sent THEN sent[i] ELSE Waiting]
              r   == [req[c] EXCEPT !.raw = raw]
  <2>1. SetReq(c, IF ok THEN r ELSE WithError(r, "ERR"))
    BY <1>7 DEF SendRpc
  <2>. HIDE DEF raw
  <2>2. r.vstate = req[c].vstate /\ WithError(r, "ERR").vstate = "ERR"
    BY <1>1 DEF Request, WithError
  <2>. HIDE DEF r
  <2>. QED
    BY <1>4, <2>1, <2>2
<1>8. CASE SendNonBlocking(c) \/ SendBlocking(c) \/ SendNothing(c)
  BY <1>7, <1>8 DEF SendNonBlocking, SendBlocking, SendNothing
<1>9. CASE Receive(c)
  BY <1>1, <1>4, <1>9, VerdictFields DEF Receive
<1>10. CASE ReceiveNothing(c)
  <2>1. /\ \A i, d : [req[c] EXCEPT !.raw[i] = d].vstate = req[c].vstate
        /\ WithError(req[c], "ERR").vstate = "ERR"
    BY <1>1, VerdictFields
  <2>2. \/ \E i : SetReq(c, [req[c] EXCEPT !.raw[i] = [state |-> "ERR", data |-> "msg"]])
        \/ SetReq(c, WithError(req[c], "ERR"))
    BY <1>10 DEF ReceiveNothing
  <2>. QED
    BY <1>4, <2>1, <2>2
<1>. QED
  BY <1>5, <1>6, <1>8, <1>9, <1>10 DEF Transport

(* find_valid_result changes a context that is not accepted yet. *)
LEMMA CalmVerify ==
  ASSUME SInv, RootDone, NEW c \in Ctx, Verify(c), ~VerifyAccept(c)
  PROVE  Calm
<1>1. IInv /\ Shape /\ req[c] \in Request
  BY DEF SInv, IInv, Safe, DataInv, DataOK
<1>2. ASSUME pc = "verify", c = chain[cur], loop.state = "ERR"
      PROVE  req[c].vstate # "OK" /\ cur \in 1..Len(chain) /\ Len(chain) \in Nat
  BY <1>2, AtVerify
<1>3. \A n, data : Rejected(req[c], n, data, Logging).vstate = "ERR"
  <2>. SUFFICES ASSUME NEW n, NEW data PROVE Rejected(req[c], n, data, Logging).vstate = "ERR"
    OBVIOUS
  <2>. DEFINE q == req[c]
              m == Logging
  <2>1. q \in Request /\ m \in BOOLEAN
    BY <1>1, BuildAssumption
  <2>. HIDE DEF q, m
  <2>2. Rejected(q, n, data, m).vstate = "ERR"
    BY <2>1, VerdictRejected
  <2>. QED
    BY <2>2 DEF q, m
<1>4. ASSUME NEW r, SetReq(c, r), chain' = chain, r.vstate # "OK",
             pc = "verify", c = chain[cur], loop.state = "ERR"
      PROVE  Calm
  BY <1>1, <1>2, <1>4, CalmSet
<1>5. CASE StartVerify(c) \/ VerifyPending(c) \/ EndAccepted(c)
  BY <1>5, CalmSame DEF StartVerify, VerifyPending, EndAccepted
<1>6. CASE VerifyErrorResponse(c) \/ VerifySystemError(c)
  <2>1. /\ pc = "verify" /\ c = chain[cur] /\ loop.state = "ERR" /\ chain' = chain
        /\ SetReq(c, WithError(req[c], "ERR")) \/ SetReq(c, WithError(Parsed(req[c], "sys"), "ERR"))
    BY <1>6 DEF VerifyErrorResponse, VerifySystemError, Arrived, Verifying
  <2>2. WithError(req[c], "ERR").vstate # "OK" /\ WithError(Parsed(req[c], "sys"), "ERR").vstate # "OK"
    BY <1>1, VerdictFields
  <2>. QED
    BY <1>4, <2>1, <2>2
<1>7. CASE VerifyGarbage(c)
  <2>0. PICK u \in Unparsed(req[c]) : SetReq(c, [WithError(u, "ERR") EXCEPT !.raw[loop.n].data = "none"])
    BY <1>7 DEF VerifyGarbage
  <2>. DEFINE r == [WithError(u, "ERR") EXCEPT !.raw[loop.n].data = "none"]
  <2>1. pc = "verify" /\ c = chain[cur] /\ loop.state = "ERR" /\ chain' = chain /\ SetReq(c, r)
    BY <1>7, <2>0 DEF VerifyGarbage, Arrived, Verifying
  <2>2. r.vstate # "OK"
    BY <1>1, <1>2, <2>1, VerdictDropped
  <2>. HIDE DEF r
  <2>. QED
    BY <1>4, <2>1, <2>2
<1>8. CASE VerifyPay(c)
  <2>. DEFINE r == [CleanUp(req[c]) EXCEPT !.paid = TRUE, !.raw = <<>>, !.resp = "none", !.responses = "null"]
  <2>1. pc = "verify" /\ c = chain[cur] /\ loop.state = "ERR" /\ chain' = chain /\ SetReq(c, r)
    BY <1>8 DEF VerifyPay, Arrived, Verifying
  <2>2. r.vstate # "OK"
    BY <1>1, <1>2, <2>1, VerdictDropped
  <2>. HIDE DEF r
  <2>. QED
    BY <1>4, <2>1, <2>2
<1>9. CASE VerifyReject(c)
  <2>. DEFINE r == Rejected(req[c], loop.n, Current(c).data, Logging)
  <2>1. pc = "verify" /\ c = chain[cur] /\ loop.state = "ERR" /\ chain' = chain /\ SetReq(c, r)
    BY <1>9 DEF VerifyReject, Arrived, Verifying
  <2>2. r.vstate # "OK"
    BY <1>3
  <2>. HIDE DEF r
  <2>. QED
    BY <1>4, <2>1, <2>2
<1>14. CASE VerifyUnpaid(c)
  <2>. DEFINE r == Rejected(req[c], loop.n, "pay", TRUE)
  <2>1. pc = "verify" /\ c = chain[cur] /\ loop.state = "ERR" /\ chain' = chain /\ SetReq(c, r)
    BY <1>14 DEF VerifyUnpaid, Arrived, Verifying
  <2>2. r.vstate # "OK"
    BY <1>1, VerdictRejected
  <2>. HIDE DEF r
  <2>. QED
    BY <1>4, <2>1, <2>2
<1>10. CASE VerifyNeedsSub(c)
  <2>. DEFINE r == [Parsed(req[c], "needs") EXCEPT !.vstate = "WAITING"]
  <2>1. pc = "verify" /\ c = chain[cur] /\ loop.state = "ERR" /\ AddRequired("rpc", r)
    BY <1>10 DEF VerifyNeedsSub, Arrived, Verifying
  <2>2. r.vstate # "OK"
    BY <1>1, VerdictFields
  <2>. HIDE DEF r
  <2>. QED
    BY <1>1, <1>2, <2>1, <2>2, CalmAdd
<1>11. CASE VerifySubFails(c)
  <2>1. chain' = chain
    BY <1>11 DEF VerifySubFails
  <2>2. ASSUME Arrived(c, {"needs"}), SetReq(c, Rejected(req[c], loop.n, "needs", Logging))
        PROVE  Calm
    <3>1. Rejected(req[c], loop.n, "needs", Logging).vstate # "OK"
      BY <1>3
    <3>. QED
      BY <1>4, <2>1, <2>2, <3>1 DEF Arrived, Verifying
  <2>3. ASSUME Executing(c), ~req[c].error, ret \in {"ERR", "EIGNORE"}, SetReq(c, [req[c] EXCEPT !.vstate = "ERR"])
        PROVE  Calm
    <3>1. req[c].vstate # "OK"
      BY <2>3, FailedIsOpen
    <3>2. [req[c] EXCEPT !.vstate = "ERR"].vstate # "OK"
      BY <1>1, VerdictFields
    <3>. QED
      BY <1>1, <2>1, <2>3, <3>1, <3>2, CalmSet
  <2>. QED
    BY <1>11, <2>2, <2>3 DEF VerifySubFails
<1>12. CASE VerifySubWrong(c)
  <2>. DEFINE r == Rejected(req[c], loop.n, "needs", Logging)
  <2>1. pc = "verify" /\ c = chain[cur] /\ loop.state = "ERR"
    BY <1>12 DEF VerifySubWrong, Arrived, Verifying
  <2>2. PICK j \in SubsOf(cur, {"rpc"}) :
          RemoveOne(j) /\ req' = [req EXCEPT ![c] = r, ![chain[j]] = Unused]
    BY <1>12 DEF VerifySubWrong
  <2>3. r.vstate # "OK"
    BY <1>3
  <2>4. j \in 2..Len(chain)
    BY <1>2, <2>1 DEF SubsOf
  <2>. HIDE DEF r
  <2>. QED
    BY <1>1, <1>2, <2>1, <2>2, <2>3, <2>4, CalmRemoveOne
<1>13. CASE EndStillPending(c) \/ EndRetry(c) \/ EndGiveUp(c)
  <2>1. PICK r : /\ pc = "verify" /\ c = chain[cur] /\ loop.state = "ERR" /\ chain' = chain /\ SetReq(c, r)
                 /\ r \in {DropRejected(req[c]),
                           [NextAttempt(req[c]) EXCEPT !.error = FALSE, !.vstate = "WAITING"],
                           WithError(NextAttempt(req[c]), GiveUpCode(req[c]))}
    BY <1>13 DEF EndStillPending, EndRetry, EndGiveUp, Exhausted, Verified
  <2>2. /\ DropRejected(req[c]).vstate = "WAITING"
        /\ [NextAttempt(req[c]) EXCEPT !.error = FALSE, !.vstate = "WAITING"].vstate = "WAITING"
        /\ WithError(NextAttempt(req[c]), GiveUpCode(req[c])).vstate = GiveUpCode(req[c])
    BY <1>1, VerdictFields
  <2>3. r.vstate # "OK"
    BY <2>1, <2>2, Zenon DEF GiveUpCode
  <2>. QED
    BY <1>4, <2>1, <2>3
<1>. QED
  BY <1>5, <1>6, <1>7, <1>8, <1>9, <1>10, <1>11, <1>12, <1>13, <1>14 DEF Verify

(* A response is accepted for a context that has none. *)
LEMMA AcceptIsFirst ==
  ASSUME SInv, NEW c \in Ctx, VerifyAccept(c)
  PROVE  /\ Steady /\ chain' = chain /\ pc' = "verify" /\ cur' = cur
         /\ c = chain[cur] /\ cur \in 1..Len(chain) /\ req[c].vstate # "OK"
         /\ \A x \in Ctx : x # c => req'[x] = req[x]
<1>1. pc = "verify" /\ c = chain[cur] /\ loop.state = "ERR" /\ UNCHANGED <<chain, pc, cur>>
  BY DEF VerifyAccept, Arrived, Verifying
<1>2. req[c].vstate # "OK" /\ cur \in 1..Len(chain)
  BY <1>1, AtVerify
<1>3. \A x \in Ctx : x # c => req'[x] = req[x]
  BY DEF VerifyAccept, SetReq, SInv, IInv, DataOK
<1>4. \A i \in DOMAIN chain : chain[i] \in Ctx
  BY ChainSeq DEF SInv, IInv
<1>. QED
  BY <1>1, <1>2, <1>3, <1>4 DEF Steady

(* When in3_send_req takes which steps; the answer of find_valid_result is    *)
(* returned at once when it was accepted.                                     *)
LEMMA WhereSteps ==
  ASSUME NEW c
  PROVE  /\ Execute(c) => pc = "exec"
         /\ Transport(c) => pc = "dispatch" /\ ReqState \in {"TO_SEND", "FOR_RESPONSE"}
         /\ Verify(c) => \/ pc = "exec"
                         \/ pc = "verify" /\ c = chain[cur] /\ (loop.state = "ERR" \/ EndAccepted(c))
<1>1. ASSUME Execute(c) PROVE pc = "exec"
  <2>1. Selecting(c) => Unanswered(c)
    BY DEF Selecting
  <2>2. Unanswered(c) => Body(c)
    BY DEF Unanswered
  <2>3. Body(c) => Executing(c)
    BY DEF Body
  <2>4. Executing(c)
    BY <1>1, <2>1, <2>2, <2>3
    DEF Execute, ExecHasError, ExecRequiredWaiting, ExecRequiredFailed, ExecFailable, ExecDone,
        ExecSign, HandleInternally, HandleNeedsSub, HandleSubRefused, HandleSubResult,
        HandleSignature, PickNeedsUpdate, PickUpdated, PickUpdateRejected, PickNodes, PickFails,
        ExecWaitToSend
  <2>. QED
    BY <2>4 DEF Executing
<1>2. ASSUME Transport(c) PROVE pc = "dispatch" /\ ReqState \in {"TO_SEND", "FOR_RESPONSE"}
  BY <1>2 DEF Transport, SendSign, SendNoPayload, SendNonBlocking, SendBlocking, SendNothing, Receive,
              ReceiveNothing, ReadyToSend, AwaitsResponse
<1>3. ASSUME Verify(c), ~EndAccepted(c)
      PROVE  pc = "exec" \/ (pc = "verify" /\ c = chain[cur] /\ loop.state = "ERR")
  BY <1>3 DEF Verify, StartVerify, Body, Executing, VerifyPending, VerifyErrorResponse, VerifyGarbage,
              VerifyAccept, VerifySystemError, VerifyReject, VerifyNeedsSub, VerifySubFails,
              VerifySubWrong, VerifyUnpaid, VerifyPay, EndStillPending, EndRetry, EndGiveUp, Exhausted, Verified,
              Arrived, Verifying
<1>4. EndAccepted(c) => pc = "verify" /\ c = chain[cur]
  BY DEF EndAccepted, Verified
<1>. QED
  BY <1>1, <1>2, <1>3, <1>4

(* The walk that accepts the request of the user is the last one. *)
LEMMA NextRootDone == SInv /\ RootDone /\ [Next]_vars => RootDone'
<1>. SUFFICES ASSUME SInv, RootDone, [Next]_vars, chain' # <<>>, req'[chain'[1]].vstate = "OK"
              PROVE  \/ pc' = "verify" /\ cur' = 1
                     \/ pc' = "dispatch" /\ ReqState' \in {"ERROR", "SUCCESS"}
                     \/ pc' = "done"
  BY DEF RootDone
<1>1. DataOK /\ ChainOK /\ ControlOK /\ Shape /\ Records
  BY DEF SInv, IInv, Safe, DataInv
<1>2. CASE UNCHANGED vars
  <2>1. UNCHANGED <<chain, req, pc, cur>>
    BY <1>2 DEF vars
  <2>2. ReqState' = ReqState
    BY <2>1 DEF ReqState, Unfinished, LocalState
  <2>. QED
    BY <2>1, <2>2 DEF RootDone
<1>3. CASE NewRequest
  <2>1. PICK c \in Ctx, kind \in RootKinds, valid \in BOOLEAN :
          /\ chain' = <<c>>
          /\ SetReq(c, IF valid THEN NewReq(kind, NoCtx) ELSE WithError(NewReq(kind, NoCtx), "ERR"))
    BY <1>3 DEF NewRequest
  <2>2. NewReq(kind, NoCtx).vstate # "OK" /\ WithError(NewReq(kind, NoCtx), "ERR").vstate # "OK"
    BY DEF NewReq, WithError
  <2>. HIDE DEF NewReq
  <2>. QED
    BY <1>1, <2>1, <2>2 DEF SetReq, DataOK
<1>4. CASE FreeRequest
  BY <1>4 DEF FreeRequest
<1>5. CASE Finish
  BY <1>5 DEF Finish
<1>6. ASSUME NEW c \in Ctx, Execute(c) \/ Verify(c) \/ Transport(c), ~VerifyAccept(c), ~EndAccepted(c)
      PROVE  FALSE
  <2>1. Calm
    BY <1>6, CalmExecute, CalmVerify, CalmTransport
  <2>2. chain # <<>> /\ chain[1] \in Ctx
    <3>1. pc # "idle"
      BY <1>6, WhereSteps
    <3>2. chain # <<>>
      BY <1>1, <3>1 DEF ControlOK
    <3>. QED
      BY <1>1, <3>2, ChainSeq
  <2>3. req[chain[1]].vstate = "OK"
    BY <2>1, <2>2 DEF Calm, NoneAccepted
  <2>4. CASE pc = "verify" /\ cur = 1
    <3>1. loop.state # "ERR"
      BY <2>2, <2>3, <2>4, AtVerify
    <3>. QED
      BY <1>6, <2>4, <3>1, WhereSteps
  <2>5. CASE (pc = "dispatch" /\ ReqState \in {"ERROR", "SUCCESS"}) \/ pc = "done"
    BY <1>6, <2>5, WhereSteps
  <2>. QED
    BY <2>2, <2>3, <2>4, <2>5 DEF RootDone
<1>7. ASSUME NEW c \in Ctx, VerifyAccept(c)
      PROVE  pc' = "verify" /\ cur' = 1
  <2>1. /\ chain' = chain /\ pc' = "verify" /\ cur' = cur /\ pc = "verify"
        /\ c = chain[cur] /\ cur \in 1..Len(chain) /\ req[c].vstate # "OK"
        /\ \A x \in Ctx : x # c => req'[x] = req[x]
    BY <1>7, AcceptIsFirst DEF VerifyAccept, Arrived, Verifying
  <2>2. 1 \in 1..Len(chain) /\ chain[1] \in Ctx
    BY <1>1, <2>1, ChainSeq
  <2>3. CASE c = chain[1]
    BY <1>1, <2>1, <2>2, <2>3 DEF Shape
  <2>4. CASE c # chain[1]
    <3>1. req[chain[1]].vstate = "OK"
      BY <2>1, <2>2, <2>4
    <3>. QED
      BY <2>1, <3>1 DEF RootDone
  <2>. QED
    BY <2>3, <2>4
<1>8. ASSUME NEW c \in Ctx, EndAccepted(c)
      PROVE  pc' = "dispatch" /\ ReqState' \in {"ERROR", "SUCCESS"}
  <2>1. pc = "verify" /\ c = chain[cur] /\ loop.state = "OK" /\ UNCHANGED <<chain, req>> /\ Return("OK")
    BY <1>8 DEF EndAccepted, Verified
  <2>2. cur = 1
    BY <2>1 DEF RootDone
  <2>3. AllSettled /\ Accepted(req[c]) /\ req[c].kind # "sign" /\ Len(chain) \in Nat /\ cur \in 1..Len(chain)
    BY <2>1, AtVerify
  <2>4. \A j \in 1..Len(chain) : j = 1 \/ j \in Behind(1)
    BY <2>3 DEF Behind
  <2>5. \A j \in 1..Len(chain) : Settled(req[chain[j]])
    BY <2>1, <2>2, <2>3, <2>4 DEF AllSettled, Settled, Done
  <2>6. Failed(1..Len(chain)) \/ \A j \in 1..Len(chain) : Done(req[chain[j]])
    BY <2>5 DEF Settled, Failed
  <2>7. ReqState \in {"ERROR", "SUCCESS"}
    BY <1>1, <2>6, StateOfDone
  <2>8. ReqState' = ReqState
    BY <2>1 DEF ReqState, Unfinished, LocalState
  <2>. QED
    BY <2>1, <2>2, <2>7, <2>8 DEF Return
<1>. QED
  BY <1>2, <1>3, <1>4, <1>5, <1>6, <1>7, <1>8 DEF Next, SendReq

(* Once accepted, the response of a request stays what it was until the       *)
(* request is freed: neither a late response of another node, nor the error   *)
(* of a sub request, nor another execution of the chain takes it back or      *)
(* replaces it.                                                               *)
THEOREM AcceptedIsKept == Spec => AcceptedStays
<1>1. Init => RootDone
  BY DEF Init, RootDone
<1>2. ASSUME SInv, RootDone, [Next]_vars
      PROVE  [Steady]_vars
  <2>. SUFFICES ASSUME Next PROVE Steady
    BY <1>2
  <2>1. CASE NewRequest
    <3>1. chain = <<>>
      BY <1>2, <2>1 DEF NewRequest, SInv, IInv, ControlOK
    <3>. QED
      BY <3>1 DEF Steady
  <2>2. CASE FreeRequest
    <3>1. chain' = <<>> /\ chain \in Seq(Ctx)
      BY <1>2, <2>2 DEF FreeRequest, SInv, IInv, ChainOK
    <3>. QED
      BY <3>1 DEF Steady
  <2>3. CASE Finish
    BY <2>3 DEF Finish, Steady
  <2>4. ASSUME NEW c \in Ctx, Execute(c) \/ Verify(c) \/ Transport(c) PROVE Steady
    BY <1>2, <2>4, CalmExecute, CalmVerify, CalmTransport, AcceptIsFirst DEF Calm
  <2>. QED
    BY <2>1, <2>2, <2>3, <2>4 DEF Next, SendReq
<1>3. Spec => []RootDone
  BY <1>1, NextRootDone, SInvHolds, PTL DEF Spec
<1>. QED
  BY <1>2, <1>3, SInvHolds, PTL DEF Spec, AcceptedStays, Steady
=============================================================================
