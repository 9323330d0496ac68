---------------------------- MODULE RequestProofs ----------------------------
(***************************************************************************)
(* Proofs about module Request for every value of its constants: types,    *)
(* the bound on the attempts, the counter of pending contexts and the      *)
(* bookkeeping of the open connections.                                    *)
(***************************************************************************)
EXTENDS Request, TLAPS, FiniteSetTheorems, SequenceTheorems, WellFoundedInduction

-----------------------------------------------------------------------------
(* The inductive invariant *)

(* One response per node, or a single one if there are no nodes. *)
RawFits(r) ==
  \/ r.raw = <<>>
  \/ r.nodes = <<>> /\ Len(r.raw) = 1
  \/ r.nodes # <<>> /\ Len(r.raw) = Len(r.nodes)

(* What holds for the fields of every context at any time. *)
ReqOK(r) ==
  /\ r \in Request
  /\ RawFits(r)
  /\ r.kind \in {"intern", "sign"} => r.nodes = <<>>
  /\ ~r.error => r.attempt < MaxAttempts

DataOK == req \in [Ctx -> Request] /\ \A c \in Ctx : ReqOK(req[c])

ChainOK == chain \in Seq(Ctx) /\ PendingCounts

(* No plugin waits for the context being executed. *)
Alone == \A k \in fresh : k >= cur

(* A context that has just been added and was not sent yet. *)
Quiet(r) == r.raw = <<>> /\ r.resp = "none" /\ r.kind # "intern"

(* The plugins on the call stack: the contexts they have just added have not  *)
(* been sent, so these return no IN3_OK and do not touch the locals of        *)
(* find_valid_result.                                                         *)
StackOK ==
  \A k \in fresh :
    /\ k \in 1..cur
    /\ k = cur => ret # "OK"
    /\ req[chain[k]].raw # <<>> => loop.n \in 1..Len(req[chain[k]].raw)
    /\ \A i \in (k + 1)..cur : Quiet(req[chain[i]])

(* The locals of find_valid_result. *)
Loops == [n : Nat \ {0}, state : {"OK", "ERR"}, pending : BOOLEAN]

(* Where the walk through the chain is. *)
ControlOK ==
  /\ pc \in {"idle", "exec", "verify", "dispatch", "done"}
  /\ cur \in Nat
  /\ ret \in RetCodes
  /\ fresh \in SUBSET Nat
  /\ loop \in Loops
  /\ pc # "idle" => chain # <<>>
  /\ pc = "idle" => chain = <<>>
  /\ pc \in {"exec", "verify"} => cur \in 1..Len(chain)
  /\ pc # "exec" => fresh = {}
  /\ pc = "verify" => req[chain[cur]].attempt < MaxAttempts
  /\ StackOK

(* Positions of ctx_req_transports_t that hold a connection. *)
Used(ts) == {i \in DOMAIN ts : ts[i].req # NoCtx}

ConnOK == transports \in Seq(Slot) /\ open \in Nat /\ ConnectionsAccounted

RestOK ==
  /\ wantUpdate \in BOOLEAN
  /\ blamed \in SUBSET Nodes
  /\ suspect \in SUBSET Nodes

IInv == DataOK /\ ChainOK /\ ControlOK /\ ConnOK /\ RestOK

-----------------------------------------------------------------------------
(* Lemmas about the operators of Request *)

(* FirstOf, the idiom of the code's linear searches, finds a member. *)
LEMMA FirstOfIn ==
  ASSUME NEW S \in SUBSET Nat, S # {}
  PROVE  FirstOf(S) \in S /\ \A j \in S : FirstOf(S) <= j
<1>1. PICK x \in S : \A y \in S : ~ (<<y, x>> \in OpToRel(<, Nat))
  BY NatLessThanWellFounded, WFMin
<1>2. OpToRel(<, Nat) = {ss \in Nat \X Nat : ss[1] < ss[2]}
  BY Zenon DEF OpToRel
<1>3. ASSUME NEW y \in S, y < x
      PROVE  FALSE
  <2>1. <<y, x>> \in Nat \X Nat
    OBVIOUS
  <2>2. <<y, x>>[1] < <<y, x>>[2]
    BY <1>3
  <2>. QED
    BY <1>1, <1>2, <2>1, <2>2, Zenon
<1>4. \A y \in S : x <= y
  BY <1>3
<1>. QED
  BY <1>4 DEF FirstOf

(* in3_req_execute starts at a context of the chain. *)
LEMMA EntryIn ==
  ASSUME NEW ch \in Seq(Ctx), NEW r, ch # <<>>
  PROVE  EntryOf(ch, r) \in 1..Len(ch)
<1>. DEFINE bad == {i \in DOMAIN ch : r[ch[i]].error}
<1>1. Len(ch) \in Nat /\ Len(ch) >= 1 /\ DOMAIN ch = 1..Len(ch)
  BY EmptySeq, LenProperties
<1>2. CASE bad = {}
  BY <1>1, <1>2 DEF EntryOf
<1>3. CASE bad # {}
  <2>1. bad \in SUBSET Nat
    BY <1>1
  <2>2. FirstOf(bad) \in bad
    BY <1>3, <2>1, FirstOfIn
  <2>. QED
    BY <1>1, <1>3, <2>2 DEF EntryOf
<1>. QED
  BY <1>2, <1>3

-----------------------------------------------------------------------------
(* Every change of a context keeps its fields in order. *)

(* req_new yields a well-formed context without an error. *)
LEMMA NewReqOK ==
  ASSUME NEW kind \in Kinds, NEW owner \in Ctx \cup {NoCtx}
  PROVE  ReqOK(NewReq(kind, owner)) /\ Quiet([NewReq(kind, owner) EXCEPT !.kind = "rpc"])
BY AttemptAssumption, EmptySeq DEF ReqOK, NewReq, Request, RawFits, Data, RetCodes, Quiet

(* The record that stands for no context is well-formed. *)
LEMMA UnusedOK == ReqOK(Unused) /\ Quiet(Unused) /\ Unused.attempt < MaxAttempts
BY AttemptAssumption, EmptySeq DEF ReqOK, Unused, NewReq, Request, RawFits, Data, RetCodes, Quiet, Kinds

(* req_set_error keeps a context well-formed. *)
LEMMA WithErrorOK ==
  ASSUME NEW r, ReqOK(r), NEW code \in RetCodes
  PROVE  /\ ReqOK(WithError(r, code))
         /\ Quiet(r) => Quiet(WithError(r, code))
         /\ WithError(r, code).attempt = r.attempt
         /\ WithError(r, code).raw = r.raw
BY DEF ReqOK, WithError, Request, RawFits, Quiet

(* Freeing what was parsed of an answer keeps the responses and the nodes. *)
LEMMA CleanUpOK ==
  ASSUME NEW r, ReqOK(r), r.attempt < MaxAttempts
  PROVE  /\ ReqOK(CleanUp(r))
         /\ CleanUp(r).attempt = r.attempt /\ CleanUp(r).raw = r.raw
         /\ CleanUp(r).nodes = r.nodes /\ CleanUp(r).kind = r.kind
BY DEF ReqOK, CleanUp, Request, RawFits, RetCodes

(* Parsing a response keeps a context well-formed. *)
LEMMA ParsedOK ==
  ASSUME NEW r, ReqOK(r), r.attempt < MaxAttempts, NEW data \in Data, NEW v \in RetCodes
  PROVE  LET p == [Parsed(r, data) EXCEPT !.vstate = v]
         IN  /\ ReqOK(Parsed(r, data)) /\ Parsed(r, data).attempt = r.attempt
             /\ ReqOK(p) /\ p.attempt = r.attempt /\ p.raw = r.raw
             /\ Parsed(r, data).raw = r.raw
BY CleanUpOK DEF ReqOK, Parsed, Request, RawFits, RetCodes

(* So does a response that can not be parsed. *)
LEMMA UnparsedOK ==
  ASSUME NEW r, ReqOK(r), r.attempt < MaxAttempts, NEW p \in Unparsed(r)
  PROVE  ReqOK(p) /\ p.attempt = r.attempt /\ p.raw = r.raw
<1>1. CASE p = Parsed(r, "garbage")
  BY <1>1, ParsedOK DEF Data, AllAnswers, RetCodes
<1>2. CASE \E d \in {"none", "garbage"} : p = [CleanUp(r) EXCEPT !.resp = d]
  BY <1>2, CleanUpOK DEF ReqOK, Request, RawFits, Data, AllAnswers
<1>. QED
  BY <1>1, <1>2 DEF Unparsed

(* Writing a response into its place of the array keeps a context well-formed. *)
LEMMA PutResponseOK ==
  ASSUME NEW r, ReqOK(r), NEW n \in 1..Len(r.raw), NEW e \in Response
  PROVE  /\ ReqOK([r EXCEPT !.raw[n] = e])
         /\ [r EXCEPT !.raw[n] = e].attempt = r.attempt
<1>. DEFINE w == [r.raw EXCEPT ![n] = e]
<1>1. r.raw \in Seq(Response)
  BY DEF ReqOK, Request
<1>2. w \in Seq(Response) /\ Len(w) = Len(r.raw)
  BY <1>1, ExceptSeq
<1>3. r.raw # <<>>
  BY <1>1, EmptySeq
<1>. HIDE DEF w
<1>4. ReqOK([r EXCEPT !.raw = w]) /\ [r EXCEPT !.raw = w].attempt = r.attempt
  BY <1>2, <1>3 DEF ReqOK, Request, RawFits
<1>. QED
  BY <1>4 DEF w

(* A rejected response keeps its place in the array. *)
LEMMA RejectedOK ==
  ASSUME NEW r, ReqOK(r), r.attempt < MaxAttempts, NEW n \in 1..Len(r.raw),
         NEW data \in Data, NEW msg \in BOOLEAN
  PROVE  /\ ReqOK(Rejected(r, n, data, msg))
         /\ Rejected(r, n, data, msg).attempt = r.attempt
<1>. DEFINE p == [Parsed(r, data) EXCEPT !.vstate = "ERR"]
            e == [state |-> "ERR", data |-> "msg"]
            q == [p EXCEPT !.error = msg]
<1>1. ReqOK(p) /\ p.attempt = r.attempt /\ p.raw = r.raw
  BY ParsedOK DEF RetCodes
<1>. HIDE DEF p
<1>2. ReqOK(q) /\ q.attempt = r.attempt /\ q.raw = r.raw
  BY <1>1 DEF ReqOK, Request, RawFits
<1>3. ReqOK([q EXCEPT !.raw[n] = e]) /\ [q EXCEPT !.raw[n] = e].attempt = r.attempt
  <2>1. e \in Response
    BY DEF Response, Data
  <2>2. n \in 1..Len(q.raw)
    BY <1>2
  <2>. HIDE DEF q, e
  <2>. QED
    BY <1>2, <2>1, <2>2, PutResponseOK
<1>4. Rejected(r, n, data, msg) = IF msg THEN [q EXCEPT !.raw[n] = e] ELSE q
  BY DEF Rejected, p
<1>. QED
  BY <1>2, <1>3, <1>4

(* A context without nodes may hold one response, of another origin. *)
LEMMA OneResponseOK ==
  ASSUME NEW r, ReqOK(r), r.nodes = <<>>, NEW e \in Response
  PROVE  ReqOK([r EXCEPT !.raw = <<e>>])
<1>. DEFINE w == <<e>>
<1>1. w \in Seq(Response) /\ Len(w) = 1
  OBVIOUS
<1>. HIDE DEF w
<1>2. ReqOK([r EXCEPT !.raw = w])
  BY <1>1 DEF ReqOK, Request, RawFits
<1>. QED
  BY <1>2 DEF w

(* Freeing the rejected responses keeps a context well-formed. *)
LEMMA DropRejectedOK ==
  ASSUME NEW r, ReqOK(r), r.attempt < MaxAttempts
  PROVE  ReqOK(DropRejected(r))
BY DEF ReqOK, DropRejected, Request, RawFits, RetCodes, Data

(* A further attempt starts without responses and nodes, and counts. *)
LEMMA NextAttemptOK ==
  ASSUME NEW r, ReqOK(r), r.attempt < MaxAttempts
  PROVE  /\ NextAttempt(r) \in Request
         /\ NextAttempt(r).raw = <<>> /\ NextAttempt(r).nodes = <<>>
         /\ NextAttempt(r).attempt = r.attempt + 1
<1>1. /\ Freed(r) \in Request /\ Freed(r).raw = <<>> /\ Freed(r).nodes = <<>>
      /\ Freed(r).attempt = r.attempt
  BY EmptySeq DEF ReqOK, Freed, Request, Data
<1>2. r.attempt + 1 \in 0..MaxAttempts
  BY AttemptAssumption DEF ReqOK, Request
<1>. QED
  BY <1>1, <1>2 DEF NextAttempt, Request

-----------------------------------------------------------------------------
(* The walk through the chain *)

(* Only a context that was just added has a plugin waiting for it. *)
LEMMA ExecutingFresh ==
  ASSUME ControlOK, NEW c \in Ctx, Executing(c)
  PROVE  /\ Alone \/ Quiet(req[c])
         /\ ret = "OK" => cur \notin fresh
         /\ cur \in 1..Len(chain)
         /\ ret = "OK" /\ ~Quiet(req[c]) => fresh = {}
BY DEF ControlOK, StackOK, Executing, Alone

(* Returning from a context leaves the walk over the chain well-formed. *)
LEMMA ReturnControl ==
  ASSUME DataOK, ChainOK, ControlOK, pc \in {"exec", "verify"},
         NEW c \in Ctx, c = chain[cur], NEW r, Alone \/ Quiet(r),
         NEW v \in RetCodes, v = "OK" => Alone,
         SetReq(c, r), Return(v), chain' = chain
  PROVE  ControlOK'
<1>1. cur \in 1..Len(chain) /\ Len(chain) \in Nat /\ \A i \in 1..Len(chain) : chain[i] \in Ctx
  BY LenProperties, ElementOfSeq DEF ControlOK, ChainOK
<1>2. \A x \in Ctx : req'[x] = IF x = c THEN r ELSE req[x]
  BY DEF SetReq, DataOK
<1>3. CASE cur = 1
  <2>1. pc' = "dispatch" /\ cur' = 0 /\ ret' = "OK" /\ fresh' = {} /\ loop' = NoLoop
    BY <1>3 DEF Return
  <2>2. StackOK'
    BY <2>1 DEF StackOK
  <2>3. chain # <<>>
    BY DEF ControlOK
  <2>. QED
    BY <2>1, <2>2, <2>3 DEF ControlOK, NoLoop, Loops, RetCodes
<1>4. CASE cur # 1
  <2>1. /\ cur' = cur - 1 /\ pc' = "exec" /\ ret' = v
        /\ fresh' = fresh \ {cur} /\ loop' = loop
    BY <1>4 DEF Return
  <2>2. cur' \in 1..Len(chain)
    BY <1>1, <1>4, <2>1
  <2>3. StackOK'
    <3>. SUFFICES ASSUME NEW k \in fresh, k # cur
                  PROVE  /\ k \in 1..cur'
                         /\ k = cur' => v # "OK"
                         /\ req'[chain[k]].raw # <<>> => loop.n \in 1..Len(req'[chain[k]].raw)
                         /\ \A i \in (k + 1)..cur' : Quiet(req'[chain[i]])
      BY <2>1, <1>1 DEF StackOK, Quiet
    <3>1. k \in 1..cur /\ k < cur /\ Quiet(r) /\ v # "OK"
      BY <1>1 DEF ControlOK, StackOK, Alone
    <3>2. req[chain[k]].raw # <<>> => loop.n \in 1..Len(req[chain[k]].raw)
      BY DEF ControlOK, StackOK
    <3>3. \A i \in (k + 1)..cur : Quiet(req[chain[i]])
      BY DEF ControlOK, StackOK
    <3>4. chain[k] \in Ctx /\ \A i \in (k + 1)..cur' : chain[i] \in Ctx
      BY <1>1, <2>1, <3>1
    <3>5. req'[chain[k]].raw # <<>> => loop.n \in 1..Len(req'[chain[k]].raw)
      BY <1>2, <3>1, <3>2, <3>4 DEF Quiet
    <3>6. \A i \in (k + 1)..cur' : Quiet(req'[chain[i]])
      BY <1>1, <1>2, <2>1, <3>1, <3>3, <3>4
    <3>. QED
      BY <1>1, <2>1, <3>1, <3>5, <3>6
  <2>4. chain # <<>> /\ loop \in Loops
    BY DEF ControlOK
  <2>5. fresh' \in SUBSET Nat
    BY <2>1 DEF ControlOK
  <2>6. cur' \in Nat
    BY <1>1, <2>2
  <2>. QED
    BY <2>1, <2>2, <2>3, <2>4, <2>5, <2>6 DEF ControlOK
<1>. QED
  BY <1>3, <1>4

(* Replacing the record of one context keeps all of them well-formed. *)
LEMMA SetReqData ==
  ASSUME DataOK, NEW c \in Ctx, NEW r, ReqOK(r), SetReq(c, r)
  PROVE  DataOK'
BY DEF DataOK, SetReq, ReqOK

(* A step that leaves the contexts alone, as a change of one of them. *)
LEMMA SameReq ==
  ASSUME DataOK, NEW c \in Ctx, req' = req
  PROVE  SetReq(c, req[c]) /\ ReqOK(req[c])
BY DEF DataOK, SetReq

(* in3_send_req executes the chain again. *)
LEMMA EnterControl ==
  ASSUME ChainOK, ControlOK, pc = "dispatch", Enter, chain' = chain, loop' = loop
  PROVE  ControlOK'
<1>1. chain \in Seq(Ctx) /\ chain # <<>> /\ loop \in Loops
  BY DEF ControlOK, ChainOK
<1>2. cur' \in 1..Len(chain) /\ pc' = "exec" /\ ret' = "OK" /\ fresh' = {}
  BY <1>1, EntryIn DEF Enter, Enters
<1>3. StackOK'
  BY <1>2 DEF StackOK
<1>4. cur' \in Nat
  BY <1>1, <1>2, LenProperties
<1>. QED
  BY <1>1, <1>2, <1>3, <1>4 DEF ControlOK, RetCodes

(* Connections that are left alone, or whose responses are freed. *)
LEMMA ConnKept ==
  ASSUME ConnOK, open' = open, pc' \notin {"idle", "done"},
         transports' = transports \/ \E cs : transports' = Stale(transports, cs)
  PROVE  ConnOK'
<1>1. /\ transports \in Seq(Slot)
      /\ transports' \in Seq(Slot)
      /\ DOMAIN transports' = DOMAIN transports
      /\ \A i \in DOMAIN transports : transports'[i].req = transports[i].req
  <2>1. transports \in Seq(Slot)
    BY DEF ConnOK
  <2>2. CASE transports' = transports
    BY <2>1, <2>2
  <2>3. ASSUME NEW cs, transports' = Stale(transports, cs)
        PROVE  <1>1!2 /\ <1>1!3 /\ <1>1!4
    <3>1. DOMAIN transports = 1..Len(transports) /\ Len(transports) \in Nat
      BY <2>1, LenProperties
    <3>2. \A i \in DOMAIN transports : transports[i] \in Slot
      BY <2>1, <3>1, ElementOfSeq
    <3>3. \A i \in DOMAIN transports :
            LET t == [transports[i] EXCEPT !.live = @ /\ transports[i].req \notin cs]
            IN  t \in Slot /\ t.req = transports[i].req
      BY <3>2 DEF Slot
    <3>4. /\ transports' \in [1..Len(transports) -> Slot]
          /\ \A i \in DOMAIN transports : transports'[i].req = transports[i].req
      BY <2>3, <3>1, <3>3 DEF Stale
    <3>5. transports' \in Seq(Slot)
      BY <3>1, <3>4, SeqDef
    <3>. QED
      BY <3>1, <3>4, <3>5
  <2>. QED
    BY <2>1, <2>2, <2>3
<1>2. Used(transports') = Used(transports)
  BY <1>1 DEF Used
<1>. QED
  BY <1>1, <1>2 DEF ConnOK, ConnectionsAccounted, Used

(* The chain without its contexts from position j on. *)
LEMMA RemoveFromChain ==
  ASSUME ChainOK, NEW j \in 1..(Len(chain) + 1), RemoveFrom(j)
  PROVE  /\ ChainOK'
         /\ Len(chain') = j - 1
         /\ \A i \in 1..(j - 1) : chain'[i] = chain[i]
<1>1. chain \in Seq(Ctx) /\ Len(chain) \in Nat /\ \A i \in 1..Len(chain) : chain[i] \in Ctx
  BY LenProperties, ElementOfSeq DEF ChainOK
<1>2. chain' = SubSeq(chain, 1, j - 1)
  BY DEF RemoveFrom
<1>3. chain' \in Seq(Ctx) /\ Len(chain') = j - 1 /\ \A i \in 1..(j - 1) : chain'[i] = chain[i]
  BY <1>1, <1>2, SubSeqProperties
<1>. QED
  BY <1>1, <1>3 DEF ChainOK, PendingCounts, RemoveFrom, Uncount

(* The chain without its context at position j. *)
LEMMA RemoveOneChain ==
  ASSUME ChainOK, NEW j \in 1..Len(chain), RemoveOne(j)
  PROVE  /\ ChainOK'
         /\ Len(chain') = Len(chain) - 1
         /\ \A i \in 1..(j - 1) : chain'[i] = chain[i]
<1>1. chain \in Seq(Ctx) /\ Len(chain) \in Nat /\ \A i \in 1..Len(chain) : chain[i] \in Ctx
  BY LenProperties, ElementOfSeq DEF ChainOK
<1>. DEFINE a == SubSeq(chain, 1, j - 1)
            b == SubSeq(chain, j + 1, Len(chain))
<1>2. a \in Seq(Ctx) /\ Len(a) = j - 1 /\ \A i \in 1..(j - 1) : a[i] = chain[i]
  BY <1>1, SubSeqProperties
<1>3. b \in Seq(Ctx) /\ Len(b) = Len(chain) - j
  BY <1>1, SubSeqProperties
<1>. HIDE DEF a, b
<1>4. /\ a \o b \in Seq(Ctx) /\ Len(a \o b) = Len(chain) - 1
      /\ \A i \in 1..(j - 1) : (a \o b)[i] = chain[i]
  <2>1. /\ a \o b \in Seq(Ctx) /\ Len(a \o b) = Len(a) + Len(b)
        /\ \A i \in 1..(Len(a) + Len(b)) : (a \o b)[i] = IF i <= Len(a) THEN a[i] ELSE b[i - Len(a)]
    BY <1>2, <1>3, ConcatProperties
  <2>2. Len(a) + Len(b) = Len(chain) - 1
    BY <1>1, <1>2, <1>3
  <2>. QED
    BY <1>1, <1>2, <1>3, <2>1, <2>2
<1>. QED
  BY <1>1, <1>4 DEF ChainOK, PendingCounts, RemoveOne, Uncount, a, b

(* Freeing contexts behind the one being executed leaves the walk alone. *)
LEMMA RemoveFromStep ==
  ASSUME DataOK, ChainOK, ControlOK, pc = "exec",
         NEW j \in (cur + 1)..(Len(chain) + 1), RemoveFrom(j),
         pc' = pc, cur' = cur, fresh' = fresh, loop' = loop,
         ret' \in RetCodes, cur \in fresh => ret' # "OK"
  PROVE  DataOK' /\ ChainOK' /\ ControlOK'
<1>1. chain \in Seq(Ctx) /\ Len(chain) \in Nat /\ \A i \in 1..Len(chain) : chain[i] \in Ctx
  BY LenProperties, ElementOfSeq DEF ChainOK
<1>2. cur \in 1..Len(chain) /\ j \in 1..(Len(chain) + 1)
  BY <1>1 DEF ControlOK
<1>3. ChainOK' /\ Len(chain') = j - 1 /\ \A i \in 1..(j - 1) : chain'[i] = chain[i]
  BY <1>2, RemoveFromChain
<1>4. \A x \in Ctx : req'[x] = Unused \/ req'[x] = req[x]
  BY DEF RemoveFrom
<1>5. DataOK'
  <2>1. req' \in [Ctx -> Request]
    BY <1>4, UnusedOK DEF RemoveFrom, DataOK, ReqOK
  <2>. QED
    BY <1>4, <2>1, UnusedOK DEF DataOK
<1>6. \A i \in 1..cur : /\ chain'[i] = chain[i]
                        /\ Quiet(req'[chain[i]]) \/ req'[chain[i]] = req[chain[i]]
  BY <1>1, <1>2, <1>3, <1>4, UnusedOK
<1>7. StackOK'
  <2>. SUFFICES ASSUME NEW k \in fresh
                PROVE  /\ k \in 1..cur
                       /\ k = cur => ret' # "OK"
                       /\ req'[chain'[k]].raw # <<>> => loop.n \in 1..Len(req'[chain'[k]].raw)
                       /\ \A i \in (k + 1)..cur : Quiet(req'[chain'[i]])
    BY DEF StackOK, Quiet
  <2>1. /\ k \in 1..cur
        /\ req[chain[k]].raw # <<>> => loop.n \in 1..Len(req[chain[k]].raw)
        /\ \A i \in (k + 1)..cur : Quiet(req[chain[i]])
    BY DEF ControlOK, StackOK
  <2>2. req'[chain'[k]].raw # <<>> => loop.n \in 1..Len(req'[chain'[k]].raw)
    BY <1>6, <2>1 DEF Quiet
  <2>3. \A i \in (k + 1)..cur : Quiet(req'[chain'[i]])
    BY <1>2, <1>6, <2>1
  <2>. QED
    BY <2>1, <2>2, <2>3
<1>8. /\ chain' # <<>> /\ cur \in Nat /\ fresh \in SUBSET Nat
      /\ loop \in Loops
      /\ cur \in 1..Len(chain')
  BY <1>1, <1>2, <1>3, EmptySeq DEF ControlOK
<1>. QED
  BY <1>3, <1>5, <1>7, <1>8 DEF ControlOK

(* A new context right behind the one being executed is executed next. *)
LEMMA AddRequiredStep ==
  ASSUME DataOK, ChainOK, ControlOK, pc \in {"exec", "verify"},
         NEW kind \in {"rpc", "sign", "nodeList"}, NEW r, ReqOK(r),
         AddRequired(kind, r), loop' = loop,
         cur \notin fresh, Alone \/ Quiet(r),
         r.raw # <<>> => loop.n \in 1..Len(r.raw)
  PROVE  DataOK' /\ ChainOK' /\ ControlOK'
<1>1. chain \in Seq(Ctx) /\ Len(chain) \in Nat /\ \A i \in 1..Len(chain) : chain[i] \in Ctx
  BY LenProperties, ElementOfSeq DEF ChainOK
<1>2. cur \in 1..Len(chain)
  BY DEF ControlOK
<1>3. PICK d \in Ctx :
        /\ ~InChain(d)
        /\ req' = [req EXCEPT ![chain[cur]] = r, ![d] = NewReq(kind, chain[cur])]
        /\ chain' = InsertAfter(cur, d)
        /\ pending' = pending + 1
        /\ fresh' = fresh \cup {cur}
        /\ pc' = "exec" /\ cur' = cur + 1 /\ ret' = "OK"
  BY DEF AddRequired
<1>. DEFINE a == SubSeq(chain, 1, cur)
            b == SubSeq(chain, cur + 1, Len(chain))
            q == NewReq(kind, chain[cur])
<1>4. ReqOK(q) /\ Quiet(q)
  <2>1. kind \in Kinds /\ chain[cur] \in Ctx \cup {NoCtx}
    BY <1>1, <1>2 DEF Kinds
  <2>. QED
    BY <2>1, NewReqOK DEF Quiet, NewReq
<1>5. /\ chain' \in Seq(Ctx) /\ Len(chain') = Len(chain) + 1
      /\ \A i \in 1..cur : chain'[i] = chain[i]
      /\ chain'[cur + 1] = d
  <2>1. a \in Seq(Ctx) /\ Len(a) = cur /\ \A i \in 1..cur : a[i] = chain[i]
    BY <1>1, <1>2, SubSeqProperties
  <2>2. b \in Seq(Ctx) /\ Len(b) = Len(chain) - cur
    BY <1>1, <1>2, SubSeqProperties
  <2>. HIDE DEF a, b
  <2>. DEFINE ad == a \o <<d>>
  <2>3. chain' = ad \o b
    BY <1>3 DEF InsertAfter, a, b
  <2>4. /\ ad \in Seq(Ctx) /\ Len(ad) = cur + 1
        /\ \A i \in 1..cur : ad[i] = chain[i]
        /\ ad[cur + 1] = d
    BY <1>2, <2>1
  <2>. HIDE DEF ad
  <2>5. /\ ad \o b \in Seq(Ctx)
        /\ Len(ad \o b) = Len(ad) + Len(b)
        /\ \A i \in 1..(Len(ad) + Len(b)) :
             (ad \o b)[i] = IF i <= Len(ad) THEN ad[i] ELSE b[i - Len(ad)]
    BY <2>2, <2>4, ConcatProperties
  <2>6. Len(ad) + Len(b) = Len(chain) + 1
    BY <1>1, <1>2, <2>2, <2>4
  <2>7. \A i \in 1..(cur + 1) : chain'[i] = ad[i]
    BY <1>1, <1>2, <2>2, <2>3, <2>4, <2>5, <2>6
  <2>. QED
    BY <1>2, <2>3, <2>4, <2>5, <2>6, <2>7
<1>. HIDE DEF q
<1>6. \A i \in 1..cur : chain[i] \in Ctx /\ chain[i] # d
  BY <1>1, <1>2, <1>3, LenProperties DEF InChain
<1>7. /\ req'[d] = q
      /\ \A i \in 1..cur : req'[chain[i]] = r \/ req'[chain[i]] = req[chain[i]]
      /\ \A x \in Ctx : req'[x] = q \/ req'[x] = r \/ req'[x] = req[x]
      /\ req' \in [Ctx -> Request]
  BY <1>2, <1>3, <1>4, <1>6 DEF DataOK, ReqOK, q
<1>8. DataOK'
  BY <1>4, <1>7 DEF DataOK
<1>9. ChainOK'
  BY <1>1, <1>3, <1>5 DEF ChainOK, PendingCounts
<1>10. StackOK'
  <2>. SUFFICES ASSUME NEW k \in fresh'
                PROVE  /\ k \in 1..cur' /\ k # cur'
                       /\ req'[chain'[k]].raw # <<>> => loop.n \in 1..Len(req'[chain'[k]].raw)
                       /\ \A i \in (k + 1)..cur' : Quiet(req'[chain'[i]])
    BY DEF StackOK
  <2>1. Quiet(req'[chain'[cur + 1]])
    BY <1>4, <1>5, <1>7
  <2>2. CASE k = cur
    <3>1. chain[cur] # d
      BY <1>2, <1>6
    <3>2. req'[chain'[k]] = r
      BY <1>1, <1>2, <1>3, <1>5, <1>6, <2>2, <3>1 DEF DataOK
    <3>3. req'[chain'[k]].raw # <<>> => loop.n \in 1..Len(req'[chain'[k]].raw)
      BY <3>2
    <3>4. \A i \in (k + 1)..cur' : i = cur + 1
      BY <1>2, <1>3, <2>2
    <3>. QED
      BY <1>2, <1>3, <2>1, <2>2, <3>3, <3>4
  <2>3. CASE k # cur
    <3>1. k \in fresh
      BY <1>3, <2>3
    <3>2. /\ k \in 1..cur /\ Quiet(r)
          /\ req[chain[k]].raw # <<>> => loop.n \in 1..Len(req[chain[k]].raw)
          /\ \A i \in (k + 1)..cur : Quiet(req[chain[i]])
      <4>1. StackOK
        BY DEF ControlOK
      <4>2. k \in 1..cur
        BY <3>1, <4>1 DEF StackOK
      <4>3. Quiet(r)
        BY <1>2, <2>3, <3>1, <4>2 DEF Alone
      <4>. QED
        BY <3>1, <4>1, <4>2, <4>3 DEF StackOK
    <3>3. req'[chain'[k]].raw # <<>> => loop.n \in 1..Len(req'[chain'[k]].raw)
      BY <1>5, <1>7, <3>2 DEF Quiet
    <3>4. \A i \in (k + 1)..cur : Quiet(req'[chain'[i]])
      BY <1>2, <1>5, <1>7, <3>2
    <3>5. \A i \in (k + 1)..cur' : i \in (k + 1)..cur \/ i = cur + 1
      BY <1>2, <1>3, <3>2
    <3>6. \A i \in (k + 1)..cur' : Quiet(req'[chain'[i]])
      BY <2>1, <3>4, <3>5
    <3>7. k \in 1..cur' /\ k # cur'
      BY <1>2, <1>3, <3>2
    <3>. QED
      BY <3>3, <3>6, <3>7
  <2>. QED
    BY <2>2, <2>3
<1>11. /\ chain' # <<>> /\ cur' \in Nat /\ cur' \in 1..Len(chain')
       /\ loop \in Loops
  BY <1>1, <1>2, <1>3, <1>5, EmptySeq DEF ControlOK
<1>12. fresh' \in SUBSET Nat
  BY <1>2, <1>3 DEF ControlOK
<1>. QED
  BY <1>3, <1>8, <1>9, <1>10, <1>11, <1>12 DEF ControlOK, RetCodes

(* A context is done for now: what most actions of in3_req_execute end with. *)
LEMMA ReturnStep ==
  ASSUME IInv, pc \in {"exec", "verify"}, NEW c \in Ctx, c = chain[cur],
         NEW r, ReqOK(r), Alone \/ Quiet(r),
         NEW v \in RetCodes, v = "OK" => Alone,
         SetReq(c, r), Return(v),
         chain' = chain, pending' = pending, open' = open,
         transports' = transports \/ \E cs : transports' = Stale(transports, cs),
         RestOK'
  PROVE  IInv'
<1>1. DataOK'
  BY SetReqData DEF IInv
<1>2. ChainOK'
  BY DEF IInv, ChainOK, PendingCounts
<1>3. ControlOK'
  BY ReturnControl DEF IInv
<1>4. pc' \notin {"idle", "done"}
  BY DEF Return
<1>5. ConnOK'
  BY <1>4, ConnKept DEF IInv
<1>. QED
  BY <1>1, <1>2, <1>3, <1>5 DEF IInv

(* The walk stays at a context no plugin waits for. *)
LEMMA StayStep ==
  ASSUME IInv, pc \in {"exec", "verify"}, fresh = {}, NEW c \in Ctx, c = chain[cur],
         NEW r, ReqOK(r), SetReq(c, r),
         pc' \in {"exec", "verify"}, pc' = "verify" => r.attempt < MaxAttempts,
         cur' = cur, ret' \in RetCodes, fresh' = {},
         loop' \in Loops,
         chain' = chain, pending' = pending, open' = open,
         transports' = transports \/ \E cs : transports' = Stale(transports, cs),
         RestOK'
  PROVE  IInv'
<1>1. DataOK'
  BY SetReqData DEF IInv
<1>2. ChainOK'
  BY DEF IInv, ChainOK, PendingCounts
<1>3. ConnOK'
  BY ConnKept DEF IInv
<1>4. StackOK'
  BY DEF StackOK
<1>5. req'[chain[cur]] = r
  BY DEF IInv, DataOK, SetReq
<1>6. ControlOK'
  BY <1>4, <1>5 DEF IInv, ControlOK
<1>. QED
  BY <1>1, <1>2, <1>3, <1>6 DEF IInv

(* The walk goes back to the required context, which has failed. *)
LEMMA AgainStep ==
  ASSUME IInv, pc = "verify", fresh = {}, NEW c \in Ctx, c = chain[cur], cur < Len(chain),
         NEW r, ReqOK(r), SetReq(c, r),
         pc' = "exec", cur' = cur + 1, ret' \in RetCodes, fresh' = {},
         loop' \in Loops,
         chain' = chain, pending' = pending, open' = open,
         \E cs : transports' = Stale(transports, cs),
         RestOK'
  PROVE  IInv'
<1>1. DataOK'
  BY SetReqData DEF IInv
<1>2. ChainOK'
  BY DEF IInv, ChainOK, PendingCounts
<1>3. ConnOK'
  BY ConnKept DEF IInv
<1>4. StackOK'
  BY DEF StackOK
<1>5. cur \in 1..Len(chain) /\ Len(chain) \in Nat /\ chain # <<>>
  BY LenProperties DEF IInv, ControlOK, ChainOK
<1>6. ControlOK'
  BY <1>4, <1>5 DEF IInv, ControlOK
<1>. QED
  BY <1>1, <1>2, <1>3, <1>6 DEF IInv

(* Every step of in3_req_execute keeps the inductive invariant. *)
LEMMA ExecuteStep ==
  ASSUME IInv, NEW c \in Ctx, Execute(c)
  PROVE  IInv'
<1>. USE DEF IInv
<1>1. /\ pc = "exec" /\ c = chain[cur] /\ ReqOK(req[c])
      /\ cur \in 1..Len(chain) /\ Len(chain) \in Nat
  BY LenProperties DEF Execute, Executing, Body, Unanswered, Selecting, ControlOK, DataOK, ChainOK,
     ExecHasError, ExecRequiredWaiting, ExecRequiredFailed, ExecFailable, ExecDone, ExecSign,
     HandleInternally, HandleNeedsSub, HandleSubRefused, HandleSubResult, HandleSignature,
     PickNeedsUpdate, PickUpdated, PickUpdateRejected, PickNodes, PickFails, ExecWaitToSend
<1>2. Executing(c)
  BY <1>1 DEF Executing
<1>3. /\ Alone \/ Quiet(req[c])
      /\ ret = "OK" => cur \notin fresh
      /\ ret = "OK" /\ ~Quiet(req[c]) => fresh = {}
  BY <1>2, ExecutingFresh
<1>4. RestOK /\ req[c].vstate \in RetCodes /\ ret \in RetCodes
  BY <1>1 DEF ReqOK, Request, ControlOK
<1>5. CASE ExecHasError(c)
  BY <1>1, <1>3, <1>4, <1>5, SameReq, ReturnStep DEF ExecHasError, RestOK, RetCodes
<1>6. CASE ExecRequiredWaiting(c)
  BY <1>1, <1>3, <1>4, <1>6, SameReq, ReturnStep DEF ExecRequiredWaiting, RestOK, RetCodes
<1>7. CASE ExecRequiredFailed(c)
  BY <1>1, <1>3, <1>4, <1>7, WithErrorOK, ReturnStep DEF ExecRequiredFailed, RestOK, RetCodes
<1>8. CASE ExecDone(c)
  <2>1. ~Quiet(req[c]) /\ ret = "OK"
    BY <1>8 DEF ExecDone, Accepted, Body, Quiet
  <2>2. Alone
    BY <1>3, <2>1 DEF Alone
  <2>. QED
    BY <1>1, <1>4, <1>8, <2>2, SameReq, ReturnStep DEF ExecDone, RestOK, RetCodes
<1>9. CASE ExecFailable(c)
  <2>1. DataOK' /\ ChainOK' /\ ControlOK'
    BY <1>1, <1>9, RemoveFromStep DEF ExecFailable, RetCodes
  <2>2. ConnOK'
    BY <1>1, <1>9, ConnKept DEF ExecFailable, RemoveFrom
  <2>. QED
    BY <1>4, <1>9, <2>1, <2>2 DEF ExecFailable, RestOK
<1>10. CASE ExecSign(c)
  <2>. DEFINE v == IF req[c].raw = <<>> THEN "WAITING" ELSE req[c].raw[1].state
  <2>1. req[c].raw \in Seq(Response)
    BY <1>1 DEF ReqOK, Request
  <2>2. CASE req[c].raw = <<>>
    BY <1>1, <1>3, <1>4, <1>10, <2>2, SameReq, ReturnStep DEF ExecSign, RestOK, RetCodes
  <2>3. CASE req[c].raw # <<>>
    <3>1. req[c].raw[1] \in Response
      BY <2>1, <2>3, EmptySeq, ElementOfSeq
    <3>2. v \in RetCodes
      BY <2>3, <3>1 DEF Response, RetCodes
    <3>3. Alone
      BY <1>3, <1>10, <2>3 DEF ExecSign, Body, Quiet, Alone
    <3>. QED
      BY <1>1, <1>4, <1>10, <3>2, <3>3, SameReq, ReturnStep DEF ExecSign, RestOK
  <2>. QED
    BY <2>2, <2>3
<1>11. ASSUME req[c].kind = "intern"
       PROVE  ReqOK([req[c] EXCEPT !.raw = InternalAnswer])
  BY <1>1, <1>11, OneResponseOK DEF InternalAnswer, Response, Data, ReqOK
<1>12. CASE HandleInternally(c)
  <2>1. req[c].kind = "intern" /\ fresh = {} /\ Alone
    BY <1>3, <1>12 DEF HandleInternally, Unanswered, Body, Quiet, Alone
  <2>2. CASE SetReq(c, [req[c] EXCEPT !.raw = InternalAnswer]) /\ UNCHANGED <<pc, cur, ret, fresh, loop>>
    BY <1>1, <1>4, <1>11, <1>12, <2>1, <2>2, StayStep DEF HandleInternally, RestOK, ControlOK
  <2>3. CASE SetReq(c, WithError(req[c], "ERR")) /\ Return("ERR")
    BY <1>1, <1>4, <1>12, <2>1, <2>3, WithErrorOK, ReturnStep DEF HandleInternally, RestOK, RetCodes
  <2>. QED
    BY <1>12, <2>2, <2>3 DEF HandleInternally
<1>13. ASSUME NEW kind \in {"rpc", "sign", "nodeList"}, AddRequired(kind, req[c]), Unanswered(c),
              UNCHANGED <<loop, transports, open, wantUpdate, blamed, suspect>>
       PROVE  IInv'
  <2>1. cur \notin fresh /\ req[c].raw = <<>>
    BY <1>3, <1>13 DEF Unanswered, Body
  <2>2. DataOK' /\ ChainOK' /\ ControlOK'
    BY <1>1, <1>3, <1>13, <2>1, AddRequiredStep
  <2>3. pc' \notin {"idle", "done"}
    BY <1>13 DEF AddRequired
  <2>4. ConnOK'
    BY <1>13, <2>3, ConnKept
  <2>. QED
    BY <1>4, <1>13, <2>2, <2>4 DEF RestOK
<1>14. CASE HandleNeedsSub(c)
  BY <1>13, <1>14 DEF HandleNeedsSub
<1>15. CASE PickNeedsUpdate(c)
  BY <1>13, <1>15 DEF PickNeedsUpdate, Selecting
<1>16. CASE HandleSubRefused(c)
  BY <1>1, <1>3, <1>4, <1>16, WithErrorOK, ReturnStep DEF HandleSubRefused, RestOK, RetCodes
<1>17. CASE HandleSubResult(c)
  <2>1. req[c].kind = "intern" /\ fresh = {} /\ Alone
    BY <1>3, <1>17 DEF HandleSubResult, Unanswered, Body, Quiet, Alone
  <2>2. CASE SetReq(c, [req[c] EXCEPT !.raw = InternalAnswer]) /\ UNCHANGED <<pc, cur, ret, fresh, loop>>
    BY <1>1, <1>4, <1>11, <1>17, <2>1, <2>2, StayStep DEF HandleSubResult, RestOK, ControlOK
  <2>3. CASE SetReq(c, WithError(req[c], "ERR")) /\ Return("ERR")
    BY <1>1, <1>4, <1>17, <2>1, <2>3, WithErrorOK, ReturnStep DEF HandleSubResult, RestOK, RetCodes
  <2>. QED
    BY <1>17, <2>2, <2>3 DEF HandleSubResult
<1>18. CASE HandleSignature(c)
  <2>1. req[c].kind = "intern" /\ fresh = {} /\ Alone
    BY <1>3, <1>18 DEF HandleSignature, Unanswered, Body, Quiet, Alone
  <2>2. PICK j \in SubsOf(cur, {"sign"}) :
          \/ /\ req' = [req EXCEPT ![c].raw = InternalAnswer, ![chain[j]] = Unused]
             /\ RemoveOne(j)
             /\ UNCHANGED <<pc, cur, ret, fresh, loop>>
          \/ /\ SetReq(c, WithError(req[c], "ERR"))
             /\ Return("ERR")
             /\ UNCHANGED <<chain, pending, transports>>
    BY <1>18 DEF HandleSignature
  <2>3. CASE /\ SetReq(c, WithError(req[c], "ERR"))
             /\ Return("ERR")
             /\ UNCHANGED <<chain, pending, transports>>
    BY <1>1, <1>4, <1>18, <2>1, <2>3, WithErrorOK, ReturnStep DEF HandleSignature, RestOK, RetCodes
  <2>4. CASE /\ req' = [req EXCEPT ![c].raw = InternalAnswer, ![chain[j]] = Unused]
             /\ RemoveOne(j)
             /\ UNCHANGED <<pc, cur, ret, fresh, loop>>
    <3>1. j \in (cur + 1)..Len(chain) /\ j \in 1..Len(chain)
      BY <1>1 DEF SubsOf
    <3>2. ChainOK' /\ Len(chain') = Len(chain) - 1 /\ \A i \in 1..(j - 1) : chain'[i] = chain[i]
      BY <2>4, <3>1, RemoveOneChain
    <3>3. chain[j] \in Ctx
      BY <3>1, ElementOfSeq DEF ChainOK
    <3>4. DataOK'
      BY <1>11, <2>1, <2>4, <3>3, UnusedOK DEF DataOK, ReqOK
    <3>5. ConnOK'
      BY <1>1, <1>18, <2>4, ConnKept DEF RemoveOne, HandleSignature
    <3>6. StackOK'
      BY <2>1, <2>4 DEF StackOK
    <3>7. chain' # <<>> /\ cur \in 1..Len(chain')
      BY <1>1, <3>1, <3>2, EmptySeq DEF ChainOK
    <3>8. ControlOK'
      BY <1>1, <2>1, <2>4, <3>6, <3>7 DEF ControlOK
    <3>. QED
      BY <1>4, <1>18, <3>2, <3>4, <3>5, <3>8 DEF HandleSignature, RestOK
  <2>. QED
    BY <2>2, <2>3, <2>4
<1>19. CASE PickUpdated(c)
  <2>. DEFINE S == NodeListSubs(cur)
  <2>1. S \in SUBSET Nat /\ S # {} /\ S \subseteq (cur + 1)..Len(chain)
    BY <1>1, <1>19 DEF NodeListSubs, PickUpdated
  <2>. HIDE DEF S
  <2>2. FirstOf(S) \in (cur + 1)..(Len(chain) + 1)
    <3>1. FirstOf(S) \in S
      BY <2>1, FirstOfIn
    <3>2. \A x \in (cur + 1)..Len(chain) : x \in (cur + 1)..(Len(chain) + 1)
      BY <1>1
    <3>. QED
      BY <2>1, <3>1, <3>2, Zenon
  <2>3. ret = "OK" /\ cur \notin fresh
    BY <1>3, <1>19 DEF PickUpdated, Selecting, Unanswered, Body
  <2>4. CASE RemoveFrom(FirstOf(S)) /\ UNCHANGED <<pc, cur, ret, fresh, loop>>
    <3>1. DataOK' /\ ChainOK' /\ ControlOK'
      BY <1>1, <1>4, <2>2, <2>3, <2>4, RemoveFromStep
    <3>2. ConnOK'
      BY <1>1, <1>19, <2>4, ConnKept DEF PickUpdated, RemoveFrom
    <3>. QED
      BY <1>4, <1>19, <3>1, <3>2 DEF PickUpdated, RestOK
  <2>5. CASE SetReq(c, WithError(req[c], "ERR")) /\ Return("ERR") /\ UNCHANGED <<chain, pending, transports>>
    BY <1>1, <1>3, <1>4, <1>19, <2>5, WithErrorOK, ReturnStep DEF PickUpdated, RestOK, RetCodes
  <2>. QED
    BY <1>19, <2>4, <2>5 DEF PickUpdated, S
<1>20. CASE PickUpdateRejected(c)
  <2>1. ControlOK' /\ ChainOK' /\ DataOK'
    BY <1>20 DEF PickUpdateRejected, ControlOK, StackOK, ChainOK, PendingCounts, DataOK
  <2>2. ConnOK'
    BY <1>1, <1>20, ConnKept DEF PickUpdateRejected
  <2>. QED
    BY <1>4, <1>20, <2>1, <2>2 DEF PickUpdateRejected, RestOK
<1>21. CASE PickNodes(c)
  <2>1. PICK ns \in PickableNodes : SetReq(c, [req[c] EXCEPT !.nodes = ns])
    BY <1>21 DEF PickNodes
  <2>2. ns \in Seq(Nodes)
    BY CountAssumption, SeqDef DEF PickableNodes
  <2>3. req[c].raw = <<>> /\ req[c].kind \in {"rpc", "nodeList"}
    BY <1>21 DEF PickNodes, Selecting, Unanswered
  <2>. DEFINE r == [req[c] EXCEPT !.nodes = ns]
  <2>4. ReqOK(r) /\ (Quiet(req[c]) => Quiet(r))
    BY <1>1, <2>2, <2>3 DEF ReqOK, Request, RawFits, Quiet
  <2>. QED
    BY <1>1, <1>3, <1>4, <1>21, <2>1, <2>4, ReturnStep DEF PickNodes, RestOK, RetCodes
<1>22. CASE PickFails(c)
  BY <1>1, <1>3, <1>4, <1>22, WithErrorOK, ReturnStep DEF PickFails, RestOK, RetCodes
<1>23. CASE ExecWaitToSend(c)
  BY <1>1, <1>3, <1>4, <1>23, SameReq, ReturnStep DEF ExecWaitToSend, RestOK, RetCodes
<1>. QED
  BY <1>5, <1>6, <1>7, <1>8, <1>9, <1>10, <1>12, <1>14, <1>15, <1>16, <1>17, <1>18, <1>19, <1>20,
     <1>21, <1>22, <1>23 DEF Execute

(* The loop over the responses goes on to the next one or ends. *)
LEMMA LoopNext ==
  ASSUME NEW l \in Loops, NEW st \in {"OK", "ERR"}
  PROVE  /\ [l EXCEPT !.n = @ + 1, !.state = st] \in Loops
         /\ [l EXCEPT !.n = @ + 1, !.pending = TRUE] \in Loops
<1>1. l.n + 1 \in Nat \ {0}
  BY DEF Loops
<1>. DEFINE m == l.n + 1
<1>. HIDE DEF m
<1>2. [l EXCEPT !.n = m, !.state = st] \in Loops /\ [l EXCEPT !.n = m, !.pending = TRUE] \in Loops
  BY <1>1 DEF Loops, m
<1>. QED
  BY <1>2 DEF m

(* Every step of find_valid_result keeps the inductive invariant. *)
LEMMA VerifyStep ==
  ASSUME IInv, NEW c \in Ctx, Verify(c)
  PROVE  IInv'
<1>. USE DEF IInv
<1>1. pc \in {"exec", "verify"} /\ c = chain[cur] /\ ReqOK(req[c]) /\ RestOK
  BY DEF Verify, Executing, Body, DataOK, Verifying, Arrived, Verified, Exhausted,
     StartVerify, VerifyPending, VerifyErrorResponse, VerifyGarbage, VerifyAccept,
     VerifySystemError, VerifyReject, VerifyNeedsSub, VerifySubFails, VerifySubWrong, VerifyUnpaid,
     VerifyPay, EndAccepted, EndStillPending, EndRetry, EndGiveUp
<1>2. cur \in 1..Len(chain) /\ Len(chain) \in Nat
  BY <1>1, LenProperties DEF ControlOK, ChainOK
<1>3. /\ loop \in Loops
      /\ loop.n \in Nat \ {0} /\ ret \in RetCodes
  BY DEF ControlOK, Loops
<1>4. req[c].raw \in Seq(Response) /\ req[c].nodes \in Seq(Nodes)
  BY <1>1 DEF ReqOK, Request
<1>5. ASSUME loop.n <= Len(req[c].raw)
      PROVE  /\ Blame(c) \subseteq Nodes
             /\ loop.n \in 1..Len(req[c].raw)
             /\ Current(c) \in Response
             /\ req[c].raw # <<>>
  <2>1. loop.n \in 1..Len(req[c].raw)
    BY <1>3, <1>4, <1>5, LenProperties
  <2>2. req[c].raw # <<>> /\ Current(c) \in Response
    BY <1>4, <2>1, EmptySeq, ElementOfSeq DEF Current
  <2>3. req[c].nodes # <<>> => loop.n \in 1..Len(req[c].nodes)
    BY <1>1, <2>1, <2>2 DEF ReqOK, RawFits
  <2>4. Blame(c) \subseteq Nodes
    BY <1>4, <2>3, ElementOfSeq DEF Blame, NodeOf
  <2>. QED
    BY <2>1, <2>2, <2>4
<1>6. pc = "verify" => fresh = {} /\ Alone /\ req[c].attempt < MaxAttempts
  BY <1>1 DEF ControlOK, Alone
<1>7. \A st \in {"OK", "ERR"} : NextResponse(st) =>
        loop' \in Loops
  BY <1>3, LoopNext DEF NextResponse
<1>8. CASE StartVerify(c)
  <2>1. Executing(c) /\ ret = "OK" /\ req[c].raw # <<>> /\ ~req[c].error
    BY <1>8 DEF StartVerify, Body
  <2>2. fresh = {}
    BY <2>1, ExecutingFresh DEF Quiet
  <2>3. req[c].attempt < MaxAttempts
    BY <1>1, <2>1 DEF ReqOK
  <2>4. NoLoop \in Loops
    BY DEF NoLoop, Loops
  <2>. QED
    BY <1>1, <1>3, <1>8, <2>2, <2>3, <2>4, SameReq, StayStep DEF StartVerify, RestOK
<1>9. CASE VerifyPending(c)
  <2>1. pc = "verify"
    BY <1>9 DEF VerifyPending, Verifying
  <2>2. loop' \in Loops
    BY <1>3, <1>9, LoopNext DEF VerifyPending
  <2>. QED
    BY <1>1, <1>3, <1>6, <1>9, <2>1, <2>2, SameReq, StayStep DEF VerifyPending, RestOK
<1>10. CASE VerifyErrorResponse(c)
  <2>1. pc = "verify" /\ loop.n <= Len(req[c].raw)
    BY <1>10 DEF VerifyErrorResponse, Verifying
  <2>2. RestOK'
    BY <1>1, <1>5, <1>10, <2>1 DEF VerifyErrorResponse, RestOK
  <2>. QED
    BY <1>1, <1>3, <1>6, <1>7, <1>10, <2>1, <2>2, WithErrorOK, StayStep DEF VerifyErrorResponse, RetCodes
<1>11. CASE VerifySystemError(c)
  <2>1. pc = "verify" /\ loop.n <= Len(req[c].raw)
    BY <1>11 DEF VerifySystemError, Arrived, Verifying
  <2>2. RestOK'
    BY <1>1, <1>5, <1>11, <2>1 DEF VerifySystemError, RestOK
  <2>3. ReqOK(Parsed(req[c], "sys")) /\ Parsed(req[c], "sys").attempt = req[c].attempt
    BY <1>1, <1>6, <2>1, ParsedOK DEF Data, AllAnswers, RetCodes
  <2>. QED
    BY <1>1, <1>3, <1>6, <1>7, <1>11, <2>1, <2>2, <2>3, WithErrorOK, StayStep
       DEF VerifySystemError, RetCodes
<1>12. CASE VerifyAccept(c)
  <2>1. pc = "verify" /\ loop.n <= Len(req[c].raw)
    BY <1>12 DEF VerifyAccept, Arrived, Verifying
  <2>2. Current(c).data \in Data
    BY <1>5, <2>1 DEF Response
  <2>. DEFINE r == [Parsed(req[c], Current(c).data) EXCEPT !.vstate = "OK"]
  <2>3. ReqOK(r) /\ r.attempt = req[c].attempt
    BY <1>1, <1>6, <2>1, <2>2, ParsedOK DEF RetCodes
  <2>4. loop' \in Loops
    BY <1>3, <1>12 DEF VerifyAccept, Loops
  <2>5. SetReq(c, r)
    BY <1>12 DEF VerifyAccept
  <2>. HIDE DEF r
  <2>. QED
    BY <1>1, <1>3, <1>6, <1>12, <2>1, <2>3, <2>4, <2>5, StayStep DEF VerifyAccept, RestOK
<1>13. CASE VerifyReject(c)
  <2>1. pc = "verify" /\ loop.n <= Len(req[c].raw)
    BY <1>13 DEF VerifyReject, Arrived, Verifying
  <2>2. RestOK'
    BY <1>1, <1>5, <1>13, <2>1 DEF VerifyReject, RestOK
  <2>3. Current(c).data \in Data
    BY <1>5, <2>1 DEF Response
  <2>. DEFINE r == Rejected(req[c], loop.n, Current(c).data, Logging)
  <2>4. ReqOK(r) /\ r.attempt = req[c].attempt
    BY <1>1, <1>5, <1>6, <2>1, <2>3, RejectedOK, BuildAssumption
  <2>5. SetReq(c, r)
    BY <1>13 DEF VerifyReject
  <2>. HIDE DEF r
  <2>. QED
    BY <1>1, <1>3, <1>6, <1>7, <1>13, <2>1, <2>2, <2>4, <2>5, StayStep DEF VerifyReject
<1>14. CASE VerifyGarbage(c)
  <2>1. pc = "verify" /\ loop.n <= Len(req[c].raw)
    BY <1>14 DEF VerifyGarbage, Arrived, Verifying
  <2>2. RestOK'
    BY <1>1, <1>5, <1>14, <2>1 DEF VerifyGarbage, RestOK
  <2>0. PICK p \in Unparsed(req[c]) : SetReq(c, [WithError(p, "ERR") EXCEPT !.raw[loop.n].data = "none"])
    BY <1>14 DEF VerifyGarbage
  <2>. DEFINE q == WithError(p, "ERR")
              e == [Current(c) EXCEPT !.data = "none"]
              r == [q EXCEPT !.raw[loop.n] = e]
  <2>3. ReqOK(p) /\ p.attempt = req[c].attempt /\ p.raw = req[c].raw
    BY <1>1, <1>6, <2>1, UnparsedOK
  <2>4. ReqOK(q) /\ q.attempt = req[c].attempt /\ q.raw = req[c].raw
    BY <2>3, WithErrorOK DEF RetCodes
  <2>5. e \in Response
    BY <1>5, <2>1 DEF Response, Data
  <2>6. SetReq(c, r)
    BY <2>0, <2>4 DEF Current
  <2>. HIDE DEF q, e
  <2>7. ReqOK(r) /\ r.attempt = req[c].attempt
    BY <1>5, <2>1, <2>4, <2>5, PutResponseOK
  <2>. HIDE DEF r
  <2>. QED
    BY <1>1, <1>3, <1>6, <1>7, <1>14, <2>1, <2>2, <2>6, <2>7, StayStep DEF VerifyGarbage
<1>15. CASE VerifyNeedsSub(c)
  <2>1. pc = "verify" /\ loop.n <= Len(req[c].raw)
    BY <1>15 DEF VerifyNeedsSub, Arrived, Verifying
  <2>. DEFINE r == [Parsed(req[c], "needs") EXCEPT !.vstate = "WAITING"]
  <2>2. ReqOK(r) /\ r.raw = req[c].raw
    BY <1>1, <1>6, <2>1, ParsedOK DEF Data, AllAnswers, RetCodes
  <2>3. AddRequired("rpc", r)
    BY <1>15 DEF VerifyNeedsSub
  <2>. HIDE DEF r
  <2>4. DataOK' /\ ChainOK' /\ ControlOK'
    BY <1>5, <1>6, <1>15, <2>1, <2>2, <2>3, AddRequiredStep DEF VerifyNeedsSub
  <2>5. pc' \notin {"idle", "done"}
    BY <2>3 DEF AddRequired
  <2>6. ConnOK'
    BY <1>15, <2>5, ConnKept DEF VerifyNeedsSub
  <2>. QED
    BY <1>1, <1>15, <2>4, <2>6 DEF VerifyNeedsSub, RestOK
<1>16. CASE VerifySubFails(c)
  <2>1. CASE Arrived(c, {"needs"}) /\ SetReq(c, Rejected(req[c], loop.n, "needs", Logging))
    <3>1. pc = "verify" /\ loop.n <= Len(req[c].raw)
      BY <2>1 DEF Arrived, Verifying
    <3>. DEFINE r == Rejected(req[c], loop.n, "needs", Logging)
    <3>2. ReqOK(r) /\ r.attempt = req[c].attempt
      BY <1>1, <1>5, <1>6, <3>1, RejectedOK, BuildAssumption DEF Data, AllAnswers
    <3>. HIDE DEF r
    <3>3. RestOK'
      BY <1>1, <1>5, <1>16, <3>1 DEF VerifySubFails, RestOK
    <3>4. fresh' = {}
      BY <1>6, <1>16, <3>1 DEF VerifySubFails
    <3>. QED
      BY <1>1, <1>3, <1>6, <1>7, <1>16, <2>1, <3>1, <3>2, <3>3, <3>4, StayStep DEF VerifySubFails, r
  <2>2. CASE /\ Executing(c) /\ ~req[c].error /\ req[c].raw # <<>> /\ cur \in fresh
             /\ SetReq(c, [req[c] EXCEPT !.vstate = "ERR"])
    <3>1. loop.n \in 1..Len(req[c].raw)
      BY <1>1, <2>2 DEF ControlOK, StackOK
    <3>2. fresh' = {}
      <4>1. Alone /\ StackOK
        BY <2>2, ExecutingFresh DEF Quiet, ControlOK
      <4>2. \A k \in fresh : k = cur
        BY <1>2, <4>1 DEF Alone, StackOK
      <4>. QED
        BY <1>16, <4>2 DEF VerifySubFails
    <3>. DEFINE r == [req[c] EXCEPT !.vstate = "ERR"]
    <3>3. ReqOK(r) /\ r.attempt < MaxAttempts
      BY <1>1, <2>2 DEF ReqOK, Request, RawFits, RetCodes
    <3>. HIDE DEF r
    <3>4. RestOK'
      BY <1>1, <1>4, <1>5, <1>16, <3>1, LenProperties DEF VerifySubFails, RestOK
    <3>5. DataOK'
      BY <2>2, <3>3, SetReqData DEF r
    <3>6. ChainOK'
      BY <1>16 DEF VerifySubFails, ChainOK, PendingCounts
    <3>7. ConnOK'
      BY <1>16, ConnKept DEF VerifySubFails
    <3>8. StackOK'
      BY <3>2 DEF StackOK
    <3>9. req'[chain[cur]] = r
      BY <1>1, <2>2 DEF DataOK, SetReq, r
    <3>10. loop' \in Loops
      BY <1>7, <1>16 DEF VerifySubFails
    <3>11. ControlOK'
      BY <1>1, <1>2, <1>16, <3>2, <3>3, <3>8, <3>9, <3>10 DEF VerifySubFails, ControlOK
    <3>. QED
      BY <3>4, <3>5, <3>6, <3>7, <3>11
  <2>. QED
    BY <1>16, <2>1, <2>2 DEF VerifySubFails
<1>17. CASE VerifySubWrong(c)
  <2>1. pc = "verify" /\ loop.n <= Len(req[c].raw) /\ fresh = {}
    BY <1>6, <1>17 DEF VerifySubWrong, Arrived, Verifying
  <2>. DEFINE r == Rejected(req[c], loop.n, "needs", Logging)
  <2>2. ReqOK(r) /\ r.attempt < MaxAttempts
    BY <1>1, <1>5, <1>6, <2>1, RejectedOK, BuildAssumption DEF Data, AllAnswers
  <2>3. PICK j \in SubsOf(cur, {"rpc"}) :
          RemoveOne(j) /\ req' = [req EXCEPT ![c] = r, ![chain[j]] = Unused]
    BY <1>17 DEF VerifySubWrong
  <2>. HIDE DEF r
  <2>4. j \in (cur + 1)..Len(chain) /\ j \in 1..Len(chain)
    BY <1>2 DEF SubsOf
  <2>5. ChainOK' /\ Len(chain') = Len(chain) - 1 /\ \A i \in 1..(j - 1) : chain'[i] = chain[i]
    BY <2>3, <2>4, RemoveOneChain
  <2>6. chain[j] \in Ctx
    BY <2>4, ElementOfSeq DEF ChainOK
  <2>7. DataOK' /\ (req'[c] = r \/ req'[c] = Unused)
    BY <2>2, <2>3, <2>6, UnusedOK DEF DataOK, ReqOK
  <2>8. ConnOK'
    BY <1>17, <2>1, <2>3, ConnKept DEF RemoveOne, VerifySubWrong
  <2>9. StackOK'
    BY <1>17, <2>1 DEF StackOK, VerifySubWrong
  <2>10. chain' # <<>> /\ cur \in 1..Len(chain') /\ chain'[cur] = c
    BY <1>1, <1>2, <2>4, <2>5, EmptySeq DEF ChainOK
  <2>11. req'[chain'[cur]].attempt < MaxAttempts
    BY <2>2, <2>7, <2>10, UnusedOK
  <2>12. loop' \in Loops
    BY <1>7, <1>17 DEF VerifySubWrong
  <2>13. ControlOK'
    BY <1>17, <2>1, <2>9, <2>10, <2>11, <2>12 DEF ControlOK, VerifySubWrong
  <2>14. RestOK'
    BY <1>1, <1>5, <1>17, <2>1 DEF VerifySubWrong, RestOK
  <2>. QED
    BY <2>5, <2>7, <2>8, <2>13, <2>14
<1>23. CASE VerifyUnpaid(c)
  <2>1. pc = "verify" /\ loop.n <= Len(req[c].raw)
    BY <1>23 DEF VerifyUnpaid, Arrived, Verifying
  <2>2. RestOK'
    BY <1>1, <1>5, <1>23, <2>1 DEF VerifyUnpaid, RestOK
  <2>. DEFINE r == Rejected(req[c], loop.n, "pay", TRUE)
  <2>3. ReqOK(r) /\ r.attempt = req[c].attempt
    BY <1>1, <1>5, <1>6, <2>1, RejectedOK DEF Data, AllAnswers
  <2>4. SetReq(c, r)
    BY <1>23 DEF VerifyUnpaid
  <2>. HIDE DEF r
  <2>. QED
    BY <1>1, <1>3, <1>6, <1>7, <1>23, <2>1, <2>2, <2>3, <2>4, StayStep DEF VerifyUnpaid
<1>18. CASE VerifyPay(c)
  <2>1. pc = "verify"
    BY <1>18 DEF VerifyPay, Arrived, Verifying
  <2>. DEFINE p == CleanUp(req[c])
              r == [p EXCEPT !.paid = TRUE, !.raw = <<>>, !.resp = "none", !.responses = "null"]
  <2>2. ReqOK(p)
    BY <1>1, <1>6, <2>1, CleanUpOK
  <2>3. SetReq(c, r)
    BY <1>18 DEF VerifyPay
  <2>. HIDE DEF p
  <2>4. ReqOK(r)
    BY <2>2, EmptySeq DEF ReqOK, Request, RawFits, Data
  <2>. HIDE DEF r
  <2>. QED
    BY <1>1, <1>6, <1>18, <2>1, <2>3, <2>4, ReturnStep DEF VerifyPay, RestOK, RetCodes
<1>19. CASE EndAccepted(c)
  <2>1. pc = "verify"
    BY <1>19 DEF EndAccepted, Verified
  <2>2. RestOK'
    BY <1>1, <1>19 DEF EndAccepted, RestOK
  <2>. QED
    BY <1>1, <1>6, <1>19, <2>1, <2>2, SameReq, ReturnStep DEF EndAccepted, RetCodes
<1>20. CASE EndStillPending(c)
  <2>1. pc = "verify"
    BY <1>20 DEF EndStillPending, Verified
  <2>. QED
    BY <1>1, <1>6, <1>20, <2>1, DropRejectedOK, ReturnStep DEF EndStillPending, RestOK, RetCodes
<1>21. CASE EndRetry(c)
  <2>1. pc = "verify"
    BY <1>21 DEF EndRetry, Exhausted, Verified
  <2>. DEFINE p == NextAttempt(req[c])
              r == [p EXCEPT !.error = FALSE, !.vstate = "WAITING"]
  <2>2. /\ p \in Request /\ p.raw = <<>> /\ p.nodes = <<>> /\ p.attempt = req[c].attempt + 1
    BY <1>1, <1>6, <2>1, NextAttemptOK
  <2>3. p.attempt < MaxAttempts
    BY <1>21, <2>2 DEF EndRetry, AttemptsLeft
  <2>4. SetReq(c, r)
    BY <1>21 DEF EndRetry
  <2>. HIDE DEF p
  <2>5. ReqOK(r)
    BY <2>2, <2>3 DEF ReqOK, Request, RawFits, RetCodes
  <2>. HIDE DEF r
  <2>. QED
    BY <1>1, <1>2, <1>3, <1>6, <1>21, <2>1, <2>4, <2>5, StayStep, AgainStep DEF EndRetry, RestOK, RetCodes, Again
<1>22. CASE EndGiveUp(c)
  <2>1. pc = "verify"
    BY <1>22 DEF EndGiveUp, Exhausted, Verified
  <2>. DEFINE p == NextAttempt(req[c])
              v == GiveUpCode(req[c])
              r == WithError(p, v)
  <2>2. /\ p \in Request /\ p.raw = <<>> /\ p.nodes = <<>>
    BY <1>1, <1>6, <2>1, NextAttemptOK
  <2>3. v \in RetCodes /\ v # "OK"
    BY DEF GiveUpCode, RetCodes
  <2>4. SetReq(c, r) /\ Return(v)
    BY <1>22 DEF EndGiveUp
  <2>. HIDE DEF p, v
  <2>5. ReqOK(r)
    BY <2>2, <2>3 DEF ReqOK, Request, RawFits, WithError
  <2>. HIDE DEF r
  <2>. QED
    BY <1>1, <1>6, <1>22, <2>1, <2>3, <2>4, <2>5, ReturnStep DEF EndGiveUp, RestOK
<1>. QED
  BY <1>8, <1>9, <1>10, <1>11, <1>12, <1>13, <1>14, <1>15, <1>16, <1>17, <1>18, <1>19, <1>20,
     <1>21, <1>22, <1>23 DEF Verify

-----------------------------------------------------------------------------
(* The connections *)

(* No context has two connections. *)
Distinct(ts) ==
  \A i, j \in DOMAIN ts : ts[i].req = ts[j].req /\ ts[i].req # NoCtx => i = j

(* The entries of the transport table in use are finitely many. *)
LEMMA UsedFinite ==
  ASSUME NEW ts \in Seq(Slot)
  PROVE  IsFiniteSet(Used(ts)) /\ Cardinality(Used(ts)) \in Nat
<1>1. Used(ts) \in SUBSET (1..Len(ts)) /\ Len(ts) \in Nat
  BY LenProperties DEF Used
<1>2. IsFiniteSet(1..Len(ts))
  BY <1>1, FS_Interval
<1>. QED
  BY <1>1, <1>2, FS_Subset, FS_CardinalityType

(* Removing an entry of the transport table lowers the count by one. *)
LEMMA DropEntry ==
  ASSUME NEW ts \in Seq(Slot), Distinct(ts), NEW x \in DOMAIN ts, ts[x].req # NoCtx
  PROVE  LET us == [ts EXCEPT ![x] = [req |-> NoCtx, live |-> FALSE]]
         IN  /\ us \in Seq(Slot) /\ Distinct(us)
             /\ Cardinality(Used(us)) = Cardinality(Used(ts)) - 1
             /\ \A j \in DOMAIN us : us[j].req # ts[x].req
<1>. DEFINE e == [req |-> NoCtx, live |-> FALSE]
            us == [ts EXCEPT ![x] = e]
<1>1. DOMAIN ts = 1..Len(ts) /\ x \in 1..Len(ts)
  BY LenProperties
<1>2. e \in Slot /\ e.req = NoCtx
  BY DEF Slot
<1>. HIDE DEF e
<1>3. us \in Seq(Slot) /\ DOMAIN us = DOMAIN ts
  BY <1>1, <1>2, ExceptSeq
<1>4. us[x] = e /\ \A j \in DOMAIN ts : j # x => us[j] = ts[j]
  BY <1>1
<1>. HIDE DEF us
<1>5. Distinct(us) /\ \A j \in DOMAIN us : us[j].req # ts[x].req
  BY <1>2, <1>3, <1>4 DEF Distinct
<1>6. Used(us) = Used(ts) \ {x} /\ x \in Used(ts)
  BY <1>2, <1>3, <1>4 DEF Used
<1>7. Cardinality(Used(us)) = Cardinality(Used(ts)) - 1
  BY <1>6, UsedFinite, FS_RemoveElement
<1>. QED
  BY <1>3, <1>5, <1>7 DEF us, e

(* A new entry of the transport table raises the count by one. *)
LEMMA StoreEntry ==
  ASSUME NEW ts \in Seq(Slot), Distinct(ts), NEW c \in Ctx, \A j \in DOMAIN ts : ts[j].req # c
  PROVE  /\ Store(ts, c) \in Seq(Slot) /\ Distinct(Store(ts, c))
         /\ Cardinality(Used(Store(ts, c))) = Cardinality(Used(ts)) + 1
<1>. DEFINE free == {i \in DOMAIN ts : ts[i].req = NoCtx}
            e == [req |-> c, live |-> TRUE]
            us == Store(ts, c)
<1>1. DOMAIN ts = 1..Len(ts) /\ Len(ts) \in Nat
  BY LenProperties
<1>2. e \in Slot /\ e.req = c /\ c # NoCtx
  BY CtxAssumption DEF Slot
<1>3. \E x : /\ us \in Seq(Slot) /\ x \notin Used(ts) /\ DOMAIN us = DOMAIN ts \cup {x}
             /\ us[x] = e /\ \A j \in DOMAIN ts : j # x => us[j] = ts[j]
  <2>1. CASE free = {}
    <3>1. us = Append(ts, e)
      BY <2>1 DEF Store
    <3>. HIDE DEF us, e
    <3>. QED
      BY <1>1, <1>2, <3>1 DEF Used
  <2>2. CASE free # {}
    <3>. DEFINE x == FirstOf(free)
    <3>1. us = [ts EXCEPT ![x] = e]
      BY <2>2 DEF Store
    <3>2. free \in SUBSET Nat
      BY <1>1
    <3>3. x \in free
      BY <2>2, <3>2, FirstOfIn
    <3>. HIDE DEF us, e, x
    <3>4. x \in 1..Len(ts) /\ ts[x].req = NoCtx
      BY <1>1, <3>3
    <3>5. us \in Seq(Slot)
      BY <1>2, <3>1, <3>4, ExceptSeq
    <3>6. DOMAIN us = DOMAIN ts \cup {x} /\ us[x] = e /\ \A j \in DOMAIN ts : j # x => us[j] = ts[j]
      BY <1>1, <3>1, <3>4
    <3>7. x \notin Used(ts)
      BY <3>4 DEF Used
    <3>. QED
      BY <3>5, <3>6, <3>7
  <2>. QED
    BY <2>1, <2>2
<1>4. PICK x : /\ us \in Seq(Slot) /\ x \notin Used(ts) /\ DOMAIN us = DOMAIN ts \cup {x}
               /\ us[x] = e /\ \A j \in DOMAIN ts : j # x => us[j] = ts[j]
  BY <1>3
<1>. HIDE DEF us, e
<1>5. Distinct(us)
  BY <1>2, <1>4 DEF Distinct
<1>6. Used(us) = Used(ts) \cup {x}
  BY <1>2, <1>4 DEF Used
<1>7. Cardinality(Used(us)) = Cardinality(Used(ts)) + 1
  BY <1>4, <1>6, UsedFinite, FS_AddElement
<1>. QED
  BY <1>4, <1>5, <1>7 DEF us

(* in3_handle_rpc: the connections of the last attempt are cleaned up before  *)
(* those of this one are kept.                                                *)
LEMMA SendConn ==
  ASSUME ConnOK, NEW c \in Ctx, NEW cptr \in BOOLEAN, pc' \notin {"idle", "done"},
         transports' = IF cptr THEN Store(CleanedOf(c), c) ELSE CleanedOf(c),
         open' = (open - (IF EntriesOf(c) = {} THEN 0 ELSE 1)) + (IF cptr THEN 1 ELSE 0)
  PROVE  ConnOK'
<1>. DEFINE ts == CleanedOf(c)
            n == open - (IF EntriesOf(c) = {} THEN 0 ELSE 1)
<1>1. transports \in Seq(Slot) /\ Distinct(transports) /\ open = Cardinality(Used(transports))
  BY DEF ConnOK, ConnectionsAccounted, Distinct, Used
<1>2. /\ ts \in Seq(Slot) /\ Distinct(ts) /\ n = Cardinality(Used(ts))
      /\ \A j \in DOMAIN ts : ts[j].req # c
  <2>1. CASE EntriesOf(c) = {}
    <3>1. ts = transports
      BY <2>1 DEF CleanedOf
    <3>2. Cardinality(Used(transports)) \in Nat
      BY <1>1, UsedFinite
    <3>. QED
      BY <1>1, <2>1, <3>1, <3>2 DEF EntriesOf
  <2>2. CASE EntriesOf(c) # {}
    <3>. DEFINE x == FirstOf(EntriesOf(c))
    <3>1. EntriesOf(c) \in SUBSET Nat
      BY <1>1, LenProperties DEF EntriesOf
    <3>2. x \in EntriesOf(c)
      BY <2>2, <3>1, FirstOfIn
    <3>3. x \in DOMAIN transports /\ transports[x].req = c /\ c # NoCtx
      BY <3>2, CtxAssumption DEF EntriesOf
    <3>4. ts = [transports EXCEPT ![x] = [req |-> NoCtx, live |-> FALSE]]
      BY <2>2 DEF CleanedOf
    <3>. HIDE DEF x, ts
    <3>5. /\ ts \in Seq(Slot) /\ Distinct(ts)
          /\ Cardinality(Used(ts)) = Cardinality(Used(transports)) - 1
          /\ \A j \in DOMAIN ts : ts[j].req # c
      BY <1>1, <3>3, <3>4, DropEntry
    <3>. QED
      BY <1>1, <2>2, <3>5
  <2>. QED
    BY <2>1, <2>2
<1>3. transports' = IF cptr THEN Store(ts, c) ELSE ts
  OBVIOUS
<1>4. open' = n + (IF cptr THEN 1 ELSE 0)
  OBVIOUS
<1>. HIDE DEF ts, n
<1>5. Cardinality(Used(ts)) \in Nat
  BY <1>2, UsedFinite
<1>6. /\ transports' \in Seq(Slot) /\ Distinct(transports')
      /\ open' = Cardinality(Used(transports')) /\ open' \in Nat
  <2>1. CASE cptr
    BY <1>2, <1>3, <1>4, <1>5, <2>1, StoreEntry
  <2>2. CASE ~cptr
    BY <1>2, <1>3, <1>4, <1>5, <2>2
  <2>. QED
    BY <2>1, <2>2
<1>. QED
  BY <1>6 DEF ConnOK, ConnectionsAccounted, Distinct, Used

-----------------------------------------------------------------------------
(* in3_send_req *)

(* A step of in3_send_req on the waiting context, before the chain is         *)
(* executed again.                                                            *)
LEMMA DispatchStep ==
  ASSUME IInv, pc = "dispatch", NEW c \in Ctx, NEW r, ReqOK(r), SetReq(c, r), Enter,
         chain' = chain, pending' = pending, loop' = loop, ConnOK', RestOK'
  PROVE  IInv'
<1>1. DataOK'
  BY SetReqData DEF IInv
<1>2. ChainOK'
  BY DEF IInv, ChainOK, PendingCounts
<1>3. ControlOK'
  BY EnterControl DEF IInv
<1>. QED
  BY <1>1, <1>2, <1>3 DEF IInv

(* The node a response comes from is a node of the context. *)
LEMMA NodeOfIn ==
  ASSUME NEW c \in Ctx, ReqOK(req[c]), NEW i \in 1..UrlCount(c)
  PROVE  NodeOf(c, i) \subseteq Nodes
<1>1. req[c].nodes \in Seq(Nodes)
  BY DEF ReqOK, Request
<1>. QED
  BY <1>1, ElementOfSeq DEF NodeOf, UrlCount

(* What the transport delivers is a response. *)
LEMMA DeliveryIn ==
  ASSUME NEW c \in Ctx
  PROVE  Delivery(c) \subseteq Response
BY AnswersAssumption DEF Delivery, Response, Data

(* Handing the requests to the transport keeps the inductive invariant. *)
LEMMA SendRpcStep ==
  ASSUME IInv, pc = "dispatch", NEW c \in Ctx, NEW sent, NEW cptr \in BOOLEAN, NEW ok \in BOOLEAN,
         req[c].kind # "sign", \A i \in DOMAIN sent : i \in 1..UrlCount(c) /\ sent[i] \in Response,
         SendRpc(c, sent, cptr, ok)
  PROVE  IInv'
<1>. DEFINE n   == UrlCount(c)
            raw == [i \in 1..n |-> IF i \in DOMAIN sent THEN sent[i] ELSE Waiting]
            r   == [req[c] EXCEPT !.raw = raw]
            q   == IF ok THEN r ELSE WithError(r, "ERR")
<1>1. ReqOK(req[c]) /\ RestOK
  BY DEF IInv, DataOK
<1>2. req[c].nodes \in Seq(Nodes) /\ n \in Nat /\ n >= 1
  BY <1>1, EmptySeq, LenProperties DEF UrlCount, ReqOK, Request
<1>3. raw \in Seq(Response) /\ Len(raw) = n
  <2>1. Waiting \in Response
    BY DEF Waiting, Response, Data
  <2>2. raw \in [1..n -> Response]
    BY <2>1
  <2>3. raw \in Seq(Response)
    BY <1>2, <2>2, SeqDef
  <2>4. DOMAIN raw = 1..Len(raw) /\ DOMAIN raw = 1..n /\ Len(raw) \in Nat
    BY <2>2, <2>3, LenProperties
  <2>. QED
    BY <1>2, <2>3, <2>4
<1>4. ReqOK(r)
  <2>. HIDE DEF raw
  <2>. QED
    BY <1>1, <1>2, <1>3 DEF ReqOK, Request, RawFits, UrlCount
<1>5. SetReq(c, q)
  BY DEF SendRpc
<1>. HIDE DEF r
<1>6. ReqOK(q)
  BY <1>4, WithErrorOK DEF RetCodes
<1>. HIDE DEF q
<1>7. pc' \notin {"idle", "done"} /\ Enter /\ chain' = chain /\ pending' = pending /\ loop' = loop
  BY DEF SendRpc, Enter, Enters
<1>8. ConnOK'
  <2>1. /\ transports' = IF cptr THEN Store(CleanedOf(c), c) ELSE CleanedOf(c)
        /\ open' = (open - (IF EntriesOf(c) = {} THEN 0 ELSE 1)) + (IF cptr THEN 1 ELSE 0)
    BY DEF SendRpc
  <2>. QED
    BY <1>7, <2>1, SendConn DEF IInv
<1>9. RestOK'
  <2>1. UNION {NodeOf(c, i) : i \in {j \in DOMAIN sent : Doubtful(sent[j])}} \subseteq Nodes
    BY <1>1, NodeOfIn
  <2>. QED
    BY <1>1, <2>1 DEF SendRpc, RestOK
<1>. QED
  BY <1>5, <1>6, <1>7, <1>8, <1>9, DispatchStep

(* Every step of in3_send_req keeps the inductive invariant. *)
LEMMA TransportStep ==
  ASSUME IInv, NEW c \in Ctx, Transport(c)
  PROVE  IInv'
<1>. USE DEF IInv
<1>1. pc = "dispatch" /\ ReqOK(req[c]) /\ RestOK
  BY DEF Transport, SendSign, SendNoPayload, SendNonBlocking, SendBlocking, SendNothing,
         Receive, ReceiveNothing, ReadyToSend, AwaitsResponse, DataOK
<1>2. ASSUME Enter, UNCHANGED <<transports, open>>
      PROVE  ConnOK'
  BY <1>2, ConnKept DEF Enter, Enters
<1>3. CASE SendSign(c)
  <2>1. \A d \in {"sig", "none"} : ReqOK([req[c] EXCEPT !.raw = <<[state |-> "OK", data |-> d]>>])
    <3>1. req[c].nodes = <<>>
      BY <1>1, <1>3 DEF SendSign, ReqOK
    <3>2. \A d \in {"sig", "none"} : [state |-> "OK", data |-> d] \in Response
      BY DEF Response, Data
    <3>. QED
      BY <1>1, <3>1, <3>2, OneResponseOK
  <2>2. \E r : ReqOK(r) /\ SetReq(c, r)
    BY <1>3, <2>1, WithErrorOK DEF SendSign, RetCodes
  <2>. QED
    BY <1>1, <1>2, <1>3, <2>2, DispatchStep DEF SendSign, RestOK
<1>4. CASE SendNoPayload(c)
  <2>1. \E r : ReqOK(r) /\ SetReq(c, r)
    BY <1>1, <1>4, WithErrorOK DEF SendNoPayload, RetCodes
  <2>. QED
    BY <1>1, <1>2, <1>4, <2>1, DispatchStep DEF SendNoPayload, RestOK
<1>5. CASE SendNonBlocking(c)
  <2>1. PICK i \in 1..UrlCount(c), d \in Delivery(c) :
          SendRpc(c, [j \in {i} |-> d], UrlCount(c) > 1, TRUE)
    BY <1>5 DEF SendNonBlocking
  <2>. DEFINE sent == [j \in {i} |-> d]
  <2>2. \A k \in DOMAIN sent : k \in 1..UrlCount(c) /\ sent[k] \in Response
    BY DeliveryIn
  <2>3. (UrlCount(c) > 1) \in BOOLEAN /\ TRUE \in BOOLEAN
    OBVIOUS
  <2>4. req[c].kind # "sign"
    BY <1>5 DEF SendNonBlocking, ReadyToSend
  <2>. HIDE DEF sent
  <2>. QED
    BY <1>1, <2>1, <2>2, <2>3, <2>4, SendRpcStep DEF sent
<1>6. CASE SendBlocking(c)
  <2>1. PICK sent \in [1..UrlCount(c) -> Delivery(c)] : SendRpc(c, sent, FALSE, TRUE)
    BY <1>6 DEF SendBlocking
  <2>2. \A k \in DOMAIN sent : k \in 1..UrlCount(c) /\ sent[k] \in Response
    BY DeliveryIn
  <2>3. req[c].kind # "sign"
    BY <1>6 DEF SendBlocking, ReadyToSend
  <2>. QED
    BY <1>1, <2>1, <2>2, <2>3, SendRpcStep
<1>7. CASE SendNothing(c)
  <2>1. PICK ok \in BOOLEAN : SendRpc(c, <<>>, FALSE, ok)
    BY <1>7 DEF SendNothing
  <2>2. \A k \in DOMAIN <<>> : k \in 1..UrlCount(c) /\ <<>>[k] \in Response
    OBVIOUS
  <2>3. req[c].kind # "sign"
    BY <1>7 DEF SendNothing, ReadyToSend
  <2>. QED
    BY <1>1, <2>1, <2>2, <2>3, SendRpcStep
<1>8. \A i \in Pending(c) : i \in 1..Len(req[c].raw) /\ NodeOf(c, i) \subseteq Nodes
  <2>. SUFFICES ASSUME NEW i \in Pending(c)
                PROVE  i \in 1..Len(req[c].raw) /\ NodeOf(c, i) \subseteq Nodes
    OBVIOUS
  <2>1. req[c].raw \in Seq(Response)
    BY <1>1 DEF ReqOK, Request
  <2>2. i \in 1..Len(req[c].raw)
    BY <2>1, LenProperties DEF Pending
  <2>3. req[c].raw # <<>>
    BY <2>2, EmptySeq
  <2>4. i \in 1..UrlCount(c)
    BY <1>1, <2>2, <2>3 DEF ReqOK, RawFits, UrlCount
  <2>. QED
    BY <1>1, <2>2, <2>4, NodeOfIn
<1>9. CASE Receive(c)
  <2>1. PICK i \in Pending(c), d \in Delivery(c) :
          /\ SetReq(c, [req[c] EXCEPT !.raw[i] = d])
          /\ suspect' = IF Doubtful(d) THEN suspect \cup NodeOf(c, i) ELSE suspect
    BY <1>9 DEF Receive
  <2>2. ReqOK([req[c] EXCEPT !.raw[i] = d])
    BY <1>1, <1>8, DeliveryIn, PutResponseOK
  <2>3. RestOK'
    BY <1>1, <1>8, <1>9, <2>1 DEF Receive, RestOK
  <2>. QED
    BY <1>1, <1>2, <1>9, <2>1, <2>2, <2>3, DispatchStep DEF Receive
<1>10. CASE ReceiveNothing(c)
  <2>. DEFINE i == FirstOf(Pending(c))
              e == [state |-> "ERR", data |-> "msg"]
  <2>1. CASE req[c].nodes # <<>> /\ Pending(c) # {}
    <3>1. i \in Pending(c)
      <4>1. Pending(c) \in SUBSET Nat
        BY <1>8
      <4>. QED
        BY <2>1, <4>1, FirstOfIn
    <3>2. e \in Response
      BY DEF Response, Data
    <3>3. /\ SetReq(c, [req[c] EXCEPT !.raw[i] = e])
          /\ suspect' = suspect \cup NodeOf(c, i)
      BY <1>10, <2>1 DEF ReceiveNothing
    <3>. HIDE DEF i, e
    <3>4. ReqOK([req[c] EXCEPT !.raw[i] = e])
      BY <1>1, <1>8, <3>1, <3>2, PutResponseOK
    <3>5. RestOK'
      BY <1>1, <1>8, <1>10, <3>1, <3>3 DEF ReceiveNothing, RestOK
    <3>. QED
      BY <1>1, <1>2, <1>10, <3>3, <3>4, <3>5, DispatchStep DEF ReceiveNothing
  <2>2. CASE ~(req[c].nodes # <<>> /\ Pending(c) # {})
    <3>1. SetReq(c, WithError(req[c], "ERR")) /\ suspect' = suspect
      BY <1>10, <2>2 DEF ReceiveNothing
    <3>2. ReqOK(WithError(req[c], "ERR"))
      BY <1>1, WithErrorOK DEF RetCodes
    <3>. QED
      BY <1>1, <1>2, <1>10, <3>1, <3>2, DispatchStep DEF ReceiveNothing, RestOK
  <2>. QED
    BY <2>1, <2>2
<1>. QED
  BY <1>3, <1>4, <1>5, <1>6, <1>7, <1>9, <1>10 DEF Transport

-----------------------------------------------------------------------------
(* The invariant is inductive *)

(* The inductive invariant holds initially. *)
LEMMA InitIInv == Init => IInv
<1>. SUFFICES ASSUME Init PROVE IInv
  OBVIOUS
<1>. USE DEF Init
<1>1. DataOK
  BY UnusedOK DEF DataOK, ReqOK
<1>2. ChainOK
  BY EmptySeq DEF ChainOK, PendingCounts
<1>3. ControlOK
  BY EmptySeq DEF ControlOK, StackOK, NoLoop, Loops, RetCodes
<1>4. ConnOK
  <2>1. {i \in DOMAIN transports : transports[i].req # NoCtx} = {}
    OBVIOUS
  <2>. QED
    BY <2>1, EmptySeq, FS_EmptySet DEF ConnOK, ConnectionsAccounted
<1>5. RestOK
  BY DEF RestOK
<1>. QED
  BY <1>1, <1>2, <1>3, <1>4, <1>5 DEF IInv

(* transport_cleanup(ctx, &transports, true) leaves no connection. *)
LEMMA FinishStep ==
  ASSUME IInv, Finish
  PROVE  IInv'
<1>. USE DEF IInv
<1>1. transports \in Seq(Slot) /\ open = Cardinality(Used(transports)) /\ open \in Nat
  BY DEF ConnOK, ConnectionsAccounted, Used
<1>2. transports' = <<>> /\ open' = 0 /\ pc' = "done" /\ pc = "dispatch"
  BY <1>1 DEF Finish, Used
<1>3. ConnOK'
  <2>1. {i \in DOMAIN transports' : transports'[i].req # NoCtx} = {}
    BY <1>2
  <2>. QED
    BY <1>2, <2>1, EmptySeq, FS_EmptySet DEF ConnOK, ConnectionsAccounted
<1>4. DataOK' /\ ChainOK' /\ RestOK'
  BY DEF Finish, DataOK, ChainOK, PendingCounts, RestOK
<1>5. fresh = {} /\ StackOK'
  BY <1>2 DEF Finish, ControlOK, StackOK
<1>6. ControlOK'
  BY <1>2, <1>5 DEF Finish, ControlOK
<1>. QED
  BY <1>3, <1>4, <1>6

(* A new request of the application keeps the inductive invariant. *)
LEMMA NewRequestStep ==
  ASSUME IInv, NewRequest
  PROVE  IInv'
<1>. USE DEF IInv
<1>1. PICK c \in Ctx, kind \in RootKinds, valid \in BOOLEAN :
        /\ chain' = <<c>>
        /\ SetReq(c, IF valid THEN NewReq(kind, NoCtx) ELSE WithError(NewReq(kind, NoCtx), "ERR"))
  BY DEF NewRequest
<1>2. kind \in Kinds /\ NoCtx \in Ctx \cup {NoCtx}
  BY RootAssumption DEF Kinds
<1>3. ReqOK(NewReq(kind, NoCtx)) /\ ReqOK(WithError(NewReq(kind, NoCtx), "ERR"))
  BY <1>2, NewReqOK, WithErrorOK DEF RetCodes
<1>4. DataOK'
  BY <1>1, <1>3, SetReqData
<1>5. pc = "idle" /\ pc' = "exec" /\ cur' = 1 /\ ret' = "OK" /\ fresh' = {} /\ pending' = pending + 1
  BY DEF NewRequest
<1>6. chain = <<>> /\ pending = 0
  BY <1>5, EmptySeq DEF ControlOK, ChainOK, PendingCounts
<1>7. ChainOK' /\ Len(chain') = 1 /\ chain' # <<>>
  BY <1>1, <1>5, <1>6 DEF ChainOK, PendingCounts
<1>8. StackOK'
  BY <1>5 DEF StackOK
<1>9. ControlOK'
  BY <1>5, <1>7, <1>8 DEF NewRequest, ControlOK, RetCodes
<1>10. ConnOK'
  BY <1>5, ConnKept DEF NewRequest
<1>11. RestOK'
  BY DEF NewRequest, RestOK
<1>. QED
  BY <1>4, <1>7, <1>9, <1>10, <1>11

(* req_free of a finished request keeps the inductive invariant. *)
LEMMA FreeRequestStep ==
  ASSUME IInv, FreeRequest
  PROVE  IInv'
<1>. USE DEF IInv
<1>1. DataOK'
  BY UnusedOK DEF FreeRequest, DataOK, ReqOK
<1>2. chain' = <<>> /\ pending' = 0
  BY LenProperties DEF FreeRequest, Uncount, ChainOK, PendingCounts
<1>3. ChainOK'
  BY <1>2, EmptySeq DEF ChainOK, PendingCounts
<1>4. fresh' = {} /\ StackOK'
  BY DEF FreeRequest, ControlOK, StackOK
<1>5. ControlOK'
  BY <1>2, <1>4 DEF FreeRequest, ControlOK
<1>6. ConnOK'
  BY DEF FreeRequest, ConnOK, ConnectionsAccounted
<1>7. RestOK'
  BY DEF FreeRequest, RestOK
<1>. QED
  BY <1>1, <1>3, <1>5, <1>6, <1>7

(* The invariant only depends on the variables. *)
LEMMA StutterStep ==
  ASSUME IInv, UNCHANGED vars
  PROVE  IInv'
BY DEF vars, IInv, DataOK, ChainOK, PendingCounts, ControlOK, StackOK, ConnOK,
       ConnectionsAccounted, RestOK

(* Every step keeps the inductive invariant. *)
LEMMA NextIInv == IInv /\ [Next]_vars => IInv'
<1>. SUFFICES ASSUME IInv, [Next]_vars PROVE IInv'
  OBVIOUS
<1>1. CASE SendReq
  BY <1>1, ExecuteStep, VerifyStep, TransportStep, FinishStep DEF SendReq
<1>. QED
  BY <1>1, NewRequestStep, FreeRequestStep, StutterStep DEF Next

(* The inductive invariant always holds. *)
LEMMA IInvHolds == Spec => []IInv
BY InitIInv, NextIInv, PTL DEF Spec

-----------------------------------------------------------------------------
(* The theorems *)

(* Every variable keeps its type: no counter underflows, no context is        *)
(* executed outside of the chain and no response outside of the array.        *)
THEOREM TypeCorrect == Spec => []TypeOK
<1>1. IInv => TypeOK
  BY DEF IInv, DataOK, ChainOK, PendingCounts, ControlOK, Loops, ConnOK, RestOK, TypeOK
<1>. QED
  BY <1>1, IInvHolds, PTL

(* in3_t.pending is the number of contexts alive, whatever the plugins add    *)
(* and remove: req_new, req_remove_required and req_free agree.               *)
THEOREM PendingIsExact == Spec => []PendingCounts
<1>1. IInv => PendingCounts
  BY DEF IInv, ChainOK
<1>. QED
  BY <1>1, IInvHolds, PTL

(* No context makes more than max_attempts attempts, however its nodes answer *)
(* and how often its error is set and cleared by find_valid_result.           *)
THEOREM AttemptsAreBounded == Spec => []AttemptsBounded
<1>1. IInv => AttemptsBounded
  <2>. SUFFICES ASSUME IInv, NEW i \in DOMAIN chain
                PROVE  /\ req[chain[i]].attempt <= MaxAttempts
                       /\ ~req[chain[i]].error => req[chain[i]].attempt < MaxAttempts
    BY DEF AttemptsBounded
  <2>1. chain[i] \in Ctx
    BY LenProperties, ElementOfSeq DEF IInv, ChainOK
  <2>2. ReqOK(req[chain[i]])
    BY <2>1 DEF IInv, DataOK
  <2>. QED
    BY <2>2, AttemptAssumption DEF ReqOK, Request
<1>. QED
  BY <1>1, IInvHolds, PTL

(* Every connection the transport has handed out is kept in exactly one entry *)
(* of ctx_req_transports_t and is cleaned up when in3_send_req returns.       *)
THEOREM ConnectionsAreAccounted == Spec => []ConnectionsAccounted
<1>1. IInv => ConnectionsAccounted
  BY DEF IInv, ConnOK
<1>. QED
  BY <1>1, IInvHolds, PTL
=============================================================================
