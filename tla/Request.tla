------------------------------- MODULE Request -------------------------------
(***************************************************************************)
(* The life of one request of the IN3 client: core/client/execute.c and    *)
(* core/client/request.c, driven by the loop in3_send_req.                 *)
(*                                                                         *)
(* A request (in3_req_t) owns a linked list of sub requests it waits for   *)
(* (in3_req_t.required).  The list is the sequence "chain": chain[1] is    *)
(* the request of the user, chain[i+1] is chain[i]->required.  The members *)
(* of Ctx are addresses, so a freed context may come back as a new one.    *)
(*                                                                         *)
(* in3_req_execute calls itself for the required context first; the model  *)
(* walks the chain from its deepest context to the root, one context per   *)
(* step: cur is the context being executed and ret what its required       *)
(* context returned.  find_valid_result is a loop over the responses, one  *)
(* response per step.  Nothing runs between two steps of this walk except  *)
(* the environment's choices (nodes picked, answers received, verdicts of  *)
(* the plugins), because one request is driven by one thread.              *)
(*                                                                         *)
(* Node selection, transport, verification and signing are plugins: what   *)
(* they may return is nondeterministic here.                               *)
(***************************************************************************)
EXTENDS Naturals, Sequences, FiniteSets

CONSTANTS Ctx,          \* addresses a context can have
          NoCtx,        \* the NULL pointer
          Nodes,        \* nodes the node list may offer
          RequestCount, \* number of nodes asked per attempt (at most)
          MaxAttempts,  \* in3_t.max_attempts
          RootKinds,    \* kinds of requests the user sends
          Answers,      \* what a node may answer
          Blocking,     \* the transport returns only when every answer is in
          Logging       \* built with LOGGING: a failed verification leaves a message

(* "rpc": a call sent to nodes; "intern": handled by an RPC_HANDLE plugin;   *)
(* "direct": in3.rpc is set, sent to one url and not verified; "nodeList":   *)
(* the call in3_nodeList; "sign": a context of type RT_SIGN.                 *)
Kinds == {"rpc", "intern", "direct", "nodeList", "sign"}

(* The payload of a response with state IN3_OK, as the code tells them apart. *)
(* "good" verifies; "needs" verifies once a sub request has been answered;    *)
(* "user"/"sys": an error message of the user or of the server; "bad"/"soft": *)
(* verification fails and the verifier does not/does set dont_blacklist;      *)
(* "pay": the node wants to be paid first; "garbage": can not be parsed.      *)
AllAnswers == {"good", "needs", "user", "sys", "bad", "soft", "pay", "garbage"}

ASSUME CtxAssumption      == NoCtx \notin Ctx
ASSUME CountAssumption    == RequestCount \in Nat \ {0}
ASSUME AttemptAssumption  == MaxAttempts \in Nat \ {0}
ASSUME RootAssumption     == RootKinds \subseteq {"rpc", "intern", "direct"}
ASSUME AnswersAssumption  == Answers \subseteq AllAnswers
ASSUME BuildAssumption    == Blocking \in BOOLEAN /\ Logging \in BOOLEAN

VARIABLES
  chain,      \* the contexts of the request, linked by in3_req_t.required
  req,        \* the fields of each context
  pending,    \* in3_t.pending
  pc,         \* where in3_send_req is
  cur,        \* position in chain of the context in3_req_execute works on
  ret,        \* return value of in3_req_execute for the context at cur + 1
  fresh,      \* positions of contexts whose plugin waits for in3_req_execute of a
              \* sub request it has just added
  loop,       \* the locals of find_valid_result
  transports, \* ctx_req_transports_t: the connections in3_send_req keeps
  open,       \* connections the transport plugin has handed out and not cleaned up
  wantUpdate, \* the nodelist is flagged for an update
  blamed,     \* nodes a PLGN_ACT_NL_BLACKLIST was executed for
  suspect     \* nodes that sent something the client may reject
              \* (blamed and suspect are the history of one request)

vars == <<chain, req, pending, pc, cur, ret, fresh, loop, transports, open,
          wantUpdate, blamed, suspect>>

-----------------------------------------------------------------------------
(* Fields of a context.  error is TRUE when in3_req_t.error is set.  vstate  *)
(* is verification_state ("ERR": any error code but IN3_EIGNORE).  raw is    *)
(* raw_response, <<>> for NULL.  resp is response_context: the answer it was *)
(* parsed from, or "none".  responses is the array of tokens of the parsed   *)
(* response: unset, allocated, or freed and still referenced.                *)

RetCodes == {"OK", "WAITING", "EIGNORE", "ERR"}
Data     == AllAnswers \cup {"none", "msg", "sig", "intern"}
Response == [state : {"WAITING", "OK", "ERR"}, data : Data]
Request  == [kind : Kinds, owner : Ctx \cup {NoCtx}, error : BOOLEAN,
             vstate : RetCodes, raw : Seq(Response), nodes : Seq(Nodes),
             resp : Data, responses : {"null", "live", "freed"},
             attempt : 0..MaxAttempts, paid : BOOLEAN]

(* A context as req_new leaves it. *)
NewReq(kind, owner) ==
  [kind |-> kind, owner |-> owner, error |-> FALSE, vstate |-> "WAITING",
   raw |-> <<>>, nodes |-> <<>>, resp |-> "none", responses |-> "null",
   attempt |-> 0, paid |-> FALSE]

(* An address without a context. *)
Unused == NewReq("rpc", NoCtx)

NoLoop == [n |-> 1, state |-> "ERR", pending |-> FALSE]

Waiting == [state |-> "WAITING", data |-> "none"]

(* An entry of ctx_req_transports_t; live: the responses its handles write   *)
(* to are still allocated.                                                   *)
Slot == [req : Ctx \cup {NoCtx}, live : BOOLEAN]

TypeOK ==
  /\ chain \in Seq(Ctx)
  /\ req \in [Ctx -> Request]
  /\ pending \in Nat
  /\ pc \in {"idle", "exec", "verify", "dispatch", "done"}
  /\ cur \in Nat
  /\ ret \in RetCodes
  /\ fresh \in SUBSET Nat
  /\ loop \in [n : Nat, state : {"OK", "ERR"}, pending : BOOLEAN]
  /\ transports \in Seq(Slot)
  /\ open \in Nat
  /\ wantUpdate \in BOOLEAN
  /\ blamed \in SUBSET Nodes
  /\ suspect \in SUBSET Nodes

Init ==
  /\ chain = <<>>
  /\ req \in [Ctx -> {Unused}]
  /\ pending = 0
  /\ pc = "idle"
  /\ cur = 0
  /\ ret = "OK"
  /\ fresh = {}
  /\ loop = NoLoop
  /\ transports = <<>>
  /\ open = 0
  /\ wantUpdate = TRUE
  /\ blamed = {}
  /\ suspect = {}

-----------------------------------------------------------------------------
(* The chain *)

InChain(c) == \E i \in DOMAIN chain : chain[i] = c

(* req_add_required: the new context goes right behind its parent at k. *)
InsertAfter(k, c) == SubSeq(chain, 1, k) \o <<c>> \o SubSeq(chain, k + 1, Len(chain))

(* Contexts behind position k that the context at k asked for. *)
SubsOf(k, kinds) ==
  {j \in (k + 1)..Len(chain) : req[chain[j]].kind \in kinds /\ req[chain[j]].owner = chain[k]}

(* The accepted response is an error of the node, it has no result. *)
NoResult(c) == req[c].resp \in {"user", "pay"}

FirstOf(S) == CHOOSE i \in S : \A j \in S : i <= j

(* req_find_required(ctx, "in3_nodeList", NULL) *)
NodeListSubs(k) == {j \in (k + 1)..Len(chain) : req[chain[j]].kind = "nodeList"}

(* in3_req_state of one context, its required contexts left aside. *)
LocalState(c) ==
  IF req[c].raw = <<>> THEN "TO_SEND"
  ELSE IF req[c].kind # "sign" /\ req[c].resp = "none" THEN "FOR_RESPONSE"
  ELSE IF req[c].kind = "sign" /\ req[c].raw[1].state = "WAITING" THEN "FOR_RESPONSE"
  ELSE "SUCCESS"

Unfinished == {i \in DOMAIN chain : LocalState(chain[i]) # "SUCCESS"}

(* in3_req_state: an error anywhere wins, else the deepest unfinished context. *)
ReqState ==
  IF \E i \in DOMAIN chain : req[chain[i]].error THEN "ERROR"
  ELSE IF Unfinished = {} THEN "SUCCESS"
  ELSE LocalState(chain[CHOOSE i \in Unfinished : \A j \in Unfinished : j <= i])

(* in3_req_last_waiting *)
LastWaiting ==
  LET w == {i \in DOMAIN chain : req[chain[i]].resp = "none"}
  IN  IF w = {} THEN chain[1] ELSE chain[CHOOSE i \in w : \A j \in w : j <= i]

-----------------------------------------------------------------------------
(* Returning from and entering in3_req_execute *)

(* in3_req_execute stops descending at the first context that has an error. *)
EntryOf(ch, r) ==
  LET bad == {i \in DOMAIN ch : r[ch[i]].error}
  IN  IF bad = {} THEN Len(ch) ELSE FirstOf(bad)

Enters(ch, r) ==
  /\ pc' = "exec"
  /\ cur' = EntryOf(ch, r)
  /\ ret' = "OK"
  /\ fresh' = {}

Enter == Enters(chain, req')

(* The context at cur returns v to the one before it; in3_req_exec_state      *)
(* drops what the root returns.                                               *)
Return(v) ==
  /\ cur' = cur - 1
  /\ IF cur = 1
     THEN pc' = "dispatch" /\ ret' = "OK" /\ fresh' = {} /\ loop' = NoLoop
     ELSE pc' = "exec" /\ ret' = v /\ fresh' = fresh \ {cur} /\ UNCHANGED loop

SetReq(c, r) == req' = [req EXCEPT ![c] = r]

(* req_set_error *)
WithError(r, code) == [r EXCEPT !.error = TRUE, !.vstate = code]

(* The connections of context c now point to freed responses. *)
Stale(ts, cs) ==
  [i \in DOMAIN ts |-> [ts[i] EXCEPT !.live = @ /\ ts[i].req \notin cs]]

(* The responses of a context are freed: response_free. *)
Freed(r) == [r EXCEPT !.raw = <<>>, !.nodes = <<>>, !.resp = "none", !.responses = "null"]

(* A plugin adds a sub request for the context at cur (req_new and            *)
(* req_add_required), which is executed at once.                              *)
AddRequired(kind, r) ==
  \E d \in Ctx :
    /\ ~InChain(d)
    /\ req' = [req EXCEPT ![chain[cur]] = r, ![d] = NewReq(kind, chain[cur])]
    /\ chain' = InsertAfter(cur, d)
    /\ pending' = pending + 1
    /\ fresh' = fresh \cup {cur}
    /\ pc' = "exec" /\ cur' = cur + 1 /\ ret' = "OK"

(* Mutant: the context is unlinked and not freed. *)
UncountKeeps(n) == pending' = pending

(* req_free_intern counts down in3_t.pending. *)
Uncount(n) == pending' = pending - n

(* req_remove_required with rec: the context at j and all behind it are freed. *)
RemoveFrom(j) ==
  /\ chain' = SubSeq(chain, 1, j - 1)
  /\ req' = [c \in Ctx |-> IF \E i \in j..Len(chain) : c = chain[i] THEN Unused ELSE req[c]]
  /\ Uncount(Len(chain) - (j - 1))
  /\ transports' = Stale(transports, {chain[i] : i \in j..Len(chain)})

(* req_remove_required without rec: only the context at j is freed. *)
RemoveOne(j) ==
  /\ chain' = SubSeq(chain, 1, j - 1) \o SubSeq(chain, j + 1, Len(chain))
  /\ Uncount(1)
  /\ transports' = Stale(transports, {chain[j]})

-----------------------------------------------------------------------------
(* The user: req_new and req_free *)

NewRequest ==
  /\ pc = "idle"
  /\ \E c \in Ctx, kind \in RootKinds, valid \in BOOLEAN :
       LET r == IF valid THEN NewReq(kind, NoCtx) ELSE WithError(NewReq(kind, NoCtx), "ERR")
       IN  /\ chain' = <<c>>
           /\ SetReq(c, r)
  /\ pending' = pending + 1
  /\ pc' = "exec" /\ cur' = 1 /\ ret' = "OK" /\ fresh' = {}
  /\ UNCHANGED <<loop, transports, open, wantUpdate, blamed, suspect>>

FreeRequest ==
  /\ pc = "done"
  /\ pc' = "idle"
  /\ chain' = <<>>
  /\ req' = [c \in Ctx |-> Unused]
  /\ Uncount(Len(chain))
  /\ blamed' = {} /\ suspect' = {}
  /\ UNCHANGED <<cur, ret, fresh, loop, transports, open, wantUpdate>>

-----------------------------------------------------------------------------
(* in3_req_execute up to the type switch *)

Executing(c) == pc = "exec" /\ c = chain[cur]

(* if (req->error) return ... *)
ExecHasError(c) ==
  /\ Executing(c)
  /\ req[c].error
  /\ Return(IF req[c].vstate \in {"OK", "WAITING"} THEN "ERR" ELSE req[c].vstate)
  /\ UNCHANGED <<chain, req, pending, transports, open, wantUpdate, blamed, suspect>>

(* A required context is not ready: req_set_error ignores IN3_WAITING. *)
ExecRequiredWaiting(c) ==
  /\ Executing(c)
  /\ ~req[c].error
  /\ ret = "WAITING"
  /\ Return("WAITING")
  /\ UNCHANGED <<chain, req, pending, transports, open, wantUpdate, blamed, suspect>>

(* A required context failed: so does this one.  A sub request the plugin of  *)
(* this context has added a moment ago returns to the plugin instead.         *)
ExecRequiredFailed(c) ==
  /\ Executing(c)
  /\ ~req[c].error
  /\ ret = "ERR" /\ cur \notin fresh
  /\ SetReq(c, WithError(req[c], "ERR"))
  /\ Return("ERR")
  /\ UNCHANGED <<chain, pending, transports, open, wantUpdate, blamed, suspect>>

(* PLGN_ACT_NL_FAILABLE, handle_failable: forget the update and drop the sub  *)
(* request; the execution of this context goes on.                            *)
ExecFailable(c) ==
  /\ Executing(c)
  /\ ~req[c].error
  /\ ret = "EIGNORE" /\ cur \notin fresh
  /\ wantUpdate' = FALSE
  /\ RemoveFrom(cur + 1)
  /\ ret' = "OK"
  /\ UNCHANGED <<pc, cur, fresh, loop, open, blamed, suspect>>

(* The required contexts are fine (or there is none). *)
Body(c) == Executing(c) /\ ~req[c].error /\ ret = "OK"

(* Mutant: a context is verified again whenever the chain is executed. *)
NeverAccepted(r) == FALSE

(* if (req->response_context && req->verification_state == IN3_OK) return *)
Accepted(r) == r.resp # "none" /\ r.vstate = "OK"

ExecDone(c) ==
  /\ Body(c)
  /\ Accepted(req[c])
  /\ Return("OK")
  /\ UNCHANGED <<chain, req, pending, transports, open, wantUpdate, blamed, suspect>>

(* case RT_SIGN *)
ExecSign(c) ==
  /\ Body(c)
  /\ req[c].kind = "sign"
  /\ Return(IF req[c].raw = <<>> THEN "WAITING" ELSE req[c].raw[1].state)
  /\ UNCHANGED <<chain, req, pending, transports, open, wantUpdate, blamed, suspect>>

-----------------------------------------------------------------------------
(* case RT_RPC: handle_internally *)

Unanswered(c) == Body(c) /\ req[c].kind # "sign" /\ req[c].raw = <<>>

InternalAnswer == <<[state |-> "OK", data |-> "intern"]>>

(* The plugin answers the call itself, or fails. *)
HandleInternally(c) ==
  /\ Unanswered(c)
  /\ req[c].kind = "intern" /\ SubsOf(cur, Kinds) = {}
  /\ \/ /\ SetReq(c, [req[c] EXCEPT !.raw = InternalAnswer])
        /\ UNCHANGED <<pc, cur, ret, fresh, loop>>
     \/ /\ SetReq(c, WithError(req[c], "ERR"))
        /\ Return("ERR")
  /\ UNCHANGED <<chain, pending, transports, open, wantUpdate, blamed, suspect>>

(* The plugin needs a call to a node (req_send_sub_request) or a signature    *)
(* (req_require_signature) first.                                             *)
HandleNeedsSub(c) ==
  /\ Unanswered(c)
  /\ req[c].kind = "intern" /\ SubsOf(cur, Kinds) = {}
  /\ \E kind \in {"rpc", "sign"} : AddRequired(kind, req[c])
  /\ UNCHANGED <<loop, transports, open, wantUpdate, blamed, suspect>>

(* The first execution of the sub request failed. *)
HandleSubRefused(c) ==
  /\ Executing(c) /\ ~req[c].error
  /\ req[c].kind = "intern"
  /\ ret = "ERR" /\ cur \in fresh
  /\ SetReq(c, WithError(req[c], "ERR"))
  /\ Return("ERR")
  /\ UNCHANGED <<chain, pending, transports, open, wantUpdate, blamed, suspect>>

(* The call is answered: an error of the node is an error of this request. *)
HandleSubResult(c) ==
  /\ Unanswered(c)
  /\ req[c].kind = "intern"
  /\ \E j \in SubsOf(cur, {"rpc"}) :
       IF NoResult(chain[j])
       THEN SetReq(c, WithError(req[c], "ERR")) /\ Return("ERR")
       ELSE SetReq(c, [req[c] EXCEPT !.raw = InternalAnswer]) /\ UNCHANGED <<pc, cur, ret, fresh, loop>>
  /\ UNCHANGED <<chain, pending, transports, open, wantUpdate, blamed, suspect>>

(* req_send_sign_request finds its finished sub request: the signature is     *)
(* taken over and only that context removed.                                  *)
HandleSignature(c) ==
  /\ Unanswered(c)
  /\ req[c].kind = "intern"
  /\ \E j \in SubsOf(cur, {"sign"}) :
       IF req[chain[j]].raw[1].data = "sig"
       THEN /\ req' = [req EXCEPT ![c].raw = InternalAnswer, ![chain[j]] = Unused]
            /\ RemoveOne(j)
            /\ UNCHANGED <<pc, cur, ret, fresh, loop>>
       ELSE /\ SetReq(c, WithError(req[c], "ERR"))
            /\ Return("ERR")
            /\ UNCHANGED <<chain, pending, transports>>
  /\ UNCHANGED <<open, wantUpdate, blamed, suspect>>

-----------------------------------------------------------------------------
(* case RT_RPC: select_nodes, with the plugin of the full node selection *)

(* What PLGN_ACT_NL_PICK may return: distinct nodes, at most RequestCount. *)
PickableNodes ==
  UNION {{ns \in [1..n -> Nodes] : \A i, j \in 1..n : ns[i] = ns[j] => i = j} :
           n \in 1..RequestCount}

Selecting(c) ==
  Unanswered(c) /\ req[c].kind \in {"rpc", "nodeList"} /\ req[c].nodes = <<>>

(* in3_node_list_get: an update is wanted or under way, and this is not it. *)
UpdateDue(c) ==
  /\ req[c].kind # "nodeList"
  /\ wantUpdate \/ \E j \in NodeListSubs(cur) : ~NoResult(chain[j])

(* update_nodelist sends in3_nodeList first. *)
PickNeedsUpdate(c) ==
  /\ Selecting(c) /\ UpdateDue(c) /\ NodeListSubs(cur) = {}
  /\ AddRequired("nodeList", req[c])
  /\ UNCHANGED <<loop, transports, open, wantUpdate, blamed, suspect>>

(* update_nodelist takes the finished in3_nodeList: the list is replaced and  *)
(* the context removed with all behind it, or the list is not well-formed.    *)
PickUpdated(c) ==
  /\ Selecting(c) /\ NodeListSubs(cur) # {}
  /\ ~NoResult(chain[FirstOf(NodeListSubs(cur))])
  /\ wantUpdate' = FALSE
  /\ \/ RemoveFrom(FirstOf(NodeListSubs(cur))) /\ UNCHANGED <<pc, cur, ret, fresh, loop>>
     \/ /\ SetReq(c, WithError(req[c], "ERR"))
        /\ Return("ERR")
        /\ UNCHANGED <<chain, pending, transports>>
  /\ UNCHANGED <<open, blamed, suspect>>

(* The node has answered in3_nodeList with an error: the update is off; the   *)
(* context stays in the chain.                                                *)
PickUpdateRejected(c) ==
  /\ Selecting(c) /\ wantUpdate /\ NodeListSubs(cur) # {}
  /\ NoResult(chain[FirstOf(NodeListSubs(cur))])
  /\ wantUpdate' = FALSE
  /\ UNCHANGED <<chain, req, pending, pc, cur, ret, fresh, loop, transports, open, blamed, suspect>>

(* The nodes are picked; the request now waits to be sent. *)
PickNodes(c) ==
  /\ Selecting(c) /\ ~UpdateDue(c)
  /\ \E ns \in PickableNodes : SetReq(c, [req[c] EXCEPT !.nodes = ns])
  /\ Return("WAITING")
  /\ UNCHANGED <<chain, pending, transports, open, wantUpdate, blamed, suspect>>

(* No node matches, or the sub request for the update failed at once.         *)
(* in3_nodeList is allowed to fail.                                           *)
PickFails(c) ==
  /\ Executing(c) /\ ~req[c].error
  /\ req[c].kind \in {"rpc", "nodeList"} /\ req[c].raw = <<>> /\ req[c].nodes = <<>>
  /\ \/ ret = "OK" /\ ~UpdateDue(c)
     \/ ret \in {"ERR", "EIGNORE"} /\ cur \in fresh
  /\ LET code == IF req[c].kind = "nodeList" THEN "EIGNORE" ELSE "ERR"
     IN  SetReq(c, WithError(req[c], code)) /\ Return(code)
  /\ UNCHANGED <<chain, pending, transports, open, wantUpdate, blamed, suspect>>

(* if (!req->raw_response) return IN3_WAITING: nodes picked or none needed. *)
ExecWaitToSend(c) ==
  /\ Unanswered(c)
  /\ req[c].kind = "direct" \/ req[c].nodes # <<>>
  /\ Return("WAITING")
  /\ UNCHANGED <<chain, req, pending, transports, open, wantUpdate, blamed, suspect>>

-----------------------------------------------------------------------------
(* case RT_RPC: find_valid_result *)

StartVerify(c) ==
  /\ Body(c)
  /\ req[c].kind # "sign" /\ req[c].raw # <<>>
  /\ ~Accepted(req[c])
  /\ pc' = "verify"
  /\ loop' = NoLoop
  /\ UNCHANGED <<chain, req, pending, cur, ret, fresh, transports, open, wantUpdate, blamed, suspect>>

Verifying(c) ==
  /\ pc = "verify" /\ c = chain[cur]
  /\ loop.state = "ERR" /\ loop.n <= Len(req[c].raw)

Current(c) == req[c].raw[loop.n]

(* The node of the i-th response; an internal response has none. *)
NodeOf(c, i) == IF req[c].nodes = <<>> THEN {} ELSE {req[c].nodes[i]}

(* The node whose response is looked at. *)
Blame(c) == NodeOf(c, loop.n)

NextResponse(st) == loop' = [loop EXCEPT !.n = @ + 1, !.state = st]

(* clean_up_ctx: the previous parse is dropped.  The pointer to the old       *)
(* array of responses stays until the next parse succeeds.                    *)
CleanUp(r) ==
  [r EXCEPT !.error = FALSE,
            !.vstate = IF @ = "OK" THEN "OK" ELSE "WAITING",
            !.responses = IF @ = "null" THEN "null" ELSE "freed"]

(* ctx_parse_response *)
Parsed(r, data) == [CleanUp(r) EXCEPT !.resp = data, !.responses = "live"]

(* Mutant: a missing response is treated like an empty one. *)
NeverPending(r) == FALSE

IsPending(r) == r.state = "WAITING"

(* The response is still pending: skip it. *)
VerifyPending(c) ==
  /\ Verifying(c)
  /\ IsPending(Current(c))
  /\ loop' = [loop EXCEPT !.n = @ + 1, !.pending = TRUE]
  /\ UNCHANGED <<chain, req, pending, pc, cur, ret, fresh, transports, open, wantUpdate, blamed, suspect>>

(* handle_error_response: an error or an empty response *)
VerifyErrorResponse(c) ==
  /\ Verifying(c)
  /\ ~IsPending(Current(c))
  /\ Current(c).state # "OK" \/ Current(c).data = "none"
  /\ SetReq(c, WithError(req[c], "ERR"))
  /\ blamed' = blamed \cup Blame(c)
  /\ NextResponse("ERR")
  /\ UNCHANGED <<chain, pending, pc, cur, ret, fresh, transports, open, wantUpdate, suspect>>

Arrived(c, answers) ==
  /\ Verifying(c)
  /\ Current(c).state = "OK" /\ Current(c).data \in answers

(* What a response that ctx_parse_response refuses leaves: nothing if it is   *)
(* no JSON; the parsed values if they are not one object or array for each    *)
(* request; with the array of one if it is one object for several requests.   *)
Unparsed(r) ==
  {[CleanUp(r) EXCEPT !.resp = "none"], [CleanUp(r) EXCEPT !.resp = "garbage"], Parsed(r, "garbage")}

(* ctx_parse_response fails: the response is cleared. *)
VerifyGarbage(c) ==
  /\ Arrived(c, {"garbage"})
  /\ \E p \in Unparsed(req[c]) : SetReq(c, [WithError(p, "ERR") EXCEPT !.raw[loop.n].data = "none"])
  /\ blamed' = blamed \cup Blame(c)
  /\ NextResponse("ERR")
  /\ UNCHANGED <<chain, pending, pc, cur, ret, fresh, transports, open, wantUpdate, suspect>>

(* An internal response, or one of a given rpc-url: parsed, never verified. *)
Unverified(c) == req[c].nodes = <<>>

(* The verdict is IN3_OK: a valid result, an error the user is to see, or a   *)
(* demand for payment after it was paid.                                      *)
VerifyAccept(c) ==
  /\ \/ Arrived(c, Data \ {"garbage", "none"}) /\ Unverified(c)
     \/ Arrived(c, {"good", "user"}) /\ ~Unverified(c)
     \/ Arrived(c, {"pay"}) /\ ~Unverified(c) /\ req[c].paid
     \/ /\ Arrived(c, {"needs"}) /\ ~Unverified(c)
        /\ \E j \in SubsOf(cur, {"rpc"}) : ~NoResult(chain[j])
  /\ SetReq(c, [Parsed(req[c], Current(c).data) EXCEPT !.vstate = "OK"])
  /\ loop' = [loop EXCEPT !.state = "OK"]
  /\ UNCHANGED <<chain, pending, pc, cur, ret, fresh, transports, open, wantUpdate, blamed, suspect>>

(* The node reports an error of the server. *)
VerifySystemError(c) ==
  /\ Arrived(c, {"sys"}) /\ ~Unverified(c)
  /\ SetReq(c, WithError(Parsed(req[c], "sys"), "ERR"))
  /\ blamed' = blamed \cup Blame(c)
  /\ NextResponse("ERR")
  /\ UNCHANGED <<chain, pending, pc, cur, ret, fresh, transports, open, wantUpdate, suspect>>

(* PLGN_ACT_RPC_VERIFY fails.  When there is a message it replaces the        *)
(* response.  msg: an error was set on the context.                           *)
Rejected(r, n, data, msg) ==
  LET p == [Parsed(r, data) EXCEPT !.vstate = "ERR", !.error = msg]
  IN  IF msg THEN [p EXCEPT !.raw[n] = [state |-> "ERR", data |-> "msg"]] ELSE p

VerifyReject(c) ==
  /\ Arrived(c, {"bad", "soft"}) /\ ~Unverified(c)
  /\ SetReq(c, Rejected(req[c], loop.n, Current(c).data, Logging))
  /\ blamed' = IF Current(c).data = "soft" THEN blamed ELSE blamed \cup Blame(c)
  /\ NextResponse("ERR")
  /\ UNCHANGED <<chain, pending, pc, cur, ret, fresh, transports, open, wantUpdate, suspect>>

(* The verifier needs another call first and returns IN3_WAITING. *)
VerifyNeedsSub(c) ==
  /\ Arrived(c, {"needs"}) /\ ~Unverified(c)
  /\ SubsOf(cur, {"rpc"}) = {}
  /\ AddRequired("rpc", [Parsed(req[c], "needs") EXCEPT !.vstate = "WAITING"])
  /\ UNCHANGED <<loop, transports, open, wantUpdate, blamed, suspect>>

(* That call was answered with an error, or it failed at once (then the walk  *)
(* is back at this context): verification fails.                              *)
VerifySubFails(c) ==
  /\ \/ /\ Arrived(c, {"needs"}) /\ ~Unverified(c)
        /\ \E j \in SubsOf(cur, {"rpc"}) : NoResult(chain[j])
        /\ SetReq(c, Rejected(req[c], loop.n, "needs", Logging))
     \/ /\ Executing(c) /\ ~req[c].error /\ req[c].raw # <<>>
        /\ ret \in {"ERR", "EIGNORE"} /\ cur \in fresh
        /\ SetReq(c, [req[c] EXCEPT !.vstate = "ERR"])
  /\ blamed' = blamed \cup Blame(c)
  /\ pc' = "verify" /\ fresh' = fresh \ {cur}
  /\ NextResponse("ERR")
  /\ UNCHANGED <<chain, pending, cur, ret, transports, open, wantUpdate, suspect>>

(* That call has a result that does not fit (the code has another hash): it   *)
(* is removed, so that a later attempt asks again, and verification fails.    *)
VerifySubWrong(c) ==
  /\ Arrived(c, {"needs"}) /\ ~Unverified(c)
  /\ \E j \in SubsOf(cur, {"rpc"}) :
       /\ ~NoResult(chain[j])
       /\ RemoveOne(j)
       /\ req' = [req EXCEPT ![c] = Rejected(req[c], loop.n, "needs", Logging),
                             ![chain[j]] = Unused]
  /\ blamed' = blamed \cup Blame(c)
  /\ NextResponse("ERR")
  /\ UNCHANGED <<pc, cur, ret, fresh, open, wantUpdate, suspect>>

(* PLGN_ACT_PAY_FOLLOWUP fails, there is no offer the client takes, say: the  *)
(* response is replaced by the error and the node is blamed.                  *)
VerifyUnpaid(c) ==
  /\ Arrived(c, {"pay"}) /\ ~Unverified(c) /\ ~req[c].paid
  /\ SetReq(c, Rejected(req[c], loop.n, "pay", TRUE))
  /\ blamed' = blamed \cup Blame(c)
  /\ NextResponse("ERR")
  /\ UNCHANGED <<chain, pending, pc, cur, ret, fresh, transports, open, wantUpdate, suspect>>

(* Or the client pays and sends the request again to the same nodes           *)
(* (in3_retry_same_node).                                                     *)
VerifyPay(c) ==
  /\ Arrived(c, {"pay"}) /\ ~Unverified(c) /\ ~req[c].paid
  /\ SetReq(c, [CleanUp(req[c]) EXCEPT !.paid = TRUE, !.raw = <<>>,
                                       !.resp = "none", !.responses = "null"])
  /\ transports' = Stale(transports, {c})
  /\ Return("WAITING")
  /\ UNCHANGED <<chain, pending, open, wantUpdate, blamed, suspect>>

-----------------------------------------------------------------------------
(* The end of find_valid_result and the rest of in3_req_execute *)

Verified(c) ==
  /\ pc = "verify" /\ c = chain[cur]
  /\ loop.state = "OK" \/ loop.n > Len(req[c].raw)

(* Accepted: PLGN_ACT_NL_PICK_FOLLOWUP may notice that the nodelist is old. *)
EndAccepted(c) ==
  /\ Verified(c)
  /\ loop.state = "OK"
  /\ wantUpdate' \in IF Unverified(c) THEN {wantUpdate} ELSE {wantUpdate, TRUE}
  /\ Return("OK")
  /\ UNCHANGED <<chain, req, pending, transports, open, blamed, suspect>>

(* Mutants: wait although all responses are in; retry although some are not. *)
AlwaysPending == TRUE
NothingPending == FALSE

StillPending == loop.pending

(* Mutant: the rejected response stays in place while waiting. *)
KeepRejected(r) == [r EXCEPT !.error = FALSE, !.vstate = "WAITING"]

DropRejected(r) ==
  [r EXCEPT !.error = FALSE, !.vstate = "WAITING", !.resp = "none", !.responses = "null"]

(* No valid response yet, but some are pending: forget the error and wait. *)
EndStillPending(c) ==
  /\ Verified(c)
  /\ loop.state = "ERR" /\ StillPending
  /\ SetReq(c, DropRejected(req[c]))
  /\ Return("WAITING")
  /\ UNCHANGED <<chain, pending, transports, open, wantUpdate, blamed, suspect>>

Exhausted(c) == Verified(c) /\ loop.state = "ERR" /\ ~StillPending

(* Mutant: one attempt too many. *)
OneMoreAttempt(r) == r.attempt < MaxAttempts

AttemptsLeft(r) == r.attempt + 1 < MaxAttempts

(* Mutant: the attempt is not counted. *)
UncountedAttempt(r) == Freed(r)

NextAttempt(r) == [Freed(r) EXCEPT !.attempt = @ + 1]

(* The context at k is executed again and its required context first: it      *)
(* still has the result of before, unless it has failed.                      *)
Again(k) == IF k < Len(chain) /\ req[chain[k + 1]].error THEN k + 1 ELSE k

(* All responses failed: the attempt is counted and the context starts over. *)
EndRetry(c) ==
  /\ Exhausted(c)
  /\ AttemptsLeft(req[c])
  /\ SetReq(c, [NextAttempt(req[c]) EXCEPT !.error = FALSE, !.vstate = "WAITING"])
  /\ transports' = Stale(transports, {c})
  /\ pc' = "exec" /\ cur' = Again(cur) /\ ret' = "OK"
  /\ UNCHANGED <<chain, pending, fresh, loop, open, wantUpdate, blamed, suspect>>

(* in3_nodeList is allowed to fail, if there is an error message to report. *)
GiveUpCode(r) == IF r.kind = "nodeList" /\ r.error THEN "EIGNORE" ELSE "ERR"

(* Or it was the last attempt. *)
EndGiveUp(c) ==
  /\ Exhausted(c)
  /\ ~AttemptsLeft(req[c])
  /\ SetReq(c, WithError(NextAttempt(req[c]), GiveUpCode(req[c])))
  /\ Return(GiveUpCode(req[c]))
  /\ transports' = Stale(transports, {c})
  /\ UNCHANGED <<chain, pending, open, wantUpdate, blamed, suspect>>

-----------------------------------------------------------------------------
(* in3_send_req: what to do in the state in3_req_exec_state returns *)

(* transport_cleanup(ctx, transports, true) *)
Finish ==
  /\ pc = "dispatch"
  /\ ReqState \in {"ERROR", "SUCCESS"}
  /\ open' = open - Cardinality({i \in DOMAIN transports : transports[i].req # NoCtx})
  /\ transports' = <<>>
  /\ pc' = "done"
  /\ UNCHANGED <<chain, req, pending, cur, ret, fresh, loop, wantUpdate, blamed, suspect>>

(* in3_handle_sign for the waiting context: the signer signs, fails without   *)
(* a signature, or there is none.                                             *)
SendSign(c) ==
  /\ pc = "dispatch" /\ ReqState = "TO_SEND"
  /\ c = LastWaiting /\ req[c].kind = "sign"
  /\ \/ \E d \in {"sig", "none"} :
          SetReq(c, [req[c] EXCEPT !.raw = <<[state |-> "OK", data |-> d]>>])
     \/ SetReq(c, WithError([req[c] EXCEPT !.raw = <<[state |-> "OK", data |-> "none"]>>], "ERR"))
  /\ Enter
  /\ UNCHANGED <<chain, pending, loop, transports, open, wantUpdate, blamed, suspect>>

(* in3_create_request can not create the payload: a plugin refuses.  No       *)
(* plugin that adds to the payload or signs it returns IN3_WAITING.           *)
SendNoPayload(c) ==
  /\ pc = "dispatch" /\ ReqState = "TO_SEND"
  /\ c = LastWaiting /\ req[c].kind \in {"rpc", "nodeList"}
  /\ SetReq(c, WithError(req[c], "ERR"))
  /\ Enter
  /\ UNCHANGED <<chain, pending, loop, transports, open, wantUpdate, blamed, suspect>>

(* Only the answer to a call may need another call to be verified (the code   *)
(* of a contract, the target of a bitcoin block): not the one it needs.       *)
CanNeed(c) ==
  req[c].kind = "rpc" /\ (req[c].owner = NoCtx \/ req[req[c].owner].kind = "intern")

(* What the transport stores for a request that has been answered. *)
Delivery(c) ==
  {[state |-> "ERR", data |-> "msg"], [state |-> "OK", data |-> "none"]}
    \cup [state : {"OK"}, data : {a \in Answers : a = "needs" => CanNeed(c)}]

(* Not certainly an answer the client can accept. *)
Doubtful(d) == d.state = "ERR" \/ d.data \notin {"good", "user"}

(* The entries of ctx_req_transports_t for c. *)
EntriesOf(c) == {i \in DOMAIN transports : transports[i].req = c}

(* Mutant: the connections of the last attempt are forgotten. *)
NotCleaned(c) == transports

(* transport_cleanup(ctx, transports, false): the first entry of c. *)
CleanedOf(c) ==
  IF EntriesOf(c) = {} THEN transports
  ELSE [transports EXCEPT ![FirstOf(EntriesOf(c))] = [req |-> NoCtx, live |-> FALSE]]

(* The connection goes to the first free entry or behind the last. *)
Store(ts, c) ==
  LET free == {i \in DOMAIN ts : ts[i].req = NoCtx}
      slot == [req |-> c, live |-> TRUE]
  IN  IF free = {} THEN Append(ts, slot) ELSE [ts EXCEPT ![FirstOf(free)] = slot]

(* Number of responses in3_create_request allocates. *)
UrlCount(c) == IF req[c].nodes = <<>> THEN 1 ELSE Len(req[c].nodes)

(* in3_handle_rpc: create the request, clean up the connections of an earlier *)
(* attempt, hand it to the transport, keep its connections.  sent maps the    *)
(* urls answered when PLGN_ACT_TRANSPORT_SEND returns; cptr: connections are  *)
(* left open; ok: some transport plugin took the request.                     *)
SendRpc(c, sent, cptr, ok) ==
  LET n   == UrlCount(c)
      raw == [i \in 1..n |-> IF i \in DOMAIN sent THEN sent[i] ELSE Waiting]
      r   == [req[c] EXCEPT !.raw = raw]
      ts  == CleanedOf(c)
      gone == IF EntriesOf(c) = {} THEN 0 ELSE 1
  IN  /\ SetReq(c, IF ok THEN r ELSE WithError(r, "ERR"))
      /\ transports' = IF cptr THEN Store(ts, c) ELSE ts
      /\ open' = (open - gone) + (IF cptr THEN 1 ELSE 0)
      /\ suspect' = suspect \cup UNION {NodeOf(c, i) : i \in {j \in DOMAIN sent : Doubtful(sent[j])}}
      /\ Enter
      /\ UNCHANGED <<chain, pending, loop, wantUpdate, blamed>>

ReadyToSend(c) ==
  /\ pc = "dispatch" /\ ReqState = "TO_SEND"
  /\ c = LastWaiting /\ req[c].kind # "sign"

(* curl: one response is received, the connections of the others stay open. *)
SendNonBlocking(c) ==
  /\ ReadyToSend(c) /\ ~Blocking
  /\ \E i \in 1..UrlCount(c), d \in Delivery(c) :
       SendRpc(c, [j \in {i} |-> d], UrlCount(c) > 1, TRUE)

(* A blocking transport fills every response. *)
SendBlocking(c) ==
  /\ ReadyToSend(c) /\ Blocking
  /\ \E sent \in [1..UrlCount(c) -> Delivery(c)] : SendRpc(c, sent, FALSE, TRUE)

(* The transport gives up without storing a response, or there is none. *)
SendNothing(c) ==
  /\ ReadyToSend(c)
  /\ \E ok \in BOOLEAN : SendRpc(c, <<>>, FALSE, ok)

AwaitsResponse(c) == pc = "dispatch" /\ ReqState = "FOR_RESPONSE" /\ c = LastWaiting

Pending(c) == {i \in DOMAIN req[c].raw : req[c].raw[i].state = "WAITING"}

(* in3_handle_rpc_next: PLGN_ACT_TRANSPORT_RECEIVE stores one more response. *)
Receive(c) ==
  /\ AwaitsResponse(c) /\ EntriesOf(c) # {}
  /\ \E i \in Pending(c), d \in Delivery(c) :
       /\ SetReq(c, [req[c] EXCEPT !.raw[i] = d])
       /\ suspect' = IF Doubtful(d) THEN suspect \cup NodeOf(c, i) ELSE suspect
  /\ Enter
  /\ UNCHANGED <<chain, pending, loop, transports, open, wantUpdate, blamed>>

(* No connection: the first pending response of a node becomes an error.      *)
(* Without one the context fails.                                             *)
ReceiveNothing(c) ==
  /\ AwaitsResponse(c) /\ EntriesOf(c) = {}
  /\ IF req[c].nodes # <<>> /\ Pending(c) # {}
     THEN LET i == FirstOf(Pending(c))
          IN  /\ SetReq(c, [req[c] EXCEPT !.raw[i] = [state |-> "ERR", data |-> "msg"]])
              /\ suspect' = suspect \cup NodeOf(c, i)
     ELSE /\ SetReq(c, WithError(req[c], "ERR"))
          /\ UNCHANGED suspect
  /\ Enter
  /\ UNCHANGED <<chain, pending, loop, transports, open, wantUpdate, blamed>>

-----------------------------------------------------------------------------

Execute(c) ==
  \/ ExecHasError(c) \/ ExecRequiredWaiting(c) \/ ExecRequiredFailed(c)
  \/ ExecFailable(c) \/ ExecDone(c) \/ ExecSign(c)
  \/ HandleInternally(c) \/ HandleNeedsSub(c) \/ HandleSubRefused(c)
  \/ HandleSubResult(c) \/ HandleSignature(c)
  \/ PickNeedsUpdate(c) \/ PickUpdated(c) \/ PickUpdateRejected(c)
  \/ PickNodes(c) \/ PickFails(c) \/ ExecWaitToSend(c)

Verify(c) ==
  \/ StartVerify(c) \/ VerifyPending(c) \/ VerifyErrorResponse(c)
  \/ VerifyGarbage(c) \/ VerifyAccept(c) \/ VerifySystemError(c)
  \/ VerifyReject(c) \/ VerifyNeedsSub(c) \/ VerifySubFails(c)
  \/ VerifySubWrong(c) \/ VerifyUnpaid(c) \/ VerifyPay(c)
  \/ EndAccepted(c) \/ EndStillPending(c) \/ EndRetry(c) \/ EndGiveUp(c)

Transport(c) ==
  \/ SendSign(c) \/ SendNoPayload(c)
  \/ SendNonBlocking(c) \/ SendBlocking(c) \/ SendNothing(c)
  \/ Receive(c) \/ ReceiveNothing(c)

(* The steps of in3_send_req. *)
SendReq ==
  \/ Finish
  \/ \E c \in Ctx : Execute(c) \/ Verify(c) \/ Transport(c)

Next == NewRequest \/ FreeRequest \/ SendReq

Spec == Init /\ [][Next]_vars

(* A started in3_send_req runs on: the loop never sleeps without a transport  *)
(* call, and the transport ends every request by its timeout.                 *)
FairSpec == Spec /\ WF_vars(SendReq)

-----------------------------------------------------------------------------
(* Safety *)

(* in3_t.pending counts exactly the contexts that are alive, on every path    *)
(* that adds or frees sub requests: in3_configure and the shrinking of the    *)
(* verified hashes rely on it.                                                *)
PendingCounts == pending = Len(chain)

(* What verify_response may end with IN3_OK for. *)
Acceptable == {"good", "needs", "user", "pay"}

(* REQ_SUCCESS means "The ctx has a verified result" (request.h): every       *)
(* context of a successful request that was sent to nodes holds a response    *)
(* of one of its nodes that verification accepted, and a response that        *)
(* depends on another call is backed by a result of that call.                *)
SuccessIsVerified ==
  pc \in {"dispatch", "done"} /\ ReqState = "SUCCESS" =>
    \A i \in DOMAIN chain : LET r == req[chain[i]] IN
      r.kind \in {"rpc", "nodeList"} =>
        /\ r.vstate = "OK"
        /\ r.resp \in Acceptable
        /\ \E n \in DOMAIN r.nodes : r.raw[n] = [state |-> "OK", data |-> r.resp]
        /\ r.resp = "needs" => \E j \in SubsOf(i, {"rpc"}) : ~NoResult(chain[j])

(* in3_send_req acts on the context the state is about: it sends a request    *)
(* that has not been sent yet, and it waits only for a context with a         *)
(* response still to come, so the transport is never asked to wait for        *)
(* nothing, which would spin for ever.                                        *)
WaitsForSomeone ==
  pc = "dispatch" =>
    /\ ReqState = "TO_SEND" => LocalState(LastWaiting) = "TO_SEND"
    /\ ReqState = "FOR_RESPONSE" => Pending(LastWaiting) # {}

(* The connections in3_handle_rpc_next receives from write to the responses   *)
(* of the current attempt: after a retry, a payment or the reuse of an        *)
(* address the ones of the freed responses are never used.                    *)
ReceivesIntoLiveResponses ==
  pc = "dispatch" /\ ReqState = "FOR_RESPONSE" =>
    \A i \in EntriesOf(LastWaiting) : transports[i].live

(* Every connection the transport handed out is registered exactly once,      *)
(* under one context, and all are cleaned up when in3_send_req returns.       *)
ConnectionsAccounted ==
  /\ open = Cardinality({i \in DOMAIN transports : transports[i].req # NoCtx})
  /\ \A i, j \in DOMAIN transports :
       transports[i].req = transports[j].req /\ transports[i].req # NoCtx => i = j
  /\ pc \in {"done", "idle"} => open = 0

(* Only a node whose response has arrived and was not plainly acceptable is   *)
(* blacklisted; one that is still pending, or lost the race, never is.        *)
BlamedDeserveIt == blamed \subseteq suspect

(* assert_in3_req: attempt <= max_attempts; and a context that still runs has *)
(* attempts left.                                                             *)
AttemptsBounded ==
  \A i \in DOMAIN chain : LET r == req[chain[i]] IN
    r.attempt <= MaxAttempts /\ (~r.error => r.attempt < MaxAttempts)

(* An attempt is given up only when every response of it has arrived and none *)
(* of them could be accepted.                                                 *)
RetryOnlyWhenExhausted ==
  [][\A c \in Ctx : req'[c].attempt > req[c].attempt =>
       \A i \in DOMAIN req[c].raw :
         \/ req[c].raw[i].state = "ERR"
         \/ req[c].raw[i].state = "OK" /\ req[c].raw[i].data \notin {"good", "user"}]_vars

(* Once accepted, the response of a request stays what it was until the       *)
(* request is freed, whatever its sub requests and late nodes still do.       *)
AcceptedStays ==
  [][\A i \in DOMAIN chain :
       req[chain[i]].vstate = "OK" /\ i <= Len(chain') /\ chain'[i] = chain[i] =>
         req'[chain[i]].vstate = "OK" /\ req'[chain[i]].resp = req[chain[i]].resp]_vars

-----------------------------------------------------------------------------
(* Liveness *)

(* in3_send_req returns: the retries are bounded and every wait ends.         *)
Termination == pc # "idle" ~> pc = "done"

-----------------------------------------------------------------------------
(* What the source says of itself and the code does not do *)

(* in3_req_t.responses are "references to the tokens" of the parsed response: *)
(* when find_valid_result and response_free release them they are allocated.  *)
ResponsesAllocated == \A c \in Ctx : Verified(c) => req[c].responses # "freed"
=============================================================================
