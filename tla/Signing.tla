------------------------------- MODULE Signing -------------------------------
(***************************************************************************)
(* From a transaction or message to its signature: sign_tx.c, the signers  *)
(* of signer.c, the safe of multisig.c, in3_signTx, in3_prepareTx and      *)
(* in3_sign_data of rpc_api.c, eth_sendTransactionAndWait.  A handler that *)
(* needs something from a node or a signer adds a sub request and returns; *)
(* when all of them have an answer it runs again from its start.           *)
(***************************************************************************)
EXTENDS Integers, Sequences, FiniteSets, TLC

CONSTANTS
  Asks,          \* the requests a user may make: <<kind, transaction>>
  Owners,        \* the owners of the safe, in order
  Threshold,     \* the signatures it needs
  SafeAddr,      \* its address
  GivenKey,      \* a private key the user gives along
  Accounts,      \* accounts that can be added as keys
  MaxChain,      \* bound of changes of the chain
  MaxRequests,   \* bound of requests
  None, Pending, RpcErr

VARIABLES
  safe,       \* a safe is registered
  local,      \* the chain is a local one, of which the id is asked for
  keys,       \* the accounts with a key in the client, in the order they were added
  ms,         \* multisig_t: what the plugin knows of the safe
  chain,      \* nonce, gas price and approvals on the chain
  kind, tx,   \* the request of the user
  subs,       \* required requests: from what is asked to its answer
  cache,      \* signatures in the cache of the context
  status,     \* "idle", "run", "ready" (a raw transaction to send), "done", "err"
  out,        \* what is sent or returned
  asked,      \* messages and accounts other signers were asked for
  nonces,     \* nonces the chain had since the request
  parent,     \* eth_sendTransactionAndWait: its sub requests and the time it waits
  sent,       \* transactions a node was given for this request
  requests

vars == <<safe, local, keys, ms, chain, kind, tx, subs, cache, status, out, asked, nonces, parent, sent, requests>>

TransferGas == 100
ExecGas == 300
ApproveGas == 10
Unknown == [type |-> FALSE, domain |-> FALSE, owners |-> None, threshold |-> 0]
NoParent == [src |-> None, method |-> None, wait |-> 0, receipt |-> None]

-----------------------------------------------------------------------------
(* The state of a handler while it runs: what it returns, the result of its *)
(* last step, and what the step changed.                                    *)

Start == [ret |-> "ok", v |-> None, subs |-> subs, ms |-> ms, cache |-> cache, asked |-> asked]
Fail(r) == [r EXCEPT !.ret = "err"]
Wait(r) == [r EXCEPT !.ret = "wait"]
Ok(r, v) == [r EXCEPT !.ret = "ok", !.v = v]
Then(r, F(_)) == IF r.ret = "ok" THEN F(r) ELSE r

(* get_from_nodes, req_send_sub_request, call: the answer of the sub request, *)
(* which is added when it is not there.                                       *)
Need(r, k) ==
  IF k \notin DOMAIN r.subs THEN Wait([r EXCEPT !.subs = (k :> Pending) @@ @])
  ELSE IF r.subs[k] = Pending THEN Wait(r) ELSE IF r.subs[k] = RpcErr THEN Fail(r) ELSE Ok(r, r.subs[k])

(* req_remove_required *)
Drop(r, ks) == [r EXCEPT !.subs = [k \in DOMAIN @ \ ks |-> @[k]]]

(* merge_result: an error is stronger than waiting. *)
Merge(r, s) == IF r.ret = "err" THEN Fail(s) ELSE IF r.ret = "wait" /\ s.ret = "ok" THEN Wait(s) ELSE s

-----------------------------------------------------------------------------
(* sign_tx.c: the unsigned transaction. *)

get_from_address(r) ==
  IF tx.from # None THEN Ok(r, tx.from) ELSE IF keys = <<>> THEN Fail(r) ELSE Ok(r, keys[1])

(* Mutant: the value is sent along with the transfer. *)
TransferKeepsValue(r, t) ==
  IF tx.token = None THEN Ok(r, t) ELSE Ok(r, [t EXCEPT !.data = <<"transfer", t.to, t.value>>, !.to = tx.token])

transform_erc20(r, t) ==
  IF tx.token = None THEN Ok(r, t)
  ELSE IF tx.token = "symbol" \/ t.to = None THEN Fail(r)
  ELSE Ok(r, [t EXCEPT !.data = <<"transfer", t.to, t.value>>, !.to = tx.token, !.gas = @ + TransferGas, !.value = 0])

(* transform_abi: data that is already there is code to deploy, to which the *)
(* arguments are added.                                                      *)
transform_abi(r, t) ==
  IF tx.fn = None THEN Ok(r, t) ELSE IF tx.fn = "bad" THEN Fail(r)
  ELSE Ok(r, [t EXCEPT !.data = (IF @ = <<>> THEN <<tx.fn>> ELSE @) \o <<"args">>])

(* The id of the chain is part of what is signed. *)
ChainId(r) == IF local THEN Need(r, <<"chainId">>) ELSE Ok(r, None)

(* get_nonce_and_gasprice: everything that is missing is asked for at once.  *)
(* A fee history replaces the maximum, and a priority fee of less than two   *)
(* bytes, also where the user gave them.                                     *)
Fetch(r, needed, k) == IF needed THEN Need(r, k) ELSE Ok(r, None)
get_nonce_and_gasprice(r, t) ==
  LET n == Fetch(r, t.nonce = None, <<"nonce">>)
      p == Fetch(n, t.type < 2 /\ t.price = None, <<"price">>)
      a == Fetch(p, t.type > 0 /\ t.data # <<>> /\ ~t.acl, <<"call", t.data, t.to>>)
      f == Fetch(a, t.type = 2 /\ (t.tip = None \/ t.maxfee = None), <<"fees">>)
      m == Merge(n, Merge(p, Merge(a, f)))
  IN  IF m.ret # "ok" THEN m
      ELSE Ok(m, [t EXCEPT !.nonce = IF @ = None THEN n.v ELSE @,
                           !.price = IF p.v # None THEN p.v ELSE @,
                           !.acl = @ \/ a.v # None,
                           !.tip = IF f.v # None /\ (@ = None \/ @ = 0) THEN f.v ELSE @,
                           !.maxfee = IF f.v # None THEN 2 * f.v ELSE @])

-----------------------------------------------------------------------------
(* multisig.c.  A signature has an address and its kind, the last byte: 0 of  *)
(* a contract, 1 for an approval, more than 26 by a key.                      *)
Sig(a, v) == [a |-> a, v |-> v]
ByKey == 27

(* Mutant: whoever signs is taken for an owner. *)
ValidAnyone(r, sigs, a) == sigs # <<>> => sigs[1].a # a

(* is_valid compares a new signature with the first one only. *)
is_valid(r, sigs, a) == (\E i \in DOMAIN r.ms.owners : r.ms.owners[i] = a) /\ (sigs # <<>> => sigs[1].a # a)

(* ensure_owners: the owners are kept although the threshold may not be read. *)
ensure_owners(r) ==
  IF r.ms.owners # None THEN Ok(r, None)
  ELSE LET o == Need(r, <<"owners">>)
           p == IF o.ret = "ok" THEN [o EXCEPT !.ms.owners = o.v] ELSE o
           t == Need(p, <<"threshold">>)
           u == IF t.ret = "ok" THEN [t EXCEPT !.ms.threshold = t.v] ELSE t
       IN  IF o.ret = "err" THEN o ELSE Merge(o, u)

(* fill_signature: those a user passes along, until there are enough.  Of one *)
(* by a key the address is recovered, or None; it is kept where a pointer     *)
(* nobody set points to, and the model goes on when that can be written.      *)
RECURSIVE FillFrom(_, _, _)
FillFrom(r, given, sigs) ==
  IF given = <<>> \/ Len(sigs) >= r.ms.threshold THEN Ok(r, sigs)
  ELSE IF given[1].v \in 2..26 \/ given[1].a = None THEN Fail(r)
  ELSE FillFrom(r, Tail(given), IF is_valid(r, sigs, given[1].a) THEN Append(sigs, given[1]) ELSE sigs)
fill_signature(r, sigs) == FillFrom(r, tx.sigs, sigs)

(* add_approved: one owner after the other is looked up, the first without an *)
(* answer ends the run.  Its kind is left 0, the one of a contract.           *)
RECURSIVE ApprovedFrom(_, _, _, _)
ApprovedFrom(r, i, hash, sigs) ==
  IF i > Len(r.ms.owners) \/ Len(sigs) >= r.ms.threshold THEN Ok(r, sigs)
  ELSE IF ~is_valid(r, sigs, r.ms.owners[i]) THEN ApprovedFrom(r, i + 1, hash, sigs)
  ELSE Then(Need(r, <<"approved", r.ms.owners[i], hash>>),
            LAMBDA s : ApprovedFrom(s, i + 1, hash, IF s.v THEN Append(sigs, Sig(s.ms.owners[i], 0)) ELSE sigs))
add_approved(r, hash, sigs) == ApprovedFrom(r, 1, hash, sigs)

(* get_tx_hash, get_exec_tx_data: gas and price are part of what the owners   *)
(* agree to.                                                                  *)
get_tx_hash(r, t, nonce) == Need(r, <<"txHash", t.to, t.value, t.data, t.gas, t.price, nonce>>)
get_exec_tx_data(t, sigs) == <<"exec", t.to, t.value, t.data, t.gas, t.price, sigs>>
exec_tx(t, sigs) ==
  [t EXCEPT !.gas = @ + ExecGas, !.to = SafeAddr, !.value = 0, !.data = get_exec_tx_data(t, sigs)]
approve_hash(t, hash) == [t EXCEPT !.gas = ApproveGas, !.to = SafeAddr, !.value = 0, !.data = <<"approve", hash>>]

(* gs_prepare_tx: a typed transaction can not be read. *)
gs_prepare_tx(r, t, from) ==
  LET o == ensure_owners(r)
      n == Need(o, <<"safeNonce">>)
      own == IF is_valid(n, <<>>, from) THEN <<Sig(from, 1)>> ELSE <<>>
  IN  IF o.ret = "err" THEN o ELSE IF n.ret # "ok" THEN n ELSE IF o.ret = "wait" THEN Wait(n)
      ELSE IF t.type # 0 THEN Fail(n)
      ELSE Then(get_tx_hash(n, t, n.v),
             LAMBDA h : Then(fill_signature(h, own),
               LAMBDA s : Then(add_approved(s, h.v, s.v),
                 LAMBDA a : IF Len(a.v) >= a.ms.threshold THEN Ok(a, exec_tx(t, a.v))
                            ELSE IF is_valid(a, <<>>, from) THEN Ok(a, approve_hash(t, h.v)) ELSE Fail(a))))

(* gs_create_contract_signature, for a message, or a hash, for which the      *)
(* domain is not needed; its owners sign with the keys of the client.         *)
ensure_ms_type(r) == IF r.ms.type THEN Ok(r, None) ELSE Then(Need(r, <<"name">>), LAMBDA s : [s EXCEPT !.ms.type = TRUE])
KnowDomain(r) == IF r.ms.domain THEN Ok(r, None) ELSE Then(Need(r, <<"domain">>), LAMBDA s : [s EXCEPT !.ms.domain = TRUE])
RECURSIVE SignWith(_, _, _)
SignWith(r, i, sigs) ==
  IF i > Len(keys) \/ Len(sigs) >= r.ms.threshold THEN sigs
  ELSE SignWith(r, i + 1, IF is_valid(r, sigs, keys[i]) THEN Append(sigs, Sig(keys[i], ByKey)) ELSE sigs)
gs_create_contract_signature(r) ==
  Then(ensure_ms_type(r), LAMBDA s : Then(IF kind = "signHash" THEN s ELSE KnowDomain(s), LAMBDA d : Then(ensure_owners(d),
    LAMBDA o : Then(add_approved(o, "message", SignWith(o, 1, <<>>)),
      LAMBDA a : IF Len(a.v) >= a.ms.threshold THEN Ok(a, a.v) ELSE Fail(a)))))

-----------------------------------------------------------------------------
(* eth_prepare_unsigned_tx: what the nodes said of nonce and price is thrown *)
(* away once the transaction is complete.                                    *)
eth_prepare_unsigned_tx(r) ==
  Then(Then(ChainId(r), get_from_address), LAMBDA f :
    Then(transform_erc20(f, [type |-> tx.type, nonce |-> tx.nonce, price |-> tx.price, tip |-> tx.tip, maxfee |-> tx.maxfee,
                             acl |-> tx.acl, gas |-> 1, to |-> tx.to, value |-> tx.value, data |-> tx.data]),
      LAMBDA e : Then(transform_abi(e, e.v),
        LAMBDA a : Then(get_nonce_and_gasprice(a, a.v),
          LAMBDA g : Then(IF safe THEN gs_prepare_tx(g, g.v, f.v) ELSE g,
            LAMBDA p : Ok(Drop(p, {<<"nonce">>, <<"price">>}), p.v))))))

Has(a) == \E i \in DOMAIN keys : keys[i] = a

(* req_require_signature: from the cache, by a key of the client, or by       *)
(* somebody else, whose answer goes into the cache.                           *)
req_require_signature(r, raw, from) ==
  LET k == <<"sign", raw, from>>
      new == k \notin DOMAIN r.subs
      s == Need([r EXCEPT !.asked = IF new THEN @ \cup {k} ELSE @], k)
  IN  IF k \in r.cache THEN Ok(r, k)
      ELSE IF Has(from) THEN Ok([r EXCEPT !.cache = @ \cup {k}], k)
      ELSE Then(s, LAMBDA q : Ok([Drop(q, {k}) EXCEPT !.cache = @ \cup {k}], k))

(* eth_sign_raw_tx: the list of a typed transaction does not end where the    *)
(* code looks for it, so that only others can be signed.                      *)
eth_sign_raw_tx(r, raw, from) ==
  Then(Then(ChainId(r), LAMBDA c : req_require_signature(c, raw, from)), LAMBDA s : IF raw.type # 0 THEN Fail(s) ELSE Ok(s, [raw |-> raw, sig |-> s.v]))

Asked(r) == {k \in DOMAIN r.subs : k[1] = "sign"}

(* Mutant: the transaction is prepared again for every run. *)
SendPreparesAgain(r) ==
  Then(get_from_address(r), LAMBDA f :
    Then(eth_prepare_unsigned_tx(f), LAMBDA u : eth_sign_raw_tx(u, u.v, f.v)))

(* handle_eth_sendTransaction: while a signature is pending its message is used. *)
handle_eth_sendTransaction(r) ==
  Then(get_from_address(r), LAMBDA f :
    IF Asked(f) # {} THEN eth_sign_raw_tx(f, (CHOOSE k \in Asked(f) : TRUE)[2], f.v)
    ELSE Then(eth_prepare_unsigned_tx(f), LAMBDA u : eth_sign_raw_tx(u, u.v, f.v)))

(* in3_signTx: without a from it is signed for the account 0, and it is       *)
(* prepared again for every run.                                              *)
in3_signTx(r) ==
  Then(eth_prepare_unsigned_tx(r), LAMBDA u : eth_sign_raw_tx(u, u.v, IF tx.from = None THEN "zero" ELSE tx.from))

(* in3_sign_data: by the first plugin that takes the account, or by the key   *)
(* that is given instead of one.                                              *)
in3_sign_data(r) ==
  IF tx.from = SafeAddr /\ safe THEN gs_create_contract_signature(r)
  ELSE IF tx.from = None /\ keys # <<>> THEN Ok(r, <<Sig(keys[1], ByKey)>>)
  ELSE IF Has(tx.from) \/ tx.from = GivenKey THEN Ok(r, <<Sig(tx.from, ByKey)>>) ELSE Fail(r)

Handle(r) ==
  CASE kind \in {"send", "sendAndWait"} -> handle_eth_sendTransaction(r)
    [] kind = "signTx" -> in3_signTx(r)
    [] kind = "prepareTx" -> eth_prepare_unsigned_tx(r)
    [] kind \in {"signData", "signHash"} -> in3_sign_data(r)

-----------------------------------------------------------------------------
Init ==
  /\ safe \in BOOLEAN /\ local \in BOOLEAN /\ keys = <<>> /\ ms = Unknown
  /\ chain = [nonce |-> 0, price |-> 1, approved |-> {}, moves |-> 0]
  /\ kind = None /\ tx = None /\ subs = <<>> /\ cache = {} /\ status = "idle" /\ out = None
  /\ asked = {} /\ nonces = {} /\ parent = NoParent /\ sent = 0 /\ requests = 0

SendSub(t) == [NoParent EXCEPT !.src = t, !.method = "eth_sendTransaction"]

NewRequest(k, t) ==
  /\ status \in {"idle", "done", "err"} /\ requests < MaxRequests
  /\ kind' = k /\ tx' = t /\ subs' = <<>> /\ cache' = {} /\ status' = "run" /\ out' = None
  /\ asked' = {} /\ nonces' = {chain.nonce} /\ sent' = 0 /\ requests' = requests + 1
  /\ parent' = IF k = "sendAndWait" THEN SendSub(t) ELSE NoParent
  /\ UNCHANGED <<safe, local, keys, ms, chain>>

(* The handler runs when every sub request has an answer. *)
Run ==
  /\ status = "run" /\ \A k \in DOMAIN subs : subs[k] # Pending
  /\ \E r \in {Handle(Start)} :
       /\ subs' = r.subs /\ ms' = r.ms /\ cache' = r.cache /\ asked' = r.asked
       /\ status' = CASE r.ret = "wait" -> "run" [] r.ret = "err" -> "err"
                      [] OTHER -> IF kind \in {"send", "sendAndWait"} THEN "ready" ELSE "done"
       /\ out' = IF r.ret = "ok" THEN r.v ELSE None
       /\ parent' = IF r.ret = "ok" /\ kind = "sendAndWait" THEN [parent EXCEPT !.method = "eth_sendRawTransaction"] ELSE parent
  /\ UNCHANGED <<safe, local, keys, chain, kind, tx, nonces, sent, requests>>

(* What a node or a signer says. *)
ValueOf(k) ==
  CASE k[1] = "nonce" -> chain.nonce
    [] k[1] = "price" -> chain.price
    [] k[1] = "fees" -> chain.price
    [] k[1] = "owners" -> Owners
    [] k[1] = "threshold" -> Threshold
    [] k[1] = "safeNonce" -> 7
    [] k[1] = "txHash" -> SubSeq(k, 2, 6)
    [] k[1] = "approved" -> k[2] \in chain.approved
    [] OTHER -> "answer"

Answer(k) ==
  /\ status = "run" /\ subs[k] = Pending
  /\ subs' = [subs EXCEPT ![k] = ValueOf(k)]
  /\ UNCHANGED <<safe, local, keys, ms, chain, kind, tx, cache, status, out, asked, nonces, parent, sent, requests>>

AnswerError(k) ==
  /\ status = "run" /\ subs[k] = Pending
  /\ subs' = [subs EXCEPT ![k] = RpcErr]
  /\ UNCHANGED <<safe, local, keys, ms, chain, kind, tx, cache, status, out, asked, nonces, parent, sent, requests>>

(* A sub request without a valid answer is the end of the request. *)
SubFails(k) ==
  /\ status = "run" /\ subs[k] = Pending
  /\ status' = "err"
  /\ UNCHANGED <<safe, local, keys, ms, chain, kind, tx, subs, cache, out, asked, nonces, parent, sent, requests>>

(* eth_sendRawTransaction of what is ready. *)
Send ==
  /\ status = "ready" /\ sent' = sent + 1
  /\ status' = IF kind = "send" THEN "done" ELSE "sent"
  /\ UNCHANGED <<safe, local, keys, ms, chain, kind, tx, subs, cache, out, asked, nonces, parent, requests>>
SendFails ==
  /\ status = "ready" /\ status' = "err" /\ sent' \in {sent, sent + 1}
  /\ UNCHANGED <<safe, local, keys, ms, chain, kind, tx, subs, cache, out, asked, nonces, parent, requests>>

(* Mutant: a sub request is found by its method only. *)
FoundByMethod(p) == p.method = "eth_sendTransaction"

(* req_send_sub_request: the method of the sub request has become another     *)
(* when it was signed, so it is found by the request it was made of.          *)
SendIsFound(p) == p.method = "eth_sendTransaction" \/ p.src = tx

MaxWait == 120
NextWait(w) == IF w = 0 THEN 1 ELSE 2 * w

(* eth_send_transaction_and_wait, when its sub requests have their answers. *)
SendAndWait ==
  /\ status = "sent" /\ parent.receipt # Pending
  /\ \/ /\ ~SendIsFound(parent)
        /\ parent' = SendSub(tx) /\ status' = "run"
        /\ subs' = <<>> /\ cache' = {} /\ out' = None
     \/ /\ SendIsFound(parent) /\ UNCHANGED <<subs, cache, out>>
        /\ \/ parent.receipt = None /\ parent' = [parent EXCEPT !.receipt = Pending] /\ UNCHANGED status
           \/ parent.receipt = "mined" /\ status' = "done" /\ UNCHANGED parent
           \/ /\ parent.receipt = "null"
              /\ IF NextWait(parent.wait) > MaxWait THEN status' = "err" /\ UNCHANGED parent
                 ELSE parent' = [parent EXCEPT !.wait = NextWait(@), !.receipt = Pending] /\ UNCHANGED status
  /\ UNCHANGED <<safe, local, keys, ms, chain, kind, tx, asked, nonces, sent, requests>>
Receipt ==
  /\ status = "sent" /\ parent.receipt = Pending
  /\ \/ \E v \in {"null", "mined"} : parent' = [parent EXCEPT !.receipt = v] /\ UNCHANGED status
     \/ status' = "err" /\ UNCHANGED parent
  /\ UNCHANGED <<safe, local, keys, ms, chain, kind, tx, subs, cache, out, asked, nonces, sent, requests>>

(* add_key: not one that is there; it may be added while a request waits. *)
AddKey(a) ==
  /\ ~Has(a) /\ keys' = Append(keys, a)
  /\ UNCHANGED <<safe, local, ms, chain, kind, tx, subs, cache, status, out, asked, nonces, parent, sent, requests>>

(* The chain goes on: another transaction of the account, a new price, an approval. *)
ChainMoves ==
  /\ chain.moves < MaxChain
  /\ \/ chain' = [chain EXCEPT !.nonce = @ + 1, !.moves = @ + 1] /\ nonces' = nonces \cup {chain.nonce + 1}
     \/ chain' = [chain EXCEPT !.price = @ + 1, !.moves = @ + 1] /\ UNCHANGED nonces
     \/ /\ safe /\ UNCHANGED nonces
        /\ \E i \in DOMAIN Owners : /\ Owners[i] \notin chain.approved
                                    /\ chain' = [chain EXCEPT !.approved = @ \cup {Owners[i]}, !.moves = @ + 1]
  /\ UNCHANGED <<safe, local, keys, ms, kind, tx, subs, cache, status, out, asked, parent, sent, requests>>

Next ==
  \/ \E q \in Asks : NewRequest(q[1], q[2])
  \/ Run \/ Send \/ SendFails \/ SendAndWait \/ Receipt \/ ChainMoves
  \/ \E k \in DOMAIN subs : Answer(k) \/ AnswerError(k) \/ SubFails(k)
  \/ \E a \in Accounts : AddKey(a)

-----------------------------------------------------------------------------
(* What the user wants done, whoever does it. *)
Wanted ==
  IF tx.token # None THEN <<tx.token, 0, <<"transfer", tx.to, tx.value>>>>
  ELSE <<tx.to, tx.value, IF tx.fn = None THEN tx.data ELSE IF tx.data = <<>> THEN <<tx.fn, "args">> ELSE tx.data \o <<"args">>>>
Sender == IF tx.from = None THEN keys[1] ELSE tx.from

Transaction == kind \in {"send", "sendAndWait"} /\ out # None

(* handle_eth_sendTransaction: the signature that is sent is the sender's,    *)
(* made for exactly this transaction, which does what was asked for, itself   *)
(* or through the safe, whose owners agreed to this price, with the price     *)
(* that was given and a nonce that was given or the account had meanwhile,    *)
(* although the handler starts over after every answer, keys are added and    *)
(* the chain goes on.                                                         *)
SentIsAsked ==
  Transaction =>
    /\ out.sig = <<"sign", out.raw, Sender>>
    /\ IF tx.nonce = None THEN out.raw.nonce \in nonces ELSE out.raw.nonce = tx.nonce
    /\ tx.price # None => out.raw.price = tx.price
    /\ IF safe THEN /\ out.raw.to = SafeAddr /\ out.raw.value = 0
                    /\ LET signed == IF out.raw.data[1] = "exec" THEN SubSeq(out.raw.data, 2, 6) ELSE out.raw.data[2]
                       IN  SubSeq(signed, 1, 3) = Wanted /\ signed[5] = out.raw.price
       ELSE <<out.raw.to, out.raw.value, out.raw.data>> = Wanted

(* handle_eth_sendTransaction: a signer outside of the client is asked for    *)
(* one message and no other, whatever changes while it takes its time.        *)
OneMessage == kind \in {"send", "sendAndWait"} => Cardinality(asked) <= 1

(* eth_send_transaction_and_wait: a transaction is sent once, although the    *)
(* request that sent it is looked up again for every poll of the receipt.     *)
SentOnce == sent <= 1

(* gs_prepare_tx, gs_create_contract_signature: what the safe is made to      *)
(* execute or to sign has as many signatures as it needs, all of owners, and  *)
(* the one that was there first is not repeated, whether the user, a key of   *)
(* the client or the chain gave them.  The others may be repeated, see        *)
(* is_valid, so that only a threshold of two is sure to be two owners; and    *)
(* a threshold that could not be read once counts as 0 from then on.          *)
Unlocks(sigs) ==
  /\ Len(sigs) >= Threshold \/ ms.threshold = 0
  /\ \A i \in DOMAIN sigs : (\E j \in DOMAIN Owners : Owners[j] = sigs[i].a) /\ (i > 1 => sigs[i].a # sigs[1].a)
SafeIsUnlocked ==
  /\ Transaction /\ safe => IF out.raw.data[1] = "exec" THEN Unlocks(out.raw.data[7])
                            ELSE \E j \in DOMAIN Owners : Owners[j] = Sender
  /\ kind \in {"signData", "signHash"} /\ out # None /\ tx.from = SafeAddr => Unlocks(out)
=============================================================================
