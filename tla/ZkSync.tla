------------------------------- MODULE ZkSync -------------------------------
(***************************************************************************)
(* The zksync plugin: zksync.c, zk_helper.c, zk_message.c, zk_transfer.c,  *)
(* zk_setkey.c, zk_deposit.c.  A handler that needs something from the     *)
(* provider or a signer adds a sub request and returns; when all of them   *)
(* have an answer it runs again from its start.  Calls share one           *)
(* configuration, which every run reads and writes.  The rollup and the    *)
(* main chain are only what their answers tell.                            *)
(***************************************************************************)
EXTENDS Integers, Sequences, FiniteSets, TLC

CONSTANTS
  Asks,          \* what a user may ask for with each request
  Call,          \* requests
  Configs,       \* zksync_config_t as the user may set it
  Accounts,      \* the accounts of the signer, in order
  NewAccounts,   \* accounts set in a running client
  Ids,           \* the accounts of the rollup and the ids they get
  Opened,        \* the accounts that are open from the start
  Tokens,        \* the token list: from a symbol to its address
  Leading,       \* the symbols that are read when the list is broken
  MaxFee,        \* bound of the fee of the provider
  Cache,         \* the client has a cache
  Mainnet,       \* on another chain the id of the chain is asked for
  MaxChanges,    \* bound of restarts and of changes by others
  None, Pending, RpcErr

VARIABLES
  zk,        \* zksync_config_t
  disk,      \* the cache of the client
  rollup,    \* the accounts of the rollup, and the keys that were authorised on chain
  calls,     \* the requests of the user
  changes,   \* restarts, configurations, and what others do to the rollup
  moved      \* the account was changed in a running client

vars == <<zk, disk, rollup, calls, changes, moved>>

Zero == <<"zero">>
Hash(k) == <<"hash", k>>
KeyOf(sig) == <<"key", sig>>
Group == <<"group">>

-----------------------------------------------------------------------------
(* The state of a handler while it runs. *)

Begin(c) == [ret |-> "ok", v |-> None, conf |-> zk, disk |-> disk, subs |-> calls[c].subs, payload |-> calls[c].payload]
Fail(r) == [r EXCEPT !.ret = "err"]
Wait(r) == [r EXCEPT !.ret = "wait"]
Ok(r, v) == [r EXCEPT !.ret = "ok", !.v = v]
Then(r, F(_)) == IF r.ret = "ok" THEN F(r) ELSE r

(* Mutant: a request is found by its method alone. *)
NeedMethod(r, k) ==
  LET same == {q \in DOMAIN r.subs : q[1] = k[1]}
  IN  IF same = {} THEN Wait([r EXCEPT !.subs = (k :> Pending) @@ @])
      ELSE LET a == r.subs[CHOOSE q \in same : TRUE]
           IN  IF a = Pending THEN Wait(r) ELSE IF a = RpcErr THEN Fail(r) ELSE Ok(r, a)

(* send_provider_request, req_send_sub_request, req_require_signature: the    *)
(* answer, which is asked for when it is not there.                           *)
Need(r, k) ==
  IF k \notin DOMAIN r.subs THEN Wait([r EXCEPT !.subs = (k :> Pending) @@ @])
  ELSE IF r.subs[k] = Pending THEN Wait(r) ELSE IF r.subs[k] = RpcErr THEN Fail(r) ELSE Ok(r, r.subs[k])

(* req_remove_required *)
Drop(r, k) == [r EXCEPT !.subs = [q \in DOMAIN @ \ {k} |-> @[q]]]

-----------------------------------------------------------------------------
(* zk_helper.c *)

(* The account of the configuration, or the first one of the signer; the      *)
(* address of a contract that is not deployed depends on the hash of its key. *)
AccountWith(r, HashOfKey(_)) ==
  IF r.conf.account # None THEN Ok(r, r.conf.account)
  ELSE IF r.conf.sign_type = "create2"
  THEN Then(HashOfKey(r), LAMBDA h : Ok([h EXCEPT !.conf.account = <<"create2", h.v>>], <<"create2", h.v>>))
  ELSE IF Accounts = <<>> THEN Fail(r)
  ELSE Ok([r EXCEPT !.conf.account = Accounts[1]], Accounts[1])

(* When the public key is known and its hash is not, the hash is written over *)
(* the key, and the unset hash returned.                                      *)
HashWith(r, SyncKey(_)) ==
  IF r.conf.musig THEN Ok(r, Hash(Group))
  ELSE IF r.conf.hash_pk # None THEN Ok(r, r.conf.hash_pk)
  ELSE IF r.conf.pub_key # None THEN Ok([r EXCEPT !.conf.pub_key = Hash(@)], Zero)
  ELSE Then(SyncKey(r), LAMBDA k : Ok([k EXCEPT !.conf.hash_pk = Hash(k.v)], Hash(k.v)))

(* zksync_get_sync_key: without a key it is made from a signature of the user *)
(* over a fixed text.  A contract that is not deployed, with neither key nor  *)
(* address, would need its address for its key (the calls never end there).   *)
zksync_get_sync_key(r) ==
  IF r.conf.sync_key # None THEN Ok(r, r.conf.sync_key)
  ELSE Then(IF Mainnet THEN Ok(r, None) ELSE Need(r, <<"chainId">>),
         LAMBDA i : Then(AccountWith(i, LAMBDA h : HashWith(h, Fail)),
           LAMBDA a : Then(Need(a, <<"sign", <<"access", i.v>>, a.v>>),
             LAMBDA s : Ok([s EXCEPT !.conf.sync_key = KeyOf(s.v)], KeyOf(s.v)))))

zksync_get_pubkey_hash(r) == HashWith(r, zksync_get_sync_key)

(* zksync_get_account, zksync_check_create2 *)
zksync_get_account(r) == AccountWith(r, zksync_get_pubkey_hash)

zksync_update_account(r) ==
  Then(zksync_get_account(r),
    LAMBDA a : Then(Need(a, <<"account_info", a.v>>),
      LAMBDA i : [i EXCEPT !.conf.account_id = i.v.id, !.conf.nonce = i.v.nonce,
                           !.conf.hash_set = IF i.v.hash # None THEN i.v.hash ELSE @]))

(* zksync_get_account_id: from the cache, the configuration, or the provider. *)
KnownId(r) ==
  IF r.disk.on /\ r.conf.account \in DOMAIN r.disk.ids THEN [r EXCEPT !.conf.account_id = r.disk.ids[r.conf.account]] ELSE r
StoreId(r) ==
  IF r.disk.on THEN [r EXCEPT !.disk.ids = (r.conf.account :> r.conf.account_id) @@ @] ELSE r
zksync_get_account_id(r) ==
  Then(zksync_get_account(r),
    LAMBDA a : Then(IF KnownId(a).conf.account_id = 0 THEN zksync_update_account(a) ELSE KnownId(a),
      LAMBDA u : IF u.conf.account_id = 0 THEN Fail(u) ELSE Ok(StoreId(u), u.conf.account_id)))

(* Mutant: the nonce of the configuration, which other calls change. *)
NonceOfConf(r, given) ==
  IF given # None THEN Ok(r, given)
  ELSE IF r.conf.account_id # 0 THEN Ok(r, r.conf.nonce)
  ELSE Then(zksync_update_account(r), LAMBDA u : Ok(u, u.conf.nonce))

(* zksync_get_nonce: what this request was told. *)
zksync_get_nonce(r, given) ==
  IF given # None THEN Ok(r, given) ELSE Then(zksync_update_account(r), LAMBDA u : Ok(u, u.conf.nonce))

zksync_get_fee(r, given, type, to, token) == IF given # None THEN Ok(r, given) ELSE Need(r, <<"fee", type, to, token>>)

(* Mutant: a list is stored before it is read. *)
StoreUnread(r, what, good) ==
  Drop([r EXCEPT !.conf[what] = r.v, !.disk[what] = IF r.disk.on THEN r.v ELSE @, !.ret = IF r.v = good THEN "ok" ELSE "err"], <<what>>)

(* An answer that can not be read to its end has changed the configuration up *)
(* to there; only one that can is stored, and its request removed.            *)
Read(r, what, good) ==
  IF r.v # good THEN Fail([r EXCEPT !.conf[what] = r.v])
  ELSE Drop([r EXCEPT !.conf[what] = r.v, !.disk[what] = IF r.disk.on THEN r.v ELSE @], <<what>>)

(* zksync_get_contracts and the first part of resolve_tokens: from the        *)
(* configuration, the cache, or the provider.                                 *)
Fetch(r, what, good) ==
  IF r.conf[what] # None THEN Ok(r, None)
  ELSE IF r.disk.on /\ r.disk[what] # None THEN Ok([r EXCEPT !.conf[what] = r.disk[what]], None)
  ELSE Then(Need(r, <<what>>), LAMBDA a : Read(a, what, good))

zksync_get_contracts(r) == Fetch(r, "contracts", "both")
(* In a list read in part the tokens before the bad one are found. *)
resolve_tokens(r, sym) ==
  Then(Fetch(r, "tokens", "all"),
    LAMBDA t : IF sym \in DOMAIN Tokens /\ (t.conf.tokens = "all" \/ sym \in Leading) THEN Ok(t, sym) ELSE Fail(t))

-----------------------------------------------------------------------------
(* zk_message.c *)

(* zksync_sign: with a key of several members they sign. *)
zksync_sign(r, msg) ==
  Then(zksync_get_sync_key(r), LAMBDA k : IF k.conf.musig THEN Need(k, <<"zk_sign", msg>>) ELSE Ok(k, <<k.v, msg>>))

(* What the user reads before signing. *)
create_human_readable_tx_info(t) == <<t.type, t.amount, t.token, t.to, t.fee, t.nonce>>

(* The signature of the account over a message; a contract that is not        *)
(* deployed does not sign.                                                    *)
EthSign(r, msg, from) == IF r.conf.sign_type = "create2" THEN Ok(r, None) ELSE Need(r, <<"sign", msg, from>>)

zksync_sign_transfer(r, t) ==
  Then(EthSign(r, create_human_readable_tx_info(t), t.from),
    LAMBDA e : Then(zksync_sign(e, t), LAMBDA s : Ok(s, [tx |-> t, l2 |-> s.v, eth |-> e.v])))

zksync_sign_change_pub_key(r, t) ==
  Then(zksync_sign(r, t),
    LAMBDA s : Then(EthSign(s, <<t.hash, t.nonce, t.id>>, t.from),
      LAMBDA e : Ok(e, [tx |-> t, l2 |-> s.v, eth |-> e.v])))

(* The payload is made once and kept in the cache of the request. *)
Payload(r, Sign(_)) ==
  IF r.payload # None THEN Ok(r, r.payload) ELSE Then(Sign(r), LAMBDA p : [p EXCEPT !.payload = p.v])

Submit(r) == Need(r, <<"tx_submit", r.payload>>)

-----------------------------------------------------------------------------
(* The rpc functions *)

zksync_transfer(r, a) ==
  Then(zksync_get_sync_key(r), LAMBDA k : Then(zksync_get_account_id(k),
    LAMBDA i : Then(resolve_tokens(i, a.token), LAMBDA t : Then(zksync_get_nonce(t, a.nonce),
      LAMBDA n : Then(zksync_get_fee(n, a.fee, a.m, a.to, a.token),
        LAMBDA f : Then(Payload(f, LAMBDA p : zksync_sign_transfer(p,
                          [type |-> a.m, id |-> i.v, from |-> p.conf.account, to |-> a.to, token |-> a.token,
                           amount |-> a.amount, fee |-> f.v, nonce |-> n.v])),
          Submit))))))

(* auth_pub_key: a contract has its key authorised on the main chain first. *)
auth_pub_key(r, nonce, hash) ==
  Then(zksync_get_contracts(r), LAMBDA m : Then(Need(m, <<"authFacts", m.conf.account, nonce>>),
    LAMBDA f : IF f.v = hash THEN f
               ELSE Then(Need(f, <<"setAuth", f.conf.account, nonce, hash>>), LAMBDA s : IF s.v = "failed" THEN Fail(s) ELSE s)))

(* zksync_set_key: a new key replaces the one of the configuration at once.   *)
zksync_set_key(r, a) ==
  Then(zksync_get_nonce(IF a.key = None THEN r ELSE [r EXCEPT !.conf.sync_key = a.key], None),
    LAMBDA n : Then(resolve_tokens(n, IF a.key = None THEN a.token ELSE "ETH"), LAMBDA t : Then(zksync_get_pubkey_hash(t),
      LAMBDA h :
        IF h.v = h.conf.hash_set \/ h.conf.account_id = 0 THEN Fail(h)
        ELSE Then(IF h.conf.sign_type = "contract" THEN auth_pub_key(h, n.v, h.v) ELSE h,
          LAMBDA u : Then(zksync_get_fee(u, None, "set_key", u.conf.account, t.v),
            LAMBDA f : Then(Payload(f, LAMBDA p : zksync_sign_change_pub_key(p,
                              [type |-> "set_key", id |-> p.conf.account_id, from |-> p.conf.account, hash |-> h.v, token |-> t.v,
                               fee |-> f.v, nonce |-> n.v])),
              Submit))))))

(* zksync_deposit: the approval goes out and is confirmed before the deposit. *)
zksync_deposit(r, a) ==
  Then(IF a.to # None THEN Ok(r, a.to) ELSE IF r.conf.account # None THEN Ok(r, r.conf.account) ELSE zksync_get_account(r),
    LAMBDA to : Then(zksync_get_contracts(to), LAMBDA c : Then(resolve_tokens(c, a.token),
      LAMBDA t : Then(IF Tokens[a.token] # Zero /\ a.approve THEN Need(t, <<"approve", a.token, a.amount>>) ELSE t,
        LAMBDA p : Then(Need(p, <<"deposit", a.token, a.amount, to.v>>),
          LAMBDA d : IF d.v = "failed" THEN Fail(d) ELSE d)))))

zksync_emergency_withdraw(r, a) ==
  Then(zksync_get_contracts(r), LAMBDA c : Then(resolve_tokens(c, a.token), LAMBDA t : Then(zksync_get_account_id(t),
    LAMBDA i : Then(zksync_get_account(i),
      LAMBDA f : Then(Need(f, <<"exit", i.v, a.token, f.v>>), LAMBDA x : IF x.v = "failed" THEN Fail(x) ELSE x)))))

zksync_get_pubkey(r) ==
  IF r.conf.musig THEN Ok(r, Group)
  ELSE IF r.conf.pub_key # None THEN Ok(r, r.conf.pub_key)
  ELSE Then(zksync_get_sync_key(r), LAMBDA k : [k EXCEPT !.conf.pub_key = k.v])

(* zksync_rpc *)
zksync_rpc(r, a) ==
  CASE a.m \in {"transfer", "withdraw"} -> zksync_transfer(r, a)
    [] a.m = "set_key"            -> zksync_set_key(r, a)
    [] a.m = "deposit"            -> zksync_deposit(r, a)
    [] a.m = "emergency_withdraw" -> zksync_emergency_withdraw(r, a)
    [] a.m = "sync_key"           -> zksync_get_sync_key(r)
    [] a.m = "pubkey"             -> zksync_get_pubkey(r)
    [] a.m = "pubkeyhash"         -> zksync_get_pubkey_hash(r)
    [] a.m = "tokens"             -> Fetch(r, "tokens", "all")
    [] a.m = "contract_address"   -> zksync_get_contracts(r)
    [] a.m = "account_address"    -> zksync_get_account(r)
    [] a.m = "account_info"       -> Then(IF a.to # None THEN Ok(r, a.to) ELSE zksync_get_account(r),
                                          LAMBDA i : Need(i, <<"account_info", i.v>>))

-----------------------------------------------------------------------------
(* Behaviour *)

Ended  == [st |-> "ended", ask |-> None, subs |-> <<>>, payload |-> None]
NoCall == [st |-> "free", ask |-> None, subs |-> <<>>, payload |-> None]
Blank == [account |-> None, account_id |-> 0, nonce |-> 0, sync_key |-> None, pub_key |-> None, hash_pk |-> None,
          hash_set |-> None, tokens |-> None, contracts |-> None, sign_type |-> "pk", musig |-> FALSE]

(* in3_register_zksync and config_set: a key comes with its public key. *)
WithKey(conf, k) == [conf EXCEPT !.sync_key = k, !.pub_key = k, !.hash_pk = Hash(k)]
Configured(o) ==
  LET conf == [Blank EXCEPT !.account = o.account, !.sign_type = o.sign_type, !.musig = o.musig]
  IN  IF o.key = None THEN conf ELSE WithKey(conf, o.key)

Init ==
  /\ zk \in {Configured(o) : o \in Configs}
  /\ disk = [on |-> Cache, ids |-> <<>>, tokens |-> None, contracts |-> None]
  /\ rollup = [open |-> Opened, nonce |-> [a \in DOMAIN Ids |-> 0], hash |-> [a \in DOMAIN Ids |-> None], auth |-> {}, fee |-> 1]
  /\ calls = [c \in Call |-> NoCall]
  /\ changes = 0 /\ moved = FALSE

(* The handler runs; what it wrote to the configuration stays, whatever it    *)
(* returns.                                                                   *)
Run(c, a) ==
  /\ \E h \in {zksync_rpc(Begin(c), a)} :
       /\ calls' = [calls EXCEPT ![c] = IF h.ret = "wait" THEN [st |-> "waiting", ask |-> a, subs |-> h.subs, payload |-> h.payload]
                                        ELSE Ended]
       /\ zk' = h.conf /\ disk' = h.disk
  /\ UNCHANGED <<rollup, changes, moved>>

(* Requests are numbered in the order they start. *)
Start(c, a) == calls[c].st = "free" /\ (\A d \in Call : d < c => calls[d].st # "free") /\ Run(c, a)
Resume(c) ==
  /\ calls[c].st = "waiting" /\ \A k \in DOMAIN calls[c].subs : calls[c].subs[k] # Pending
  /\ Run(c, calls[c].ask)

(* The provider's side: an answer, and the rollup behind it. *)
AccountInfo(a) ==
  IF a \in rollup.open THEN [id |-> Ids[a], nonce |-> rollup.nonce[a], hash |-> rollup.hash[a]] ELSE [id |-> 0, nonce |-> 0, hash |-> None]
Executed(t) ==
  [rollup EXCEPT !.nonce[t.from] = @ + 1, !.hash[t.from] = IF t.type = "set_key" THEN t.hash ELSE @]
Valid(t) == t.from \in rollup.open /\ t.id = Ids[t.from] /\ t.nonce = rollup.nonce[t.from]
Answers(k) ==
  CASE k[1] = "account_info" -> {<<AccountInfo(k[2]), rollup>>}
    [] k[1] = "fee"          -> {<<rollup.fee, rollup>>}
    [] k[1] = "chainId"      -> {<<"5", rollup>>}
    [] k[1] = "tokens"       -> {<<"all", rollup>>, <<"part", rollup>>}
    [] k[1] = "contracts"    -> {<<"both", rollup>>, <<"main", rollup>>}
    [] k[1] = "sign"         -> {<<<<k[3], k[2]>>, rollup>>}
    [] k[1] = "zk_sign"      -> {<<<<Group, k[2]>>, rollup>>}
    [] k[1] = "authFacts"    -> {<<IF \E f \in rollup.auth : f[1] = k[2] /\ f[2] = k[3]
                                   THEN (CHOOSE f \in rollup.auth : f[1] = k[2] /\ f[2] = k[3])[3] ELSE Zero, rollup>>}
    [] k[1] = "setAuth"      -> {<<"ok", [rollup EXCEPT !.auth = {f \in @ : f[1] # k[2] \/ f[2] # k[3]} \cup {<<k[2], k[3], k[4]>>}]>>,
                                 <<"failed", rollup>>}
    [] k[1] = "deposit"      -> {<<"ok", [rollup EXCEPT !.open = @ \cup ({k[4]} \cap DOMAIN Ids)]>>, <<"failed", rollup>>}
    [] k[1] = "approve"      -> {<<"ok", rollup>>}
    [] k[1] = "exit"         -> {<<"ok", rollup>>, <<"failed", rollup>>}
    [] k[1] = "tx_submit"    -> IF Valid(k[2].tx) THEN {<<"hash", Executed(k[2].tx)>>} ELSE {<<RpcErr, rollup>>}

(* A sub request that failed ends the request without another run. *)
Answered(c, k, v) ==
  calls' = [calls EXCEPT ![c] = IF v = RpcErr THEN Ended ELSE [@ EXCEPT !.subs[k] = v]]

Answer(c, k) ==
  /\ calls[c].st = "waiting" /\ calls[c].subs[k] = Pending
  /\ \E w \in Answers(k) : rollup' = w[2] /\ Answered(c, k, w[1])
  /\ UNCHANGED <<zk, disk, changes, moved>>

Lose(c, k) ==
  /\ calls[c].st = "waiting" /\ calls[c].subs[k] = Pending
  /\ Answered(c, k, RpcErr)
  /\ UNCHANGED <<zk, disk, rollup, changes, moved>>

(* Another device of the user, or somebody who deposits for them; fees rise. *)
Others ==
  /\ changes < MaxChanges /\ changes' = changes + 1
  /\ \/ \E a \in rollup.open : rollup' = [rollup EXCEPT !.nonce[a] = @ + 1]
     \/ \E a \in DOMAIN Ids \ rollup.open : rollup' = [rollup EXCEPT !.open = @ \cup {a}]
     \/ rollup.fee < MaxFee /\ rollup' = [rollup EXCEPT !.fee = @ + 1]
  /\ UNCHANGED <<zk, disk, calls, moved>>

(* The client is freed, with its requests, and made again. *)
Restart ==
  /\ changes < MaxChanges /\ changes' = changes + 1
  /\ zk' \in {Configured(o) : o \in Configs}
  /\ calls' = [c \in Call |-> IF calls[c].st = "waiting" THEN Ended ELSE calls[c]]
  /\ UNCHANGED <<disk, rollup, moved>>

(* config_set in a client that is running: neither the id nor the key of the  *)
(* account before is forgotten.                                               *)
SetAccount(a) ==
  /\ changes < MaxChanges /\ changes' = changes + 1
  /\ a # zk.account /\ zk' = [zk EXCEPT !.account = a] /\ moved' = TRUE
  /\ UNCHANGED <<disk, rollup, calls>>

Next ==
  \/ \E c \in Call : \/ \E a \in Asks[c] : Start(c, a)
                      \/ Resume(c)
                      \/ \E k \in DOMAIN calls[c].subs : Answer(c, k) \/ Lose(c, k)
  \/ Others \/ Restart
  \/ \E a \in NewAccounts : SetAccount(a)

Spec == Init /\ [][Next]_vars

-----------------------------------------------------------------------------
(* Properties *)

Subs(c, m) == {k \in DOMAIN calls[c].subs : k[1] = m}

(* What a request submits is what the user asked for, with the fee and the    *)
(* nonce that this very request was told, and both signatures are over it,    *)
(* although other requests change the configuration between its runs.         *)
Text(t) == IF t.type = "set_key" THEN <<t.hash, t.nonce, t.id>> ELSE create_human_readable_tx_info(t)
SubmittedAgrees ==
  \A c \in Call : \A k \in Subs(c, "tx_submit") :
    LET p == k[2]
        t == k[2].tx
        a == calls[c].ask
    IN  /\ p.l2[2] = t
        /\ p.eth = None \/ p.eth = <<t.from, Text(t)>>
        /\ a.m # "set_key" => /\ t.type = a.m /\ t.to = a.to /\ t.token = a.token /\ t.amount = a.amount
                              /\ t.fee = IF a.fee # None THEN a.fee ELSE calls[c].subs[<<"fee", a.m, a.to, a.token>>]
                              /\ a.nonce # None => t.nonce = a.nonce
        /\ ~moved /\ (a.m = "set_key" \/ a.nonce = None) =>
             \E i \in Subs(c, "account_info") : i[2] = t.from /\ calls[c].subs[i].nonce = t.nonce

(* A request submits one transaction, and the user signs it once. *)
OncePerCall ==
  \A c \in Call : /\ Cardinality(Subs(c, "tx_submit")) <= 1
                  /\ ~moved => Cardinality(Subs(c, "deposit")) <= 1 /\ Cardinality(Subs(c, "sign")) <= 2

(* The id of a transaction is the one of its sender, and so is the id in the  *)
(* cache, as long as nobody sets another account in a client that is running. *)
IdIsOwn ==
  ~moved => /\ \A a \in DOMAIN disk.ids : disk.ids[a] = Ids[a]
            /\ \A c \in Call : \A k \in Subs(c, "tx_submit") : k[2].tx.id = Ids[k[2].tx.from]

(* What is stored was read to its end: a restart heals a broken answer. *)
DiskIsGood == disk.tokens \in {None, "all"} /\ disk.contracts \in {None, "both"}

ZkSyncAgrees == SubmittedAgrees /\ OncePerCall /\ IdIsOwn /\ DiskIsGood
=============================================================================
