------------------------------ MODULE MCWallet ------------------------------
(***************************************************************************)
(* The parts of the client that keep state of their own and are driven by   *)
(* the user, checked side by side: transactions and their signatures, the   *)
(* configuration and the plugins, the keys and the names of accounts, the   *)
(* filters, the zksync plugin, the payments for requests and the devices    *)
(* that are rented.  A behaviour is one of a single part, the others do not *)
(* move.                                                                    *)
(***************************************************************************)
EXTENDS Filters, FiniteSets, TLC

CONSTANTS o1, o2, o3, ext, Safe, Pending, RpcErr, k1, r1, r2, n1, n2, n3, d1, d2, g1, g2, s1, s2, low

VARIABLES part
VARIABLES safe, local, keys, ms, chain, kind, tx, subs, cache, status, out, asked, nonces, parent, sent, requests
VARIABLES default_registry, client, plugins, acts, pending, inits, terms, fresh, changes
VARIABLES zk, disk, rollup, calls, turns, moved
VARIABLES inc, payed, preselect, bills, paid, restarts
VARIABLES now, devices, last, at, receipt, blocks, open, since, doubled, lost
VARIABLES signers, jsons, told, contracts, names, lookups, said, moves

signVars     == <<safe, local, keys, ms, chain, kind, tx, subs, cache, status, out, asked, nonces, parent, sent, requests>>
clientVars   == <<default_registry, client, plugins, acts, pending, inits, terms, fresh, changes>>
zkVars       == <<zk, disk, rollup, calls, turns, moved>>
payVars      == <<inc, payed, preselect, bills, paid, restarts>>
keyVars      == <<signers, jsons, told>>
ensVars      == <<contracts, names, lookups, said, moves>>
usnVars      == <<now, devices, last, at, receipt, blocks, open, since, doubled, lost>>

(* Transactions as the user gives them: with and without a sender, a nonce, a *)
(* gas price, a token, a function, and signatures of owners.                  *)
Base == [type |-> 0, nonce |-> None, price |-> None, tip |-> None, maxfee |-> None, acl |-> FALSE, to |-> ext, value |-> 3,
         data |-> <<>>, token |-> None, fn |-> None, from |-> o1, sigs |-> <<>>]
Passed == [Base EXCEPT !.from = ext, !.price = 5, !.nonce = 9,
             !.sigs = <<[v |-> 1, a |-> o2], [v |-> 0, a |-> o2], [v |-> 1, a |-> ext], [v |-> 28, a |-> o3], [v |-> 1, a |-> o3]>>]
UserAsks ==
  {<<"send", t>> : t \in {Base, Passed, [Base EXCEPT !.from = None, !.price = 5, !.sigs = <<[v |-> 27, a |-> o2]>>], [Base EXCEPT !.token = "symbol"],
                          [Base EXCEPT !.type = 2, !.data = <<"code">>, !.fn = "fn"]}}
  \cup {<<"sendAndWait", [Base EXCEPT !.token = "token", !.nonce = 9]>>, <<"signTx", [Base EXCEPT !.nonce = 9]>>,
        <<"prepareTx", [Base EXCEPT !.fn = "fn", !.price = 5, !.sigs = <<[v |-> 5, a |-> o2]>>]>>,
        <<"signData", [Base EXCEPT !.from = Safe]>>, <<"signData", [Base EXCEPT !.from = None]>>,
        <<"signHash", [Base EXCEPT !.from = Safe]>>, <<"signHash", [Base EXCEPT !.from = "key"]>>}
S == INSTANCE Signing WITH Asks <- UserAsks, Owners <- <<o1, o2, o3>>, Threshold <- 3, SafeAddr <- Safe, GivenKey <- "key", Accounts <- {o1, o3},
       MaxChain <- 1, MaxRequests <- 2

(* Configurations: tokens with their type and value. *)
T(k, t, v) == <<k, t, v>>
UserConfigs ==
  {<<T("autoUpdateList", "bool", FALSE)>>, <<T("includeCode", "int", 1)>>, <<T("chainId", "str", 153), T("maxAttempts", "int", 0)>>,
   <<T("signatureCount", "int", 2), T("finality", "int", 70000)>>, <<T("chainType", "str", "eth"), T("chainId", "int", 99)>>,
   <<T("nodeProps", "props", <<3, 5>>), T("replaceLatestBlock", "int", 8)>>, <<T("requestCount", "int", 3), T("proof", "str", "full")>>,
   <<T("rpc", "str", "url")>>, <<T("chainId", "int", 1), T("verifiedHashes", "arr", <<"h">>)>>, <<T("pk", "bytes", 1), T("unknown", "int", 1)>>,
   <<T("nodeRegistry", "obj", <<T("contract", "bytes", 0), T("whiteListContract", "bytes", 7), T("registry", "bytes", 0), T("whiteList", "arr", <<1, 2>>)>>)>>,
   <<T("nodeRegistry", "obj", <<T("nodeList", "arr", <<"n1", "n2">>), T("needsUpdate", "bool", FALSE), T("whiteList", "arr", <<1, 1>>)>>)>>,
   <<T("nodeRegistry", "obj", <<T("whiteList", "arr", <<1, 2>>), T("avgBlockTime", "int", 9)>>)>>}
PluginActs == [nodeselect |-> {"init", "term", "verify", "config_set", "config_get"}, pk_rpc |-> {"config_set", "rpc"},
               handle_cache |-> {"cache", "term"}, zksync |-> {"rpc", "init", "term", "config_set"}]
C == INSTANCE Client WITH Configs <- UserConfigs, Fn <- DOMAIN PluginActs, ActsOf <- PluginActs,
       OwnData <- {"nodeselect", "handle_cache", "zksync"}, Replaces <- {"pk_rpc", "handle_cache"},
       RequestChains <- {153}, MaxRequests <- 2, MaxData <- 2, MaxDefaults <- 1, MaxChanges <- 2, Failing <- {"zksync"}

(* The options of filters: all blocks, from the latest on, of one block, not readable. *)
O(f, t) == [from |-> f, to |-> t, hash |-> None, addr |-> <<>>, topics |-> <<>>]
FilterOptions == {O(None, None), O(Latest, None), O(2, 2), [O(None, None) EXCEPT !.topics = <<<<None>>, <<Bad, 1>>>>]}

(* Requests to zksync: payments, keys and what is read, by an account of the  *)
(* signer, by a contract with a key, and by a contract of several members     *)
(* that is not deployed; the second request sets another key meanwhile.       *)
ZkAsk(m) == [m |-> m, to |-> None, token |-> "ETH", amount |-> 3, fee |-> None, nonce |-> None, key |-> None, approve |-> FALSE]
ZkAsks ==
  {[ZkAsk("transfer") EXCEPT !.to = o2], [ZkAsk("withdraw") EXCEPT !.to = o2, !.fee = 7, !.nonce = 0],
   ZkAsk("set_key"), [ZkAsk("set_key") EXCEPT !.key = k1], [ZkAsk("deposit") EXCEPT !.token = "DAI", !.approve = TRUE],
   ZkAsk("emergency_withdraw"), ZkAsk("pubkey"), ZkAsk("pubkeyhash"), ZkAsk("contract_address")}
ZkConfig(a, s, k, g) == [account |-> a, sign_type |-> s, key |-> k, musig |-> g]
ZkConfigs == {ZkConfig(None, "pk", None, FALSE), ZkConfig(o2, "contract", k1, FALSE), ZkConfig(None, "create2", None, TRUE)}
NotDeployed == <<"create2", <<"hash", <<"group">>>>>>
Z == INSTANCE ZkSync WITH Asks <- <<ZkAsks, {[ZkAsk("set_key") EXCEPT !.key = k1]}>>, Call <- {1, 2}, Configs <- ZkConfigs,
       Accounts <- <<o1>>, NewAccounts <- {o2}, Ids <- (NotDeployed :> 13) @@ (o1 :> 11) @@ (o2 :> 12), Opened <- {o1, NotDeployed},
       Tokens <- [ETH |-> <<"zero">>, DAI |-> <<"dai">>], Leading <- {"ETH"}, MaxFee <- 2, Mainnet <- TRUE, Cache <- TRUE, MaxChanges <- 1, changes <- turns

(* Offers of nodes: in another token, too dear, with a price that wraps, and  *)
(* without an amount, and one without an address.                             *)
Price(t, a) == [token |-> t, amount |-> a]
Units(n, p) == [amount |-> n, price |-> p, to |-> "node"]
PayOffers ==
  {[id |-> 4, nonce |-> 1, list |-> <<Units(10, <<Price("DAI", 1)>>), Units(20, <<Price("DAI", 3), Price("ETH", 2)>>), Units(20, <<Price("ETH", 1)>>)>>],
   [id |-> 4, nonce |-> 2, list |-> <<Units(1000, <<Price("ETH", 50)>>)>>],
   [id |-> 4, nonce |-> 2, list |-> <<Units(10, <<Price("ETH", 90)>>)>>],
   [id |-> 4, nonce |-> 2, list |-> <<Units(10, <<Price("ETH", 30)>>), Units(0, <<Price("ETH", 1)>>)>>],
   [id |-> 5, nonce |-> 3, list |-> <<[Units(10, <<Price("ETH", 1)>>) EXCEPT !.to = None]>>]}
PAY == INSTANCE ZkPay WITH Node <- {n1, n2, n3}, Req <- {1, 2, 3}, Offers <- PayOffers, Signer <- "signer", Token <- "ETH", MaxPrice <- 5,
       PayedNodes <- 2, Cache <- TRUE, LongMod <- 8192, MaxTries <- 2, MaxRestarts <- 1, reqs <- bills

(* Two devices, and one whose nodes are behind. *)
USN2 == INSTANCE Usn WITH Device <- {d1, d2}, User <- {o1}, MaxTime <- 3, MaxBlocks <- 2, Lag <- 0
USN1 == INSTANCE Usn WITH Device <- {d1}, User <- {o1}, MaxTime <- 3, MaxBlocks <- 3, Lag <- 1

(* Keys, one of them in a list with one that is too short and twice in a      *)
(* mnemonic.                                                                  *)
KEYS == INSTANCE PkSigner WITH Pk <- {o1, o2}, Mnemonics <- {<<o1, o2>>}, KeyLists <- {<<o1>>, <<o2, RpcErr, o1>>, <<>>}, Bad <- RpcErr, MaxSigners <- 4

(* Two registries with a resolver each, of which one knows no address. *)
ENS == INSTANCE Ens WITH Name <- {o1}, Resolver <- {s1, s2}, Address <- {o2, low}, Zero <- ext, Low <- {low}, Registry <- {g1, g2}, Default <- g1,
         Registered <- (<<g1, "resolver">> :> s1) @@ (<<g2, "resolver">> :> s2) @@ (<<g1, "owner">> :> o2) @@ (<<s1, "addr">> :> o2),
         Call <- {1, 2}, MaxChanges <- 1, cache <- names, reqs <- lookups, changes <- moves

Parts == {"signing", "client", "filters", "zksync", "pay", "devices", "device", "keys", "ens"}

(* A part that does not move starts in one state. *)
SuiteInit ==
  /\ part \in Parts
  /\ S!Init /\ C!Init /\ Init /\ Z!Init /\ PAY!Init /\ KEYS!Init /\ ENS!Init
  /\ IF part = "devices" THEN USN2!Init ELSE USN1!Init
  /\ part # "signing" => ~safe /\ ~local
  /\ part # "zksync" => zk.sign_type = "pk"

SuiteNext ==
  /\ UNCHANGED part
  /\ \/ part = "signing" /\ S!Next /\ UNCHANGED <<clientVars, vars, zkVars, payVars, usnVars, keyVars, ensVars>>
     \/ part = "client" /\ C!Next /\ UNCHANGED <<signVars, vars, zkVars, payVars, usnVars, keyVars, ensVars>>
     \/ part = "filters" /\ Next /\ UNCHANGED <<signVars, clientVars, zkVars, payVars, usnVars, keyVars, ensVars>>
     \/ part = "zksync" /\ Z!Next /\ UNCHANGED <<signVars, clientVars, vars, payVars, usnVars, keyVars, ensVars>>
     \/ part = "pay" /\ PAY!Next /\ UNCHANGED <<signVars, clientVars, vars, zkVars, usnVars, keyVars, ensVars>>
     \/ part = "devices" /\ USN2!Next /\ UNCHANGED <<signVars, clientVars, vars, zkVars, payVars, keyVars, ensVars>>
     \/ part = "device" /\ USN1!Next /\ UNCHANGED <<signVars, clientVars, vars, zkVars, payVars, keyVars, ensVars>>
     \/ part = "keys" /\ KEYS!Next /\ UNCHANGED <<signVars, clientVars, vars, zkVars, payVars, usnVars, ensVars>>
     \/ part = "ens" /\ ENS!Next /\ UNCHANGED <<signVars, clientVars, vars, zkVars, payVars, usnVars, keyVars>>

SuiteSpec == SuiteInit /\ [][SuiteNext]_<<part, signVars, clientVars, vars, zkVars, payVars, usnVars, keyVars, ensVars>>

-----------------------------------------------------------------------------
(* in3_configure, in3_get_config, in3_plugin_register, in3_plugin_init: what  *)
(* in3_get_config returns configures another client the same way, after any   *)
(* sequence of configurations, refused ones included; and every plugin's data *)
(* is initialised before a request uses it and freed once.                    *)
ClientKeeps == part = "client" => C!ConfigRoundTrips /\ C!PluginsEndOnce

(* eth_sendTransaction: what is sent is what the user asked for, signed over  *)
(* one message and sent once, although the handler runs again for every       *)
(* answer it waits for and gas price and nonce change meanwhile; and what is  *)
(* sent for a multisig (gs_create_contract_signature) has enough signatures,  *)
(* all of owners of the contract, of which the first is not repeated.         *)
(* signer.c: whoever was told of an account can sign with it from then on,    *)
(* and nobody signs for another one.                                          *)
SentAsAsked ==
  /\ part = "signing" => S!SentIsAsked /\ S!OneMessage /\ S!SentOnce /\ S!SafeIsUnlocked
  /\ part = "keys" => KEYS!KeysSign

(* zksync_transfer, zksync_set_key, zksync_deposit: a request submits one     *)
(* transaction, the one the user asked for, with the nonce and the fee this   *)
(* request was told and its sender's id, and all signatures are over it,      *)
(* although other requests, answers and restarts change the shared            *)
(* configuration between its runs; and only answers that could be read to     *)
(* their end are stored.  zksync_check_payment: a request is paid for once,   *)
(* within the user's limit, whatever nodes ask for, and only nodes that were  *)
(* paid are preselected.                                                      *)
ZkSyncAgrees == (part = "zksync" => Z!ZkSyncAgrees) /\ (part = "pay" => PAY!PaymentsAgree)

(* usn_update_state, usn_verify_message: after an update, whichever of its    *)
(* requests failed and however the chain moved between them, the handler of a *)
(* device was told last of the booking that is running, or of an end; what    *)
(* the device knows is not older than the block it checked last; and who      *)
(* names the transaction he rented with may act on the device he rented, or   *)
(* on another one while that receipt is kept, and nobody else with it.        *)
(* ens_resolve: a name is what registry and resolver said while it was        *)
(* looked up, although they change between the calls.                         *)
ChainIsFollowed ==
  /\ part = "devices" => USN2!DevicesFollow
  /\ part = "device" => USN1!DevicesFollow
  /\ part = "ens" => ENS!NamesResolve
=============================================================================
