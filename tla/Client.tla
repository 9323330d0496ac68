------------------------------- MODULE Client -------------------------------
(***************************************************************************)
(* The client itself: client_init.c, the configuration of the node list in *)
(* nodeselect_def.c, in3_config of core_api.c, what a request sets up in   *)
(* request.c and what client.c makes of its end.  A configuration is a     *)
(* sequence of tokens <<key, type, value>>.                                *)
(***************************************************************************)
EXTENDS Integers, Sequences, FiniteSets, TLC, SequencesExt

CONSTANTS
  Configs,       \* configurations a user may give
  Fn,            \* functions of plugins, with what they are registered for:
  ActsOf,        \*   the actions,
  OwnData,       \*   functions that get data of their own each time,
  Replaces,      \*   functions that replace a plugin of the same actions
  RequestChains, \* chains requests may ask for, 0 for the client's
  Failing,       \* functions whose initialisation may fail
  MaxRequests, MaxData, MaxDefaults, MaxChanges, \* bounds
  None

VARIABLES
  default_registry,  \* functions each new client is given, in order
  client,            \* in3_t: options, chain, node list, wrapper
  plugins,           \* its plugins: [fn, data, acts]
  acts,              \* plugin_acts
  pending,           \* number of requests
  inits, terms,      \* how often data of a plugin was initialised, terminated
  fresh,             \* data handed out so far
  changes            \* configurations so far

vars == <<default_registry, client, plugins, acts, pending, inits, terms, fresh, changes>>

Mainnet == 1
Local == 17
Btc == 153
Supported == {Mainnet, Local, Btc}
ChainTypeOf(id) == IF id \in {Mainnet, Local} THEN "eth" ELSE IF id = Btc THEN "btc" ELSE "generic"

Flags == {"autoUpdateList", "includeCode", "useHttp"}
Numbers == [signatureCount |-> 255, finality |-> 65535, maxAttempts |-> 65535, timeout |-> 1000000000, maxVerifiedHashes |-> 65535]
NodeNumbers == [requestCount |-> 255, minDeposit |-> 1000000000, nodeLimit |-> 65535]
FlagOrder == <<"autoUpdateList", "includeCode", "useHttp">>
NumberOrder == <<"signatureCount", "finality", "maxAttempts", "maxVerifiedHashes", "timeout">>
NodeOrder == <<"requestCount", "minDeposit", "nodeLimit">>
AtLeastOne == {"maxAttempts", "requestCount"}

-----------------------------------------------------------------------------
(* The node list: shared with other clients until its configuration changes. *)
NewList(id) == [chain |-> id, shared |-> TRUE, contract |-> FALSE, registry |-> FALSE, white |-> None, upd |-> TRUE,
                avg |-> IF id = Mainnet THEN 15 ELSE 5, nodes |-> <<>>]

(* init_boot_nodes, for chains with a configuration of their own. *)
BootList(id) == IF id \in Supported THEN [NewList(id) EXCEPT !.contract = TRUE, !.registry = TRUE, !.nodes = <<"boot">>] ELSE NewList(id)

NewClient(id) ==
  [opt |-> [autoUpdateList |-> TRUE, includeCode |-> FALSE, useHttp |-> FALSE, signatureCount |-> 0, finality |-> 0,
            maxAttempts |-> 7, timeout |-> 10000, maxVerifiedHashes |-> 5, proof |-> "standard", replaceLatestBlock |-> 0,
            requestCount |-> 1, minDeposit |-> 0, nodeLimit |-> 0],
   id |-> id, type |-> ChainTypeOf(id), others |-> <<>>, hashes |-> 0, list |-> NewList(id), low |-> 0, depth |-> 0]

Ok(c) == [c |-> c, err |-> FALSE]
Err(c) == [c |-> c, err |-> TRUE]
Try(cond, c, d) == IF cond THEN Ok(d) ELSE Err(c)

IsNumber(tok, max) == tok[2] = "int" /\ tok[3] \in 0..max /\ (tok[1] \in AtLeastOne => tok[3] > 0)

(* in3_client_register_chain *)
RegisterChain(c) == [c EXCEPT !.hashes = 0]

HasKey(tokens, k) == \E i \in DOMAIN tokens : tokens[i][1] = k
TokenOf(tokens, k) == tokens[CHOOSE i \in DOMAIN tokens : tokens[i][1] = k]

(* chainId: a type may be given next to it; bitcoin gets a finality; a chain  *)
(* that changes gets the list of the new one.                                 *)
SetChain(c, tok, tokens) ==
  LET ct == IF HasKey(tokens, "chainType") THEN TokenOf(tokens, "chainType")[3] ELSE ChainTypeOf(tok[3])
  IN  IF (tok[2] = "str" /\ tok[3] = 0) \/ ct = "bad" THEN Err(c)
      ELSE Ok(RegisterChain([c EXCEPT !.id = tok[3], !.type = ct,
                !.opt.finality = IF tok[3] = Btc /\ @ = 0 /\ ~HasKey(tokens, "finality") THEN 7 ELSE @,
                !.list = IF tok[3] # c.id THEN BootList(tok[3]) ELSE @]))

-----------------------------------------------------------------------------
(* config_set of the node list *)

(* nodelist_seperate_from_registry *)
Separate(c) == IF c.list.shared THEN [c EXCEPT !.list = [NewList(c.list.chain) EXCEPT !.shared = FALSE]] ELSE c

Unique(s) == Cardinality(Range(s)) = Len(s)

(* One member of nodeRegistry; wl is the kind of white list it had so far. *)
SetRegistryPart(s, p) ==
  IF s.err THEN s
  ELSE CASE p[1] \in {"contract", "registry"} -> [s EXCEPT !.err = p[2] # "bytes", !.c.list[p[1]] = @ \/ p[2] = "bytes"]
         [] p[1] = "whiteListContract" ->
              IF p[2] # "bytes" \/ s.wl = "manual" THEN [s EXCEPT !.err = TRUE]
              ELSE [s EXCEPT !.wl = "contract", !.c.list.white = <<"contract", p[3]>>]
         [] p[1] = "whiteList" ->
              IF p[2] # "arr" \/ s.wl = "contract" THEN [s EXCEPT !.err = TRUE]
              ELSE IF ~Unique(p[3]) THEN [s EXCEPT !.err = TRUE, !.c.list.white = None]
              ELSE [s EXCEPT !.wl = "manual", !.c.list.white = <<"manual", p[3]>>]
         [] p[1] = "needsUpdate" -> IF p[2] # "bool" THEN [s EXCEPT !.err = TRUE] ELSE [s EXCEPT !.c.list.upd = p[3]]
         [] p[1] = "avgBlockTime" -> IF p[2] # "int" THEN [s EXCEPT !.err = TRUE] ELSE [s EXCEPT !.c.list.avg = p[3]]
         [] p[1] = "nodeList" -> IF p[2] # "arr" THEN [s EXCEPT !.err = TRUE] ELSE [s EXCEPT !.c.list.nodes = p[3]]

SetRegistry(c, tok) ==
  LET s == FoldLeft(SetRegistryPart, [c |-> Separate(c), err |-> FALSE, wl |-> None], tok[3])
  IN  IF tok[2] # "obj" THEN Err(c)
      ELSE [c |-> s.c, err |-> s.err \/ ~(c.id \in Supported \/ (s.c.list.contract /\ s.c.list.registry))]

(* rpc: one node without proof, on the local chain; nobody is told of the chain. *)
SetRpc(c, tok) ==
  Try(tok[2] = "str", c,
      [Separate(c) EXCEPT !.opt.proof = "none", !.opt.signatureCount = 0, !.opt.requestCount = 1, !.id = Local,
                          !.list.nodes = <<tok[3]>>, !.list.upd = FALSE])

NodeKeys == DOMAIN NodeNumbers \cup {"replaceLatestBlock", "nodeProps", "nodeRegistry", "rpc"}
NodesConfigSet(c, tok) ==
  CASE tok[1] \in DOMAIN NodeNumbers -> IF IsNumber(tok, NodeNumbers[tok[1]]) THEN Ok([c EXCEPT !.opt[tok[1]] = tok[3]]) ELSE Err(c)
    [] tok[1] = "replaceLatestBlock" ->
         IF IsNumber(tok, 255) THEN Ok([c EXCEPT !.opt.replaceLatestBlock = tok[3], !.depth = tok[3]]) ELSE Err(c)
    [] tok[1] = "nodeProps" -> Try(tok[2] = "props", c, [c EXCEPT !.low = tok[3][1], !.depth = tok[3][2]])
    [] tok[1] = "nodeRegistry" -> SetRegistry(c, tok)
    [] tok[1] = "rpc" -> SetRpc(c, tok)

-----------------------------------------------------------------------------
(* in3_plugin_execute_first, and the same loop in in3_configure: the first    *)
(* plugin for an action that does not ignore it; says is what each returns.   *)
in3_plugin_execute_first(ps, act, says) ==
  LET hit == {i \in DOMAIN ps : act \in ps[i].acts /\ says[ps[i].fn] # "ignore"}
  IN  IF hit = {} THEN "none" ELSE says[ps[CHOOSE i \in hit : \A j \in hit : i <= j].fn]

Says(fn, key) == IF fn = "nodeselect" /\ key \in NodeKeys THEN "nodes" ELSE IF fn = "pk_rpc" /\ key = "pk" THEN "key" ELSE "ignore"

(* An option the client does not know goes to the plugins. *)
PluginConfigSet(c, ps, tok) ==
  LET who == in3_plugin_execute_first(ps, "config_set", [fn \in Fn |-> Says(fn, tok[1])])
  IN  CASE who = "nodes" -> NodesConfigSet(c, tok)
        [] who = "key" -> Try(tok[2] = "bytes", c, c)
        [] who = "none" -> Err(c)

(* verifiedHashes: the table is there afterwards, also when an entry of it is not valid. *)
SetHashes(c, tok) ==
  IF tok[2] # "arr" \/ Len(tok[3]) > c.opt.maxVerifiedHashes THEN Err(c)
  ELSE Try(\A i \in DOMAIN tok[3] : tok[3][i] # "bad", [c EXCEPT !.hashes = Len(tok[3])], [c EXCEPT !.hashes = Len(tok[3])])

SetToken(s, tok, tokens, ps) ==
  IF s.err THEN s
  ELSE CASE tok[1] \in Flags -> Try(tok[2] = "bool", s.c, [s.c EXCEPT !.opt[tok[1]] = tok[3]])
         [] tok[1] \in DOMAIN Numbers -> IF IsNumber(tok, Numbers[tok[1]]) THEN Ok([s.c EXCEPT !.opt[tok[1]] = tok[3]]) ELSE Err(s.c)
         [] tok[1] = "proof" -> Try(tok[2] = "str" /\ tok[3] \in {"none", "standard", "full"}, s.c, [s.c EXCEPT !.opt.proof = tok[3]])
         [] tok[1] = "chainType" -> s
         [] tok[1] = "chainId" -> SetChain(s.c, tok, tokens)
         [] tok[1] = "verifiedHashes" -> SetHashes(s.c, tok)
         [] OTHER -> PluginConfigSet(s.c, ps, tok)

(* in3_configure: what comes before an option that is not valid stays; the    *)
(* default of replaceLatestBlock does not get to the node list.               *)
in3_configure(c, ps, tokens) ==
  LET s == FoldLeft(LAMBDA r, tok : SetToken(r, tok, tokens, ps), Ok(c), tokens)
  IN  IF ~s.err /\ s.c.opt.signatureCount > 0 /\ s.c.id # Local /\ s.c.opt.replaceLatestBlock = 0
      THEN Ok([s.c EXCEPT !.opt.replaceLatestBlock = 6]) ELSE [s EXCEPT !.err = @ \/ s.c.id = 0]

Tok(k, t, v) == <<k, t, v>>

(* config_get: a white list is given by its contract, whoever made it, and    *)
(* nodes are listed only when there are some.                                 *)
config_get(c) ==
  (IF c.id = Local THEN <<Tok("rpc", "str", c.list.nodes[1])>> ELSE <<>>) \o
  [i \in DOMAIN NodeOrder |-> Tok(NodeOrder[i], "int", c.opt[NodeOrder[i]])] \o
  <<Tok("nodeProps", "props", <<c.low, c.depth>>),
    Tok("nodeRegistry", "obj",
        (IF c.list.contract THEN <<Tok("contract", "bytes", 0)>> ELSE <<>>) \o
        (IF c.list.white = None THEN <<>>
         ELSE <<Tok("whiteListContract", "bytes", IF c.list.white[1] = "contract" THEN c.list.white[2] ELSE 0)>>) \o
        (IF c.list.registry THEN <<Tok("registry", "bytes", 0)>> ELSE <<>>) \o
        <<Tok("needsUpdate", "bool", c.list.upd), Tok("avgBlockTime", "int", c.list.avg)>> \o
        (IF c.list.nodes = <<>> THEN <<>> ELSE <<Tok("nodeList", "arr", c.list.nodes)>>))>>

(* Mutant: the chain is named last. *)
GetChainLast(c, ps) ==
  [i \in DOMAIN FlagOrder |-> Tok(FlagOrder[i], "bool", c.opt[FlagOrder[i]])] \o
  [i \in DOMAIN NumberOrder |-> Tok(NumberOrder[i], "int", c.opt[NumberOrder[i]])] \o
  <<Tok("proof", "str", c.opt.proof)>> \o
  (IF c.opt.replaceLatestBlock = 0 THEN <<>> ELSE <<Tok("replaceLatestBlock", "int", c.opt.replaceLatestBlock)>>) \o
  config_get(c) \o <<Tok("chainId", "int", c.id)>>

in3_get_config(c, ps) ==
  <<Tok("chainId", "int", c.id)>> \o
  [i \in DOMAIN FlagOrder |-> Tok(FlagOrder[i], "bool", c.opt[FlagOrder[i]])] \o
  [i \in DOMAIN NumberOrder |-> Tok(NumberOrder[i], "int", c.opt[NumberOrder[i]])] \o
  <<Tok("proof", "str", c.opt.proof)>> \o
  (IF c.opt.replaceLatestBlock = 0 THEN <<>> ELSE <<Tok("replaceLatestBlock", "int", c.opt.replaceLatestBlock)>>) \o
  (IF \E i \in DOMAIN ps : ps[i].fn = "nodeselect" THEN config_get(c) ELSE <<>>)

-----------------------------------------------------------------------------
(* Plugins.  The state of the client's plugins: their list, the actions the   *)
(* client knows of, the data that was handed out and terminated.              *)
Plugged == [list |-> plugins, acts |-> acts, terms |-> terms, fresh |-> fresh]

Data(s, fn) == IF fn \in OwnData THEN s.fresh + 1 ELSE 0
Term(s, p) == IF "term" \in p.acts /\ p.data # 0 THEN [s EXCEPT !.terms[p.data] = @ + 1] ELSE s

(* Mutant: the data of the plugin that is replaced is forgotten. *)
RegisterForgets(s, fn) ==
  LET hit == {i \in DOMAIN s.list : fn \in Replaces /\ s.list[i].acts = ActsOf[fn]}
      r == [s EXCEPT !.fresh = IF fn \in OwnData THEN @ + 1 ELSE @]
      new == [fn |-> fn, data |-> Data(s, fn), acts |-> ActsOf[fn]]
  IN  IF hit = {} THEN [r EXCEPT !.list = Append(@, new), !.acts = @ \cup ActsOf[fn]]
      ELSE [r EXCEPT !.list[CHOOSE i \in hit : TRUE] = new]

(* in3_plugin_register: the first plugin of the same actions is replaced, a   *)
(* second one of the same function without data is not needed.                *)
in3_plugin_register(s, fn) ==
  LET same(i) == fn \in Replaces /\ s.list[i].acts = ActsOf[fn]
      hit == {i \in DOMAIN s.list : same(i) \/ (s.list[i].fn = fn /\ Data(s, fn) = 0 /\ s.list[i].data = 0)}
      first == CHOOSE i \in hit : \A j \in hit : i <= j
      r == [s EXCEPT !.fresh = IF fn \in OwnData THEN @ + 1 ELSE @]
      new == [fn |-> fn, data |-> Data(s, fn), acts |-> ActsOf[fn]]
  IN  IF fn = "nodeselect" /\ ActsOf[fn] \subseteq s.acts THEN s
      ELSE IF hit = {} THEN [r EXCEPT !.list = Append(@, new), !.acts = @ \cup ActsOf[fn]]
      ELSE IF same(first) THEN [Term(r, s.list[first]) EXCEPT !.list[first] = new]
      ELSE r

(* Mutant: the client forgets that a plugin is not initialised. *)
InitOnlyOnce(ps, fails) ==
  LET todo == {i \in DOMAIN ps : "init" \in ps[i].acts}
      done == {i \in todo : ps[i].fn # fails}
  IN  [list |-> [i \in DOMAIN ps |-> IF i \in done THEN [ps[i] EXCEPT !.acts = @ \ {"init"}] ELSE ps[i]],
       done |-> {ps[i].data : i \in done}, all |-> TRUE]

(* in3_plugin_init: the first one that fails ends it, those before it are done. *)
in3_plugin_init(ps, fails) ==
  LET todo == {i \in DOMAIN ps : "init" \in ps[i].acts}
      stop == {i \in todo : ps[i].fn = fails}
      done == {i \in todo : \A j \in stop : i < j}
  IN  [list |-> [i \in DOMAIN ps |-> IF i \in done THEN [ps[i] EXCEPT !.acts = @ \ {"init"}] ELSE ps[i]],
       done |-> {ps[i].data : i \in done}, all |-> stop = {}]

-----------------------------------------------------------------------------
Init ==
  /\ default_registry = <<>> /\ client = None /\ plugins = <<>> /\ acts = {} /\ pending = 0
  /\ inits = [d \in 1..MaxData |-> 0] /\ terms = [d \in 1..MaxData |-> 0] /\ fresh = 0 /\ changes = 0

(* in3_register_default: a function that is registered again moves to the end. *)
RegisterDefault(fn) ==
  /\ default_registry' = Append(SelectSeq(default_registry, LAMBDA f : f # fn), fn)
  /\ default_registry' # default_registry /\ Len(default_registry') <= MaxDefaults /\ fresh = 0
  /\ UNCHANGED <<client, plugins, acts, pending, inits, terms, fresh, changes>>

TakePlugins(s) == plugins' = s.list /\ acts' = s.acts /\ terms' = s.terms /\ fresh' = s.fresh

(* in3_for_chain_default *)
Create(id) ==
  /\ client = None /\ fresh + Len(default_registry) <= MaxData
  /\ client' = NewClient(id)
  /\ TakePlugins(FoldLeft(in3_plugin_register, [Plugged EXCEPT !.list = <<>>, !.acts = {}], default_registry))
  /\ UNCHANGED <<default_registry, pending, inits, changes>>

Register(fn) ==
  /\ client # None /\ fresh < MaxData
  /\ TakePlugins(in3_plugin_register(Plugged, fn))
  /\ UNCHANGED <<default_registry, client, pending, inits, changes>>

Configure(cfg) ==
  /\ client # None /\ pending = 0 /\ changes < MaxChanges /\ changes' = changes + 1
  /\ client' = in3_configure(client, plugins, cfg).c
  /\ UNCHANGED <<default_registry, plugins, acts, pending, inits, terms, fresh>>

(* in3_config: the request itself is taken out of the count meanwhile. *)
ConfigRpc(cfg) ==
  /\ pending - 1 = 0 /\ changes < MaxChanges /\ changes' = changes + 1
  /\ client' = in3_configure(client, plugins, cfg).c
  /\ pending' = pending - 1
  /\ UNCHANGED <<default_registry, plugins, acts, inits, terms, fresh>>

(* req_new, and in3_get_chain when the answer is verified: a chain the client *)
(* does not know is added, as an ethereum chain unless it is a known other.   *)
NewRequest(id, fails) ==
  /\ client # None /\ pending < MaxRequests
  /\ pending' = pending + 1
  /\ \E p \in {in3_plugin_init(plugins, fails)} :
       /\ plugins' = p.list
       /\ acts' = IF p.all THEN acts \ {"init"} ELSE acts
       /\ inits' = [d \in DOMAIN inits |-> IF d \in p.done THEN inits[d] + 1 ELSE inits[d]]
  /\ client' = IF id \in {0, client.id} \/ \E i \in DOMAIN client.others : client.others[i].id = id THEN client
               ELSE [client EXCEPT !.others = Append(@, [id |-> id, type |-> IF id = Btc THEN "btc" ELSE "eth"])]
  /\ UNCHANGED <<default_registry, terms, fresh, changes>>

EndRequest ==
  /\ pending > 0 /\ pending' = pending - 1
  /\ UNCHANGED <<default_registry, client, plugins, acts, inits, terms, fresh, changes>>

(* in3_free *)
Free ==
  /\ client # None /\ pending = 0
  /\ client' = None /\ plugins' = <<>> /\ acts' = {}
  /\ terms' = FoldLeft(Term, Plugged, plugins).terms
  /\ UNCHANGED <<default_registry, pending, inits, fresh, changes>>

Next ==
  \/ \E fn \in Fn : RegisterDefault(fn) \/ Register(fn)
  \/ \E id \in {Mainnet, Btc} : Create(id)
  \/ \E cfg \in Configs : Configure(cfg)
  \/ \E cfg \in Configs : ConfigRpc(cfg)
  \/ \E id \in RequestChains, f \in Failing \cup {None} : NewRequest(id, f)
  \/ EndRequest \/ Free

-----------------------------------------------------------------------------
(* in3_get_config, in3_configure: a new client that is configured with what   *)
(* in3_get_config says of another one accepts it and has the same options,    *)
(* chain, nodes and registry, whatever was configured in which order, and     *)
(* partly, before.  Not kept: a type of the chain that was given, a white     *)
(* list that was given by hand, options the local rpc sets, a list without a  *)
(* registry on a chain without a default, which is refused, and that          *)
(* replaceLatestBlock is missing after a configuration that failed half way.  *)
ConfigRoundTrips ==
  client # None /\ (\E i \in DOMAIN plugins : plugins[i].fn = "nodeselect") =>
    LET s == in3_configure(NewClient(Mainnet), plugins, in3_get_config(client, plugins))
        Kept(c) == [c EXCEPT !.opt.replaceLatestBlock = IF c.opt.signatureCount > 0 /\ @ = 0 THEN 6 ELSE @, !.type = None, !.others = <<>>, !.hashes = 0, !.list.shared = FALSE,
                             !.list.chain = 0, !.list.white = IF @ # None /\ @[1] = "manual" THEN None ELSE @]
    IN  client.id # Local /\ (client.id \in Supported \/ (client.list.contract /\ client.list.registry)) =>
          /\ ~s.err
          /\ client.list.white = None \/ client.list.white[1] = "contract" => Kept(s.c) = Kept(client)

(* in3_plugin_register, in3_plugin_init, in3_free: data of a plugin is        *)
(* terminated once, when it is replaced or with the client, and not used      *)
(* afterwards; it is initialised once, also when the plugin before it failed  *)
(* to; and the client knows of every action a plugin is there for.            *)
PluginsEndOnce ==
  /\ \A d \in 1..fresh : terms[d] <= 1 /\ inits[d] <= 1
  /\ \A i \in DOMAIN plugins : /\ plugins[i].acts \subseteq acts
                               /\ (plugins[i].data # 0 => terms[plugins[i].data] = 0)
  /\ \A i, j \in DOMAIN plugins : i # j /\ plugins[i].data # 0 => plugins[i].data # plugins[j].data
  /\ client = None => \A d \in 1..fresh : terms[d] = 1
=============================================================================
