---------------------------- MODULE MCAlgorithms ----------------------------
(***************************************************************************)
(* The pure algorithms of the client, each on every input of a small set.  *)
(* A behaviour picks one input; the invariants compare what the code       *)
(* computes for it with a reference.  Besides, the table of the hashes     *)
(* that were verified: its behaviours are those of VerifiedHashes.         *)
(***************************************************************************)
EXTENDS VerifiedHashes, FiniteSets, TLC

CONSTANTS NULL, Unset, A1, A2, A3,  \* for MCEthVerify
          h1, h2

VARIABLES kind, x

(* Two hashes for the first block, one for the others. *)
BlockHashes == <<{h1, h2}, {h1}, {h1}>>

(* The chains are alike. *)
Symmetry == Permutations(Chain)

(* What the proofs assume of the constants. *)
ASSUME ConstantsOK

W == INSTANCE EvmWord WITH Bits <- 2, W <- 2, Long <- 2
R == INSTANCE Rlp WITH Single <- 2, Short <- 2, LenBytes <- 2, AddressLen <- 2, HashLen <- 3, BloomLen <- 4
T == INSTANCE Trie WITH Radix <- 2, HashSize <- 8, MaxDepth <- 8
V == INSTANCE MCEthVerify WITH LongLimit <- 8, Single <- 2, Short <- 2, LenBytes <- 2, AddressLen <- 2, HashLen <- 3, BloomLen <- 4
D == INSTANCE Data WITH Digits <- 3, LongBytes <- 3, MaxDepth <- 2, MaxTokens <- 100
B == INSTANCE BtcTx WITH Base <- 8, ShortLen <- 1, IntLen <- 2, LongLen <- 3, TxHashLen <- 1, HeaderLen <- 2, LenLimit <- 4096
C == INSTANCE ChainSpec WITH Single <- 2, Short <- 2, LenBytes <- 2, AddressLen <- 2, HashLen <- 3, BloomLen <- 4, Flags <- 3, Vanity <- 1, Seal <- 2
A == INSTANCE Abi WITH Word <- 4, Base <- 32, IntLen <- 3, LongLen <- 3, AddrLen <- 3, IntLimit <- 8, DecLimit <- 90
N == INSTANCE NodeList WITH Wide <- A3
K == INSTANCE BtcScript WITH Mask <- 4, TypeFlag <- 16, DisableFlag <- 64

U == INSTANCE Units WITH Base <- 3, LongText <- 5, Units <- [wei |-> 0, kwei |-> 1, eth |-> 3], UnitLen <- 2, NoUnit <- NULL

SeqsUpTo(S, n) == UNION {[1..k -> S] : k \in 0..n}

-----------------------------------------------------------------------------
(* Inputs: words, stacks, code and memory of the EVM. *)
PickWords == /\ kind' = "words"
             /\ \E a, b \in SeqsUpTo(0..3, 2), m \in {<<0>>, <<3>>, <<1, 0>>, <<3, 2>>} : x' = [a |-> a, b |-> b, m |-> m]
PickNumber == kind' = "number" /\ x' \in 0..15
PickStack == kind' = "stack" /\ x' \in SeqsUpTo({<<>>, <<1>>, <<2>>, <<1, 3>>, <<3, 2>>}, 4) \ {<<>>}
PickCode == kind' = "code" /\ x' \in SeqsUpTo(0..3, 4)
PickCopy == /\ kind' = "copy"
            /\ \E at, to \in 0..4, pos, n \in 0..3, src \in {<<>>, <<1>>, <<1, 2, 3>>} :
                 x' = [at |-> at, src |-> src, pos |-> pos, to |-> to, n |-> n]

(* Lists of byte strings and lists, and bytes that nobody encoded. *)
Items == SeqsUpTo({0, 1, 5, 9}, 2) \cup {<<1, 2, 3>>, [i \in 1..11 |-> 1]}
PickList == /\ kind' = "list"
            /\ \E l \in [1..2 -> BOOLEAN], b \in [1..2 -> Items] : x' = [i \in 1..2 |-> [list |-> l[i], bytes |-> b[i]]]
PickBytes == kind' = "bytes" /\ x' \in SeqsUpTo(0..9, 4)

(* Transactions, headers and receipts, with one field exchanged. *)
Fields == {<<>>, <<0>>, <<1>>, <<0, 1>>, <<9, 1>>, <<1, 2, 3>>}
Tx(type) == [type |-> type, chainId |-> <<1>>, nonce |-> <<2>>, gasPrice |-> <<1>>, maxPriorityFeePerGas |-> <<2>>,
             maxFeePerGas |-> <<1>>, gas |-> <<9, 1>>, to |-> <<1, 2>>, value |-> <<>>, input |-> <<0, 1>>,
             v |-> <<1>>, r |-> <<2, 1>>, s |-> <<1>>, accessList |-> <<>>]
Header == [parentHash |-> <<1, 1, 1>>, sha3Uncles |-> <<1, 1, 1>>, miner |-> <<1, 2>>, stateRoot |-> <<2, 1, 1>>,
           transactionsRoot |-> <<1, 1, 1>>, receiptsRoot |-> <<1, 0, 1>>, logsBloom |-> <<0, 0, 0, 1>>, difficulty |-> <<1>>,
           number |-> <<2>>, gasLimit |-> <<1>>, gasUsed |-> <<1>>, timestamp |-> <<1, 1>>, extraData |-> <<0>>,
           mixHash |-> <<1, 1, 1>>, nonce |-> <<1, 2>>, baseFeePerGas |-> <<1>>]
PickTx == kind' = "tx" /\ \E type \in 0..2, f \in DOMAIN Tx(0) \ {"type", "accessList"}, v \in Fields \cup {R!Absent} :
            /\ f = "to" => v \in {<<1>>, <<0, 1>>, <<9, 1>>, R!Absent}
            /\ x' = [tx |-> Tx(type), f |-> f, v |-> v]
Access(a, keys, pair) == [address |-> a, keys |-> keys, pair |-> pair]
Accesses == {Access(a, keys, pair) : a \in {<<1, 2>>, <<2, 1>>}, pair \in BOOLEAN,
                                   keys \in SeqsUpTo({<<1, 2, 3>>, <<3, 2, 1>>, R!Absent}, 2)}
PickAccessList == /\ kind' = "accessList"
                  /\ \E type \in 0..2, l \in SeqsUpTo(Accesses, 1), m \in {<<>>} \cup {<<e, Access(<<1, 2>>, <<>>, TRUE)>> : e \in Accesses} :
                       x' = [tx |-> [Tx(type) EXCEPT !.accessList = l], al |-> m]
PickHeader == kind' = "header" /\ \E f \in DOMAIN Header, v \in Fields : x' = [f |-> f, v |-> v]
Receipt(status, gas, topic, type) ==
  [status |-> status, cumulativeGasUsed |-> gas, logsBloom |-> <<0, 0, 0, 1>>, type |-> type,
   logs |-> <<[address |-> <<1, 2>>, topics |-> topic, data |-> <<1>>]>>]
Receipts == {Receipt(s, g, p, y) : s \in {<<>>, <<1>>}, g \in {<<1>>, <<0, 1>>, <<2>>}, p \in {<<>>, <<<<1, 2, 3>>>>}, y \in 0..2}
PickReceipts == kind' = "receipts" /\ \E r, s \in Receipts : x' = [r |-> r, s |-> s]

(* Tries of up to three keys: with keys of all lengths, and with values that *)
(* are too long to be embedded.                                              *)
LongValue(i) == <<i, 2, 2, 2, 2, 2, 2, 2>>
Pairs(P, S, n) == {[j \in 1..n |-> [key |-> ks[j], value |-> IF (s \div 2^(j - 1)) % 2 = 1 THEN LongValue(j) ELSE <<j>>]] :
                     ks \in [1..n -> P], s \in S}
Paths == [1..3 -> 0..1]
PickTrie == kind' = "trie" /\ \E n \in 1..3 :
              x' \in Pairs({<<>>, <<0>>, <<1>>, <<0, 0>>, <<0, 1>>, <<1, 0, 1>>, <<1, 1, 0>>}, {0, 1, 3, 7}, n)
PickProof == kind' = "proof" /\ \E n \in 1..3 : x' \in Pairs(Paths, {7}, n)

(* JSON values. *)
Hex(s) == <<48, 120>> \o s
Text(v) == [type |-> 1, v |-> v]
Number(v) == [type |-> 5, v |-> v]
Null == [type |-> 6]
Leafs == {Text(Hex(<<>>)), Text(Hex(<<97>>)), Text(Hex(<<48, 49>>)), Text(Hex(<<49, 50, 51, 52>>)), Text(<<49, 50>>),
          Text(<<>>), Text([i \in 1..28 |-> 65]), Number(0), Number(27), Number(28), Number(300), Number(4096),
          [type |-> 4, v |-> 1], Null}
Some == {Number(28), Text(Hex(<<97>>)), Null}
Array(k) == [type |-> 2, kids |-> k]
Object(k) == [type |-> 3, kids |-> [i \in DOMAIN k |-> [k |-> 300 + i, t |-> k[i]]]]
Conts(S) == {Array(k) : k \in SeqsUpTo(S, 2)} \cup {Object(k) : k \in SeqsUpTo(S, 2)}
One(S) == {Array(<<c>>) : c \in S} \cup {Object(<<c>>) : c \in S}
Flat == Leafs \cup Conts(Some)
Tokens(t) == D!parse_json(D!TextOf(t)).toks
Values == {Tokens(l)[1] : l \in {m \in Leafs : m.type # 4}}
            \cup {D!Token(0, 0, 0, b, "text", FALSE) : b \in {<<>>, <<1>>, <<0, 1>>, <<1, 2, 3, 4>>}}
PickTree == /\ kind' = "tree"
            /\ x' \in Leafs \cup Conts(Leafs) \cup One(Conts(Some)) \cup One(One(Conts(Some))) \cup {Array([i \in 1..29 |-> Null])}
PickTokens == kind' = "tokens" /\ (x' \in {Tokens(t) : t \in Flat \cup One(Conts(Some))} \cup {<<t>> : t \in Values})
PickAccess == kind' = "access" /\ \E t \in Values, ops \in SeqsUpTo({"bytes", "bytesl", "string", "long", "num"}, 4) :
                x' = [t |-> t, ops |-> ops]
PickTwo == kind' = "two" /\ \E t, u \in Flat : x' = [a |-> Tokens(t), b |-> Tokens(u)]

(* Bitcoin transactions with scripts and witnesses on both sides of the       *)
(* limits of a varint, pairs of them in a block, and bytes changed in them.   *)
Fill(n) == [i \in 1..n |-> 1]
SomeOf(S, n) == UNION {[1..k -> S] : k \in 1..n}
BtcTxs(Scripts, Wits(_)) ==
  UNION {{[ins |-> i, outs |-> o, wits |-> w, lock |-> 5] :
            i \in [1..n -> Scripts], o \in SomeOf(Scripts, 2), w \in Wits(n)} : n \in 1..2}
LargeTxs == BtcTxs({Fill(n) : n \in {0, 5, 9}},
                   LAMBDA n : {<<>>, [i \in 1..n |-> <<Fill(3), <<>>>>], [i \in 1..n |-> [j \in 1..6 |-> Fill(j)]]})
SmallTxs == BtcTxs({<<>>, <<1>>}, LAMBDA n : {<<>>, [i \in 1..n |-> <<>>], [i \in 1..n |-> <<<<1>>>>]})
TinyTxs == {t \in SmallTxs : Len(t.outs) = 1}
PickBtcTx == kind' = "btctx" /\ x' \in LargeTxs
PickBlock == kind' = "blocktxs" /\ \E t, u \in TinyTxs : x' = <<t, u>>
PickAltered == kind' = "altered" /\ \E t \in SmallTxs, b \in {0, 7} : x' = [t |-> t, tail |-> [i \in 1..4 |-> b]]

(* Scripts of every type with one byte changed, one more or some less. *)
Key(first, n) == <<first>> \o Fill(n - 1)
Keys == {Key(2, 33), Key(3, 33), Key(4, 65), Key(4, 33), Key(2, 65), Key(2, 32)}
Scripts == {K!PayToKey(Key(2, 33)), K!PayToKey(Key(4, 65)), K!PayToKeyHash(Fill(20)), K!PayToScriptHash(Fill(20)),
            K!PayToWitness(0, Fill(20)), K!PayToWitness(0, Fill(32)), K!PayToWitness(81, Fill(32)),
            K!PayToMultisig(1, <<Key(2, 33)>>), K!PayToMultisig(1, <<Key(2, 33), Key(4, 65)>>),
            K!PayToMultisig(2, <<Key(3, 33), Key(2, 33)>>)}
OpBytes == {0, 1, 2, 20, 32, 33, 65, 75, 76, 80, 81, 82, 95, 96, 118, 135, 136, 169, 172, 174}
Changed(s) ==
  {[s EXCEPT ![i] = b] : i \in DOMAIN s \cap ({1, 2, 3, 35, 36} \cup (Len(s) - 2)..Len(s)), b \in OpBytes}
    \cup {Append(s, b) : b \in OpBytes} \cup {SubSeq(s, 1, n) : n \in {0, 1, 2, 5, Len(s) - 2, Len(s) - 1}}
    \cup {SubSeq(s, 1, Len(s) - 2) \o <<1>> \o SubSeq(s, Len(s) - 1, Len(s))}
PickScript == kind' = "script" /\ \E t \in Scripts : x' \in Changed(t)
PickAddress == kind' = "address" /\ \E k \in Keys, t \in Scripts : x' = [k |-> k, s |-> t]
UtxoArgs == {K!NoArgs} \cup {[given |-> TRUE, rlt |-> r, value |-> 5, script |-> s, accounts |-> n] :
              r \in {"none", "block", "time", "other"},
              s \in {<<>>, K!PayToKey(Key(2, 33)), K!PayToMultisig(1, <<Key(2, 33)>>), Fill(521)}, n \in {"missing", "empty", "one"}}
Utxos == {[tx_hash |-> 1, tx_index |-> 1, script |-> t, args |-> a] : t \in Scripts, a \in UtxoArgs}
PickUtxos == /\ kind' = "utxos"
             /\ \/ \E u \in Utxos : x' = <<u>>
                \/ \E u \in {v \in Utxos : ~v.args.given \/ v.args.rlt = "time"}, t \in Scripts :
                     \E v \in {[tx_hash |-> 2, tx_index |-> 0, script |-> t, args |-> K!NoArgs]} : x' \in {<<u, v>>, <<v, u>>}

(* Node lists and white lists: three servers are registered, two were before, *)
(* and one more storage that is of no block.  The list, the values, the       *)
(* storage and the state of an answer may come from different ones.           *)
Server(i, u, w) == [index |-> i, url |-> u, weight |-> w, address |-> u]
Now == <<Server(0, A1, 0), Server(1, A2, 1), Server(2, Unset, 0)>>
Before == SubSeq(Now, 1, 2)
Never == <<Server(0, A1, 1), Server(1, A1, 1), Server(2, A2, 0)>>
Storage(l) == [k \in 0..Len(l) |-> IF k = 0 THEN <<Len(l)>> ELSE N!create_node_hash(l[k])]
ProofOf(l) == [k \in 1..(Len(l) + 1) |-> [key |-> k - 1, value |-> Storage(l)[k - 1]]]
World(l) == [registry |-> Storage(l), white |-> 0 :> <<A1, A2>>]
Answer(l, values, storage, state) ==
  [method |-> "in3_nodeList", type |-> "eth", proves |-> TRUE, contract |-> "registry", whitelist |-> NULL,
   limit |-> 0, seed |-> NULL, required |-> <<>>, honest |-> FALSE,
   result |-> [contract |-> "registry", lastBlock |-> 1, total |-> Len(l), nodes |-> l],
   proof |-> [header |-> [verified |-> TRUE, number |-> 1, state |-> World(state)],
              accounts |-> <<[address |-> "registry", storageHash |-> Storage(storage), storageProof |-> ProofOf(values)]>>]]
RightAnswer(l) == Answer(l, Now, Now, Now)
Seeds == {NULL, 2, 7, 9}
Required == {<<>>, <<A2>>, <<Unset, A1>>}
Entries == {Now[i] : i \in 1..3} \cup {Server(2, A1, 0), Server(1, A2, 0), Server(0, A1, A3)}
Picked(limit, seed, req) ==
  LET first == [i \in DOMAIN req |-> N!IndexOf(Now, req[i])]
      chosen == N!create_random_indexes(3, limit, seed, first)
  IN  IF limit \in {1, 2} THEN [i \in DOMAIN chosen |-> Now[chosen[i] + 1]] ELSE Now
PickNodes == /\ kind' = "nodes"
             /\ \E l \in SeqsUpTo(Entries, 3), total \in {2, 3}, limit \in 0..3, seed \in Seeds, req \in Required :
                  x' = [RightAnswer(l) EXCEPT !.result.total = total, !.limit = limit, !.seed = seed, !.required = req]
PickHonest == /\ kind' = "nodes"
              /\ \E limit \in 0..4, seed \in 0..15, req \in Required :
                   /\ Len(req) <= limit
                   /\ x' = [RightAnswer(Picked(limit, seed, req)) EXCEPT
                              !.limit = limit, !.seed = seed, !.required = req, !.honest = TRUE, !.result.total = 3]
PickNodeProof ==
  /\ kind' = "nodes"
  /\ \E l, values, storage, state \in {Now, Before, Never} :
       LET a == Answer(l, values, storage, state)
       IN  x' \in {a, [a EXCEPT !.proof.header.verified = FALSE], [a EXCEPT !.result.lastBlock = 2],
                   [a EXCEPT !.contract = "white"], [a EXCEPT !.result.contract = NULL], [a EXCEPT !.proves = FALSE],
                   [a EXCEPT !.proof.accounts = <<>>], [a EXCEPT !.proof.accounts = @ \o @], [a EXCEPT !.result = NULL],
                   [a EXCEPT !.proof.accounts[1].storageProof = ProofOf(l) \o @], [a EXCEPT !.proof.header = NULL],
                   [a EXCEPT !.proof.accounts[1].storageProof = @ \o ProofOf(l)], [a EXCEPT !.proof.accounts[1].address = "white"]}
PickWhite ==
  /\ kind' = "nodes"
  /\ \E s \in SeqsUpTo({A1, A2, Unset}, 3), total \in 0..3, c \in {NULL, "white", "registry"}, type \in {"eth", "btc"} :
       x' = [RightAnswer(<<>>) EXCEPT !.method = "in3_whiteList", !.whitelist = c, !.type = type,
               !.result = [contract |-> "white", lastBlock |-> 1, total |-> total, nodes |-> [i \in DOMAIN s |-> Server(0, s[i], 0)]],
               !.proof.accounts = <<[address |-> "white", storageHash |-> 0 :> <<A1, A2>>,
                                     storageProof |-> <<[key |-> 0, value |-> <<A1, A2>>]>>]>>]

(* ABI types, values that fit them, events with indexed arguments, bytes that *)
(* a contract may return, and signatures.                                     *)
Leaf == {A!Address, A!Bool, A!String, A!Bytes, A!FixedBytes(3), A!Number(TRUE, 1), A!Number(FALSE, 2), A!Number(TRUE, 4)}
LeafValues(c) ==
  CASE c[1] = "address" -> {<<"bytes", <<1, 2, 3>>>>}
    [] c[1] = "bool" -> {<<"bool", 1>>, <<"int", 0>>}
    [] c[1] = "fixed" -> {<<"bytes", <<1, 2>>>>, <<"bytes", <<1, 2, 3, 4>>>>}
    [] c[1] = "number" -> {<<"int", 5>>, <<"dec", -3>>, <<"int", 0>>} \cup
                         (IF c[3] = 1 THEN {} ELSE {<<"dec", 90>>, <<"dec", -9>>, <<"int", 24>>, <<"int", 122>>}) \cup
                         (IF c[3] = 4 THEN {<<"bytes", <<31, 0, 0, 1>>>>} ELSE {})
    [] OTHER -> {<<"bytes", <<>>>>, <<"str", <<1, 2, 3, 4>>>>, <<"str", <<1, 2, 3, 4, 5>>>>}
List(v) == <<"arr", v>>
ALeaf == \E c \in Leaf : \E v \in LeafValues(c) : x' = <<c, v>>
AnArray == \E c \in Leaf, n, k \in {0, 2} : \E v \in [1..2 -> LeafValues(c)] :
             x' \in {<<A!Array(c, n), List(v)>>, <<A!Array(c, 0), List(<<>>)>>,
                     <<A!Array(A!Array(c, k), n), List(<<List(v), List(<<v[2], v[1]>>)>>)>>}
ATuple == \E c, d \in Leaf : \E v \in LeafValues(c), w \in LeafValues(d) :
            LET t == A!Struct(<<c, d>>)
                u == List(<<v, w>>)
            IN  x' \in {<<t, u>>, <<A!Array(t, 0), List(<<u, u>>)>>,
                        <<A!Struct(<<A!Array(c, 0), t, d>>), List(<<List(<<v>>), u, w>>)>>}
PickValue == kind' = "value" /\ (ALeaf \/ AnArray \/ ATuple)
PickEvent == /\ kind' = "event"
             /\ \E c \in {A!Address, A!Number(TRUE, 1)}, d \in {A!Bool, A!Number(TRUE, 1)}, e \in Leaf, S \in SUBSET {1, 2} :
                  \E u \in LeafValues(c), v \in LeafValues(d), w \in LeafValues(e) : x' = [cs |-> <<c, d, e>>, indexed |-> S, v |-> <<u, v, w>>]
Shapes == {A!Bytes, A!Array(A!String, 0), A!Array(A!Number(FALSE, 1), 2), A!Struct(<<A!Bool, A!String>>), A!Array(A!Array(A!Bool, 2), 0)}
(* Lengths and offsets, the last three those an int cannot hold or round up. *)
Ints == {<<0, 0, 0, k>> : k \in {0, 1, 4, 8, 12}} \cup {<<0, 31, 31, 28>>, <<0, 16, 0, 0>>, <<0, 15, 31, 31>>}
PickReturned == /\ kind' = "returned"
                /\ \E c \in Shapes, n \in 0..3 : \E w \in [1..n -> Ints], k \in {0, 1, 3} :
                     x' = <<c, [i \in 1..(4 * n + k) |-> IF i > 4 * n THEN 1 ELSE w[(i + 3) \div 4][((i + 3) % 4) + 1]]>>
Types == Leaf \cup {A!Array(A!Bool, 2), A!Array(A!Array(A!Bool, 2), 0), A!Struct(<<A!Bool, A!Array(A!String, 0)>>),
                   A!Array(A!Struct(<<A!Bool>>), 3), A!Struct(<<>>)}
PickSignature == kind' = "signature" /\ \E n \in 0..3 : x' \in [1..n -> Types]

(* Rules that begin and end at some blocks, and validators.  *)
RuleBlocks(n) == UNION {[S -> {0, 2, 5}] : S \in SUBSET n}
Sets == {[contract |-> <<1>>, list |-> <<>>], [contract |-> <<-1>>, list |-> <<<<1, 2>>, <<3>>>>]}
SpecJson(start, end, engine, multi, vs) ==
  [network |-> 12, nonce |-> 0, params |-> [start |-> start, end |-> end], engine |-> engine, multi |-> multi,
   validators |-> vs, extraData |-> <<9, 1, 2, 3, 4, 9, 9>>]
PickSpec == /\ kind' = "spec"
            /\ \/ \E start \in RuleBlocks({145, 155, 1283}), end \in RuleBlocks({155, 1283}), engine \in {"Ethash", "clique"} :
                    x' = SpecJson(start, end, engine, FALSE, <<>>)
               \/ \E multi \in BOOLEAN, u, v, w \in Sets, b \in {0, 1} :
                    x' = SpecJson(155 :> 2, 155 :> 5, "authorityRound", multi,
                                  <<[block |-> b, set |-> u], [block |-> 3, set |-> v], [block |-> 12, set |-> w]>>)
PickCalls == kind' = "calls" /\ x' \in SeqsUpTo({1, 7} \X (0..2), 4)

(* Amounts of ether, and texts that stand for one. *)
PickAmount == kind' = "amount" /\ \E n \in 0..250, u \in {"wei", "kwei", "eth"}, d \in -1..4 : x' = <<n, u, d>>
PickText == /\ kind' = "text"
            /\ \E n \in SeqsUpTo(0..2, 2), f \in SeqsUpTo(0..2, 4), u \in {NULL, "wei", "kwei", "eth"}, apart \in BOOLEAN :
                 /\ n \o f # <<>>
                 /\ \E t \in {U!Text(n, f # <<>>, f, IF apart THEN NULL ELSE u)} : x' = <<t, IF apart THEN u ELSE NULL>>

-----------------------------------------------------------------------------
SuiteInit == kind \in {"start", "hashes"} /\ x = 0 /\ Init

Pick ==
  /\ kind = "start" /\ UNCHANGED vars
  /\ \/ PickWords \/ PickNumber \/ PickStack \/ PickCode \/ PickCopy
     \/ PickList \/ PickBytes \/ PickTx \/ PickAccessList \/ PickHeader \/ PickReceipts
     \/ PickTrie \/ PickProof
     \/ PickTree \/ PickTokens \/ PickAccess \/ PickTwo
     \/ PickBtcTx \/ PickBlock \/ PickAltered \/ PickScript \/ PickAddress \/ PickUtxos
     \/ PickNodes \/ PickHonest \/ PickNodeProof \/ PickWhite
     \/ PickValue \/ PickEvent \/ PickReturned \/ PickSignature \/ PickSpec \/ PickCalls
     \/ PickAmount \/ PickText
     \/ V!Next

SuiteNext == Pick \/ (kind = "hashes" /\ Next /\ UNCHANGED <<kind, x>>)

SuiteSpec == SuiteInit /\ [][SuiteNext]_<<kind, x, vars>>

-----------------------------------------------------------------------------
(* big.c: the arithmetic of byte strings without leading zeros is that of     *)
(* words, for ADD to EXP and the comparisons modulo the word, and for SDIV,   *)
(* SMOD, SLT, SGT, SIGNEXTEND and BYTE in two's complement, within the inputs *)
(* the code handles.  evm.c, evm_mem.c: packed entries of different lengths   *)
(* behave like a stack of words for push, pop, DUP and SWAP of every depth; a *)
(* jump lands exactly on the JUMPDESTs that are not data of a PUSH; memory    *)
(* never written and copies beyond their source read as zero, also while the  *)
(* memory grows.                                                              *)
MachineAgrees ==
  /\ kind = "words" => W!UnsignedMathAgrees(x.a, x.b, x.m) /\ \A k \in 0..1 : W!SignedMathAgrees(x.a, x.b, k)
  /\ kind = "stack" => W!StackAgrees(x)
  /\ kind = "number" => W!PushedNumbersAgree(x)
  /\ kind = "code" => W!JumpsAgree(x)
  /\ kind = "copy" => W!MemoryAgrees(x.at, x.src, x.pos, x.to, x.n)

(* rlp.c, serialize.c: what is encoded is decoded again on both sides of      *)
(* every limit of the length encoding, and no element of any bytes a node may *)
(* send reaches beyond them; a transaction, header or receipt that differs in *)
(* a value from the one the hash was made of has another hash, and leading    *)
(* zeros of a number make no difference.                                      *)
HashesBindFields ==
  /\ kind = "list" => R!RoundTrips(x)
  /\ kind = "bytes" => R!StaysInside(x)
  /\ kind = "tx" => R!TxBinds(x.tx, x.f, x.v) /\ R!NumbersAreCanonical(x.tx.gas, IF x.v = R!Absent THEN <<>> ELSE x.v)
  /\ kind = "accessList" => R!ListBinds(x.tx, x.al) /\ R!TxBinds(x.tx, "gas", <<1>>)
  /\ kind = "header" => R!HeaderBinds(Header, x.f, x.v)
  /\ kind = "receipts" => R!ReceiptBinds(x.r, x.s)

(* trie.c, merkle.c: whatever the order of the inserts, the root is the one   *)
(* of the canonical trie; the complete proof of a path is accepted for the    *)
(* value that is there and for no other, and for absence only where there is  *)
(* none.                                                                      *)
TriesDecide ==
  /\ kind = "trie" => T!RootIsCanonical(x)
  /\ kind = "proof" => \A p \in Paths, v \in {LongValue(1), LongValue(2)} : T!ProofsDecide(x, p, v)

(* data.c: a JSON text becomes the flat list of its values, up to the depth   *)
(* that is allowed; the binary form reads back to the same list, and JSON     *)
(* written from it parses to equal values; the accessors convert tokens in    *)
(* place, and no order of calls to them changes the number a token stands     *)
(* for; d_eq is reflexive and symmetric in whatever form values are stored.   *)
(* abi_parse.c, abi_encode.c, abi_decode.c: a signature is read back from     *)
(* what is hashed for it; a value is encoded as the ABI says and decoded to   *)
(* the same value, from data and topics, but for the numbers a token has no   *)
(* room for; decoding stays inside of any bytes in which no length or offset  *)
(* is above what an int holds.                                                *)
(* chainspec.c: a block has exactly the rules that began and did not end.     *)
(* in3_fromWei, in3_toWei: an amount written in a unit is read back, all of   *)
(* it or as many digits as were asked for.                                    *)
TokensKeepValues ==
  /\ kind = "tree" => D!ParsesAndReadsBack(x)
  /\ kind = "tokens" => D!JsonOfBinaryAgrees(x)
  /\ kind = "access" => D!AccessKeepsNumber(x.t, x.ops)
  /\ kind = "two" => D!EqualityIsSound(x.a, x.b)
  /\ kind = "value" => A!EncodingReads(x[1], x[2])
  /\ kind = "event" => A!EventReads(x.cs, x.indexed, x.v)
  /\ kind = "returned" => A!DecodingStaysInside(x[1], x[2])
  /\ kind = "signature" => A!SignatureReads(x)
  /\ kind = "spec" => C!RulesAgree(x, 0..14)
  /\ kind = "calls" => C!LastPutCounts(x, 1 :> 9)
  /\ kind = "amount" => U!WeiRoundTrips(x[1], x[2], x[3])
  /\ kind = "text" => U!TextIsWorth(x[1], x[2])


(* eth_verify_blockheader: a header is accepted only with a valid signature   *)
(* of every signer asked for, or when its hash was verified before; and only  *)
(* such a hash is added to the verified ones.                                 *)
HeadersAreSigned == V!SignedHeaders

(* eth_verify_eth_getTransaction..., getBlock, account_proof, getLog: what is *)
(* accepted is what the verified header proves for exactly the block, index,  *)
(* account, slot or filter that was asked for, and a sender has signed;       *)
(* except for proofs of absence that stop early, multiples of 2^64 for an     *)
(* account that is not there, and the block of a log found in memory that the *)
(* proof did not fill.                                                        *)
(* registry.c: the same for node lists and white lists, and what the storage  *)
(* of the contract in that header says; and honest lists are accepted.        *)
AnswersAreProven ==
  /\ V!ProvenReceipts /\ V!ProvenTransactions /\ V!ProvenBlocks /\ V!ProvenAccounts /\ V!ProvenLogs
  /\ kind = "nodes" => N!ProvenNodeLists(x) /\ N!ProvenWhiteLists(x) /\ N!HonestAccepted(x)
=============================================================================
