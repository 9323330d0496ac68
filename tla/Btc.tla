-------------------------------- MODULE Btc --------------------------------
(***************************************************************************)
(* The Bitcoin verifier (verifier/btc: btc.c, btc_target.c, btc_merkle.c). *)
(* A block is accepted for its proof of work, for the headers on top of it *)
(* and for the target of its epoch (DAP), which the client learns block by *)
(* block and keeps in its cache.                                           *)
(*                                                                         *)
(* A header is a member of Block; what is read from its bytes is a         *)
(* function of it, and its hash is the block itself.  2016, 227835 and 200 *)
(* of the code are Epoch, Bip34 and Distance.                              *)
(***************************************************************************)
EXTENDS Integers, Sequences, SequencesExt, FiniteSetsExt

CONSTANTS Block, Parent, Target, Work,  (* Work: the hash is not above the target *)
          First,       (* blocks with version 1                             *)
          Coinbase,    (* the height in the coinbase transaction            *)
          Txs,         (* the transactions of every block                   *)
          Tx, Nothing, (* Nothing: no block, no value                       *)
          Net,         (* chain ids                                         *)
          BTC_TARGETS, (* the targets compiled in: [dap, t]                 *)
          Checkpoint,  (* btc_pre_bip34: the block at a height, or Nothing  *)
          Epoch, Bip34, Distance, Finality,
          Limits,      (* values of [daps, diff]: maxDAP and maxDiff        *)
          Finals,      (* of a block: the lists of headers a node may send  *)
          Asked, TxBlock, ProofBlock, Heights, MaxTargets   (* bounds of the search            *)

VARIABLES net,       (* the chain of the client                             *)
          conf,      (* btc_target_conf_t: chain, data, limits              *)
          store,     (* of every chain: what the cache holds                *)
          answer,    (* the last answer to the user                         *)
          waiting,   (* requests that wait for btc_proofTarget              *)
          accepted   (* history: the epochs of accepted blocks, with targets *)

vars == <<net, conf, store, answer, waiting, accepted>>

-----------------------------------------------------------------------------
(* Merkle trees: an inner node is the pair of its children. *)

(* create_parent_hashes: one level up; the last one is paired with itself. *)
create_parent_hashes(hs) ==
  [i \in 1..(Len(hs) + 1) \div 2 |-> <<hs[2 * i - 1], hs[IF 2 * i - 1 = Len(hs) THEN 2 * i - 1 ELSE 2 * i]>>]

(* Even a single hash goes through one level: it is paired with itself. *)
btc_merkle_create_root(hs) ==
  IF hs = <<>> THEN Nothing
  ELSE FoldLeft(LAMBDA l, h : IF Len(l) > 1 THEN create_parent_hashes(l) ELSE l, create_parent_hashes(hs), hs)[1]

(* The root Bitcoin's miners write into the header of b: the only transaction *)
(* of a block is its own root.                                                *)
HeaderRoot(b) == IF Len(Txs[b]) = 1 THEN Txs[b][1] ELSE btc_merkle_create_root(Txs[b])

(* btc_merkle_verify_proof: stops as soon as the root is reached. *)
btc_merkle_verify_proof(root, proof, index, hash) ==
  LET Step(s, p) == IF s.h = root THEN s
                    ELSE [h |-> IF s.i % 2 = 1 THEN <<p, s.h>> ELSE <<s.h, p>>, i |-> s.i \div 2]
  IN  FoldLeft(Step, [h |-> hash, i |-> index], proof).h = root

-----------------------------------------------------------------------------
(* Headers.  A proof is [header, cbtx, height, final, ...]. *)

btc_get_dap(n) == n \div Epoch
NotFound == [dap |-> 0, t |-> 0]

(* Mutant: any header of the list may be the checkpoint. *)
CheckpointAnywhere(final, n) ==
  LET c == n \div Distance + 1
  IN  /\ n <= Bip34 /\ c * Distance \in DOMAIN Checkpoint
      /\ \E p \in DOMAIN final : final[p] = Checkpoint[c * Distance]

(* check_pre_bip34: the checkpoint above the block is among the headers. *)
check_pre_bip34(final, n) ==
  LET c == n \div Distance + 1
      p == c * Distance - n
  IN  /\ n <= Bip34 /\ c * Distance \in DOMAIN Checkpoint
      /\ p <= Len(final) /\ final[p] = Checkpoint[c * Distance]

(* btc_block_number: 0 stands for an error. *)
btc_block_number(b, proof) ==
  IF b \in First THEN IF proof.height # 0 /\ check_pre_bip34(proof.final, proof.height) THEN proof.height ELSE 0
  ELSE IF proof.cbtx = b THEN Coinbase[b] ELSE 0

(* btc_verify_header without a block number *)
btc_verify_header(b, expected) == Work[b] /\ (expected = Nothing \/ Target[b] = expected)

(* btc_new_target_check *)
btc_new_target_check(old, new) == new <= 4 * old /\ new >= old \div 4

(* Mutant: the headers do not start again at a new target. *)
FinalityKeepsCounting(b, finality, final, target, n) ==
  \E k \in 0..Len(final) : k >= finality /\ \A i \in 1..k : Work[final[i]] /\ Parent[final[i]] = IF i = 1 THEN b ELSE final[i - 1]

(* btc_check_finality: a loop over the headers; before BIP 34 over all of     *)
(* them.  The count starts again with the first header of an epoch.  Headers  *)
(* behind the last one that is needed are not looked at.                      *)
btc_check_finality(b, finality, final, target, n) ==
  LET all  == IF n <= Bip34 /\ Len(final) > finality THEN Len(final) ELSE finality
      Step(s, f) ==
        IF s.done \/ s.bad THEN s
        ELSE LET new == s.n % Epoch = 0
                 i   == IF new THEN 0 ELSE s.i
                 t   == IF new THEN Target[f] ELSE s.t
             IN  IF (new /\ ~btc_new_target_check(s.t, t)) \/ Parent[f] # s.parent \/ ~btc_verify_header(f, t)
                 THEN [s EXCEPT !.bad = TRUE]
                 ELSE [s EXCEPT !.i = i + 1, !.t = t, !.n = @ + 1, !.parent = f, !.done = i + 1 >= all]
      end == FoldLeft(Step, [i |-> 0, t |-> target, n |-> n + 1, parent |-> b, done |-> FALSE, bad |-> FALSE], final)
  IN  IF finality = 0 THEN final = <<>> ELSE end.done

-----------------------------------------------------------------------------
(* Targets *)

Abs(a) == IF a < 0 THEN -a ELSE a

(* btc_get_closest_target: the first of the closest entries. *)
btc_get_closest_target(data, dap) ==
  LET best == {i \in DOMAIN data : \A j \in DOMAIN data : Abs(data[i].dap - dap) <= Abs(data[j].dap - dap)}
  IN  IF data = <<>> THEN NotFound ELSE data[CHOOSE i \in best : \A j \in best : i <= j]

mul_target(percent, t) == t + (percent * t) \div 100

(* Mutant: the target of a known epoch is one that is close enough. *)
KnownTargetIsNear(data, limits, n, b, final) ==
  LET near == btc_get_closest_target(data, btc_get_dap(n))
  IN  [rc |-> IF n < Bip34 \/ (Abs(btc_get_dap(n) - near.dap) <= limits.daps /\ Target[b] < mul_target(limits.diff, near.t))
              THEN "ok" ELSE "more", data |-> data]

(* btc_check_target: the outcome and the new table.  Beyond the limits more   *)
(* proof is required.                                                         *)
btc_check_target(data, limits, n, b, final) ==
  LET dap   == btc_get_dap(n)
      near  == btc_get_closest_target(data, dap)
      dist  == Abs(dap - near.dap)
      own   == Append(data, [dap |-> dap, t |-> Target[b]])
      next  == Append(own, [dap |-> dap + 1, t |-> Target[Last(final)]])
      cross == final # <<>> /\ btc_get_dap(n + Len(final)) = dap + 1
      Out(rc, d) == [rc |-> rc, data |-> d]
  IN  IF n < Bip34 THEN Out("ok", data)
      ELSE IF near.dap = 0 THEN Out("error", data)
      ELSE IF dist = 0 THEN Out(IF near.t = Target[b] THEN "ok" ELSE "error", data)
      ELSE IF dist <= limits.daps /\ Target[b] < mul_target(limits.diff, near.t)
      THEN Out("ok", IF cross THEN next ELSE own)
      ELSE Out("more", data)

(* The three checks every answer about a block passes, in their order. *)
HeaderIsFinal(data, limits, b, proof) ==
  LET n == btc_block_number(b, proof)
  IN  IF ~btc_verify_header(b, Nothing) \/ n = 0 THEN [rc |-> "error", data |-> data]
      ELSE IF ~btc_check_finality(b, Finality, proof.final, Target[b], n) THEN [rc |-> "error", data |-> data]
      ELSE btc_check_target(data, limits, n, b, proof.final)

-----------------------------------------------------------------------------
(* The methods.  A result is what the node claims. *)

Only(cond, out) == IF cond THEN out ELSE [out EXCEPT !.rc = IF @ = "ok" THEN "error" ELSE @]

(* btc_verify_block: getblock and getblockheader.  The parts of the JSON      *)
(* that are compared with the header (difficulty, nTx, version) are info.     *)
btc_verify_block(data, limits, asked, r, proof, full) ==
  LET out == HeaderIsFinal(data, limits, r.header, proof)
  IN  Only(/\ r.header = asked
           /\ full => btc_merkle_create_root(r.txs) = HeaderRoot(r.header)
           /\ r.verbose => (full => r.info) /\ (proof.final # <<>> => r.next = proof.final[1]), out)

(* btc_verify_tx: with JSON every field of the transaction is compared, info  *)
(* stands for them.  A transaction that is said to be outside of the active   *)
(* chain needs no headers on top.                                             *)
btc_verify_tx(data, limits, asked, block, r, proof) ==
  LET b == proof.header
      shown == /\ (r.json => r.txid = asked /\ r.info) /\ r.tx = asked
               /\ (r.json /\ block # Nothing => r.block = block)
               /\ btc_merkle_verify_proof(HeaderRoot(b), proof.merkle, proof.index, asked)
               /\ btc_verify_header(b, Nothing) /\ btc_block_number(b, proof) # 0
               /\ (block # Nothing \/ r.json) => (IF r.json THEN r.block ELSE block) = b
      active == ~(r.json /\ block # Nothing) \/ r.active
  IN  IF ~shown THEN [rc |-> "error", data |-> data]
      ELSE IF ~active THEN [rc |-> "ok", data |-> data]
      ELSE HeaderIsFinal(data, limits, b, proof)

(* btc_verify_target_proof: one block after the other; what was learned       *)
(* before an error stays.                                                     *)
btc_verify_target_proof(data, limits, proofs) ==
  FoldLeft(LAMBDA s, p : IF s.rc # "ok" THEN s ELSE HeaderIsFinal(s.data, limits, p.header, p),
           [rc |-> "ok", data |-> data], proofs)

-----------------------------------------------------------------------------
(* The client *)

NoAnswer == [kind |-> "none"]

Init ==
  /\ net \in Net
  /\ conf = [chain |-> Nothing, data |-> <<>>, limits |-> CHOOSE l \in Limits : TRUE]
  /\ store = [c \in Net |-> <<>>]
  /\ answer = NoAnswer /\ waiting = 0 /\ accepted = {}

(* Mutant: the table is kept when the chain changes. *)
CheckConfKeeps == IF conf.data # <<>> THEN conf.data ELSE IF store[net] # <<>> THEN store[net] ELSE BTC_TARGETS

(* btc_check_conf: the table of the chain, from the cache or compiled in. *)
btc_check_conf ==
  IF conf.chain = net /\ conf.data # <<>> THEN conf.data
  ELSE IF store[net] # <<>> THEN store[net] ELSE BTC_TARGETS

(* What is kept of an answer: btc_set_target also writes the cache.  A        *)
(* request that needs more proof waits for its own sub request.               *)
Answer(out, given, blocks) ==
  /\ answer = NoAnswer
  /\ MapThenSumSet(LAMBDA c : Len(IF c = net THEN out.data ELSE store[c]), Net) <= MaxTargets
  /\ (out.rc = "more" => waiting = 0)
  /\ conf' = [conf EXCEPT !.chain = net, !.data = out.data]
  /\ store' = IF out.data # btc_check_conf THEN [store EXCEPT ![net] = out.data] ELSE store
  /\ answer' = IF out.rc = "ok" THEN given ELSE NoAnswer
  /\ waiting' = IF out.rc = "more" THEN waiting + 1 ELSE waiting
  /\ accepted' = accepted \cup
       (IF out.rc = "ok" THEN {[net |-> net, dap |-> btc_get_dap(Coinbase[b]), t |-> Target[b]] : b \in blocks \ First} ELSE {})
  /\ UNCHANGED net

GetBlock(asked, r, proof, full) ==
  Answer(btc_verify_block(btc_check_conf, conf.limits, asked, r, proof, full),
         [kind |-> "block", asked |-> asked, r |-> r, proof |-> proof, full |-> full], {asked})

GetRawTransaction(asked, block, r, proof) ==
  Answer(btc_verify_tx(btc_check_conf, conf.limits, asked, block, r, proof),
         [kind |-> "tx", asked |-> asked, block |-> block, r |-> r, proof |-> proof],
         IF r.json /\ block # Nothing /\ ~r.active THEN {} ELSE {proof.header})

ProofTarget(proofs) ==
  Answer(btc_verify_target_proof(btc_check_conf, conf.limits, proofs),
         [kind |-> "target", proofs |-> proofs], {proofs[i].header : i \in DOMAIN proofs})

(* The sub request: its params are one string, so its verification fails on   *)
(* every node ("must have 5 params!"), and with it the request that waits.    *)
MoreProofFails ==
  /\ answer = NoAnswer /\ waiting > 0 /\ waiting' = waiting - 1
  /\ UNCHANGED <<net, conf, store, answer, accepted>>

SetChain(c) == answer = NoAnswer /\ net' = c /\ UNCHANGED <<conf, store, answer, waiting, accepted>>

(* maxDAP, maxDiff *)
SetLimits(l) ==
  /\ answer = NoAnswer /\ conf' = [conf EXCEPT !.limits = l]
  /\ UNCHANGED <<net, store, answer, waiting, accepted>>

(* The user has the answer. *)
Return == answer # NoAnswer /\ answer' = NoAnswer /\ UNCHANGED <<net, conf, store, waiting, accepted>>

(* The process ends; the next one finds the cache. *)
Restart ==
  /\ conf' = [conf EXCEPT !.chain = Nothing, !.data = <<>>]
  /\ answer = NoAnswer /\ waiting' = 0
  /\ UNCHANGED <<net, store, answer, accepted>>

Proof(b, h, f, m, i) == [header |-> b, cbtx |-> b, height |-> h, final |-> f, merkle |-> m, index |-> i]

Next ==
  \/ MoreProofFails \/ Return \/ Restart
  \/ \E c \in Net : SetChain(c)
  \/ \E l \in Limits : SetLimits(l)
  \/ \E b \in Asked, full, info \in BOOLEAN : \E f \in Finals[b], h \in IF b \in First THEN Heights ELSE {0} :
       GetBlock(b, [header |-> b, txs |-> IF info THEN Txs[b] ELSE <<>>, verbose |-> full, info |-> info,
                    next |-> IF info /\ f # <<>> THEN f[1] ELSE b], Proof(b, h, f, <<>>, 0), full)
  \/ \E b \in TxBlock, x, y \in Tx, i \in 0..1, json, active \in BOOLEAN : \E f \in Finals[b], block \in {Nothing, b} :
       GetRawTransaction(x, block, [json |-> json, txid |-> x, tx |-> x, block |-> b, info |-> TRUE, active |-> active],
                         Proof(b, 0, f, <<y>>, i))
  \/ \E b, c \in ProofBlock : \E f \in Finals[b], g \in Finals[c] :
       ProofTarget(<<Proof(b, 0, f, <<>>, 0), Proof(c, 0, g, <<>>, 0)>>)

Spec == Init /\ [][Next]_vars

-----------------------------------------------------------------------------
(* Properties *)

(* A chain of k headers on top of b, each with its work. *)
Above(b, final, k) ==
  k <= Len(final) /\ \A i \in 1..k : Work[final[i]] /\ Parent[final[i]] = IF i = 1 THEN b ELSE final[i - 1]

(* The heights in 1..k of final (block at n) where an epoch starts. *)
Breaks(n, k) == {i \in 1..k : (n + i) % Epoch = 0}

(* btc_check_finality, btc_verify_tx: a block or transaction that is accepted *)
(* as part of the active chain has Finality headers with work on top of it,   *)
(* counted again behind a change of the target, which is at most by a factor  *)
(* of 4; a transaction is one of the block.                                   *)
AcceptedIsFinal ==
  answer.kind \in {"block", "tx"} /\ ~(answer.kind = "tx" /\ answer.r.json /\ ~answer.r.active) =>
    LET b == answer.proof.header
        n == btc_block_number(b, answer.proof)
    IN  /\ Work[b]
        /\ answer.kind = "tx" => \E i \in DOMAIN Txs[b] : Txs[b][i] = answer.asked
        /\ Finality > 0 =>
             \E k \in Finality..Len(answer.proof.final) :
               /\ Above(b, answer.proof.final, k)
               /\ \A i \in Breaks(n, k) : /\ k - i + 1 >= Finality
                                          /\ LET old == IF i = 1 THEN Target[b] ELSE Target[answer.proof.final[i - 1]]
                                                 new == Target[answer.proof.final[i]]
                                             IN  new <= 4 * old /\ new >= old \div 4

(* check_pre_bip34: the height of an old block can only be the one that the   *)
(* checkpoint above it proves, whatever height the node claims.               *)
OldHeightIsProven ==
  answer.kind = "block" /\ answer.asked \in First =>
    answer.proof.height = Coinbase[answer.asked]

(* btc_check_target: all blocks of an epoch that were ever accepted on a      *)
(* chain have one target, across changes of the chain and of the limits,      *)
(* proofs that failed half way, and restarts.                                 *)
OneTargetPerEpoch ==
  \A x, y \in accepted : x.net = y.net /\ x.dap = y.dap /\ x.dap * Epoch >= Bip34 => x.t = y.t

(* btc_set_target: what is in memory is in the cache, unless it is the table  *)
(* that is compiled in; a restart forgets nothing.                            *)
CacheIsCurrent ==
  conf.chain \in Net => conf.data = (IF store[conf.chain] # <<>> THEN store[conf.chain] ELSE BTC_TARGETS)
=============================================================================
