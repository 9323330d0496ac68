------------------------------ MODULE EthVerify ------------------------------
(***************************************************************************)
(* What the client accepts as the answer of a node: the verifiers of       *)
(* nano/ (blockheader.c, signature.c, txreceipt.c) and basic/              *)
(* (eth_getTransaction.c, eth_getBlock.c, eth_account.c, eth_getLog.c) and *)
(* the order in which nano, basic and full are asked.                      *)
(*                                                                         *)
(* A hash is what it is the hash of.  A header is a record with the tries  *)
(* behind its roots: txs and receipts map paths to transactions and        *)
(* receipts, state maps addresses to accounts.  A Merkle proof names the   *)
(* trie its nodes come from and whether its last nodes are missing (cut).  *)
(* A signature names the key and the message it was made for.  A JSON      *)
(* property that is missing is NULL.                                       *)
(***************************************************************************)
EXTENDS Rlp

CONSTANTS NULL, Unset,  \* a null pointer, and bytes whose data is a null pointer
          LongLimit     \* 2^64: what d_long keeps of a number is below it

NoTrie == [p \in {} |-> NULL]
Approx(a, b, err) == IF a > b THEN a - b <= err ELSE b - a <= err
Given(x) == x # NULL

(* create_tx_path: the key of a transaction in the tries of its block. *)
create_tx_path(index) == rlp_encode_item(IF index = 0 THEN <<>> ELSE DropZeros(BigEndian(index, 4)))

(* The trie of a list, as the loop over trie_set_value builds it.          *)
TrieOf(list) ==
  LET Paths == {create_tx_path(i - 1) : i \in DOMAIN list}
  IN  [p \in Paths |-> list[CHOOSE i \in DOMAIN list : create_tx_path(i - 1) = p]]

(* trie_verify_proof, which Trie models node by node.  expected is a       *)
(* value, NULL when there must be none, or Unset when the proven value is  *)
(* to be returned.                                                         *)
Proves(root, path, proof, expected) ==
  /\ Given(proof)
  /\ proof.of = root
  /\ IF proof.cut THEN expected = NULL \/ expected = Unset
     ELSE IF path \in DOMAIN root THEN expected = Unset \/ expected = root[path]
     ELSE expected = NULL \/ expected = Unset
Proven(root, path, proof) == IF ~proof.cut /\ path \in DOMAIN root THEN root[path] ELSE NULL

-----------------------------------------------------------------------------
(* blockheader.c *)

compute_msg_hash(vc, header) ==
  [hash |-> header, number |-> header.number, registry |-> IF vc.version > 1 THEN vc.registry ELSE NULL]

ecrecover_signature(msg, sig) == IF sig.over = msg THEN sig.by ELSE NULL

(* Mutant: the address a signature comes with is not recovered from it. *)
SignatureByClaim(vc, msg, sig) == {i \in DOMAIN vc.signers : vc.signers[i] = sig.by}

(* The bit of the first requested signer with the recovered address.       *)
eth_verify_signature(vc, msg, sig) ==
  LET at == {i \in DOMAIN vc.signers : vc.signers[i] = ecrecover_signature(msg, sig)}
  IN  IF at = {} THEN {} ELSE {CHOOSE i \in at : \A j \in at : i <= j}

get_verified_hash(vc, number) == IF number \in DOMAIN vc.known THEN vc.known[number] ELSE NULL

(* Whether a signed error leads to the signer being blacklisted. *)
handle_signed_err(vc, err, number) ==
  /\ err.code = "finality"
  /\ \/ Approx(err.signedCurrentBlock, number, vc.minHeight)
     \/ ~Approx(err.currentBlock, vc.currentBlock, 1)

Refused == [ok |-> FALSE, offline |-> {}, banned |-> {}, added |-> FALSE]
Accepted == [Refused EXCEPT !.ok = TRUE]

(* The loop over the signatures of the proof: those that confirmed, those  *)
(* that sent a signed error, and whether an entry stopped the loop.        *)
Signed(vc, header) ==
  LET Step(s, sig) ==
        IF s.stop THEN s
        ELSE IF Given(sig.error)
        THEN IF ~sig.error.signed THEN [s EXCEPT !.stop = sig.error.code # "internal"]
             ELSE IF sig.block # header.number THEN [s EXCEPT !.stop = TRUE]
             ELSE LET bit == eth_verify_signature(vc, sig.error, sig)
                  IN  [s EXCEPT !.erred = @ \union bit,
                                !.banned = @ \union (IF handle_signed_err(vc, sig.error, header.number) THEN bit ELSE {})]
        ELSE IF sig.block # header.number \/ sig.blockHash # header THEN [s EXCEPT !.stop = TRUE]
        ELSE [s EXCEPT !.confirmed = @ \union eth_verify_signature(vc, compute_msg_hash(vc, header), sig)]
  IN  FoldLeft(Step, [confirmed |-> {}, erred |-> {}, banned |-> {}, stop |-> FALSE], vc.proof.signatures)

eth_verify_blockheader(vc, header, expected) ==
  LET known == get_verified_hash(vc, header.number)
      s == Signed(vc, header)
      signd == s.confirmed \union s.erred
  IN  IF Given(expected) /\ expected # header THEN Refused
      ELSE IF Given(known) THEN IF known = header THEN Accepted ELSE Refused
      ELSE IF vc.signers = <<>> THEN Accepted
      ELSE IF ~Given(vc.proof.signatures) THEN Refused
      ELSE IF s.stop THEN [Refused EXCEPT !.banned = s.banned]
      ELSE IF signd # DOMAIN vc.signers
      THEN [Refused EXCEPT !.offline = DOMAIN vc.signers \ signd, !.banned = s.banned]
      ELSE IF s.erred # {} THEN [Refused EXCEPT !.banned = s.banned]
      ELSE [Accepted EXCEPT !.added = TRUE]

HeaderOk(vc, header, expected) == Given(header) /\ eth_verify_blockheader(vc, header, expected).ok

-----------------------------------------------------------------------------
(* txreceipt.c *)

(* Mutant: the transaction at the index of the receipt is not proven. *)
TxUnproven(p, path, tx_hash) == TRUE

(* The transaction with the hash is at the index of the receipt.           *)
TxIsAt(p, path, tx_hash) ==
  Proves(p.block.txs, path, p.txProof, Unset) /\ Proven(p.block.txs, path, p.txProof) = tx_hash

eth_verify_eth_getTransactionReceipt(vc, tx_hash) ==
  LET r == vc.result
      p == vc.proof
      path == create_tx_path(p.txIndex)
      LogOk(i) == /\ r.logs[i].blockNumber = r.blockNumber
                  /\ r.logs[i].blockHash = r.blockHash
                  /\ vc.level = "full" => r.logs[i].logIndex = i - 1
                  /\ r.logs[i].transactionHash = tx_hash
                  /\ r.logs[i].transactionIndex = p.txIndex
  IN  \/ ~Given(r)
      \/ /\ Given(p)
         /\ HeaderOk(vc, p.block, r.blockHash)
         /\ p.block.number = r.blockNumber
         /\ Proves(p.block.receipts, path, p.merkleProof, r.receipt)
         /\ TxIsAt(p, path, tx_hash)
         /\ p.txIndex = r.transactionIndex
         /\ tx_hash = r.transactionHash
         /\ \A i \in DOMAIN r.logs : LogOk(i)

-----------------------------------------------------------------------------
(* eth_getTransaction.c.  A raw transaction is [type, body, v, sig]. *)

serialize(tx) == [type |-> tx.type, body |-> tx.body, v |-> tx.v, sig |-> tx.sig]

(* Only legacy transactions name their chain behind the body. *)
create_unsigned_tx(raw, chain_id) ==
  <<raw.type, raw.body>> \o (IF chain_id # 0 /\ raw.type = 0 THEN <<chain_id>> ELSE <<>>)

(* ECDSA recovery (external): another message or recovery bit gives another key. *)
crypto_recover(msg, sig, v) == IF sig.over = msg /\ sig.parity = v THEN sig.by ELSE "another key"

ChainIdOf(tx) == IF Given(tx.chainId) THEN tx.chainId ELSE IF tx.v > 35 THEN (tx.v - 35) \div 2 ELSE 0
Parity(v, chain_id) == (IF chain_id # 0 THEN v - chain_id * 2 - 8 ELSE v) - 27

(* Mutant: the sender is not compared with the recovered key. *)
TxValuesAnySender(tx, raw) == raw = tx.hash /\ (Given(tx.raw) => tx.raw = raw)

eth_verify_tx_values(tx, raw) ==
  LET chain_id == ChainIdOf(tx)
      parity == IF raw.type # 0 THEN tx.v ELSE Parity(tx.v, chain_id)
      pubkey == crypto_recover(create_unsigned_tx(raw, chain_id), tx.sig, parity)
  IN  /\ raw = tx.hash
      /\ Given(tx.raw) => tx.raw = raw
      /\ Given(tx.standardV) => Parity(tx.v, chain_id) = tx.standardV
      /\ Given(tx.chainId) => tx.chainId = chain_id
      /\ ~tx.sig.high
      /\ Given(tx.publicKey) => tx.publicKey = pubkey
      /\ Given(tx.from) => tx.from = pubkey

(* The part both verifiers share, for a transaction the proof returned.    *)
TxResultOk(vc, raw) ==
  LET r == vc.result
  IN  /\ Given(raw)
      /\ eth_verify_tx_values(r, raw)
      /\ r.transactionIndex = vc.proof.txIndex
      /\ r.blockNumber = vc.proof.block.number
      /\ serialize(r) = raw

eth_verify_eth_getTransaction(vc, tx_hash) ==
  LET p == vc.proof
      path == create_tx_path(p.txIndex)
      raw == Proven(p.block.txs, path, p.merkleProof)
  IN  /\ Given(p)
      /\ HeaderOk(vc, p.block, vc.result.blockHash)
      /\ Proves(p.block.txs, path, p.merkleProof, Unset)
      /\ raw = tx_hash
      /\ TxResultOk(vc, raw)

(* blk is [hash], [number] or "latest". *)
BlockAsked(vc, blk) ==
  LET r == vc.result
      h == vc.proof.block
  IN  CASE blk.by = "hash" -> /\ Given(r) => (Given(r.blockHash) => r.blockHash = blk.hash)
                              /\ h = blk.hash
        [] blk.by = "number" -> /\ blk.number # 0
                                /\ Given(r) => (Given(r.blockNumber) => r.blockNumber = blk.number)
                                /\ h.number = blk.number
        [] OTHER -> TRUE

eth_verify_eth_getTransactionByBlock(vc, blk, tx_idx) ==
  LET p == vc.proof
      r == vc.result
      path == create_tx_path(p.txIndex)
  IN  /\ Given(p)
      /\ Given(p.block)
      /\ BlockAsked(vc, blk)
      /\ Given(r) => (Given(r.transactionIndex) => r.transactionIndex = tx_idx)
      /\ HeaderOk(vc, p.block, IF Given(r) THEN r.blockHash ELSE NULL)
      /\ Proves(p.block.txs, path, p.merkleProof, IF Given(r) THEN Unset ELSE NULL)
      /\ Given(r) => TxResultOk(vc, Proven(p.block.txs, path, p.merkleProof))

-----------------------------------------------------------------------------
(* eth_getBlock.c.  The result holds the fields of a header; header(r) is  *)
(* what serialize_block_header makes of them.                              *)

HeaderFields == {"number", "txs", "receipts", "state", "uncles", "miner", "seal"}
header_of(r) == [f \in HeaderFields |-> r[f]]

eth_verify_uncles(r, p) ==
  /\ Given(p.uncles) /\ Given(r.uncleHashes)
  /\ Len(p.uncles) = Len(r.uncleHashes)
  /\ \A i \in DOMAIN p.uncles : r.uncleHashes[i] = p.uncles[i]
  /\ p.uncles = r.uncles

eth_verify_eth_getBlockTransactionCount(vc, block_hash, number) ==
  LET p == vc.proof
      txs == IF Given(p.transactions) THEN p.transactions ELSE <<>>
  IN  /\ Given(p)
      /\ HeaderOk(vc, p.block, block_hash)
      /\ ~Given(block_hash) => p.block.number = number
      /\ Len(txs) = vc.result
      /\ TrieOf(txs) = p.block.txs

(* What is checked of a transaction that is not sent as raw bytes. *)
TxInBlockOk(r, tx, i) ==
  /\ eth_verify_tx_values(tx, serialize(tx))
  /\ Given(tx.blockHash) => tx.blockHash = r.hash
  /\ Given(tx.blockNumber) => tx.blockNumber = r.number
  /\ Given(tx.transactionIndex) => tx.transactionIndex = i - 1

(* Mutant: the hashes of the result are not compared with the transactions. *)
HashUnchecked(r, raws, i) == TRUE
HashIsListed(r, raws, i) == r.transactions[i] = raws[i]

eth_verify_eth_getBlock(vc, block_hash, number, include_full_tx) ==
  LET r == vc.result
      p == vc.proof
      txs == IF include_full_tx THEN r.transactions ELSE p.transactions
      raws == [i \in DOMAIN txs |-> serialize(txs[i])]
  IN  /\ Given(block_hash) => block_hash = r.hash
      /\ number # 0 => number = r.number
      /\ Given(p)
      /\ HeaderOk(vc, header_of(r), r.hash)
      /\ Given(r.author) => r.author = r.miner
      /\ Given(r.sealFields) => r.sealFields = r.seal
      /\ Given(txs)
      /\ ~include_full_tx => Given(r.transactions) /\ Len(txs) = Len(r.transactions)
      /\ \A i \in DOMAIN txs : /\ ~txs[i].isRaw => TxInBlockOk(r, txs[i], i)
                               /\ ~include_full_tx => HashIsListed(r, raws, i)
      /\ TrieOf(raws) = r.txs
      /\ vc.level = "full" => eth_verify_uncles(r, p)

-----------------------------------------------------------------------------
(* eth_account.c.  An account is [nonce, balance, code, storage]. *)

NoCode == 0
Empty == [nonce |-> 0, balance |-> 0, code |-> NoCode, storage |-> NoTrie]
serialize_acc(a) == [nonce |-> a.nonce, balance |-> a.balance, code |-> a.codeHash, storage |-> a.storageHash]

(* d_get_long: of the balance and the nonce only the low 64 bits count.    *)
is_not_existened(a) ==
  a.balance % LongLimit = 0 /\ a.codeHash = NoCode /\ a.storageHash = NoTrie /\ a.nonce % LongLimit = 0

(* The entry s of a storage proof: a value of 0 is no value of the trie.   *)
StorageOk(a, s) ==
  IF a.storageHash = NoTrie THEN s.value = 0 /\ s.proof.of = NoTrie
  ELSE Proves(a.storageHash, s.key, s.proof, IF s.value = 0 THEN NULL ELSE s.value)

verify_proof(header, a) ==
  /\ Given(a.address)
  /\ Proves(header.state, a.address, a.accountProof, IF is_not_existened(a) THEN NULL ELSE serialize_acc(a))
  /\ Given(a.storageProof)
  /\ \A i \in DOMAIN a.storageProof : StorageOk(a, a.storageProof[i])

(* The compared value, by method; the first entry with the key decides.    *)
ResultOk(method, result, key, a) ==
  CASE method = "eth_getBalance" -> result = a.balance
    [] method = "eth_getTransactionCount" -> result = a.nonce
    [] method = "eth_getCode" -> result = a.codeHash
    [] method = "eth_getStorageAt" ->
         LET at == {i \in DOMAIN a.storageProof : a.storageProof[i].key = key}
         IN  at # {} /\ a.storageProof[CHOOSE i \in at : \A j \in at : i <= j].value = result
    [] method = "eth_call" -> TRUE
    [] OTHER -> FALSE

(* Mutant: the first account of the proof is taken for the one asked for.  *)
FirstAccount(accounts, address) == IF accounts = <<>> THEN 0 ELSE 1

(* The first account of the proof with the address, 0 when there is none.  *)
ProofedAccount(accounts, address) ==
  LET at == {i \in DOMAIN accounts : accounts[i].address = address}
  IN  IF at = {} THEN 0 ELSE CHOOSE i \in at : \A j \in at : i <= j

(* number is NULL when the request does not name a block by its number.    *)
eth_verify_account_proof(vc, method, address, key, number) ==
  LET p == vc.proof
      at == ProofedAccount(p.accounts, address)
  IN  \/ ~Given(vc.result)
      \/ /\ Given(p)
         /\ HeaderOk(vc, p.block, NULL)
         /\ Given(number) => p.block.number = number
         /\ \A i \in DOMAIN p.accounts : verify_proof(p.block, p.accounts[i])
         /\ at # 0
         /\ ResultOk(method, vc.result, key, p.accounts[at])

-----------------------------------------------------------------------------
(* eth_getLog.c.  A filter is [address, blockHash, fromBlock, toBlock,     *)
(* topics]; an address or a topic is given as the set of what may match.   *)

matches_filter_address(f, address) == Given(f.address) => address \in f.address

matches_filter_from_to(f, number) ==
  /\ f.fromBlock.is = "number" => number >= f.fromBlock.n
  /\ f.toBlock.is = "number" => number <= f.toBlock.n

matches_filter_range(f, number, hash) ==
  IF Given(f.blockHash) THEN hash = f.blockHash ELSE matches_filter_from_to(f, number)

(* Mutant: a filter longer than the topics of the log matches.             *)
TopicsPrefix(f, topics) ==
  Given(f.topics) => \A i \in DOMAIN f.topics \cap DOMAIN topics : Given(f.topics[i]) => topics[i] \in f.topics[i]

matches_filter_topics(f, topics) ==
  Given(f.topics) => \/ f.topics = <<>>
                     \/ /\ Len(topics) <= 4 /\ Len(f.topics) <= Len(topics)
                        /\ \A i \in DOMAIN f.topics : Given(f.topics[i]) => topics[i] \in f.topics[i]

matches_filter(f, l) ==
  /\ matches_filter_address(f, l.address)
  /\ matches_filter_range(f, l.blockNumber, l.blockHash)
  /\ matches_filter_topics(f, l.topics)

is_latest(b) == b.is = "latest"

filter_check_latest(f, blk, curr, last) ==
  IF Given(f.blockHash) THEN TRUE
  ELSE IF is_latest(f.fromBlock) THEN Approx(blk, curr, 1)
  ELSE is_latest(f.toBlock) =>
         /\ blk >= (IF f.fromBlock.is = "number" THEN f.fromBlock.n ELSE 0)
         /\ IF last THEN Approx(blk, curr, 1) ELSE blk <= curr + 1

(* The receipts the proof shows, one entry per receipt, or NULL when the   *)
(* proof is refused.                                                       *)
ReceiptOk(header, r) ==
  LET path == create_tx_path(r.txIndex)
  IN  /\ Proves(header.txs, path, r.txProof, Unset)
      /\ Proven(header.txs, path, r.txProof) = r.txHash
      /\ Proves(header.receipts, path, r.proof, Unset)

ReceiptsOf(vc) ==
  LET Of(lp) == [i \in DOMAIN lp.receipts |->
                   LET r == lp.receipts[i]
                   IN  [hash |-> r.txHash, header |-> lp.block, index |-> r.txIndex,
                        data |-> Proven(lp.block.receipts, create_tx_path(r.txIndex), r.proof)]]
  IN  FoldLeft(LAMBDA acc, lp : acc \o Of(lp), <<>>, vc.proof.logProof)

LogProofOk(vc) ==
  /\ Len(vc.proof.logProof) <= Len(vc.result)
  /\ Len(ReceiptsOf(vc)) <= Len(vc.result)
  /\ \A i \in DOMAIN vc.proof.logProof :
       LET lp == vc.proof.logProof[i]
       IN  /\ lp.key = lp.number
           /\ HeaderOk(vc, lp.block, NULL)
           /\ \A j \in DOMAIN lp.receipts : ReceiptOk(lp.block, lp.receipts[j])

(* The array of as many receipts as there are logs.  stale: what the part  *)
(* the proof did not fill holds, receipts an earlier call left on the      *)
(* stack, or nothing that matches.  The header of an entry of the proof is *)
(* written before its receipts are read: with none of them it is written   *)
(* over the one of the first cell that is not filled.                      *)
CellsOf(vc, stale) ==
  LET r == ReceiptsOf(vc)
      rest == IF Len(r) < Len(vc.result) THEN stale ELSE <<>>
      entries == vc.proof.logProof
  IN  r \o IF rest # <<>> /\ entries # <<>> /\ Last(entries).receipts = <<>>
           THEN <<[rest[1] EXCEPT !.header = Last(entries).block]>> \o Tail(rest) ELSE rest

LogOk(f, l, receipts) ==
  LET at == {n \in DOMAIN receipts : receipts[n].hash = l.transactionHash}
      r == receipts[CHOOSE n \in at : \A k \in at : n <= k]
  IN  /\ at # {}
      /\ Given(r.data)
      /\ l.transactionLogIndex + 1 \in DOMAIN r.data
      /\ LET e == r.data[l.transactionLogIndex + 1]
         IN  e.address = l.address /\ e.data = l.data /\ e.topics = l.topics
      /\ l.blockNumber = r.header.number
      /\ l.blockHash = r.header
      /\ ~l.removed
      /\ l.transactionIndex = r.index
      /\ matches_filter(f, l)

eth_verify_eth_getLog(vc, f, stale) ==
  LET logs == vc.result
  IN  \/ logs = <<>>
      \/ /\ Given(vc.proof)
         /\ LogProofOk(vc)
         /\ \A i \in DOMAIN logs :
              /\ LogOk(f, logs[i], CellsOf(vc, stale))
              /\ logs[1].blockNumber <= logs[i].blockNumber
              /\ filter_check_latest(f, logs[i].blockNumber, vc.currentBlock, i = Len(logs))

-----------------------------------------------------------------------------
(* nano is registered before basic, basic before full, and the first that  *)
(* does not ignore the method decides (in3_plugin_execute_first).          *)

ALLOWED_METHODS == {"eth_blockNumber", "eth_gasPrice", "eth_sendRawTransaction", "eth_getProof"}
AccountMethods == {"eth_getBalance", "eth_getCode", "eth_getStorageAt", "eth_getTransactionCount"}
ByBlock == {"eth_getTransactionByBlockHashAndIndex", "eth_getTransactionByBlockNumberAndIndex"}
CheckedByBasic == AccountMethods \union ByBlock \union
  {"eth_getTransactionByHash", "eth_getBlockByNumber", "eth_getBlockByHash", "eth_getLogs",
   "eth_getBlockTransactionCountByHash", "eth_getBlockTransactionCountByNumber", "eth_sendRawTransaction"}
NotChecked == {"eth_gasPrice", "eth_newFilter", "eth_newBlockFilter", "eth_uninstallFilter", "eth_getFilterChanges"}

(* What each verifier does: "ok" without a check, "check", or "ignore".    *)
in3_verify_eth_nano(level, method, result) ==
  IF level = "none" \/ result = "missing" \/ method \in ALLOWED_METHODS THEN "ok"
  ELSE IF method = "eth_getTransactionReceipt" THEN "check" ELSE "ignore"

in3_verify_eth_basic(eth, level, method, result) ==
  IF ~eth THEN "ignore"
  ELSE IF level = "none" \/ result = "missing" THEN "ok"
  ELSE IF result = "null" THEN IF method \in ByBlock THEN "check" ELSE "ok"
  ELSE IF method \in CheckedByBasic THEN "check" ELSE IF method \in NotChecked THEN "ok" ELSE "ignore"

in3_verify_eth_full(eth, level, method, result) ==
  IF ~eth THEN "ignore"
  ELSE IF level = "none" \/ result = "missing" THEN "ok"
  ELSE IF method = "eth_call" THEN "check" ELSE "ignore"

FirstAnswer(answers) ==
  LET at == {i \in DOMAIN answers : answers[i] # "ignore"}
  IN  IF at = {} THEN "unsupported" ELSE answers[CHOOSE i \in at : \A j \in at : i <= j]

Decision(eth, level, method, result) ==
  FirstAnswer(<<in3_verify_eth_nano(level, method, result), in3_verify_eth_basic(eth, level, method, result),
                in3_verify_eth_full(eth, level, method, result)>>)

(* The client takes an answer that needs no check or passes it.            *)
Takes(vc, method, check) ==
  LET d == Decision(TRUE, vc.level, method, IF Given(vc.result) THEN "value" ELSE "null")
  IN  d = "ok" \/ (d = "check" /\ check)

-----------------------------------------------------------------------------
(* What an accepted answer promises, whatever the node sent.               *)
Proof(vc) == vc.level # "none"

(* A header is accepted only when it is the one known for its number or    *)
(* every requested signer signed it; a signer that signed is never         *)
(* reported as missing; only one that sent a signed error is blacklisted.  *)
HeaderIsSigned(vc, header, expected) ==
  LET v == eth_verify_blockheader(vc, header, expected)
      Did(i, P(_)) == \E k \in DOMAIN vc.proof.signatures :
                        vc.proof.signatures[k].by = vc.signers[i] /\ P(vc.proof.signatures[k])
      Confirmed(s) == ~Given(s.error) /\ s.over = compute_msg_hash(vc, header)
      Erred(s) == Given(s.error) /\ s.over = s.error
      first == {i \in DOMAIN vc.signers : \A j \in 1..i - 1 : vc.signers[j] # vc.signers[i]}
  IN  /\ v.ok => \/ get_verified_hash(vc, header.number) = header
                 \/ ~Given(get_verified_hash(vc, header.number)) /\ \A i \in DOMAIN vc.signers : Did(i, Confirmed)
      /\ \A i \in first \cap v.offline : ~Did(i, Confirmed)
      /\ \A i \in v.banned : Did(i, Erred)
      /\ v.added => v.ok /\ ~Given(get_verified_hash(vc, header.number))

(* An accepted receipt is the receipt of the transaction that was asked    *)
(* for, at the index and in the block it names.                            *)
ReceiptIsProven(vc, tx) ==
  LET r == vc.result
      h == vc.proof.block
      path == create_tx_path(r.transactionIndex)
  IN  Proof(vc) /\ Takes(vc, "eth_getTransactionReceipt", eth_verify_eth_getTransactionReceipt(vc, tx)) /\ Given(r) =>
        /\ path \in DOMAIN h.txs /\ h.txs[path] = tx /\ h.receipts[path] = r.receipt
        /\ r.blockNumber = h.number /\ (Given(r.blockHash) => r.blockHash = h)
        /\ r.transactionHash = tx
        /\ \A i \in DOMAIN r.logs : r.logs[i].transactionHash = tx /\ r.logs[i].blockHash = h

(* The key that signed a transaction the chain holds.                      *)
SenderOf(raw) == raw.sig.by

(* An accepted transaction is in the block, at the index it names, and its *)
(* sender and chain, where given, are those it was signed with.            *)
InBlock(tx, h) ==
  LET path == create_tx_path(tx.transactionIndex)
  IN  /\ path \in DOMAIN h.txs /\ h.txs[path] = serialize(tx)
      /\ tx.hash = serialize(tx) /\ tx.blockNumber = h.number
      /\ Given(tx.from) => tx.from = SenderOf(serialize(tx))
      /\ Given(tx.from) /\ tx.type = 0 /\ Given(tx.chainId) =>
           create_unsigned_tx(serialize(tx), tx.chainId) = tx.sig.over

TransactionIsProven(vc, tx_hash) ==
  Proof(vc) /\ Takes(vc, "eth_getTransactionByHash", eth_verify_eth_getTransaction(vc, tx_hash)) =>
    InBlock(vc.result, vc.proof.block) /\ vc.result.hash = tx_hash

(* Asked by block and index, the answer is for that index of that block;   *)
(* null is accepted only where the proven index is empty or the proof does *)
(* not lead to its end.                                                    *)
TransactionByBlockIsProven(vc, blk, idx) ==
  LET h == vc.proof.block
  IN  Proof(vc) /\ Takes(vc, "eth_getTransactionByBlockHashAndIndex", eth_verify_eth_getTransactionByBlock(vc, blk, idx)) =>
        /\ blk.by = "hash" => h = blk.hash
        /\ blk.by = "number" => h.number = blk.number
        /\ IF Given(vc.result) THEN InBlock(vc.result, h) /\ vc.result.transactionIndex = idx
           ELSE vc.proof.merkleProof.cut \/ create_tx_path(vc.proof.txIndex) \notin DOMAIN h.txs

(* An accepted block is the header of its hash with the transactions, or   *)
(* their hashes, that are behind its root, and with the uncles of the      *)
(* header when the full proof was asked for.                               *)
BlockIsProven(vc, block_hash, number, full) ==
  LET r == vc.result
      listed == IF full THEN [i \in DOMAIN r.transactions |-> serialize(r.transactions[i])] ELSE r.transactions
  IN  Proof(vc) /\ Takes(vc, "eth_getBlockByHash", eth_verify_eth_getBlock(vc, block_hash, number, full)) =>
        /\ Given(block_hash) => header_of(r) = block_hash
        /\ number # 0 => header_of(r).number = number
        /\ TrieOf(listed) = header_of(r).txs
        /\ vc.level = "full" => r.uncleHashes = header_of(r).uncles

CountIsProven(vc, block_hash, number) ==
  Proof(vc) /\ Takes(vc, "eth_getBlockTransactionCountByHash", eth_verify_eth_getBlockTransactionCount(vc, block_hash, number)) =>
    /\ Cardinality(DOMAIN vc.proof.block.txs) = vc.result
    /\ IF Given(block_hash) THEN vc.proof.block = block_hash ELSE vc.proof.block.number = number

(* The value of an account that is accepted is that of the state, except   *)
(* that a proof which stops early can hide what is there, and that an      *)
(* account that is not there may have any multiple of 2^64.                *)
AccountIsProven(vc, method, address, key, number) ==
  LET st == vc.proof.block.state
      acc == IF address \in DOMAIN st THEN st[address] ELSE Empty
      slot == IF key \in DOMAIN acc.storage THEN acc.storage[key] ELSE 0
      want == CASE method = "eth_getBalance" -> acc.balance [] method = "eth_getTransactionCount" -> acc.nonce
                [] method = "eth_getCode" -> acc.code [] OTHER -> slot
      cut == \E i \in DOMAIN vc.proof.accounts :
               LET a == vc.proof.accounts[i]
               IN  a.address = address /\ (a.accountProof.cut \/ \E k \in DOMAIN a.storageProof : a.storageProof[k].proof.cut)
  IN  Proof(vc) /\ Takes(vc, method, eth_verify_account_proof(vc, method, address, key, number)) =>
        \/ vc.result = want
        \/ cut /\ vc.result = 0   \* NoCode is 0, too
        \/ (cut \/ acc = Empty) /\ method \in {"eth_getBalance", "eth_getTransactionCount"} /\ vc.result % LongLimit = 0

(* Every accepted log is in a receipt of a block whose header was verified *)
(* and matches the filter: the address is one of those asked for, the      *)
(* block is in the range, and every topic that is given is at its place.   *)
(* The exception: a log of a receipt that an earlier call left behind may  *)
(* be given the block of an entry of the proof that has no receipts.       *)
LogsAreProven(vc, f, stale) ==
  LET headers == {vc.proof.logProof[i].block : i \in DOMAIN vc.proof.logProof} \union {stale[i].header : i \in DOMAIN stale}
      Relabelled(l) == /\ Last(vc.proof.logProof).receipts = <<>>
                       /\ \A i \in DOMAIN ReceiptsOf(vc) : ReceiptsOf(vc)[i].hash # l.transactionHash
      In(l, h) == LET path == create_tx_path(l.transactionIndex)
                  IN  /\ ~Relabelled(l) => l.blockHash = h /\ l.blockNumber = h.number
                      /\ path \in DOMAIN h.txs /\ h.txs[path] = l.transactionHash
                      /\ [address |-> l.address, topics |-> l.topics, data |-> l.data] = h.receipts[path][l.transactionLogIndex + 1]
      Fits(l) == /\ Given(f.address) => l.address \in f.address
                 /\ Given(f.blockHash) => l.blockHash = f.blockHash
                 /\ ~Given(f.blockHash) /\ f.fromBlock.is = "number" => l.blockNumber >= f.fromBlock.n
                 /\ ~Given(f.blockHash) /\ f.toBlock.is = "number" => l.blockNumber <= f.toBlock.n
                 /\ Given(f.topics) => \A i \in DOMAIN f.topics :
                      i \in DOMAIN l.topics /\ (Given(f.topics[i]) => l.topics[i] \in f.topics[i])
  IN  Proof(vc) /\ Takes(vc, "eth_getLogs", eth_verify_eth_getLog(vc, f, stale)) /\ vc.result # <<>> =>
        \A i \in DOMAIN vc.result : Fits(vc.result[i]) /\ \E h \in headers : In(vc.result[i], h)
=============================================================================
