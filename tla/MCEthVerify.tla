----------------------------- MODULE MCEthVerify -----------------------------
(* Answers for EthVerify: two blocks with two transactions each, and what a *)
(* node may send as result and proof for them, right and wrong.             *)
EXTENDS EthVerify, TLC

CONSTANTS A1, A2, A3
VARIABLES kind, x

Sig(by, over, par, high) == [by |-> by, over |-> over, parity |-> par, high |-> high]
T1 == [type |-> 0, body |-> "b1", v |-> 38, sig |-> Sig("k1", <<0, "b1", 1>>, 1, FALSE)]
T2 == [type |-> 2, body |-> "b2", v |-> 0, sig |-> Sig("k2", <<2, "b2">>, 0, FALSE)]
T3 == [type |-> 0, body |-> "b1", v |-> 27, sig |-> Sig("k1", <<0, "b1">>, 0, FALSE)]
T4 == [type |-> 0, body |-> "b2", v |-> 27, sig |-> Sig("k1", <<0, "b2">>, 0, TRUE)]
R1 == <<[address |-> A1, topics |-> <<"t1", "t2">>, data |-> "d1"], [address |-> A2, topics |-> <<"t1">>, data |-> "d2"]>>
R2 == <<[address |-> A1, topics |-> <<"t2">>, data |-> "d1"]>>
Acc1 == [nonce |-> 1, balance |-> 5, code |-> 3, storage |-> ("s1" :> 7)]
Acc2 == [nonce |-> 0, balance |-> 2, code |-> 0, storage |-> NoTrie]
State1 == (A1 :> Acc1) @@ (A2 :> Acc2)
State2 == (A1 :> [Acc1 EXCEPT !.balance = 6])

NewHeader(n, ts, rs, st, us) ==
  [number |-> n, txs |-> TrieOf(ts), receipts |-> TrieOf(rs), state |-> st, uncles |-> us, miner |-> A1, seal |-> "seal"]
B1 == NewHeader(1, <<T1, T2>>, <<R1, R2>>, State1, <<"u1">>)
B2 == NewHeader(2, <<T3, T4>>, <<R2, R1>>, State2, <<>>)
B3 == NewHeader(1, <<>>, <<>>, NoTrie, <<>>)
Blocks == {B1, B2}

VC(level, result, proof) ==
  [version |-> 2, registry |-> "reg", signers |-> <<>>, known |-> NoTrie, minHeight |-> 1, currentBlock |-> 2,
   level |-> level, result |-> result, proof |-> proof]
P(t, c) == [of |-> t, cut |-> c]
Lists(S) == {<<>>} \union {<<a>> : a \in S} \union {<<a, b>> : a, b \in S}

(* Signatures of the header B1. *)
Msg(h, v) == compute_msg_hash([version |-> v, registry |-> "reg"], h)
Signature(by, n, h, over) == [error |-> NULL, by |-> by, block |-> n, blockHash |-> h, over |-> over]
SignedError(c, sg, cur) ==
  LET e == [code |-> c, signed |-> sg, currentBlock |-> cur, signedCurrentBlock |-> 3]
  IN  [error |-> e, by |-> A2, block |-> 1, blockHash |-> NULL, over |-> e]
SigEntries == {Signature(by, 1, B1, o) : by \in {A1, A2, A3}, o \in {Msg(B1, 2), Msg(B1, 1), Msg(B2, 2)}}
   \union {Signature(A1, 2, B1, Msg(B1, 2)), Signature(A1, 1, B2, Msg(B1, 2))}
   \union {SignedError(c, sg, cur) : c \in {"internal", "finality"}, sg \in BOOLEAN, cur \in {0, 2}}
HeaderInput == \E sg \in {<<>>, <<A1>>, <<A1, A2>>}, k \in {NoTrie, 1 :> B1, 1 :> B2}, ss \in Lists(SigEntries), e \in {NULL, B1} :
  x' = [vc |-> [VC("standard", NULL, [signatures |-> ss]) EXCEPT !.signers = sg, !.known = k], h |-> B1, e |-> e]

ReceiptInput ==
  \E bh \in {B1, B2, NULL}, n \in {1, 2}, i \in {0, 1}, th \in {T1, T2}, r \in {R1, R2}, l \in {-1, 0, 1},
     b \in Blocks, pi \in {0, 1, 2}, tp \in {P(B1.txs, FALSE), P(B1.txs, TRUE), P(B2.txs, FALSE)} :
    x' = [vc |-> VC("full", [blockHash |-> bh, blockNumber |-> n, transactionIndex |-> i, transactionHash |-> th, receipt |-> r,
                             logs |-> IF l < 0 THEN <<>>
                                      ELSE <<[blockNumber |-> 1, blockHash |-> B1, logIndex |-> 0, transactionHash |-> T1, transactionIndex |-> l]>>],
                    [block |-> b, txIndex |-> pi, merkleProof |-> P(b.receipts, FALSE), txProof |-> tp, signatures |-> NULL]),
          tx |-> T1]

Json(raw, h, rw, fr, cid, bh, bn, ti, is) ==
  [type |-> raw.type, body |-> raw.body, v |-> raw.v, sig |-> raw.sig, hash |-> h, raw |-> rw, from |-> fr, publicKey |-> NULL,
   chainId |-> cid, standardV |-> NULL, blockHash |-> bh, blockNumber |-> bn, transactionIndex |-> ti, isRaw |-> is]
TxInput ==
  \E raw \in {T1, T2, T3}, h \in {T1, T2}, rw \in {NULL, T1}, fr \in {NULL, "k1", "k2"}, cid \in {NULL, 1, 5}, bh \in {B1, NULL},
     bn \in {1, 2}, ti \in {0, 1}, i \in {0, 1}, c \in BOOLEAN, ask \in {T1, T2} :
    x' = [vc |-> VC("standard", Json(raw, h, rw, fr, cid, bh, bn, ti, FALSE),
                    [block |-> B1, txIndex |-> i, merkleProof |-> P(B1.txs, c), signatures |-> NULL]), tx |-> ask]
ByBlockInput ==
  \E null \in BOOLEAN, raw \in {T1, T3}, h \in {T1, T3}, bh \in {B1, NULL}, bn \in {1, 2}, ti \in {0, 1}, b \in Blocks, i \in {0, 1, 2},
     c \in BOOLEAN, blk \in {[by |-> "hash", hash |-> B1], [by |-> "number", number |-> 1], [by |-> "latest"]}, ix \in {0, 1} :
    x' = [vc |-> VC("standard", IF null THEN NULL ELSE Json(raw, h, NULL, "k1", NULL, bh, bn, ti, FALSE),
                    [block |-> b, txIndex |-> i, merkleProof |-> P(b.txs, c), signatures |-> NULL]), blk |-> blk, idx |-> ix]

BlockResult(h, hash, txs, uh, au) ==
  [f \in HeaderFields |-> h[f]] @@ [hash |-> hash, transactions |-> txs, uncleHashes |-> uh, author |-> au, sealFields |-> NULL]
FullTx == {Json(T1, T1, NULL, fr, NULL, NULL, n, ti, FALSE) : fr \in {NULL, "k1", "k2"}, n \in {NULL, 1}, ti \in {NULL, 0, 1}}
            \union {Json(T2, T2, NULL, NULL, NULL, bh, NULL, NULL, r) : bh \in {NULL, B1, B2}, r \in BOOLEAN}
RawTx == {Json(t, t, NULL, NULL, NULL, NULL, NULL, NULL, TRUE) : t \in {T1, T2}}
BlockInput ==
  \/ \E lv \in {"standard", "full"}, hash \in Blocks, txs \in Lists(FullTx) :
       x' = [vc |-> VC(lv, BlockResult(B1, hash, txs, <<"u1">>, NULL), [transactions |-> NULL, uncles |-> <<"u1">>, signatures |-> NULL]),
             bh |-> B1, n |-> 1, full |-> TRUE]
  \/ \E lv \in {"standard", "full"}, h \in Blocks, txs \in Lists({T1, T2}), uh \in {<<>>, <<"u1">>, <<"u2">>, NULL}, au \in {NULL, A1, A2},
        pu \in {<<"u1">>, <<"u2">>}, bh \in {NULL, B1}, n \in {0, 1}, pt \in Lists(RawTx) \union {NULL} :
       x' = [vc |-> VC(lv, BlockResult(h, h, txs, uh, au), [transactions |-> pt, uncles |-> pu, signatures |-> NULL]),
             bh |-> bh, n |-> n, full |-> FALSE]
CountInput == \E c \in 0..2, pt \in Lists({T1, T2}) \union {NULL}, b \in Blocks \union {B3}, bh \in {NULL, B1}, n \in {0, 1} :
  x' = [vc |-> VC("standard", c, [transactions |-> pt, block |-> b, signatures |-> NULL]), bh |-> bh, n |-> n]

StorageProofs == {<<>>} \union {<<[key |-> k, value |-> v, proof |-> P(t, c)]>> :
                                  k \in {"s1", "s2"}, v \in {0, 7, 8}, t \in {Acc1.storage, NoTrie}, c \in BOOLEAN}
Account(a, d, c, sp) == [address |-> a, nonce |-> d.nonce, balance |-> d.balance, codeHash |-> d.code, storageHash |-> d.storage,
                         accountProof |-> P(State1, c), storageProof |-> sp]
Data == {Acc1, Acc2, Empty, [Empty EXCEPT !.balance = 8], [Acc1 EXCEPT !.balance = 6], [Empty EXCEPT !.storage = Acc1.storage]}
AccountInput ==
  \/ \E r \in {0, 1, 2, 5, 7, 8}, a \in {A1, A2, A3}, d \in Data, c \in BOOLEAN, sp \in StorageProofs,
        m \in {"eth_getBalance", "eth_getStorageAt"}, n \in {NULL, 1, 2} :
       x' = [vc |-> VC("standard", r, [block |-> B1, accounts |-> <<Account(a, d, c, sp)>>, signatures |-> NULL]), m |-> m, a |-> A1, k |-> "s1", n |-> n]
  \/ \E r \in {0, 1, 2, 3, 5, 6, 8}, d1, d2 \in Data, c1, c2 \in BOOLEAN, m \in AccountMethods \ {"eth_getStorageAt"} :
       x' = [vc |-> VC("standard", r, [block |-> B1, accounts |-> <<Account(A2, d1, c1, <<>>), Account(A1, d2, c2, <<>>)>>, signatures |-> NULL]),
             m |-> m, a |-> A1, k |-> "s1", n |-> NULL]

At(is, n) == [is |-> is, n |-> n]
Filters == {[address |-> ad, blockHash |-> bh, fromBlock |-> fb, toBlock |-> tb, topics |-> tp] :
     ad \in {NULL, {A1}}, bh \in {NULL, B1}, fb \in {At("none", 0), At("number", 2), At("latest", 0)},
     tb \in {At("none", 0), At("number", 1), At("latest", 0)}, tp \in {NULL, <<NULL, {"t2"}>>, <<{"t1", "t2"}>>}}
Rec(b, i, c) == [txIndex |-> i, txHash |-> b.txs[create_tx_path(i)], txProof |-> P(b.txs, FALSE), proof |-> P(b.receipts, c)]
LogProofs == {[key |-> b.number, number |-> b.number, block |-> b, receipts |-> <<Rec(b, i, c)>>] : b \in Blocks, i \in {0, 1}, c \in BOOLEAN}
  \union {[key |-> 1, number |-> 1, block |-> B1, receipts |-> <<>>]}
Stale == <<[hash |-> T3, header |-> B2, index |-> 0, data |-> R2]>>
AnyLog == [address |-> NULL, blockHash |-> NULL, fromBlock |-> At("none", 0), toBlock |-> At("none", 0), topics |-> NULL]
LogInput ==
  \E t \in {T1, T3}, b \in Blocks, li \in {0, 1}, ad \in {A1, A2}, tp \in {<<"t1">>, <<"t2">>, <<"t1", "t2">>}, bn \in {1, 2}, ti \in {0, 1}, lp \in LogProofs, f \in Filters :
    /\ (t = T1) # (b = B1) => f = AnyLog
    /\ x' = [vc |-> VC("standard", <<[transactionHash |-> t, transactionLogIndex |-> li, address |-> ad,
                                   data |-> IF ad = A1 THEN "d1" ELSE "d2", topics |-> tp, blockNumber |-> bn, blockHash |-> b,
                                   removed |-> FALSE, transactionIndex |-> ti]>>, [logProof |-> <<lp>>, signatures |-> NULL]), f |-> f, stale |-> Stale]

Init == kind = "start" /\ x = 0
Next == /\ kind = "start"
        /\ \/ kind' = "signed header" /\ HeaderInput
           \/ kind' = "receipt" /\ ReceiptInput
           \/ kind' = "transaction" /\ TxInput
           \/ kind' = "by block" /\ ByBlockInput
           \/ kind' = "block" /\ BlockInput
           \/ kind' = "count" /\ CountInput
           \/ kind' = "account" /\ AccountInput
           \/ kind' = "logs" /\ LogInput

-----------------------------------------------------------------------------
(* eth_verify_blockheader: a header is accepted only with a valid signature   *)
(* of every signer asked for, or when its hash was verified before; and only  *)
(* such a hash is added to the verified ones.                                 *)
SignedHeaders == kind = "signed header" => HeaderIsSigned(x.vc, x.h, x.e)

(* eth_verify_eth_getTransactionReceipt: what is accepted is the receipt the  *)
(* block's tries hold at the index of the transaction that was asked for.     *)
ProvenReceipts == kind = "receipt" => ReceiptIsProven(x.vc, x.tx)

(* eth_verify_eth_getTransaction, ...ByBlock: an accepted transaction is in   *)
(* the block at its index, has the hash asked for, and its sender signed it.  *)
ProvenTransactions == /\ kind = "transaction" => TransactionIsProven(x.vc, x.tx)
                      /\ kind = "by block" => TransactionByBlockIsProven(x.vc, x.blk, x.idx)

(* eth_verify_eth_getBlock, ...TransactionCount: the fields, transactions and *)
(* uncles of an accepted block, and an accepted count, are those of the       *)
(* header asked for.                                                          *)
ProvenBlocks == /\ kind = "block" => BlockIsProven(x.vc, x.bh, x.n, x.full)
                /\ kind = "count" => CountIsProven(x.vc, x.bh, x.n)

(* eth_verify_account_proof: an accepted balance, nonce, code hash or storage *)
(* value is the one of the account asked for in the state of the header, with *)
(* the exceptions AccountIsProven states.                                     *)
ProvenAccounts == kind = "account" => AccountIsProven(x.vc, x.m, x.a, x.k, x.n)

(* eth_verify_eth_getLog: an accepted log is a log of its transaction's       *)
(* receipt in a proven block and matches the filter, with the exception       *)
(* LogsAreProven states.                                                      *)
ProvenLogs == kind = "logs" => LogsAreProven(x.vc, x.f, x.stale)
==============================================================================
