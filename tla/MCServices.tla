----------------------------- MODULE MCServices -----------------------------
(***************************************************************************)
(* The parts of the client that keep state of their own, checked side by   *)
(* side: a behaviour is one of a single part, the others do not move.      *)
(***************************************************************************)
EXTENDS HttpServer, Musig, TLC

CONSTANTS th1, th2, m1, m2, t1, t2, t3, Nothing

VARIABLES part
VARIABLES what, bb, sb, bs, wanted
VARIABLES net, conf, store, answer, waiting, accepted
VARIABLES frames, next, freed, status, ended, ops

bufVars == <<what, bb, sb, bs, wanted>>
btcVars == <<net, conf, store, answer, waiting, accepted>>
evmVars == <<frames, next, freed, status, ended, ops>>

(* What the proofs assume of the constants. *)
ASSUME ConstantsOK /\ MusigConstantsOK

U == INSTANCE Buffers WITH Lens <- {0, 1, 2, 3, 9}, FirstSize <- 2, WordBits <- 8, Bits <- {0, 7, 8, 15, 20}, MaxLen <- 20

(* Blocks 4 to 14, with their heights; 108 to 111 are a fork from 8 on with *)
(* a lower target, 208 has no work.                                         *)
Blocks == 4..14 \cup {108, 109, 110, 111, 208}
Parents == [b \in Blocks |-> IF b \in {108, 208} THEN 7 ELSE b - 1]
Targets == [b \in Blocks |-> IF b \in 8..11 THEN 105 ELSE IF b \in 12..14 THEN 250 ELSE IF b \in 108..111 THEN 90 ELSE 100]
Works == [b \in Blocks |-> b # 208]
BlockHeights == [b \in Blocks |-> b % 100]
(* Headers a node sends: none, the block itself, up to three above it. *)
Above(b, fs) == {f \in {Append(g, h) : g \in fs, h \in Blocks} : Parents[f[Len(f)]] = IF Len(f) = 1 THEN b ELSE f[Len(f) - 1]}
HeaderLists == [b \in Blocks |-> LET one == Above(b, {<<>>})
                                     two == Above(b, one)
                                 IN  {<<>>, <<b>>} \cup one \cup two \cup Above(b, two)]
(* Block 5 has only its coinbase transaction. *)
BlockTxs == [b \in Blocks |-> IF b = 5 THEN <<t1>> ELSE <<t1, t2>>]
B == INSTANCE Btc WITH Block <- Blocks, Parent <- Parents, Target <- Targets, Work <- Works, First <- {4, 5},
       Coinbase <- BlockHeights, Txs <- BlockTxs, Tx <- {t1, t2, t3}, Net <- {"btc", "test"},
       BTC_TARGETS <- <<[dap |-> 1, t |-> 100]>>, Checkpoint <- (6 :> 6), Epoch <- 4, Bip34 <- 6, Distance <- 3,
       Finality <- 2, Limits <- {[daps |-> 1, diff |-> 10], [daps |-> 2, diff |-> 200]}, Finals <- HeaderLists,
       Asked <- {4, 5, 7, 10, 109}, TxBlock <- {9}, ProofBlock <- {9, 109}, Heights <- {0, 4, 5}, MaxTargets <- 3

(* Two contracts, a and b, and an account n that does not exist yet. *)
Accounts == {"a", "b", "n"}
E == INSTANCE Evm WITH Addr <- Accounts, Pre <- {}, New <- "n", Key <- {1}, Known <- Accounts, Root <- "a", From <- "b",
       EnvBalance <- [a |-> 2, b |-> 1, n |-> 0], EnvNonce <- [a |-> 1, b |-> 1, n |-> 0],
       EnvCode <- [a |-> "code", b |-> "code", n |-> "none"],
       EnvStorage <- [a |-> (1 :> 1), b |-> (1 :> 0), n |-> <<>>],
       Gas <- 200000, GasMod <- 16777216, DataCost <- {3}, Values <- {0, 1}, CodeSizes <- {1},
       MaxOps <- 4, MaxDepth <- 3, MaxLogs <- 2

Parts == {"http", "musig", "buffers", "btc", "evm"}

(* A part that does not move starts in one state. *)
SuiteInit ==
  /\ part \in Parts
  /\ Init /\ MusigInit /\ U!Init /\ B!Init /\ E!Init
  /\ net = "btc"
  /\ part # "buffers" => what = "bb" /\ bs = U!bs_new(8)

SuiteNext ==
  /\ UNCHANGED part
  /\ \/ part = "http" /\ Next /\ UNCHANGED <<musigVars, bufVars, btcVars, evmVars>>
     \/ part = "musig" /\ MusigNext /\ UNCHANGED <<vars, bufVars, btcVars, evmVars>>
     \/ part = "buffers" /\ U!Next /\ UNCHANGED <<vars, musigVars, btcVars, evmVars>>
     \/ part = "btc" /\ B!Next /\ UNCHANGED <<vars, musigVars, bufVars, evmVars>>
     \/ part = "evm" /\ E!Next /\ UNCHANGED <<vars, musigVars, bufVars, btcVars>>

SuiteSpec == SuiteInit /\ [][SuiteNext]_<<part, vars, musigVars, bufVars, btcVars, evmVars>>

Symmetry == Permutations(Thread)

-----------------------------------------------------------------------------
(* bytes.c, stringbuilder.c, bitset.c: no operation writes behind the memory  *)
(* of its buffer, whatever was appended, replaced and cleared before; and the *)
(* set of bits holds exactly those that were set, across the move from the    *)
(* word to the heap and every growth.                                         *)
BuffersHold == part = "buffers" => U!WritesFit /\ U!BitsAgree

(* btc_check_finality, btc_verify_tx: what is accepted as part of the active  *)
(* chain has Finality headers with work on top of it, counted again behind a  *)
(* change of the target, and a transaction is in its block; the height of an  *)
(* old block is the one its checkpoint proves, whatever the node claims.      *)
(* btc_check_target, btc_set_target: all blocks of an epoch that were ever    *)
(* accepted on a chain have one target, across changes of chain and limits,   *)
(* proofs that failed half way, and restarts, since the targets in memory are *)
(* those of the chain's cache.                                                *)
AcceptedIsFinal ==
  part = "btc" => B!AcceptedIsFinal /\ B!OldHeightIsProven /\ B!OneTargetPerEpoch /\ B!CacheIsCurrent

(* transfer_value, evm_sub_call: no sequence of opcodes of any depth of calls *)
(* makes ether: what the running frame sees of all balances together is never *)
(* more than what the proof holds.  After a call that was reverted or that    *)
(* failed its caller sees the balances and nonces it saw before, but for the  *)
(* nonce that a CREATE costs its creator either way.                          *)
EtherIsAccounted ==
  /\ [](part = "evm" => E!NoEtherFromNothing)
  /\ [][part = "evm" => E!BalancesKept]_<<part, evmVars>>
=============================================================================
