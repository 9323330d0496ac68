------------------------------ MODULE ChainSpec ------------------------------
(***************************************************************************)
(* nano/chainspec.c: which rules (EIPs) and which consensus hold for a     *)
(* block of a chain.  A specification is made from the JSON of a client,   *)
(* written to RLP, which is compiled into the library, and read from it.   *)
(***************************************************************************)
EXTENDS Rlp

CONSTANTS Flags,         \* bits of a byte
          Vanity, Seal   \* bytes before and behind the signers in extraData

(* EIPS and the bits of eip_t, 145 is listed twice. *)
EIPS == <<145, 155, 150, 160, 170, 140, 196, 197, 198, 211, 214, 658, 145, 1014, 1052, 1283>>
EipBits == <<140, 145, 150, 155, 160, 170, 196, 197, 198, 211, 214, 658, 1014, 1052, 1283>>

ETH_POW == 0
ETH_POA_AURA == 1
ETH_POA_CLIQUE == 2

-----------------------------------------------------------------------------
(* params: start and end give the block of eip<n>Transition and of            *)
(* eip<n>DisableTransition for those that have one.                           *)
BlockOf(f, e) == IF e \in DOMAIN f THEN {f[e]} ELSE {}

(* Mutant: the rule is still active in the block that disables it. *)
ActiveAtEnd(p, e, b) == (\E s \in BlockOf(p.start, e) : s <= b) /\ \A n \in BlockOf(p.end, e) : n >= b

ActiveAt(p, e, b) == (\E s \in BlockOf(p.start, e) : s <= b) /\ \A n \in BlockOf(p.end, e) : n > b

(* Mutant: only the starts of rules begin a new set of them. *)
NextStart(p, b) ==
  FoldLeft(LAMBDA n, e : FoldLeft(LAMBDA m, s : IF s > b /\ (m = b \/ s < m) THEN s ELSE m, n, SetToSeq(BlockOf(p.start, e))), b, EIPS)

(* The next block with a change, or b when there is none. *)
NextBlock(p, b) ==
  LET Earlier(n, s) == IF s > b /\ (n = b \/ s < n) THEN s ELSE n
  IN  FoldLeft(LAMBDA n, e : FoldLeft(Earlier, n, SetToSeq(BlockOf(p.start, e)) \o SetToSeq(BlockOf(p.end, e))), b, EIPS)

fill_transition(p, b) == {EIPS[n] : n \in {k \in DOMAIN EIPS : ActiveAt(p, EIPS[k], b)}}

(* The loop over the blocks with changes. *)
RECURSIVE EipTransitions(_, _)
EipTransitions(p, b) ==
  <<[block |-> b, eips |-> fill_transition(p, b)]>>
    \o (IF NextBlock(p, b) > b THEN EipTransitions(p, NextBlock(p, b)) ELSE <<>>)

(* validators: a record with a contract or a list of addresses, Absent if     *)
(* there is none; an address may be written shorter.                          *)
fill_aura(v, block) ==
  [block |-> block, type |-> ETH_POA_AURA,
   contract |-> IF v.contract = Absent THEN <<>> ELSE PadLeft(v.contract, AddressLen),
   validators |-> Concat([i \in DOMAIN v.list |-> PadLeft(v.list[i], AddressLen)])]

(* Without "multi" there is one transition. *)
ConsensusTransitions(j) ==
  CASE j.engine = "Ethash" -> <<[block |-> 0, type |-> ETH_POW, contract |-> <<>>, validators |-> <<>>]>>
    [] j.engine = "authorityRound" ->
         IF j.multi THEN [i \in DOMAIN j.validators |-> fill_aura(j.validators[i].set, j.validators[i].block)]
         ELSE <<fill_aura(j.validators[1].set, 0)>>
    [] j.engine = "clique" ->
         <<[block |-> 0, type |-> ETH_POA_CLIQUE, contract |-> <<>>,
            validators |-> SubSeq(j.extraData, Vanity + 1, Len(j.extraData) - Seal)]>>

chainspec_create_from_json(j) ==
  [network |-> j.network, nonce |-> j.nonce, eips |-> EipTransitions(j.params, 0), consensus |-> ConsensusTransitions(j)]

(* Mutant: a transition holds from the next block on. *)
LastBefore(ts, b) ==
  LET at == {i \in DOMAIN ts : ts[i].block < b} IN IF at = {} THEN 1 ELSE CHOOSE i \in at : \A j \in at : j <= i

(* The last transition that is not behind the block, or the first one. *)
LastUpTo(ts, b) ==
  LET at == {i \in DOMAIN ts : ts[i].block <= b} IN IF at = {} THEN 1 ELSE CHOOSE i \in at : \A j \in at : j <= i

chainspec_get_eip(spec, b) == spec.eips[LastUpTo(spec.eips, b)].eips
chainspec_get_consensus(spec, b) == spec.consensus[LastUpTo(spec.consensus, b)]

-----------------------------------------------------------------------------
(* The binary form *)

BytesOf(n) == IF n = 0 THEN <<>> ELSE DropZeros(BigEndian(n, 4))
NumOf(b) == FoldLeft(LAMBDA a, d : a * Base + d, 0, b)
add_rlp(n) == rlp_encode_item(BytesOf(n))

(* eip_t as bytes, and the rules of such bytes *)
EipBytes(S) ==
  [i \in 1..((Len(EipBits) + Flags - 1) \div Flags) |->
     FoldLeft(LAMBDA a, k : a + (IF (i - 1) * Flags + k <= Len(EipBits) /\ EipBits[(i - 1) * Flags + k] \in S THEN 2^(k - 1) ELSE 0),
              0, [k \in 1..Flags |-> k])]
EipsOf(b) == {EipBits[k] : k \in {n \in DOMAIN EipBits : (b[(n - 1) \div Flags + 1] \div 2^((n - 1) % Flags)) % 2 = 1}}

chainspec_to_bin(spec) ==
  LET eips == Concat([i \in DOMAIN spec.eips |-> add_rlp(spec.eips[i].block) \o rlp_encode_item(EipBytes(spec.eips[i].eips))])
      cons == Concat([i \in DOMAIN spec.consensus |->
                 LET t == spec.consensus[i]
                 IN  add_rlp(t.block) \o add_rlp(t.type) \o rlp_encode_item(t.validators) \o rlp_encode_item(t.contract)])
  IN  rlp_encode_to_list(add_rlp(1) \o add_rlp(spec.network) \o add_rlp(spec.nonce)
                           \o rlp_encode_list(eips) \o rlp_encode_list(cons))

NoSpec == [network |-> 0, nonce |-> 0, eips |-> <<>>, consensus |-> <<>>]

(* What is read from the elements of the two lists. *)
ReadEips(l) ==
  [i \in 1..(rlp_decode_len(l) \div 2) |->
     [block |-> NumOf(rlp_decode(l, 2 * i - 2).val), eips |-> EipsOf(rlp_decode(l, 2 * i - 1).val)]]
ReadConsensus(l) ==
  [i \in 1..(rlp_decode_len(l) \div 4) |->
     [block |-> NumOf(rlp_decode(l, 4 * i - 4).val), type |-> NumOf(rlp_decode(l, 4 * i - 3).val),
      validators |-> rlp_decode(l, 4 * i - 2).val, contract |-> rlp_decode(l, 4 * i - 1).val]]

(* Every element of the two lists that is read is an item. *)
ItemsRead(l, size) == \A i \in 1..((rlp_decode_len(l) \div size) * size) : rlp_decode(l, i - 1).rc = 1

(* The version, the network and the nonce are items, then come two lists. *)
ReadSpec(d) ==
  IF \/ rlp_decode(d, 0) # [rc |-> 1, val |-> <<1>>]
     \/ \E i \in 1..2 : rlp_decode(d, i).rc # 1 \/ rlp_decode(d, i + 2).rc # 2
     \/ ~ItemsRead(rlp_decode(d, 3).val, 2) \/ ~ItemsRead(rlp_decode(d, 4).val, 4)
  THEN NoSpec
  ELSE [network |-> NumOf(rlp_decode(d, 1).val), nonce |-> NumOf(rlp_decode(d, 2).val),
        eips |-> ReadEips(rlp_decode(d, 3).val), consensus |-> ReadConsensus(rlp_decode(d, 4).val)]

(* The data has no length: the one of the list it begins with counts. *)
chainspec_from_bin(raw) == IF rlp_decode(raw, 0).rc = 2 THEN ReadSpec(rlp_decode(raw, 0).val) ELSE NoSpec

-----------------------------------------------------------------------------
(* The list of the specifications that are known, newest first. *)
Known(specs, id) == {i \in DOMAIN specs : specs[i].id = id}
FirstKnown(specs, id) == CHOOSE i \in Known(specs, id) : \A j \in Known(specs, id) : i <= j

(* builtin: the chains whose specification is compiled in. *)
Loaded(specs, id, builtin) ==
  IF Known(specs, id) = {} /\ id \in DOMAIN builtin THEN <<[id |-> id, spec |-> builtin[id]]>> \o specs ELSE specs
chainspec_get(specs, id, builtin) ==
  LET l == Loaded(specs, id, builtin) IN IF Known(l, id) = {} THEN 0 ELSE l[FirstKnown(l, id)].spec
chainspec_put(specs, id, spec) ==
  IF Known(specs, id) = {} THEN <<[id |-> id, spec |-> spec]>> \o specs
  ELSE [specs EXCEPT ![FirstKnown(specs, id)].spec = spec]

-----------------------------------------------------------------------------
(* Exactly the rules that began and did not end hold for a block. *)
RulesHold(j, spec, b) ==
  chainspec_get_eip(spec, b) =
    {e \in DOMAIN j.params.start : j.params.start[e] <= b /\ (e \in DOMAIN j.params.end => b < j.params.end[e])}

(* The validators of a block are the last ones that began. *)
ValidatorsHold(j, spec, b) ==
  j.multi => \A i \in DOMAIN j.validators :
    j.validators[i].block <= b /\ (i < Len(j.validators) => b < j.validators[i + 1].block) =>
      chainspec_get_consensus(spec, b).validators = fill_aura(j.validators[i].set, 0).validators

(* Made from JSON and read from the binary form again, a specification is the *)
(* same, and says of every block what the JSON says.                          *)
ReadsAgree(j, blocks, spec, read) == read = spec /\ \A b \in blocks : RulesHold(j, read, b) /\ ValidatorsHold(j, read, b)
SpecAgrees(j, blocks, spec) == ReadsAgree(j, blocks, spec, chainspec_from_bin(chainspec_to_bin(spec)))
RulesAgree(j, blocks) == SpecAgrees(j, blocks, chainspec_create_from_json(j))

(* After any calls, a chain has what was put last for it, or what is compiled *)
(* in.  A call is a pair of a chain and what is put, 0 for a mere look.       *)
LastPutCounts(calls, builtin) ==
  LET Do(s, c) == IF c[2] = 0 THEN Loaded(s, c[1], builtin) ELSE chainspec_put(s, c[1], c[2])
      Puts(id) == {i \in DOMAIN calls : calls[i][1] = id /\ calls[i][2] # 0}
  IN  \A id \in {c[1] : c \in {calls[i] : i \in DOMAIN calls}} :
        chainspec_get(FoldLeft(Do, <<>>, calls), id, builtin) =
          IF Puts(id) # {} THEN calls[CHOOSE i \in Puts(id) : \A k \in Puts(id) : k <= i][2]
          ELSE IF id \in DOMAIN builtin THEN builtin[id] ELSE 0
=============================================================================
