------------------------------ MODULE NodeList ------------------------------
(***************************************************************************)
(* nodeselect/full/registry.c: what a node answers to in3_nodeList and     *)
(* in3_whiteList is compared with the storage of the registry contract.    *)
(*                                                                         *)
(* A hash is what was hashed, so a state root is the function from         *)
(* contracts to storage roots, and a storage root the one from slots to    *)
(* values: <<>> for an empty slot, <<n>> for a number, and what was hashed *)
(* for a hash.  Slots are numbered; slot 0 holds the number of servers, or *)
(* the hash of the white list.                                             *)
(***************************************************************************)
EXTENDS Naturals, Sequences

CONSTANTS NULL,  \* a value that is not there
          Wide   \* a weight with more than 8 bytes

-----------------------------------------------------------------------------
(* trie_verify_proof, as Trie shows it. *)
trie_verify_proof(root, key, value) ==
  value = IF key \in DOMAIN root THEN root[key] ELSE <<>>

(* The first proof with this key counts. *)
check_storage(proofs, key, value) ==
  \E i \in DOMAIN proofs :
    /\ proofs[i].key = key /\ proofs[i].value = value
    /\ \A j \in 1..(i - 1) : proofs[j].key # key

(* The slot of the hash of the server at this index; slots do not collide. *)
get_storage_array_key(index) == index + 1

(* The fields have fixed places in the buffer that is hashed, behind them     *)
(* the url; one that is too wide for its place is left out.                   *)
create_node_hash(n) == <<n.url, IF n.weight = Wide THEN 0 ELSE n.weight, n.address>>

(* Seeds: the first bytes are the step, the next ones the first position. *)
Keccak(seed) == (5 * seed + 3) % 16
StepOf(seed) == seed % 4
StartOf(seed) == seed \div 4

InSeq(v, s) == \E i \in DOMAIN s : s[i] = v

RECURSIVE Walk(_, _, _, _, _)

(* Mutant: a position is taken again. *)
WalkAgain(seed, pos, total, limit, indexes) ==
  IF Len(indexes) >= limit THEN indexes
  ELSE Walk(seed, (pos + StepOf(seed)) % total, total, limit, Append(indexes, pos))

(* The loop: a position that is taken changes the seed and so the step. *)
Walk(seed, pos, total, limit, indexes) ==
  IF Len(indexes) >= limit THEN indexes
  ELSE IF InSeq(pos, indexes)
       THEN Walk(Keccak(seed), (pos + StepOf(Keccak(seed))) % total, total, limit, indexes)
       ELSE Walk(seed, (pos + StepOf(seed)) % total, total, limit, Append(indexes, pos))

create_random_indexes(total, limit, seed, first) ==
  IF seed = NULL THEN [i \in 1..limit |-> 0]
  ELSE Walk(seed, StartOf(seed) % total, total, limit, first)

-----------------------------------------------------------------------------
(* The index the list gives to an address: of the first entry with it. *)
IndexOf(nodes, address) ==
  LET at == {i \in DOMAIN nodes : nodes[i].address = address}
  IN  nodes[CHOOSE i \in at : \A j \in at : i <= j].index

(* Mutant: the list is as long as asked for, whatever there is. *)
AnyPart(limit, total) == limit > 0

Partial(limit, total) == limit > 0 /\ limit < total

(* Mutant: only the number of the nodes is proven. *)
CountOnly(res, limit, seed, required, proofs) == check_storage(proofs, 0, <<res.total>>)

verify_nodelist_data(res, limit, seed, required, proofs) ==
  /\ check_storage(proofs, 0, <<res.total>>)
  /\ IF Partial(limit, res.total)
     THEN /\ Len(res.nodes) = limit
          /\ \A i \in DOMAIN required : \E j \in DOMAIN res.nodes : res.nodes[j].address = required[i]
          /\ LET first   == [i \in DOMAIN required |-> IndexOf(res.nodes, required[i])]
                 indexes == create_random_indexes(res.total, limit, seed, first)
             IN  \A i \in DOMAIN res.nodes : res.nodes[i].index = indexes[i]
     ELSE Len(res.nodes) = res.total
  /\ \A i \in DOMAIN res.nodes :
       check_storage(proofs, get_storage_array_key(res.nodes[i].index), create_node_hash(res.nodes[i]))

(* The addresses of the list, one behind the other. *)
verify_whitelist_data(res, proofs) ==
  /\ Len(res.nodes) = res.total
  /\ check_storage(proofs, 0, [i \in DOMAIN res.nodes |-> res.nodes[i].address])

(* Mutant: the values of the storage are taken as the node gives them. *)
StorageUnproven(res, proof, required) ==
  /\ proof # NULL /\ res.nodes # NULL
  /\ proof.header # NULL /\ proof.header.verified
  /\ res.contract # NULL /\ (required # NULL => res.contract = required)
  /\ proof.header.number >= res.lastBlock
  /\ Len(proof.accounts) = 1
  /\ LET a == proof.accounts[1]
     IN  a.address = res.contract /\ trie_verify_proof(proof.header.state, res.contract, a.storageHash)

(* The header, the account of the contract in its state, and every value in   *)
(* the storage of that account.                                               *)
verify_account(res, proof, required) ==
  /\ proof # NULL /\ res.nodes # NULL
  /\ proof.header # NULL /\ proof.header.verified
  /\ res.contract # NULL /\ (required # NULL => res.contract = required)
  /\ proof.header.number >= res.lastBlock
  /\ Len(proof.accounts) = 1
  /\ LET a == proof.accounts[1]
     IN  /\ a.address = res.contract
         /\ trie_verify_proof(proof.header.state, res.contract, a.storageHash)
         /\ \A i \in DOMAIN a.storageProof :
              trie_verify_proof(a.storageHash, a.storageProof[i].key, a.storageProof[i].value)

ProofsOf(vc) == vc.proof.accounts[1].storageProof

eth_verify_in3_nodelist(vc) ==
  /\ verify_account(vc.result, vc.proof, vc.contract)
  /\ verify_nodelist_data(vc.result, vc.limit, vc.seed, vc.required, ProofsOf(vc))

eth_verify_in3_whitelist(vc) ==
  /\ verify_account(vc.result, vc.proof, vc.whitelist)
  /\ verify_whitelist_data(vc.result, ProofsOf(vc))

(* Without a proof asked for, or a result, there is nothing to verify. *)
rpc_verify(vc) ==
  IF vc.method # "in3_nodeList" /\ vc.type # "eth" THEN "EIGNORE"
  ELSE IF ~vc.proves \/ vc.result = NULL THEN "OK"
  ELSE CASE vc.method = "in3_nodeList"  -> IF eth_verify_in3_nodelist(vc) THEN "OK" ELSE "EINVAL"
         [] vc.method = "in3_whiteList" -> IF eth_verify_in3_whitelist(vc) THEN "OK" ELSE "EINVAL"
         [] OTHER -> "EIGNORE"

-----------------------------------------------------------------------------
(* What the registry says, in the state of the header. *)
Slot(vc, key) ==
  LET storage == vc.proof.header.state[vc.result.contract]
  IN  IF key \in DOMAIN storage THEN storage[key] ELSE <<>>

Proven(vc) == rpc_verify(vc) = "OK" /\ vc.proves /\ vc.result # NULL

Distinct(s) == \A i, j \in DOMAIN s : s[i] = s[j] => i = j

(* A list that is accepted is of a verified block, not older than it claims,  *)
(* and of the contract the client asks for; every entry is registered there   *)
(* at its index, with all that fits the hash; there are as many as asked for  *)
(* or as are registered, the required ones among them, and the nodes of a     *)
(* partial list are chosen by the seed of the client without repetition.      *)
ProvenNodeLists(vc) ==
  Proven(vc) /\ vc.method = "in3_nodeList" =>
    LET nodes == vc.result.nodes
        Index(i) == nodes[i].index
    IN  /\ vc.proof.header.verified /\ vc.proof.header.number >= vc.result.lastBlock
        /\ vc.result.contract = vc.contract
        /\ Slot(vc, 0) = <<vc.result.total>>
        /\ \A i \in DOMAIN nodes : Slot(vc, Index(i) + 1) = create_node_hash(nodes[i])
        /\ IF vc.limit > 0 /\ vc.limit < vc.result.total
           THEN /\ Len(nodes) = vc.limit
                /\ \A i \in DOMAIN vc.required : \E j \in DOMAIN nodes : nodes[j].address = vc.required[i]
                /\ vc.seed # NULL /\ Distinct(vc.required) => Distinct([i \in DOMAIN nodes |-> Index(i)])
           ELSE <<Len(nodes)>> = Slot(vc, 0)

(* A white list that is accepted is the one the contract holds the hash of. *)
ProvenWhiteLists(vc) ==
  Proven(vc) /\ vc.method = "in3_whiteList" =>
    /\ vc.proof.header.verified
    /\ vc.whitelist # NULL => vc.result.contract = vc.whitelist
    /\ Slot(vc, 0) = [i \in 1..vc.result.total |-> vc.result.nodes[i].address]

(* The answer of an honest node is accepted. *)
HonestAccepted(vc) == vc.honest => rpc_verify(vc) = "OK"
=============================================================================
