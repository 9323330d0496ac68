-------------------------------- MODULE Trie --------------------------------
(***************************************************************************)
(* The Merkle Patricia trie the client builds to check a block's           *)
(* transaction root (basic/trie.c) and the walk along a Merkle proof       *)
(* (nano/merkle.c).                                                        *)
(*                                                                         *)
(* keccak is taken to be free of collisions: the hash of a node is the     *)
(* node itself, and what matters is whether a node refers to its child by  *)
(* hash or holds it embedded, which its encoded size decides.  A path is a *)
(* sequence of nibbles below Radix.  HashSize is 32 in the code.           *)
(***************************************************************************)
EXTENDS Integers, Sequences, FiniteSets, SequencesExt

CONSTANTS Radix, HashSize, MaxDepth    \* 16, 32, MERKLE_DEPTH_MAX

Nibbles == 0..Radix - 1

(* References and nodes.  A leaf has a second value only after the wrong   *)
(* item of it was set (see SetLeaf).                                       *)
NoRef == [k |-> "none"]
HashOf(n) == [k |-> "hash", n |-> n]
Embed(n) == [k |-> "node", n |-> n]
trie_node_create_leaf(path, value) == [t |-> "leaf", path |-> path, v |-> value, more |-> <<>>]
trie_node_create_ext(path, target) == [t |-> "ext", path |-> path, to |-> target]
trie_node_create_branch(value) == [t |-> "branch", c |-> [i \in Nibbles |-> NoRef], v |-> value]

(* The encoded size of a node: its path as trie_node_value_from_nibbles    *)
(* packs it, its values, and its references.                               *)
ItemSize(len) == IF len = 1 THEN 1 ELSE len + 1
PathSize(path) == ItemSize(1 + Len(path) \div 2)
Sum(f) == FoldLeft(LAMBDA a, b : a + b, 0, f)
RECURSIVE DataLen(_)
RefSize(r) == CASE r.k = "none" -> 1 [] r.k = "hash" -> HashSize + 1 [] r.k = "node" -> DataLen(r.n)
DataLen(n) ==
  1 + CASE n.t = "leaf" -> PathSize(n.path) + ItemSize(Len(n.v)) + Sum([i \in DOMAIN n.more |-> ItemSize(Len(n.more[i]))])
        [] n.t = "ext" -> PathSize(n.path) + RefSize(n.to)
        [] n.t = "branch" -> ItemSize(Len(n.v)) + Sum([i \in 1..Radix |-> RefSize(n.c[i - 1])])

-----------------------------------------------------------------------------
(* Building.  db is the list of stored nodes, the newest first; an entry   *)
(* keeps the hash under which get_node finds it and its current content,   *)
(* which differ once a stored node was changed and not stored again.  A    *)
(* handle is a node in the hands of handle_node: id 0 is not in the list.  *)
Entry(id, n) == [id |-> id, hash |-> n, node |-> n]
Fresh(n) == [id |-> 0, node |-> n]
Ids(db) == {db[i].id : i \in DOMAIN db}

Write(db, h) == [i \in DOMAIN db |-> IF db[i].id = h.id THEN [db[i] EXCEPT !.node = h.node] ELSE db[i]]

update_db(db, h, top) ==
  IF DataLen(h.node) < HashSize /\ ~top THEN [db |-> Write(db, h), ref |-> Embed(h.node)]
  ELSE [db |-> IF h.id \in Ids(db) THEN [i \in DOMAIN db |-> IF db[i].id = h.id THEN Entry(h.id, h.node) ELSE db[i]]
               ELSE <<Entry(Cardinality(Ids(db)) + 1, h.node)>> \o db, ref |-> HashOf(h.node)]

(* get_node: the first entry with that hash. *)
get_node(db, hash) ==
  LET at == {i \in DOMAIN db : db[i].hash = hash}
  IN  IF at = {} THEN Fresh([t |-> "null"])
      ELSE LET e == db[CHOOSE i \in at : \A j \in at : i <= j] IN [id |-> e.id, node |-> e.node]

get_node_target(db, r) == IF r.k = "hash" THEN get_node(db, r.n) ELSE Fresh(r.n)

(* set_node_target embeds what it gets as a node, unless that is too long. *)
set_node_target(n, index, r) ==
  LET q == IF r.k = "node" /\ DataLen(r.n) >= HashSize THEN HashOf(r.n) ELSE r
  IN  IF n.t = "ext" THEN [n EXCEPT !.to = q] ELSE [n EXCEPT !.c[index] = q]

trie_matching_nibbles(a, b) ==
  CHOOSE m \in 0..Len(a) : /\ m <= Len(b) /\ \A i \in 1..m : a[i] = b[i]
                           /\ m = Len(a) \/ m = Len(b) \/ a[m + 1] # b[m + 1]

Rest(path, m) == SubSeq(path, m + 1, Len(path))

(* A node was embedded in slot 0: its start is computed from the element   *)
(* before it, which a branch's first slot does not have.                   *)
Lost(n, index) == n.t = "branch" /\ index = 0 /\ n.c[index].k = "node"
Broken(db) == [db |-> db, ref |-> NoRef, broken |-> TRUE]
Done(u) == [db |-> u.db, ref |-> u.ref, broken |-> FALSE]

(* The cases of handle_node for a path that ends at the node. *)
EndHere(db, h, value) ==
  CASE h.node.t = "branch" -> [db |-> db, h |-> [h EXCEPT !.node.v = value]]
    [] h.node.t = "leaf" /\ h.node.path = <<>> -> [db |-> db, h |-> [h EXCEPT !.node.more = Append(@, value)]]
    [] h.node.t = "leaf" /\ h.node.path # <<>> ->
         LET u == update_db(db, [h EXCEPT !.node.path = Tail(@)], FALSE)
         IN  [db |-> u.db, h |-> Fresh(set_node_target(trie_node_create_branch(value), h.node.path[1], u.ref))]
    [] h.node.t = "ext" /\ Len(h.node.path) = 1 ->
         [db |-> db, h |-> Fresh([trie_node_create_branch(value) EXCEPT !.c[h.node.path[1]] = h.node.to])]
    [] OTHER -> LET u == update_db(db, [h EXCEPT !.node.path = Tail(@)], FALSE)
                IN  [db |-> u.db, h |-> Fresh(set_node_target(trie_node_create_branch(value), h.node.path[1], u.ref))]

(* A leaf whose path is a proper prefix of the new path becomes a branch,  *)
(* behind an extension unless it had no path.                              *)
GrowLeaf(db, h, path, value) ==
  LET m == Len(h.node.path)
      u == update_db(db, Fresh(trie_node_create_leaf(Rest(path, m + 1), value)), FALSE)
      b == set_node_target(trie_node_create_branch(h.node.v), path[m + 1], u.ref)
      w == update_db(u.db, Fresh(b), FALSE)
  IN  IF m = 0 THEN [db |-> u.db, h |-> Fresh(b)]
      ELSE [db |-> w.db, h |-> [h EXCEPT !.node = trie_node_create_ext(h.node.path, w.ref)]]

(* Mutant: the extension in front of a new branch is forgotten. *)
SplitWithoutExt(db, h, path, value, m) ==
  LET b0 == IF m = Len(path) THEN trie_node_create_branch(value)
            ELSE set_node_target(trie_node_create_branch(<<>>), path[m + 1],
                                 Embed(trie_node_create_leaf(Rest(path, m + 1), value)))
      short == [h EXCEPT !.node.path = Rest(@, m + 1)]
      u == update_db(db, short, FALSE)
  IN  [db |-> u.db, h |-> Fresh(set_node_target(b0, h.node.path[m + 1], u.ref))]

(* The paths part after m nibbles: a branch with both, behind an extension *)
(* for what they share.  A new leaf of the branch is stored by             *)
(* set_node_target when it is too long to be embedded.                     *)
Split(db, h, path, value, m) ==
  LET leaf == Fresh(trie_node_create_leaf(Rest(path, m + 1), value))
      l == IF m = Len(path) THEN [db |-> db, ref |-> NoRef] ELSE update_db(db, leaf, FALSE)
      b0 == IF m = Len(path) THEN trie_node_create_branch(value)
            ELSE set_node_target(trie_node_create_branch(<<>>), path[m + 1], l.ref)
      short == [h EXCEPT !.node.path = Rest(@, m + 1)]
      gone == h.node.t = "ext" /\ short.node.path = <<>>
      u == IF gone THEN update_db(Write(l.db, short), get_node_target(l.db, h.node.to), FALSE)
           ELSE update_db(l.db, short, FALSE)
      b == set_node_target(b0, h.node.path[m + 1], u.ref)
      w == update_db(u.db, Fresh(b), FALSE)
  IN  IF m = 0 THEN [db |-> u.db, h |-> Fresh(b)]
      ELSE [db |-> w.db, h |-> Fresh(trie_node_create_ext(SubSeq(h.node.path, 1, m), w.ref))]

RECURSIVE handle_node(_, _, _, _, _)
handle_node(db, h, path, value, top) ==
  LET n == h.node
      Follow(r, index, rest) ==
        IF Lost(n, index) THEN Broken(db)
        ELSE LET sub == handle_node(db, get_node_target(db, r), rest, value, FALSE)
             IN  IF sub.broken THEN sub
                 ELSE Done(update_db(sub.db, [h EXCEPT !.node = set_node_target(n, index, sub.ref)], top))
      Store(x) == Done(update_db(x.db, x.h, top))
  IN  IF n.t = "null" THEN Done(update_db(db, Fresh(trie_node_create_leaf(path, value)), top))
      ELSE IF path = <<>> THEN Store(EndHere(db, h, value))
      ELSE IF n.t = "branch"
      THEN IF n.c[path[1]] = NoRef
           THEN LET u == update_db(db, Fresh(trie_node_create_leaf(Rest(path, 1), value)), FALSE)
                IN  Done(update_db(u.db, [h EXCEPT !.node = set_node_target(n, path[1], u.ref)], top))
           ELSE Follow(n.c[path[1]], path[1], Rest(path, 1))
      ELSE LET m == trie_matching_nibbles(n.path, path)
           IN  IF m < Len(n.path) THEN Store(Split(db, h, path, value, m))
               ELSE IF n.t = "ext" THEN Follow(n.to, 1, Rest(path, m))
               ELSE IF m < Len(path) THEN Store(GrowLeaf(db, h, path, value))
               ELSE Done(update_db(db, [h EXCEPT !.node.v = value], top))

(* The trie: its stored nodes and its root, NoRef for the empty one. *)
trie_new == [db |-> <<>>, root |-> NoRef, broken |-> FALSE]

trie_set_value(t, key, value) ==
  IF value = <<>> \/ t.broken THEN t
  ELSE LET r == handle_node(t.db, IF t.root = NoRef THEN Fresh([t |-> "null"]) ELSE get_node(t.db, t.root.n), key, value, TRUE)
       IN  [db |-> r.db, root |-> IF r.broken THEN t.root ELSE r.ref, broken |-> r.broken]

Build(kvs) == FoldLeft(LAMBDA t, kv : trie_set_value(t, kv.key, kv.value), trie_new, kvs)

-----------------------------------------------------------------------------
(* Verifying.  The outcome of check_node: ok, the rest of the key, the     *)
(* last value, the hash expected next and the depth.  A node embedded in   *)
(* slot 0 and the flag for the last node of an embedded one are computed   *)
(* from memory that is not theirs: Unknown.                                *)
NoValue == <<-1>>
AHash == <<-2>>    \* the bytes of a hash, which are no value of the trie
Unknown == [ok |-> "unknown"]
Fail == [ok |-> "no"]
On(key, last, hash, depth) == [ok |-> "yes", key |-> key, last |-> last, next |-> hash, depth |-> depth]

(* What a branch names as the next hash: none for a slot without a child.  *)
NextHash(r) == IF r.k = "hash" THEN r.n ELSE NoRef

(* Mutant: the path of a leaf is not compared with the rest of the key. *)
CheckNodeAnyLeaf(n, key, absent, is_last, last, next, depth) ==
  IF n.t = "branch" THEN On(Tail(key), last, NextHash(n.c[key[1]]), depth + 1)
  ELSE IF n.t = "leaf" THEN On(<<>>, n.v, NoRef, depth + 1)
  ELSE On(Rest(key, Len(n.path)), last, n.to.n, depth + 1)

RECURSIVE check_node(_, _, _, _, _, _, _)
check_node(n, key, absent, is_last, last, next, depth) ==
  IF depth + 1 > MaxDepth THEN Fail
  ELSE CASE n.t = "branch" /\ key = <<>> -> IF is_last THEN On(key, n.v, next, depth + 1) ELSE Fail
    [] n.t = "branch" /\ key # <<>> ->
         IF n.c[key[1]].k # "node" THEN On(Tail(key), last, NextHash(n.c[key[1]]), depth + 1)
         ELSE IF key[1] = 0 \/ Len(key) = 1 THEN Unknown
         ELSE check_node(n.c[key[1]].n, Tail(key), absent, Len(key) = 2, last, next, depth + 1)
    [] n.t # "branch" ->
         LET m == trie_matching_nibbles(n.path, key)
             rest == Rest(key, m)
             leaf == n.t = "leaf"
         IN  IF m # Len(n.path) THEN IF absent /\ is_last THEN On(key, last, next, depth + 1) ELSE Fail
             ELSE IF ~leaf /\ n.to.k = "node" THEN Unknown
             ELSE IF rest = <<>> /\ (~is_last \/ (absent /\ leaf)) THEN Fail
             ELSE IF rest # <<>> /\ leaf /\ ~absent THEN Fail
             ELSE IF leaf THEN On(rest, n.v, NoRef, depth + 1)
             ELSE On(rest, AHash, n.to.n, depth + 1)

(* trie_verify_proof: "yes", "no" or "unknown" for an expected value, or   *)
(* for NoValue, which asks that there is none.                             *)
trie_verify_proof(root, path, proof, expected) ==
  LET absent == expected = NoValue
      Step(s, i) == IF s.ok # "yes" THEN s
                    ELSE IF proof[i] # s.next THEN Fail
                    ELSE check_node(proof[i], s.key, absent, i = Len(proof), s.last, s.next, s.depth)
      end == FoldLeftDomain(Step, On(path, NoValue, root, 0), proof)
  IN  IF end.ok # "yes" THEN end.ok
      ELSE IF ~absent /\ end.last # expected THEN "no" ELSE "yes"

-----------------------------------------------------------------------------
(* The reference: the trie of a map from paths to values, as the yellow    *)
(* paper defines it, whatever the order the values came in.                *)
RefOf(n) == IF DataLen(n) < HashSize THEN Embed(n) ELSE HashOf(n)
Under(m, pre) == [q \in {Rest(p, Len(pre)) : p \in {x \in DOMAIN m : IsPrefix(pre, x)}} |-> m[pre \o q]]
Common(m) == CHOOSE p \in UNION {Prefixes(q) : q \in DOMAIN m} :
               /\ \A q \in DOMAIN m : IsPrefix(p, q)
               /\ \A r \in UNION {Prefixes(q) : q \in DOMAIN m} : (\A q \in DOMAIN m : IsPrefix(r, q)) => Len(r) <= Len(p)

RECURSIVE Canonical(_)
SlotRef(m) == IF DOMAIN m = {} THEN NoRef ELSE RefOf(Canonical(m))
Behind(m, p) ==
  IF p # <<>> THEN trie_node_create_ext(p, SlotRef(Under(m, p)))
  ELSE [t |-> "branch", v |-> IF <<>> \in DOMAIN m THEN m[<<>>] ELSE <<>>,
        c |-> [i \in Nibbles |-> SlotRef(Under(m, <<i>>))]]
Canonical(m) ==
  IF Cardinality(DOMAIN m) = 1 THEN LET p == CHOOSE q \in DOMAIN m : TRUE IN trie_node_create_leaf(p, m[p])
  ELSE Behind(m, Common(m))

MapOf(kvs) == [p \in {kvs[i].key : i \in DOMAIN kvs} |-> (CHOOSE i \in DOMAIN kvs : kvs[i].key = p)]
Values(kvs) == [p \in DOMAIN MapOf(kvs) |-> kvs[MapOf(kvs)[p]].value]
Injective(kvs) == \A i, j \in DOMAIN kvs : i # j => kvs[i].key # kvs[j].key /\ kvs[i].value # kvs[j].value
AllLong(kvs) == \A i \in DOMAIN kvs : Len(kvs[i].value) >= HashSize

(* The root the client computes is the root of the map, whatever the order *)
(* of the calls.  It can only be lost where a node is short enough to be   *)
(* embedded, which no transaction is.                                      *)
RootIsCanonical(kvs) ==
  Injective(kvs) => \A t \in {Build(kvs)} :
                      /\ AllLong(kvs) => ~t.broken
                      /\ t.broken \/ t.root = HashOf(Canonical(Values(kvs)))

(* The nodes an honest node sends as the proof of a path. *)
RECURSIVE ProofOf(_, _)
ProofOf(n, path) ==
  <<n>> \o (IF n.t = "branch" /\ path # <<>> /\ n.c[path[1]].k = "hash" THEN ProofOf(n.c[path[1]].n, Tail(path))
            ELSE IF n.t = "ext" /\ IsPrefix(n.path, path) /\ n.to.k = "hash" THEN ProofOf(n.to.n, Rest(path, Len(n.path)))
            ELSE <<>>)

(* For paths of one length, as in all tries of the chain: a proof is       *)
(* accepted for the value that is in the trie and for no other, a proof of *)
(* absence for a path that has no value, and a proof that was cut short    *)
(* never shows a value.                                                    *)
ProofsDecide(kvs, path, v) ==
  Injective(kvs) /\ kvs # <<>> /\ AllLong(kvs) =>
    \A m \in {Values(kvs)} : \A root \in {Canonical(m)} : \A proof \in {ProofOf(root, path)} :
        /\ trie_verify_proof(root, path, proof, v) = "yes" <=> path \in DOMAIN m /\ m[path] = v
        /\ trie_verify_proof(root, path, proof, NoValue) = "yes" <=> path \notin DOMAIN m
        /\ \A k \in 0..Len(proof) - 1 : trie_verify_proof(root, path, SubSeq(proof, 1, k), v) # "yes"
=============================================================================
