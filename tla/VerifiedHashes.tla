--------------------------- MODULE VerifiedHashes ---------------------------
(***************************************************************************)
(* The table of verified block hashes of a client: filled by               *)
(* eth_verify_blockheader, changed by in3_configure, shrunk when requests  *)
(* end, and kept in the cache with the node list.  A table is memory: a    *)
(* sequence of cells, as long as what was allocated, some never written.   *)
(* What is read behind it, or was never written, may be anything; what is  *)
(* written behind it is lost in the model and marks the behaviour spoiled. *)
(***************************************************************************)
EXTENDS Integers, Sequences, FiniteSets

CONSTANTS Chain, Signer,
          Hash,         (* of every number: the hashes its block may have   *)
          Numbers,      (* block numbers, all positive                      *)
          Sizes,        (* values of maxVerifiedHashes                      *)
          DefaultMax,   (* 5 in in3_client_init                             *)
          JunkNumbers,  (* block numbers memory nobody wrote may show       *)
          MaxPending,   (* bound: requests at the same time                 *)
          MaxVerified,  (* bound: hashes that are verified or configured    *)
          NoTable       (* NULL                                             *)

VARIABLES chain, pending,
          max, alloc,   (* max_verified_hashes, alloc_verified_hashes       *)
          table,        (* chain.verified_hashes                            *)
          stored,       (* of every chain: the hashes in the cache          *)
          verified,     (* history: what was verified or configured         *)
          newest,       (* history: the last entry added                    *)
          spoiled       (* history: a list of hashes was refused half way,  *)
                        (* or written behind the table                      *)

vars == <<chain, pending, max, alloc, table, stored, verified, newest, spoiled>>

Entry(n, h) == [num |-> n, hash |-> h]
Zero        == [num |-> 0, hash |-> "none"]     (* memory of calloc         *)
Junk(n)     == [num |-> n, hash |-> "junk"]     (* memory never written     *)
NoEntry     == [num |-> 0, hash |-> "newest"]

(* What a cell may hold. *)
Hashes == UNION {Hash[n] : n \in Numbers}
Cell   == [num : Nat, hash : Hashes \cup {"none", "junk"}]

(* The constants; NULL is no memory. *)
ConstantsOK ==
  /\ Numbers \subseteq Nat \ {0} /\ Sizes \subseteq Nat /\ DefaultMax \in Nat /\ MaxPending \in Nat
  /\ JunkNumbers \subseteq Nat
  /\ "junk" \notin Hashes /\ NoTable \notin Seq(Cell)

Zeros(n) == [i \in 1..n |-> Zero]

(* The cells up to n that are not in the memory of a table, and what may be   *)
(* found in them.                                                             *)
Behind(t, n) == {i \in 1..n : t = NoTable \/ i > Len(t)}
Fills(t, n)  == [Behind(t, n) -> {Junk(k) : k \in JunkNumbers}]

(* _realloc: the cells kept, then memory never written. *)
Realloc(t, n, fill) == [i \in 1..n |-> IF i \in Behind(t, n) THEN fill[i] ELSE t[i]]

(* A write to a cell, lost behind the table. *)
Write(t, at, e) == [i \in DOMAIN t |-> IF i = at THEN e ELSE t[i]]

(* memset of the cells from..to *)
Clear(t, from, to) == [i \in DOMAIN t |-> IF i \in from..to THEN Zero ELSE t[i]]

Init ==
  /\ chain \in Chain /\ pending = 0
  /\ max = DefaultMax /\ alloc = 0 /\ table = NoTable
  /\ stored = [c \in Chain |-> <<>>]
  /\ verified = {} /\ newest = NoEntry /\ spoiled = FALSE

-----------------------------------------------------------------------------
(* eth_verify_blockheader *)

(* get_verified_hash reads max cells, those behind the table too, which may   *)
(* hold any number: the hash of a block is surely known when a cell of the    *)
(* table has its number.                                                      *)
SurelyKnown(n) == table # NoTable /\ \E i \in 1..max : i \in DOMAIN table /\ table[i].num = n

(* Mutant: a number that is known is added once more. *)
AddAlways(t, a, n, h) ==
  LET free == {i \in 1..a : t[i].num = 0}
  IN  IF free # {} THEN CHOOSE i \in free : \A j \in free : i <= j ELSE a + 1

(* The cell add_verified writes: the first one that is free or has the        *)
(* number, or a new one behind the last.                                      *)
AddAt(t, a, n, h) ==
  LET fit == {i \in 1..a : t[i].num \in {0, n}}
  IN  IF fit # {} THEN CHOOSE i \in fit : \A j \in fit : i <= j ELSE a + 1

(* add_verified: alloc cells are searched, whether they are there or not.     *)
AddVerified(n, h) ==
  LET fresh == table = NoTable
      t     == IF fresh THEN Zeros(max) ELSE table
      a     == IF fresh THEN max ELSE alloc
  IN  IF max = 0 THEN UNCHANGED <<table, alloc, newest>>
      ELSE \E fill \in Fills(t, a + 1) :
             LET seen == Realloc(t, a + 1, fill)
                 at   == AddAt(seen, a, n, h)
             IN  /\ table' = Write(IF at > a THEN seen ELSE t, at, Entry(n, h))
                 /\ alloc' = IF at > a THEN at ELSE a
                 /\ newest' = IF at > a \/ seen[at].num = 0 \/ newest.num = n THEN Entry(n, h) ELSE newest

(* The signatures asked for: every signer confirms, reports an error, or is   *)
(* missing.  Only with all of them confirmed the hash is accepted and kept.   *)
VerifyBlockheader(n, h, answers) ==
  /\ pending > 0
  /\ ~SurelyKnown(n)
  /\ \A s \in Signer : answers[s] = "confirmed"
  /\ verified' = verified \cup {<<chain, n, h>>} /\ Cardinality(verified') <= MaxVerified
  /\ AddVerified(n, h)
  /\ UNCHANGED <<chain, pending, max, stored, spoiled>>

-----------------------------------------------------------------------------
NewRequest ==
  /\ pending < MaxPending
  /\ pending' = pending + 1
  /\ UNCHANGED <<chain, max, alloc, table, stored, verified, newest, spoiled>>

(* Mutant: the oldest entries are kept. *)
ShrinkKeepsOldest(t) == [i \in 1..max |-> t[i]]

(* memmove and _realloc: the newest entries are kept. *)
Shrunk(t) == [i \in 1..max |-> t[i + alloc - max]]

(* req_free_intern, with in3_check_verified_hashes at its end *)
FreeRequest ==
  /\ pending > 0
  /\ pending' = pending - 1
  /\ IF pending' <= 1 /\ alloc > max
     THEN table' = Shrunk(table) /\ alloc' = max
     ELSE UNCHANGED <<table, alloc>>
  /\ UNCHANGED <<chain, max, stored, verified, newest, spoiled>>

(* in3_configure: maxVerifiedHashes.  A table that does not exist yet is      *)
(* allocated, but only its new part is cleared.                               *)
ConfigMax(m) ==
  /\ pending = 0
  /\ IF max < m THEN \E fill \in Fills(table, m) : table' = Clear(Realloc(table, m, fill), max + 1, m)
     ELSE UNCHANGED table
  /\ max' = m /\ alloc' = m
  /\ newest' = NoEntry
  /\ UNCHANGED <<chain, pending, stored, verified, spoiled>>

(* in3_configure: verifiedHashes, a list of n entries.  The loop ends at the  *)
(* first one that is no hash of a block: es are those before it, alloc is     *)
(* then not set, and the cells of the other entries keep what they had.       *)
ConfigHashes(es, n) ==
  /\ pending = 0 /\ n <= max
  /\ LET t == IF table = NoTable THEN Zeros(max) ELSE Clear(table, n + 1, max)
     IN  table' = [i \in DOMAIN t |-> IF i <= Len(es) THEN es[i] ELSE t[i]]
  /\ alloc' = IF n = Len(es) THEN max ELSE alloc
  /\ verified' = verified \cup {<<chain, es[i].num, es[i].hash>> : i \in DOMAIN es} /\ Cardinality(verified') <= MaxVerified
  /\ newest' = NoEntry
  /\ spoiled' = (spoiled \/ (table # NoTable /\ (n # Len(es) \/ Len(table) < max)))
  /\ UNCHANGED <<chain, pending, max, stored>>

(* Mutant: changing the chain keeps the table. *)
KeepsTable == table

(* in3_client_register_chain frees the table. *)
NewTable == NoTable

(* in3_cache_update_nodelist: the hashes of the cache; alloc_verified_hashes  *)
(* is not changed.                                                            *)
Loaded(c, m) ==
  IF stored[c] = <<>> THEN NewTable
  ELSE LET t == IF NewTable = NoTable THEN Zeros(m) ELSE NewTable
       IN  [i \in DOMAIN t |-> IF i <= Len(stored[c]) THEN stored[c][i] ELSE t[i]]

(* in3_configure: chainId; the cache is only read when the node list of the   *)
(* chain is not in the registry yet.                                          *)
ConfigChain(c) ==
  /\ pending = 0
  /\ chain' = c
  /\ \/ table' = NewTable
     \/ c # chain /\ table' = Loaded(c, max)
  /\ newest' = NoEntry
  /\ UNCHANGED <<pending, max, alloc, stored, verified, spoiled>>

(* The process ends at any time and another one starts: in3_client_init, and  *)
(* the node list's init, which reads the cache.                               *)
Restart(c) ==
  /\ chain' = c /\ pending' = 0
  /\ max' = DefaultMax /\ alloc' = 0
  /\ table' = IF stored[c] = <<>> THEN NoTable ELSE Loaded(c, DefaultMax)
  /\ newest' = NoEntry
  /\ UNCHANGED <<stored, verified, spoiled>>

(* in3_cache_store_nodelist: max cells are written, up to the first free one. *)
StoreNodelist ==
  /\ pending > 0
  /\ \E fill \in Fills(table, max) :
       LET used == IF table = NoTable THEN <<>> ELSE Realloc(table, max, fill)
           end  == {i \in DOMAIN used : used[i].num = 0}
       IN  stored' = [stored EXCEPT ![chain] =
             IF end = {} THEN used ELSE SubSeq(used, 1, (CHOOSE i \in end : \A j \in end : i <= j) - 1)]
  /\ UNCHANGED <<chain, pending, max, alloc, table, verified, newest, spoiled>>

Lists == {<<>>} \cup UNION {{<<Entry(n, h)>> : h \in Hash[n]} : n \in Numbers}

Next ==
  \/ NewRequest \/ FreeRequest \/ StoreNodelist
  \/ \E n \in Numbers, answers \in [Signer -> {"confirmed", "erred", "missing"}] :
       \E h \in Hash[n] : VerifyBlockheader(n, h, answers)
  \/ \E m \in Sizes : ConfigMax(m)
  \/ \E es \in Lists : \E n \in {Len(es), Len(es) + 1} : ConfigHashes(es, n)
  \/ \E c \in Chain : ConfigChain(c) \/ Restart(c)

Spec == Init /\ [][Next]_vars

-----------------------------------------------------------------------------
(* Properties *)

(* A hash in the table, or behind any chain in the cache, was verified by     *)
(* signers, or given by the configuration, for this number and on this chain: *)
(* not on the chain configured before, not left over by a table that shrank,  *)
(* and not before a restart by another chain's client.  Cells that nobody     *)
(* wrote and memory behind the table are not hashes the client took: reading  *)
(* them is the flaw that README names.                                        *)
WasVerified(c, e) == e.num # 0 /\ e.hash # "junk" => <<c, e.num, e.hash>> \in verified
KnownWasVerified ==
  /\ table # NoTable => \A i \in DOMAIN table : WasVerified(chain, table[i])
  /\ \A c \in Chain : \A i \in DOMAIN stored[c] : WasVerified(c, stored[c][i])

(* A block number has one hash in the part of the table that is read or       *)
(* searched: add_verified replaces the old one, and stops at the first cell   *)
(* that is free.                                                              *)
OneHashPerNumber ==
  table # NoTable =>
    \A i, j \in {k \in DOMAIN table : k <= max \/ k <= alloc} :
      /\ table[i].num # 0 /\ table[i].num = table[j].num
      /\ table[i].hash # "junk" /\ table[j].hash # "junk"
      => i = j

(* in3_check_verified_hashes: the table may outgrow its limit while requests  *)
(* are pending, and the newest hash survives when it shrinks.                 *)
NewestIsKept == newest # NoEntry => \E i \in DOMAIN table : table[i] = newest

(* add_verified, in3_check_verified_hashes: a number has one hash in the part *)
(* of the table that is read or searched, and the newest hash survives when   *)
(* the table that outgrew its limit shrinks; unless a list of hashes in the   *)
(* configuration was refused half way or written behind the table.            *)
TableIsExact == ~spoiled => OneHashPerNumber /\ NewestIsKept
=============================================================================
