-------------------------- MODULE NodeRegistryProofs --------------------------
(***************************************************************************)
(* Proofs about module NodeRegistry for any number of clients, chains and   *)
(* lists: reference counts are exact, lists live as long as they are        *)
(* needed, and threads that lock only the list of their own client never    *)
(* wait for each other in a circle.                                         *)
(***************************************************************************)
EXTENDS NodeRegistry, FiniteSetTheorems, WellFoundedInduction, TLAPS

-----------------------------------------------------------------------------
(* The inductive invariant *)

(* What holds for the thread of a client at each of its points: which mutexes *)
(* it holds, and that the list of its call is one it refers to.               *)
Resting(c) ==
  /\ (pc[c].at = "none") <=> (client[c].chains = <<>>)
  /\ pc[c].at \in {"none", "idle"} => pc[c].op = "leave"
  /\ pc[c].at \in {"none", "idle", "free", "next"} => held[c] = <<>>

Entering(c) ==
  pc[c].at = "lock" =>
    /\ \E j \in DOMAIN client[c].chains : Keeps(c, j, pc[c].list)
    /\ held[c] # <<>> => /\ pc[c].op = "request" /\ Len(held[c]) = 1
                         /\ pc[c].list = client[c].chains[1]
                         /\ Foreign \/ held[c][1] = client[c].chains[1]

Inside(c) ==
  pc[c].at = "in" =>
    /\ Len(held[c]) \in 1..2
    /\ pc[c].op # "request" => held[c] = <<pc[c].list>>

(* The calls that replace or return references. *)
Replacing(c) ==
  pc[c].op = "config" => pc[c].at \in {"lock", "in"} /\ pc[c].list = client[c].chains[1]

Returning(c) ==
  /\ pc[c].at \in {"returned", "free", "next"} => pc[c].op \in {"term", "change"}
  /\ pc[c].op \in {"term", "change"} =>
       /\ pc[c].i \in DOMAIN client[c].chains
       /\ pc[c].op = "change" => pc[c].i = 1
       /\ pc[c].at # "next" => pc[c].list = client[c].chains[pc[c].i]
  /\ pc[c].at = "returned" => held[c] = <<pc[c].list>>
  /\ pc[c].at = "free" => pc[c].last

Bounded(c) == Len(client[c].chains) <= MaxChains

ThreadOK(c) == /\ Resting(c) /\ Entering(c) /\ Inside(c)
               /\ Replacing(c) /\ Returning(c) /\ Bounded(c)

Threads == \A c \in Client : ThreadOK(c)

(* A mutex has one owner. *)
MutualExclusion ==
  \A c, d \in Client : \A k \in DOMAIN held[c], n \in DOMAIN held[d] :
    held[c][k] = held[d][n] => c = d

(* Nobody but that thread knows the list any more. *)
DyingAlone ==
  \A c \in Client, l \in List : Dying(c, l) =>
    /\ l \notin registry
    /\ \A d \in Client : \A i \in 1..MaxChains : ~Keeps(d, i, l)
    /\ \A d \in Client \ {c} : d \notin Users(l)

(* The inductive invariant. *)
RInv == /\ TypeOK /\ Threads /\ MutualExclusion /\ DyingAlone
        /\ RefCountExact /\ ListsLiveExactly

-----------------------------------------------------------------------------
(* References and their number *)

(* The thread of c makes the step: the other clients keep what they have. *)
Only(c) ==
  \A d \in Client \ {c} : client'[d] = client[d] /\ held'[d] = held[d] /\ pc'[d] = pc[d]

(* There are finitely many references to a list. *)
LEMMA ReferencesFinite ==
  ASSUME NEW l
  PROVE  IsFiniteSet(References(l)) /\ Cardinality(References(l)) \in Nat
<1>1. IsFiniteSet(1..MaxChains)
  BY FS_Interval, BoundAssumption
<1>2. IsFiniteSet(Client \X (1..MaxChains))
  BY <1>1, FS_Product, ClientAssumption
<1>3. References(l) \in SUBSET (Client \X (1..MaxChains))
  BY DEF References
<1>4. IsFiniteSet(References(l))
  BY <1>2, <1>3, FS_Subset
<1> QED
  BY <1>4, FS_CardinalityType

(* The same after a step. *)
LEMMA ReferencesFiniteNext ==
  ASSUME NEW l
  PROVE  IsFiniteSet(References(l)')
<1>1. IsFiniteSet(1..MaxChains)
  BY FS_Interval, BoundAssumption
<1>2. IsFiniteSet(Client \X (1..MaxChains))
  BY <1>1, FS_Product, ClientAssumption
<1>3. References(l)' \in SUBSET (Client \X (1..MaxChains))
  BY DEF References
<1> QED
  BY <1>2, <1>3, FS_Subset

(* A list without references, by positions. *)
LEMMA NoReferences ==
  ASSUME NEW l
  PROVE  References(l) = {} <=> \A d \in Client, i \in 1..MaxChains : ~Keeps(d, i, l)
<1>1. ASSUME NEW d \in Client, NEW i \in 1..MaxChains, Keeps(d, i, l)
      PROVE  References(l) # {}
  <2>1. <<d, i>> \in Client \X (1..MaxChains) /\ Keeps(<<d, i>>[1], <<d, i>>[2], l)
    BY <1>1
  <2> QED
    BY <2>1 DEF References
<1>2. ASSUME References(l) # {}
      PROVE  \E d \in Client, i \in 1..MaxChains : Keeps(d, i, l)
  <2>1. PICK r \in Client \X (1..MaxChains) : Keeps(r[1], r[2], l)
    BY <1>2 DEF References
  <2>2. r[1] \in Client /\ r[2] \in 1..MaxChains
    OBVIOUS
  <2> QED
    BY <2>1, <2>2
<1> QED
  BY <1>1, <1>2

(* The same after a step. *)
LEMMA NoReferencesNext ==
  ASSUME NEW l
  PROVE  References(l)' = {} <=> \A d \in Client, i \in 1..MaxChains : ~Keeps(d, i, l)'
<1>1. ASSUME NEW d \in Client, NEW i \in 1..MaxChains, Keeps(d, i, l)'
      PROVE  References(l)' # {}
  <2>1. <<d, i>> \in Client \X (1..MaxChains) /\ Keeps(<<d, i>>[1], <<d, i>>[2], l)'
    BY <1>1
  <2> QED
    BY <2>1 DEF References
<1>2. ASSUME References(l)' # {}
      PROVE  \E d \in Client, i \in 1..MaxChains : Keeps(d, i, l)'
  <2>1. PICK r \in Client \X (1..MaxChains) : Keeps(r[1], r[2], l)'
    BY <1>2 DEF References
  <2>2. r[1] \in Client /\ r[2] \in 1..MaxChains
    OBVIOUS
  <2> QED
    BY <2>1, <2>2
<1> QED
  BY <1>1, <1>2

(* Nothing changes for a list none of whose references change. *)
LEMMA ReferencesStay ==
  ASSUME NEW l, \A d \in Client, i \in 1..MaxChains : Keeps(d, i, l)' <=> Keeps(d, i, l)
  PROVE  References(l)' = References(l)
<1>1. \A r \in Client \X (1..MaxChains) : Keeps(r[1], r[2], l)' <=> Keeps(r[1], r[2], l)
  OBVIOUS
<1> QED
  BY <1>1 DEF References

(* A reference is taken: the list has one more. *)
LEMMA ReferenceTaken ==
  ASSUME NEW l, NEW c \in Client, NEW n \in 1..MaxChains, ~Keeps(c, n, l), Keeps(c, n, l)',
         \A d \in Client, i \in 1..MaxChains :
           <<d, i>> # <<c, n>> => (Keeps(d, i, l)' <=> Keeps(d, i, l))
  PROVE  Cardinality(References(l)') = Cardinality(References(l)) + 1
<1>1. <<c, n>> \notin References(l)
  BY DEF References
<1>2. \A r \in Client \X (1..MaxChains) :
        Keeps(r[1], r[2], l)' <=> (Keeps(r[1], r[2], l) \/ r = <<c, n>>)
  <2>1. ASSUME NEW r \in Client \X (1..MaxChains)
        PROVE  Keeps(r[1], r[2], l)' <=> (Keeps(r[1], r[2], l) \/ r = <<c, n>>)
    <3>1. PICK d \in Client, i \in 1..MaxChains : r = <<d, i>>
      OBVIOUS
    <3>2. CASE d = c /\ i = n
      BY <3>1, <3>2
    <3>3. CASE ~(d = c /\ i = n)
      BY <3>1, <3>3
    <3> QED
      BY <3>2, <3>3
  <2> QED
    BY <2>1
<1>3. References(l)' = References(l) \cup {<<c, n>>}
  BY <1>2 DEF References
<1> QED
  BY <1>1, <1>3, ReferencesFinite, FS_AddElement

(* A reference is given back: the list had one more. *)
LEMMA ReferenceGiven ==
  ASSUME NEW l, NEW c \in Client, NEW n \in 1..MaxChains, Keeps(c, n, l), ~Keeps(c, n, l)',
         \A d \in Client, i \in 1..MaxChains :
           <<d, i>> # <<c, n>> => (Keeps(d, i, l)' <=> Keeps(d, i, l))
  PROVE  Cardinality(References(l)') = Cardinality(References(l)) - 1
<1>1. <<c, n>> \in References(l)
  <2>1. Keeps(<<c, n>>[1], <<c, n>>[2], l)
    OBVIOUS
  <2> QED
    BY <2>1 DEF References
<1>2. \A r \in Client \X (1..MaxChains) :
        Keeps(r[1], r[2], l)' <=> (Keeps(r[1], r[2], l) /\ r # <<c, n>>)
  <2>1. ASSUME NEW r \in Client \X (1..MaxChains)
        PROVE  Keeps(r[1], r[2], l)' <=> (Keeps(r[1], r[2], l) /\ r # <<c, n>>)
    <3>1. PICK d \in Client, i \in 1..MaxChains : r = <<d, i>>
      OBVIOUS
    <3>2. CASE d = c /\ i = n
      BY <3>1, <3>2
    <3>3. CASE ~(d = c /\ i = n)
      BY <3>1, <3>3
    <3> QED
      BY <3>2, <3>3
  <2> QED
    BY <2>1
<1>3. References(l)' = References(l) \ {<<c, n>>}
  BY <1>2 DEF References
<1> QED
  BY <1>1, <1>3, ReferencesFinite, FS_RemoveElement

(* A client whose reference is the only one. *)
LEMMA OnlyReference ==
  ASSUME NEW l, NEW c \in Client, NEW n \in 1..MaxChains, Keeps(c, n, l),
         Cardinality(References(l)) = 1
  PROVE  \A d \in Client, i \in 1..MaxChains : Keeps(d, i, l) => d = c /\ i = n
<1>1. PICK x : References(l) = {x}
  BY ReferencesFinite, FS_Singleton
<1>2. SUFFICES ASSUME NEW d \in Client, NEW i \in 1..MaxChains, Keeps(d, i, l)
               PROVE  d = c /\ i = n
  OBVIOUS
<1>3. Keeps(<<c, n>>[1], <<c, n>>[2], l) /\ Keeps(<<d, i>>[1], <<d, i>>[2], l)
  BY <1>2
<1>4. <<c, n>> \in References(l) /\ <<d, i>> \in References(l)
  BY <1>3 DEF References
<1> QED
  BY <1>1, <1>4

-----------------------------------------------------------------------------
(* What a step of one thread leaves alone *)

(* The other clients keep their references and their uses of lists. *)
LEMMA OthersStay ==
  ASSUME NEW c \in Client, Only(c), NEW d \in Client, d # c, NEW l
  PROVE  /\ \A i : Keeps(d, i, l)' <=> Keeps(d, i, l)
         /\ Uses(d, l)' <=> Uses(d, l)
         /\ Dying(d, l)' <=> Dying(d, l)
BY DEF Only, Keeps, Returned, Uses, Dying

(* Their threads stay where they are. *)
LEMMA OthersThreadOK ==
  ASSUME NEW c \in Client, Only(c), Threads, ThreadOK(c)'
  PROVE  Threads'
<1>1. SUFFICES ASSUME NEW d \in Client PROVE ThreadOK(d)'
  BY DEF Threads
<1>2. CASE d = c
  BY <1>2
<1>3. CASE d # c
  <2>1. ThreadOK(d) /\ client'[d] = client[d] /\ held'[d] = held[d] /\ pc'[d] = pc[d]
    BY <1>3 DEF Only, Threads
  <2> QED
    BY <2>1 DEF ThreadOK, Resting, Entering, Inside, Replacing, Returning, Bounded, Keeps, Returned
<1> QED
  BY <1>2, <1>3

(* Nobody gets a mutex without locking it. *)
LEMMA NoNewMutex ==
  ASSUME NEW c \in Client, Only(c), MutualExclusion,
         \A k \in DOMAIN held'[c] : \E n \in DOMAIN held[c] : held[c][n] = held'[c][k]
  PROVE  MutualExclusion'
<1>1. \A d \in Client : \A k \in DOMAIN held'[d] : \E n \in DOMAIN held[d] : held[d][n] = held'[d][k]
  BY DEF Only
<1>2. SUFFICES ASSUME NEW d \in Client, NEW e \in Client,
                      NEW k \in DOMAIN held'[d], NEW n \in DOMAIN held'[e], held'[d][k] = held'[e][n]
               PROVE  d = e
  BY DEF MutualExclusion
<1>3. PICK k1 \in DOMAIN held[d] : held[d][k1] = held'[d][k]
  BY <1>1
<1>4. PICK n1 \in DOMAIN held[e] : held[e][n1] = held'[e][n]
  BY <1>1
<1> QED
  BY <1>2, <1>3, <1>4 DEF MutualExclusion

(* A list that is used or referred to is alive, by positions. *)
LEMMA LiveUses ==
  ASSUME NEW l \in List, ListsLiveExactly, NEW d \in Client
  PROVE  /\ Uses(d, l) => lists[l].live
         /\ \A i \in 1..MaxChains : Keeps(d, i, l) => lists[l].live
<1>1. \A i \in 1..MaxChains : Keeps(d, i, l) => References(l) # {}
  BY NoReferences
<1> QED
  BY <1>1 DEF ListsLiveExactly, NoUseAfterFree, Users

(* A step that changes no list and no reference: what the thread uses         *)
(* afterwards it used or referred to before.                                  *)
LEMMA QuietStep ==
  ASSUME NEW c \in Client, RInv, TypeOK', Only(c), ThreadOK(c)', MutualExclusion',
         lists' = lists, registry' = registry,
         \A l \in List, i \in 1..MaxChains : Keeps(c, i, l)' <=> Keeps(c, i, l),
         \A l \in List : Uses(c, l)' => Uses(c, l) \/ \E i \in 1..MaxChains : Keeps(c, i, l),
         \A l \in List : Dying(c, l)' <=> Dying(c, l)
  PROVE  RInv'
<1>1. Threads'
  BY OthersThreadOK DEF RInv
<1>2. ASSUME NEW l \in List, NEW d \in Client, NEW i \in 1..MaxChains
      PROVE  Keeps(d, i, l)' <=> Keeps(d, i, l)
  BY OthersStay
<1>3. ASSUME NEW l \in List PROVE References(l)' = References(l)
  BY <1>2, ReferencesStay
<1>4. ASSUME NEW l \in List, NEW d \in Client PROVE Dying(d, l)' <=> Dying(d, l)
  BY OthersStay
<1>5. ASSUME NEW l \in List, NEW d \in Client, Uses(d, l)'
      PROVE  Uses(d, l) \/ \E i \in 1..MaxChains : Keeps(d, i, l)
  BY <1>5, OthersStay
<1>6. RefCountExact'
  BY <1>3 DEF RInv, RefCountExact
<1>7. NoUseAfterFree'
  <2>1. SUFFICES ASSUME NEW l \in List, Users(l)' # {} \/ References(l)' # {}
                 PROVE  lists'[l].live
    BY DEF NoUseAfterFree
  <2>2. CASE References(l)' # {}
    BY <2>2, <1>3 DEF RInv, ListsLiveExactly, NoUseAfterFree
  <2>3. CASE Users(l)' # {}
    <3>1. PICK d \in Client : Uses(d, l)'
      BY <2>3 DEF Users
    <3> QED
      BY <3>1, <1>5, LiveUses DEF RInv
  <2> QED
    BY <2>1, <2>2, <2>3
<1>8. NoLeak'
  BY <1>3, <1>4 DEF RInv, ListsLiveExactly, NoLeak
<1>9. OneListPerChain'
  BY DEF RInv, ListsLiveExactly, OneListPerChain
<1>10. DyingAlone'
  <2>1. SUFFICES ASSUME NEW e \in Client, NEW l \in List, Dying(e, l)'
                 PROVE  /\ l \notin registry'
                        /\ \A d \in Client : \A i \in 1..MaxChains : ~Keeps(d, i, l)'
                        /\ \A d \in Client \ {e} : d \notin Users(l)'
    BY DEF DyingAlone
  <2>2. Dying(e, l)
    BY <2>1, <1>4
  <2>3. /\ l \notin registry
        /\ \A d \in Client : \A i \in 1..MaxChains : ~Keeps(d, i, l)
        /\ \A d \in Client \ {e} : ~Uses(d, l)
    BY <2>2 DEF RInv, DyingAlone, Users
  <2>4. \A d \in Client : \A i \in 1..MaxChains : ~Keeps(d, i, l)'
    BY <2>3, <1>2
  <2>5. \A d \in Client \ {e} : ~Uses(d, l)'
    BY <2>3, <1>5
  <2> QED
    BY <2>3, <2>4, <2>5 DEF Users
<1> QED
  BY <1>1, <1>6, <1>7, <1>8, <1>9, <1>10 DEF RInv, ListsLiveExactly

(* nodelist_get_or_create for position n of chains of c. *)
LEMMA TakeStep ==
  ASSUME NEW c \in Client, RInv, TypeOK', Only(c), ThreadOK(c)', MutualExclusion',
         NEW ch \in Chain, NEW m \in List, NEW n \in 1..MaxChains, GetOrCreate(ch, m),
         \A l \in List : ~Keeps(c, n, l), Keeps(c, n, m)', \A l \in List \ {m} : ~Keeps(c, n, l)',
         \A l \in List, i \in 1..MaxChains : i # n => (Keeps(c, i, l)' <=> Keeps(c, i, l)),
         \A l \in List : Uses(c, l)' => Uses(c, l) \/ l = m,
         \A l \in List : ~Dying(c, l) /\ ~Dying(c, l)'
  PROVE  RInv'
<1>1. Threads'
  BY OthersThreadOK DEF RInv
<1>2. ASSUME NEW l \in List \ {m}, NEW d \in Client, NEW i \in 1..MaxChains
      PROVE  Keeps(d, i, l)' <=> Keeps(d, i, l)
  BY OthersStay
<1>3. ASSUME NEW l \in List \ {m} PROVE References(l)' = References(l)
  BY <1>2, ReferencesStay
<1>4. ASSUME NEW d \in Client, NEW i \in 1..MaxChains, <<d, i>> # <<c, n>>
      PROVE  Keeps(d, i, m)' <=> Keeps(d, i, m)
  BY <1>4, OthersStay
<1>5. Cardinality(References(m)') = Cardinality(References(m)) + 1
  BY <1>4, ReferenceTaken
<1>6. ASSUME NEW l \in List, NEW d \in Client PROVE Dying(d, l)' <=> Dying(d, l)
  BY OthersStay
<1>7. ASSUME NEW l \in List \ {m}, NEW d \in Client, Uses(d, l)' PROVE Uses(d, l)
  BY <1>7, OthersStay
<1>8. /\ \A l \in List \ {m} : lists'[l] = lists[l]
      /\ lists'[m].live /\ m \in registry' /\ registry' = registry \cup {m}
      /\ lists'[m].chain = ch
  BY DEF GetOrCreate, Found, RInv, TypeOK, ListsLiveExactly, OneListPerChain
<1>9. \A d \in Client : ~Dying(d, m)
  <2>1. SUFFICES ASSUME NEW d \in Client, Dying(d, m) PROVE FALSE
    OBVIOUS
  <2>2. m \notin registry /\ Uses(d, m)
    BY <2>1 DEF RInv, DyingAlone, Dying, Uses
  <2>3. lists[m].live
    BY <2>2, LiveUses DEF RInv
  <2> QED
    BY <2>2, <2>3 DEF GetOrCreate, Found
<1>10. RefCountExact'
  <2>1. lists'[m].ref = Cardinality(References(m)')
    <3>1. CASE m \in Found(ch) /\ lists' = [lists EXCEPT ![m].ref = @ + 1]
      <4>1. lists[m].live
        BY <3>1 DEF Found, RInv, ListsLiveExactly, OneListPerChain
      <4>2. lists[m].ref = Cardinality(References(m))
        BY <4>1 DEF RInv, RefCountExact
      <4>3. lists'[m].ref = lists[m].ref + 1
        BY <3>1 DEF RInv, TypeOK
      <4> QED
        BY <4>2, <4>3, <1>5
    <3>2. CASE ~lists[m].live /\ lists' = [lists EXCEPT ![m] = [live |-> TRUE, chain |-> ch, ref |-> 1]]
      <4>1. References(m) = {}
        BY <3>2 DEF RInv, ListsLiveExactly, NoUseAfterFree
      <4>2. Cardinality(References(m)) = 0
        BY <4>1, FS_EmptySet
      <4>3. lists'[m].ref = 1
        BY <3>2 DEF RInv, TypeOK
      <4> QED
        BY <4>2, <4>3, <1>5
    <3> QED
      BY <3>1, <3>2 DEF GetOrCreate
  <2> QED
    BY <2>1, <1>3, <1>8 DEF RInv, RefCountExact
<1>11. NoUseAfterFree'
  <2>1. SUFFICES ASSUME NEW l \in List \ {m}, Users(l)' # {} \/ References(l)' # {}
                 PROVE  lists[l].live
    BY <1>8 DEF NoUseAfterFree
  <2>2. CASE References(l)' # {}
    BY <2>2, <1>3 DEF RInv, ListsLiveExactly, NoUseAfterFree
  <2>3. CASE Users(l)' # {}
    <3>1. PICK d \in Client : Uses(d, l)'
      BY <2>3 DEF Users
    <3> QED
      BY <3>1, <1>7, LiveUses DEF RInv
  <2> QED
    BY <2>1, <2>2, <2>3
<1>12. NoLeak'
  <2>1. SUFFICES ASSUME NEW l \in List \ {m}, lists'[l].live, References(l)' = {}
                 PROVE  l \in registry' \/ \E d \in Client : Dying(d, l)'
    BY <1>8 DEF NoLeak
  <2>2. lists[l].live /\ References(l) = {}
    BY <2>1, <1>3, <1>8
  <2>3. l \in registry \/ \E d \in Client : Dying(d, l)
    BY <2>2 DEF RInv, ListsLiveExactly, NoLeak
  <2> QED
    BY <2>3, <1>6, <1>8
<1>13. OneListPerChain'
  <2>1. \A l \in registry' : lists'[l].live
    BY <1>8 DEF RInv, ListsLiveExactly, OneListPerChain, TypeOK
  <2>2. ASSUME NEW l \in registry', l # m PROVE l \in registry /\ lists'[l].chain = lists[l].chain
    BY <2>2, <1>8 DEF RInv, TypeOK
  <2>3. ASSUME NEW l \in registry', l # m PROVE lists'[l].chain # ch
    <3>1. l \in registry /\ lists'[l].chain = lists[l].chain
      BY <2>2, <2>3
    <3>2. CASE m \in Found(ch)
      BY <3>1, <3>2, <2>3 DEF Found, RInv, ListsLiveExactly, OneListPerChain
    <3>3. CASE Found(ch) = {}
      BY <3>1, <3>3 DEF Found
    <3> QED
      BY <3>2, <3>3 DEF GetOrCreate
  <2> QED
    BY <2>1, <2>2, <2>3, <1>8 DEF RInv, ListsLiveExactly, OneListPerChain
<1>14. DyingAlone'
  <2>1. SUFFICES ASSUME NEW e \in Client, NEW l \in List, Dying(e, l)'
                 PROVE  /\ l \notin registry'
                        /\ \A d \in Client : \A i \in 1..MaxChains : ~Keeps(d, i, l)'
                        /\ \A d \in Client \ {e} : d \notin Users(l)'
    BY DEF DyingAlone
  <2>2. Dying(e, l) /\ l # m
    BY <2>1, <1>6, <1>9
  <2>3. /\ l \notin registry
        /\ \A d \in Client : \A i \in 1..MaxChains : ~Keeps(d, i, l)
        /\ \A d \in Client \ {e} : ~Uses(d, l)
    BY <2>2 DEF RInv, DyingAlone, Users
  <2>4. \A d \in Client : \A i \in 1..MaxChains : ~Keeps(d, i, l)'
    BY <2>2, <2>3, <1>2
  <2>5. \A d \in Client \ {e} : ~Uses(d, l)'
    BY <2>2, <2>3, <1>7
  <2> QED
    BY <2>2, <2>3, <2>4, <2>5, <1>8 DEF Users
<1> QED
  BY <1>1, <1>10, <1>11, <1>12, <1>13, <1>14 DEF RInv, ListsLiveExactly

-----------------------------------------------------------------------------
(* One lemma for each action *)

(* The lists after nodelist_get_or_create. *)
LEMMA GetOrCreateType ==
  ASSUME TypeOK, NEW ch \in Chain, NEW m \in List, GetOrCreate(ch, m)
  PROVE  /\ lists' \in [List -> [live : BOOLEAN, chain : Chain, ref : Nat]]
         /\ registry' \subseteq List
<1>1. lists \in [List -> [live : BOOLEAN, chain : Chain, ref : Nat]] /\ registry \subseteq List
  BY DEF TypeOK
<1>2. lists[m].ref + 1 \in Nat
  BY <1>1
<1>3. CASE lists' = [lists EXCEPT ![m].ref = @ + 1] /\ UNCHANGED registry
  BY <1>1, <1>2, <1>3
<1>4. CASE /\ lists' = [lists EXCEPT ![m] = [live |-> TRUE, chain |-> ch, ref |-> 1]]
           /\ registry' = registry \cup {m}
  BY <1>1, <1>4
<1> QED
  BY <1>3, <1>4 DEF GetOrCreate

(* A client is created. *)
LEMMA RegisterInv ==
  ASSUME NEW c \in Client, RInv, Register(c)
  PROVE  RInv'
<1>1. PICK ch \in Chain, m \in List :
        /\ GetOrCreate(ch, m)
        /\ client' = [client EXCEPT ![c] = [chain |-> ch, chains |-> <<m>>]]
  BY DEF Register
<1>2. /\ pc[c].at = "none" /\ pc' = [pc EXCEPT ![c] = Ready] /\ held' = held
      /\ client[c].chains = <<>> /\ held[c] = <<>> /\ pc[c].op = "leave"
  BY DEF Register, Goto, RInv, Threads, ThreadOK, Resting
<1>3. Ready \in [at : Points, op : Ops, list : List \cup {NoList}, i : Nat, last : BOOLEAN, to : Chain]
  BY ChainAssumption DEF Ready, At, Points, Ops
<1>4. TypeOK'
  <2>1. [chain |-> ch, chains |-> <<m>>] \in [chain : Chain, chains : Seq(List)]
    OBVIOUS
  <2> QED
    BY <1>1, <1>2, <1>3, <2>1, GetOrCreateType DEF RInv, TypeOK
<1>5. pc'[c] = Ready /\ client'[c] = [chain |-> ch, chains |-> <<m>>] /\ held'[c] = <<>>
  BY <1>1, <1>2 DEF RInv, TypeOK
<1>6. Only(c)
  BY <1>1, <1>2 DEF Only, RInv, TypeOK
<1>7. 1 \in 1..MaxChains
  BY BoundAssumption
<1>8. ThreadOK(c)'
  BY <1>5, <1>7 DEF ThreadOK, Resting, Entering, Inside, Replacing, Returning, Bounded, Ready, At
<1>9. MutualExclusion'
  BY <1>2 DEF RInv, MutualExclusion
<1>10. \A l \in List, i \in 1..MaxChains : ~Keeps(c, i, l) /\ (Keeps(c, i, l)' <=> i = 1 /\ l = m)
  BY <1>2, <1>5 DEF Keeps, Returned, Ready, At
<1>11. \A l \in List : ~Uses(c, l)' /\ ~Dying(c, l) /\ ~Dying(c, l)'
  BY <1>2, <1>5 DEF Uses, Dying, Ready, At
<1> QED
  BY <1>1, <1>4, <1>6, <1>7, <1>8, <1>9, <1>10, <1>11, TakeStep

(* A thread goes to the mutex of a list its client refers to. *)
LEMMA EnterStep ==
  ASSUME NEW c \in Client, RInv, NEW p, NEW m \in List, NEW j,
         pc[c].at = "idle", Only(c), TypeOK', pc'[c] = p, held' = held,
         client'[c].chains = client[c].chains, lists' = lists, registry' = registry,
         j \in DOMAIN client[c].chains, client[c].chains[j] = m,
         p.at = "lock", p.list = m,
         \/ p.op = "request"
         \/ p.op = "config" /\ j = 1
         \/ p.op \in {"change", "term"} /\ j = 1 /\ p.i = 1
  PROVE  RInv'
<1>1. held[c] = <<>> /\ pc[c].op = "leave" /\ client[c].chains \in Seq(List)
  BY DEF RInv, TypeOK, Threads, ThreadOK, Resting
<1>2. held'[c] = <<>> /\ client[c].chains # <<>> /\ Len(client[c].chains) <= MaxChains
  BY <1>1 DEF RInv, Threads, ThreadOK, Bounded
<1>3. \A i : i \in DOMAIN client[c].chains => ~Returned(c, i) /\ ~Returned(c, i)'
  BY <1>1 DEF Returned
<1>4. \A l, i : Keeps(c, i, l)' <=> Keeps(c, i, l)
  BY <1>3 DEF Keeps
<1>5. Keeps(c, j, m) /\ Keeps(c, j, m)'
  BY <1>3 DEF Keeps
<1>6. ThreadOK(c)'
  <2>1. Resting(c)' /\ Inside(c)' /\ Replacing(c)' /\ Bounded(c)'
    BY <1>2 DEF Resting, Inside, Replacing, Bounded
  <2>2. Entering(c)'
    BY <1>2, <1>5 DEF Entering
  <2>3. Returning(c)'
    BY DEF Returning
  <2> QED
    BY <2>1, <2>2, <2>3 DEF ThreadOK
<1>7. MutualExclusion'
  BY DEF RInv, MutualExclusion
<1>8. j \in 1..MaxChains
  BY <1>1, <1>2, BoundAssumption
<1>9. \A l \in List : Uses(c, l)' => \E i \in 1..MaxChains : Keeps(c, i, l)
  BY <1>2, <1>5, <1>8 DEF Uses
<1>10. \A l \in List : Dying(c, l)' <=> Dying(c, l)
  BY DEF Dying
<1> QED
  BY <1>4, <1>6, <1>7, <1>9, <1>10, QuietStep

(* The first list of a client that does something. *)
LEMMA FirstList ==
  ASSUME NEW c \in Client, RInv, pc[c].at # "none"
  PROVE  /\ 1 \in DOMAIN client[c].chains /\ client[c].chains[1] \in List
         /\ client[c].chains \in Seq(List) /\ client[c].chains # <<>>
         /\ Len(client[c].chains) \in Nat /\ 1 <= Len(client[c].chains)
         /\ Len(client[c].chains) <= MaxChains
<1>1. client[c].chains \in Seq(List) /\ client[c].chains # <<>> /\ Len(client[c].chains) <= MaxChains
  BY DEF RInv, TypeOK, Threads, ThreadOK, Resting, Bounded
<1> QED
  BY <1>1

(* What the places of a thread that goes to a mutex are. *)
LEMMA LockPlace ==
  ASSUME NEW op \in Ops, NEW l \in List, NEW i \in Nat
  PROVE  /\ At("lock", op, l, i) \in
              [at : Points, op : Ops, list : List \cup {NoList}, i : Nat, last : BOOLEAN, to : Chain]
         /\ At("lock", op, l, i).at = "lock" /\ At("lock", op, l, i).op = op
         /\ At("lock", op, l, i).list = l /\ At("lock", op, l, i).i = i
BY ChainAssumption DEF At, Points, Ops

(* A request that is sent to the list of the client. *)
LEMMA RequestOwnInv ==
  ASSUME NEW c \in Client, RInv, RequestOwn(c)
  PROVE  RInv'
<1> DEFINE p == At("lock", "request", client[c].chains[1], 0)
<1>1. pc[c].at = "idle" /\ pc' = [pc EXCEPT ![c] = p] /\ UNCHANGED <<lists, registry, client, held>>
  BY DEF RequestOwn, Goto
<1>2. /\ p.at = "lock" /\ p.op = "request" /\ p.list = client[c].chains[1]
      /\ p \in [at : Points, op : Ops, list : List \cup {NoList}, i : Nat, last : BOOLEAN, to : Chain]
  BY <1>1, FirstList, LockPlace DEF Ops
<1> HIDE DEF p
<1>3. Only(c) /\ pc'[c] = p /\ TypeOK'
  BY <1>1, <1>2 DEF Only, RInv, TypeOK
<1> QED
  BY <1>1, <1>2, <1>3, FirstList, EnterStep

(* The list the client already has for a chain. *)
LEMMA KnownPosition ==
  ASSUME NEW c \in Client, RInv, NEW ch, Known(c, ch) # 0
  PROVE  Known(c, ch) \in DOMAIN client[c].chains
<1> DEFINE at == {i \in DOMAIN client[c].chains : lists[client[c].chains[i]].chain = ch}
<1>1. Known(c, ch) = IF at = {} THEN 0 ELSE CHOOSE i \in at : \A j \in at : i <= j
  BY DEF Known
<1>2. at # {} /\ at \subseteq DOMAIN client[c].chains /\ at \subseteq Nat
  <2>1. client[c].chains \in Seq(List)
    BY DEF RInv, TypeOK
  <2> QED
    BY <1>1, <2>1
<1> HIDE DEF at
<1>3. PICK x \in at : \A y \in at : ~(<<y, x>> \in OpToRel(<, Nat))
  BY <1>2, NatLessThanWellFounded, WFMin
<1>4. \A y \in at : x <= y
  <2>1. ASSUME NEW y \in at PROVE <<y, x>> \in OpToRel(<, Nat) <=> y < x
    <3>1. x \in Nat /\ y \in Nat
      BY <1>2
    <3>2. <<y, x>> \in Nat \X Nat /\ <<y, x>>[1] = y /\ <<y, x>>[2] = x
      BY <3>1
    <3>3. OpToRel(<, Nat) = {ss \in Nat \X Nat : ss[1] < ss[2]}
      BY Zenon DEF OpToRel
    <3> QED
      BY <3>2, <3>3
  <2>2. \A y \in at : ~(y < x)
    BY <1>3, <2>1, Zenon
  <2> QED
    BY <1>2, <2>2
<1>5. Known(c, ch) \in at
  BY <1>1, <1>2, <1>4
<1> QED
  BY <1>2, <1>5

(* A request for another chain. *)
LEMMA RequestOtherInv ==
  ASSUME NEW c \in Client, RInv, RequestOther(c)
  PROVE  RInv'
<1>1. PICK ch \in Chain :
        \/ /\ Known(c, ch) # 0
           /\ Goto(c, At("lock", "request", client[c].chains[Known(c, ch)], 0))
           /\ UNCHANGED <<lists, registry, client>>
        \/ /\ Known(c, ch) = 0 /\ Len(client[c].chains) < MaxChains
           /\ \E l \in List :
                /\ GetOrCreate(ch, l)
                /\ SetChains(c, Append(client[c].chains, l))
                /\ Goto(c, At("lock", "request", l, 0))
  BY DEF RequestOther
<1>2. pc[c].at = "idle" /\ held' = held
  BY DEF RequestOther
<1>3. CASE /\ Known(c, ch) # 0
           /\ Goto(c, At("lock", "request", client[c].chains[Known(c, ch)], 0))
           /\ UNCHANGED <<lists, registry, client>>
  <2> DEFINE j == Known(c, ch)
             p == At("lock", "request", client[c].chains[j], 0)
  <2>1. j \in DOMAIN client[c].chains
    BY <1>3, KnownPosition
  <2> HIDE DEF j
  <2>2. client[c].chains[j] \in List
    BY <2>1, <1>2, FirstList
  <2>3. /\ p.at = "lock" /\ p.op = "request" /\ p.list = client[c].chains[j]
        /\ p \in [at : Points, op : Ops, list : List \cup {NoList}, i : Nat, last : BOOLEAN, to : Chain]
    BY <2>2, LockPlace DEF Ops
  <2>4. pc' = [pc EXCEPT ![c] = p]
    BY <1>3 DEF Goto, j
  <2> HIDE DEF p
  <2>5. Only(c) /\ pc'[c] = p /\ TypeOK'
    BY <1>2, <1>3, <2>3, <2>4 DEF Only, RInv, TypeOK
  <2> QED
    BY <1>2, <1>3, <2>1, <2>2, <2>3, <2>5, EnterStep
<1>4. CASE /\ Known(c, ch) = 0 /\ Len(client[c].chains) < MaxChains
           /\ \E l \in List :
                /\ GetOrCreate(ch, l)
                /\ SetChains(c, Append(client[c].chains, l))
                /\ Goto(c, At("lock", "request", l, 0))
  <2>1. PICK m \in List : /\ GetOrCreate(ch, m)
                          /\ SetChains(c, Append(client[c].chains, m))
                          /\ Goto(c, At("lock", "request", m, 0))
    BY <1>4
  <2>0. PICK n \in Nat : n = Len(client[c].chains) + 1
    BY <1>2, FirstList
  <2> DEFINE p == At("lock", "request", m, 0)
             s == Append(client[c].chains, m)
  <2>2. /\ p.at = "lock" /\ p.op = "request" /\ p.list = m
        /\ p \in [at : Points, op : Ops, list : List \cup {NoList}, i : Nat, last : BOOLEAN, to : Chain]
    BY LockPlace DEF Ops
  <2>3. /\ client' = [client EXCEPT ![c].chains = s] /\ pc' = [pc EXCEPT ![c] = p]
    BY <2>1 DEF SetChains, Goto
  <2>4. /\ n \in 1..MaxChains /\ s \in Seq(List) /\ Len(s) = n /\ s[n] = m /\ s # <<>>
        /\ n \notin DOMAIN client[c].chains
        /\ \A i \in DOMAIN client[c].chains : i \in DOMAIN s /\ s[i] = client[c].chains[i]
        /\ \A i \in DOMAIN s : i = n \/ i \in DOMAIN client[c].chains
        /\ n \in DOMAIN s
    BY <1>2, <1>4, <2>0, FirstList, BoundAssumption
  <2> HIDE DEF p, s
  <2>5. TypeOK'
    BY <1>2, <2>1, <2>2, <2>3, <2>4, GetOrCreateType DEF RInv, TypeOK
  <2>6. Only(c) /\ pc'[c] = p /\ client'[c].chains = s
    BY <1>2, <2>3 DEF Only, RInv, TypeOK
  <2>7. held[c] = <<>> /\ held'[c] = <<>> /\ pc[c].op = "leave"
    BY <1>2 DEF RInv, Threads, ThreadOK, Resting
  <2>8. \A i : ~Returned(c, i) /\ ~Returned(c, i)'
    BY <2>2, <2>6, <2>7 DEF Returned
  <2>9. /\ \A l \in List : ~Keeps(c, n, l) /\ (Keeps(c, n, l)' <=> l = m)
        /\ \A l \in List, i \in 1..MaxChains : i # n => (Keeps(c, i, l)' <=> Keeps(c, i, l))
    BY <2>4, <2>6, <2>8 DEF Keeps
  <2>10. ThreadOK(c)'
    <3>1. Resting(c)' /\ Inside(c)' /\ Replacing(c)' /\ Returning(c)'
      BY <2>2, <2>4, <2>6, <2>7 DEF Resting, Inside, Replacing, Returning
    <3>2. Bounded(c)'
      BY <2>4, <2>6 DEF Bounded
    <3>3. Entering(c)'
      BY <2>2, <2>4, <2>6, <2>7, <2>9 DEF Entering
    <3> QED
      BY <3>1, <3>2, <3>3 DEF ThreadOK
  <2>11. MutualExclusion'
    BY <1>2 DEF RInv, MutualExclusion
  <2>12. \A l \in List : (Uses(c, l)' => l = m) /\ ~Dying(c, l) /\ ~Dying(c, l)'
    BY <1>2, <2>2, <2>6, <2>7 DEF Uses, Dying
  <2> QED
    BY <2>1, <2>4, <2>5, <2>6, <2>9, <2>10, <2>11, <2>12, TakeStep
<1> QED
  BY <1>1, <1>3, <1>4

(* A configuration, a change of the chain, the end of a client. *)
LEMMA ConfigureInv ==
  ASSUME NEW c \in Client, RInv, Configure(c)
  PROVE  RInv'
<1>1. PICK ch \in {client[c].chain, Local} :
        Goto(c, [At("lock", "config", client[c].chains[1], 0) EXCEPT !.to = ch])
  BY DEF Configure
<1>2. pc[c].at = "idle" /\ UNCHANGED <<lists, registry, client, held>> /\ ch \in Chain
  BY ChainAssumption DEF Configure, RInv, TypeOK
<1> DEFINE q == At("lock", "config", client[c].chains[1], 0)
           p == [q EXCEPT !.to = ch]
<1>3. /\ q.at = "lock" /\ q.op = "config" /\ q.list = client[c].chains[1]
      /\ q \in [at : Points, op : Ops, list : List \cup {NoList}, i : Nat, last : BOOLEAN, to : Chain]
  BY <1>2, FirstList, LockPlace DEF Ops
<1>4. pc' = [pc EXCEPT ![c] = p]
  BY <1>1 DEF Goto
<1> HIDE DEF q
<1>5. /\ p.at = "lock" /\ p.op = "config" /\ p.list = client[c].chains[1]
      /\ p \in [at : Points, op : Ops, list : List \cup {NoList}, i : Nat, last : BOOLEAN, to : Chain]
  BY <1>2, <1>3
<1> HIDE DEF p
<1>6. Only(c) /\ pc'[c] = p /\ TypeOK'
  BY <1>2, <1>4, <1>5 DEF Only, RInv, TypeOK
<1> QED
  BY <1>2, <1>5, <1>6, FirstList, EnterStep

(* The chain id is set before the plugin hears of it. *)
LEMMA ChangeChainInv ==
  ASSUME NEW c \in Client, RInv, ChangeChain(c)
  PROVE  RInv'
<1>1. PICK ch \in Chain : client' = [client EXCEPT ![c].chain = ch]
  BY DEF ChangeChain
<1> DEFINE p == At("lock", "change", client[c].chains[1], 1)
<1>2. pc[c].at = "idle" /\ pc' = [pc EXCEPT ![c] = p] /\ UNCHANGED <<lists, registry, held>>
  BY DEF ChangeChain, Goto
<1>3. /\ p.at = "lock" /\ p.op = "change" /\ p.list = client[c].chains[1] /\ p.i = 1
      /\ p \in [at : Points, op : Ops, list : List \cup {NoList}, i : Nat, last : BOOLEAN, to : Chain]
  BY <1>2, FirstList, LockPlace DEF Ops
<1> HIDE DEF p
<1>4. Only(c) /\ pc'[c] = p /\ TypeOK' /\ client'[c].chains = client[c].chains
  BY <1>1, <1>2, <1>3 DEF Only, RInv, TypeOK
<1> QED
  BY <1>2, <1>3, <1>4, FirstList, EnterStep

(* PLGN_ACT_TERM starts with the first list. *)
LEMMA TerminateInv ==
  ASSUME NEW c \in Client, RInv, Terminate(c)
  PROVE  RInv'
<1> DEFINE p == At("lock", "term", client[c].chains[1], 1)
<1>1. pc[c].at = "idle" /\ pc' = [pc EXCEPT ![c] = p] /\ UNCHANGED <<lists, registry, client, held>>
  BY DEF Terminate, Goto
<1>2. /\ p.at = "lock" /\ p.op = "term" /\ p.list = client[c].chains[1] /\ p.i = 1
      /\ p \in [at : Points, op : Ops, list : List \cup {NoList}, i : Nat, last : BOOLEAN, to : Chain]
  BY <1>1, FirstList, LockPlace DEF Ops
<1> HIDE DEF p
<1>3. Only(c) /\ pc'[c] = p /\ TypeOK'
  BY <1>1, <1>2 DEF Only, RInv, TypeOK
<1> QED
  BY <1>1, <1>2, <1>3, FirstList, EnterStep

(* The mutex of the list is taken. *)
LEMMA LockInv ==
  ASSUME NEW c \in Client, RInv, Lock(c)
  PROVE  RInv'
<1>1. /\ pc[c].at = "lock" /\ UNCHANGED <<lists, registry, client>>
      /\ \A d \in Client \ {c} : \A k \in DOMAIN held[d] : held[d][k] # pc[c].list
      /\ held' = [held EXCEPT ![c] = Append(@, pc[c].list)]
      /\ pc' = [pc EXCEPT ![c] = [pc[c] EXCEPT !.at = "in"]]
  BY DEF Lock, Goto
<1>2. ThreadOK(c) /\ held[c] \in Seq(List) /\ client[c].chains \in Seq(List)
  BY DEF RInv, Threads, TypeOK
<1>3. pc[c].list \in List
  BY <1>1, <1>2 DEF ThreadOK, Entering, Keeps
<1>4. TypeOK'
  <2>1. [pc[c] EXCEPT !.at = "in"] \in
          [at : Points, op : Ops, list : List \cup {NoList}, i : Nat, last : BOOLEAN, to : Chain]
    BY DEF RInv, TypeOK, Points
  <2>2. Append(held[c], pc[c].list) \in Seq(List)
    BY <1>2, <1>3
  <2> QED
    BY <1>1, <2>1, <2>2 DEF RInv, TypeOK
<1>5. Only(c)
  BY <1>1 DEF Only, RInv, TypeOK
<1>6. /\ pc'[c].at = "in" /\ pc'[c].op = pc[c].op /\ pc'[c].list = pc[c].list
      /\ pc'[c].i = pc[c].i /\ pc'[c].last = pc[c].last
      /\ held'[c] = Append(held[c], pc[c].list) /\ client'[c] = client[c]
  BY <1>1 DEF RInv, TypeOK
<1>7. /\ Len(held'[c]) = Len(held[c]) + 1 /\ Len(held[c]) \in 0..1
      /\ pc[c].op # "request" => held'[c] = <<pc[c].list>>
      /\ \A k \in DOMAIN held'[c] : k \in DOMAIN held[c] \/ held'[c][k] = pc[c].list
      /\ \A k \in DOMAIN held[c] : k \in DOMAIN held'[c] /\ held'[c][k] = held[c][k]
  <2>1. CASE held[c] = <<>>
    BY <2>1, <1>3, <1>6
  <2>2. CASE held[c] # <<>>
    <3>1. Len(held[c]) = 1 /\ pc[c].op = "request"
      BY <2>2, <1>1, <1>2 DEF ThreadOK, Entering
    <3> QED
      BY <3>1, <1>2, <1>3, <1>6
  <2> QED
    BY <2>1, <2>2
<1>8. ThreadOK(c)'
  <2>1. Resting(c)' /\ Entering(c)' /\ Bounded(c)'
    BY <1>1, <1>2, <1>6 DEF ThreadOK, Resting, Entering, Bounded
  <2>2. Inside(c)'
    BY <1>6, <1>7 DEF Inside
  <2>3. Replacing(c)' /\ Returning(c)'
    BY <1>1, <1>2, <1>6 DEF ThreadOK, Replacing, Returning
  <2> QED
    BY <2>1, <2>2, <2>3 DEF ThreadOK
<1>9. MutualExclusion'
  <2>1. \A d \in Client \ {c} : held'[d] = held[d]
    BY <1>5 DEF Only
  <2>2. SUFFICES ASSUME NEW d \in Client, NEW e \in Client,
                        NEW k \in DOMAIN held'[d], NEW n \in DOMAIN held'[e], held'[d][k] = held'[e][n]
                 PROVE  d = e
    BY DEF MutualExclusion
  <2>3. CASE d # c /\ e # c
    BY <2>1, <2>2, <2>3 DEF RInv, MutualExclusion
  <2>4. CASE d = c /\ e # c
    <3>1. held'[e] = held[e] /\ held'[d][k] # pc[c].list
      BY <1>1, <2>1, <2>2, <2>4
    <3>2. k \in DOMAIN held[d] /\ held'[d][k] = held[d][k]
      BY <3>1, <2>4, <1>7
    <3> QED
      BY <2>2, <3>1, <3>2 DEF RInv, MutualExclusion
  <2>5. CASE d # c /\ e = c
    <3>1. held'[d] = held[d] /\ held'[e][n] # pc[c].list
      BY <1>1, <2>1, <2>2, <2>5
    <3>2. n \in DOMAIN held[e] /\ held'[e][n] = held[e][n]
      BY <3>1, <2>5, <1>7
    <3> QED
      BY <2>2, <3>1, <3>2 DEF RInv, MutualExclusion
  <2> QED
    BY <2>3, <2>4, <2>5
<1>10. \A l \in List, i \in 1..MaxChains : Keeps(c, i, l)' <=> Keeps(c, i, l)
  BY <1>1, <1>6 DEF Keeps, Returned
<1>11. \A l \in List : Uses(c, l)' => Uses(c, l)
  BY <1>1, <1>6, <1>7 DEF Uses
<1>12. \A l \in List : Dying(c, l)' <=> Dying(c, l)
  BY <1>1, <1>6 DEF Dying
<1> QED
  BY <1>1, <1>4, <1>5, <1>8, <1>9, <1>10, <1>11, <1>12, QuietStep

(* The request for a new list, sent while the mutex is held. *)
LEMMA UpdateListInv ==
  ASSUME NEW c \in Client, RInv, UpdateList(c)
  PROVE  RInv'
<1> DEFINE p == At("lock", "request", client[c].chains[1], 0)
<1>1. /\ pc[c].at = "in" /\ pc[c].op = "request" /\ Len(held[c]) = 1
      /\ Foreign \/ held[c][1] = client[c].chains[1]
      /\ pc' = [pc EXCEPT ![c] = p] /\ UNCHANGED <<lists, registry, client, held>>
  BY DEF UpdateList, Goto
<1>2. /\ p.at = "lock" /\ p.op = "request" /\ p.list = client[c].chains[1]
      /\ p \in [at : Points, op : Ops, list : List \cup {NoList}, i : Nat, last : BOOLEAN, to : Chain]
  BY <1>1, FirstList, LockPlace DEF Ops
<1> HIDE DEF p
<1>3. Only(c) /\ pc'[c] = p /\ TypeOK'
  BY <1>1, <1>2 DEF Only, RInv, TypeOK
<1>4. \A i : ~Returned(c, i) /\ ~Returned(c, i)'
  BY <1>1, <1>2, <1>3 DEF Returned
<1>5. \A i, l : Keeps(c, i, l)' <=> Keeps(c, i, l)
  BY <1>1, <1>4 DEF Keeps
<1>6. 1 \in DOMAIN client[c].chains /\ 1 \in 1..MaxChains /\ client[c].chains # <<>>
  BY <1>1, FirstList, BoundAssumption
<1>7. Keeps(c, 1, client[c].chains[1])
  BY <1>4, <1>6 DEF Keeps
<1>8. ThreadOK(c)'
  <2>1. Resting(c)' /\ Inside(c)' /\ Replacing(c)' /\ Returning(c)'
    BY <1>1, <1>2, <1>3, <1>6 DEF Resting, Inside, Replacing, Returning
  <2>2. Bounded(c)'
    BY <1>1, FirstList DEF Bounded
  <2>3. Entering(c)'
    <3>1. \E j \in DOMAIN client'[c].chains : Keeps(c, j, pc[c].list)'
      <4>1. 1 \in DOMAIN client'[c].chains /\ client'[c].chains[1] = pc'[c].list
        BY <1>1, <1>2, <1>3, <1>6
      <4> QED
        BY <4>1, <1>4 DEF Keeps
    <3> QED
      BY <3>1, <1>1, <1>2, <1>3 DEF Entering
  <2> QED
    BY <2>1, <2>2, <2>3 DEF ThreadOK
<1>9. MutualExclusion'
  BY <1>1 DEF RInv, MutualExclusion
<1>10. \A l \in List : Uses(c, l)' => Uses(c, l) \/ \E i \in 1..MaxChains : Keeps(c, i, l)
  BY <1>1, <1>2, <1>3, <1>6, <1>7 DEF Uses
<1>11. \A l \in List : Dying(c, l)' <=> Dying(c, l)
  BY <1>1, <1>2, <1>3 DEF Dying
<1> QED
  BY <1>1, <1>3, <1>5, <1>8, <1>9, <1>10, <1>11, QuietStep

(* The call is over: its mutex is released. *)
LEMMA LeaveInv ==
  ASSUME NEW c \in Client, RInv, Leave(c)
  PROVE  RInv'
<1> DEFINE h == SubSeq(held[c], 1, Len(held[c]) - 1)
           p == IF Len(held[c]) = 1 THEN Ready ELSE pc[c]
<1>1. /\ pc[c].at = "in" /\ pc[c].op \in {"request", "leave"} /\ UNCHANGED <<lists, registry, client>>
      /\ held' = [held EXCEPT ![c] = h] /\ pc' = [pc EXCEPT ![c] = p]
  BY DEF Leave, Goto
<1>2. ThreadOK(c) /\ held[c] \in Seq(List) /\ Len(held[c]) \in 1..2
  BY <1>1 DEF RInv, Threads, TypeOK, ThreadOK, Inside
<1>3. /\ h \in Seq(List) /\ Len(h) = Len(held[c]) - 1
      /\ \A k \in DOMAIN h : k \in DOMAIN held[c] /\ h[k] = held[c][k]
  <2>1. ASSUME NEW s \in Seq(List), NEW n \in Nat, n + 1 = Len(s)
        PROVE  /\ SubSeq(s, 1, n) \in Seq(List) /\ Len(SubSeq(s, 1, n)) = n
               /\ \A k \in DOMAIN SubSeq(s, 1, n) : k \in DOMAIN s /\ SubSeq(s, 1, n)[k] = s[k]
    BY <2>1
  <2>2. PICK n \in Nat : n + 1 = Len(held[c]) /\ n = Len(held[c]) - 1
    <3>1. ASSUME NEW a \in 1..2 PROVE \E n \in Nat : n + 1 = a /\ n = a - 1
      <4>1. a - 1 \in Nat /\ (a - 1) + 1 = a
        OBVIOUS
      <4> QED
        BY <4>1
    <3> QED
      BY <1>2, <3>1
  <2> QED
    BY <1>2, <2>1, <2>2
<1>4. Ready \in [at : Points, op : Ops, list : List \cup {NoList}, i : Nat, last : BOOLEAN, to : Chain]
  BY ChainAssumption DEF Ready, At, Points, Ops
<1>5. p \in [at : Points, op : Ops, list : List \cup {NoList}, i : Nat, last : BOOLEAN, to : Chain]
  BY <1>4 DEF RInv, TypeOK
<1> HIDE DEF h
<1>6. Only(c) /\ pc'[c] = p /\ held'[c] = h /\ TypeOK'
  BY <1>1, <1>3, <1>5 DEF Only, RInv, TypeOK
<1>7. \/ p = Ready /\ h = <<>>
      \/ p = pc[c] /\ Len(h) = 1 /\ pc[c].op = "request"
  <2>1. CASE Len(held[c]) = 1
    BY <2>1, <1>3
  <2>2. CASE Len(held[c]) = 2
    <3>1. ~(held[c] = <<pc[c].list>>)
      BY <2>2
    <3>2. pc[c].op = "request"
      BY <1>1, <1>2, <3>1 DEF ThreadOK, Inside
    <3> QED
      BY <2>2, <3>2, <1>3
  <2> QED
    BY <1>2, <2>1, <2>2
<1> HIDE DEF p
<1>8. \A i : ~Returned(c, i) /\ ~Returned(c, i)'
  BY <1>1, <1>6, <1>7 DEF Returned, Ready, At
<1>9. \A i, l : Keeps(c, i, l)' <=> Keeps(c, i, l)
  BY <1>1, <1>8 DEF Keeps
<1>10. ThreadOK(c)'
  <2>1. client[c].chains # <<>> /\ Len(client[c].chains) <= MaxChains
    BY <1>1, FirstList
  <2>2. CASE p = Ready /\ h = <<>>
    BY <2>1, <2>2, <1>1, <1>6
       DEF ThreadOK, Resting, Entering, Inside, Replacing, Returning, Bounded, Ready, At
  <2>3. CASE p = pc[c] /\ Len(h) = 1 /\ pc[c].op = "request"
    BY <2>1, <2>3, <1>1, <1>6
       DEF ThreadOK, Resting, Entering, Inside, Replacing, Returning, Bounded
  <2> QED
    BY <1>7, <2>2, <2>3
<1>11. MutualExclusion'
  BY <1>3, <1>6, NoNewMutex DEF RInv
<1>12. \A l \in List : Uses(c, l)' => Uses(c, l)
  BY <1>1, <1>3, <1>6, <1>7 DEF Uses, Ready, At
<1>13. \A l \in List : Dying(c, l)' <=> Dying(c, l)
  BY <1>1, <1>6, <1>7 DEF Dying, Ready, At
<1> QED
  BY <1>1, <1>6, <1>9, <1>10, <1>11, <1>12, <1>13, QuietStep

(* nodelist_seperate_from_registry *)
LEMMA SeparateInv ==
  ASSUME NEW c \in Client, RInv, Separate(c)
  PROVE  RInv'
<1>1. /\ pc[c].at = "in" /\ pc[c].op = "config" /\ UNCHANGED <<registry, held>>
      /\ pc' = [pc EXCEPT ![c] = [pc[c] EXCEPT !.op = "leave"]]
  BY DEF Separate, Goto
<1>2. PICK o \in List : o = client[c].chains[1]
  BY <1>1, FirstList
<1>3. /\ ThreadOK(c) /\ pc[c].list = o /\ held[c] = <<o>> /\ client[c].chains \in Seq(List)
      /\ pc[c].to \in Chain
  BY <1>1, <1>2 DEF RInv, Threads, TypeOK, ThreadOK, Inside, Replacing
<1>4. /\ pc'[c].at = "in" /\ pc'[c].op = "leave" /\ pc'[c].list = o
  BY <1>1, <1>3 DEF RInv, TypeOK
<1>5. pc' \in [Client -> [at : Points, op : Ops, list : List \cup {NoList}, i : Nat,
                          last : BOOLEAN, to : Chain]]
  BY <1>1 DEF RInv, TypeOK, Ops
<1>6. MutualExclusion'
  BY <1>1 DEF RInv, MutualExclusion
<1>7. \A i : ~Returned(c, i) /\ ~Returned(c, i)'
  BY <1>1, <1>4 DEF Returned
<1>8. \A l \in List : /\ Uses(c, l)' <=> l = o
                      /\ Uses(c, l) <=> l = o
                      /\ ~Dying(c, l) /\ ~Dying(c, l)'
  BY <1>1, <1>3, <1>4 DEF Uses, Dying
<1>9. /\ 1 \in DOMAIN client[c].chains /\ client[c].chains # <<>> /\ 1 \in 1..MaxChains
      /\ Len(client[c].chains) <= MaxChains
  BY <1>1, FirstList, BoundAssumption
<1>10. ASSUME NEW s \in Seq(List), client'[c].chains = s, Len(s) = Len(client[c].chains)
       PROVE  ThreadOK(c)'
  <2>1. s # <<>> /\ Len(s) <= MaxChains
    BY <1>9, <1>10
  <2> QED
    BY <1>1, <1>3, <1>4, <1>10, <2>1
       DEF ThreadOK, Resting, Entering, Inside, Replacing, Returning, Bounded
<1>11. CASE ~IsShared(o)
  <2>1. client' = [client EXCEPT ![c].chain = pc[c].to] /\ UNCHANGED lists
    BY <1>3, <1>11 DEF Separate
  <2>2. /\ Only(c) /\ client'[c].chains = client[c].chains
        /\ client' \in [Client -> [chain : Chain, chains : Seq(List)]]
    BY <1>1, <1>3, <2>1 DEF Only, RInv, TypeOK
  <2>5. TypeOK'
    BY <1>1, <1>5, <2>1, <2>2 DEF RInv, TypeOK
  <2>3. ThreadOK(c)'
    BY <1>3, <1>10, <2>2
  <2>4. \A l \in List, i \in 1..MaxChains : Keeps(c, i, l)' <=> Keeps(c, i, l)
    BY <1>7, <2>2 DEF Keeps
  <2> QED
    BY <1>1, <1>6, <1>8, <2>1, <2>2, <2>3, <2>4, <2>5, QuietStep
<1>12. CASE IsShared(o)
  <2>1. PICK m \in List :
          /\ ~lists[m].live
          /\ lists' = [lists EXCEPT ![o].ref = @ - 1,
                                    ![m] = [live |-> TRUE, chain |-> lists[o].chain, ref |-> 1]]
          /\ client' = [client EXCEPT ![c] = [chain  |-> pc[c].to,
                                              chains |-> [@.chains EXCEPT ![1] = m]]]
    BY <1>3, <1>12 DEF Separate
  <2>2. PICK s : s = [client[c].chains EXCEPT ![1] = m]
    OBVIOUS
  <2>3. /\ s \in Seq(List) /\ Len(s) = Len(client[c].chains) /\ s[1] = m
        /\ DOMAIN s = DOMAIN client[c].chains
        /\ \A i \in DOMAIN s : i # 1 => s[i] = client[c].chains[i]
    BY <1>3, <1>9, <2>2
  <2>4. Only(c) /\ client'[c].chains = s
    BY <1>1, <2>1, <2>2 DEF Only, RInv, TypeOK
  <2>5. o \in registry /\ lists[o].live /\ o # m
    BY <1>12, <2>1 DEF IsShared, RInv, ListsLiveExactly, OneListPerChain
  <2>6. /\ Keeps(c, 1, o) /\ Keeps(c, 1, m)'
        /\ \A l \in List : (l # o => ~Keeps(c, 1, l)) /\ (l # m => ~Keeps(c, 1, l)')
        /\ \A l \in List, i \in 1..MaxChains : i # 1 => (Keeps(c, i, l)' <=> Keeps(c, i, l))
    BY <1>2, <1>7, <1>9, <2>3, <2>4 DEF Keeps
  <2>7. lists[o].ref = Cardinality(References(o)) /\ References(o) # {} /\ References(m) = {}
    BY <2>1, <2>5, <2>6, <1>9, NoReferences DEF RInv, RefCountExact, ListsLiveExactly, NoUseAfterFree
  <2>8. lists[o].ref \in Nat /\ lists[o].ref # 0
    BY <2>7, ReferencesFinite, FS_EmptySet
  <2>9. /\ lists'[o].ref = lists[o].ref - 1 /\ lists'[o].live /\ lists'[o].chain = lists[o].chain
        /\ lists'[m].ref = 1 /\ lists'[m].live
        /\ \A l \in List \ {o, m} : lists'[l] = lists[l]
    BY <2>1, <2>5 DEF RInv, TypeOK
  <2>10. TypeOK'
    <3>1. lists' \in [List -> [live : BOOLEAN, chain : Chain, ref : Nat]]
      <4>1. lists[o].ref - 1 \in Nat
        BY <2>8
      <4> QED
        BY <2>1, <2>5, <4>1 DEF RInv, TypeOK
    <3>2. client' \in [Client -> [chain : Chain, chains : Seq(List)]]
      BY <1>3, <2>1, <2>2, <2>3 DEF RInv, TypeOK
    <3> QED
      BY <1>1, <1>5, <3>1, <3>2 DEF RInv, TypeOK
  <2>11. Threads'
    BY <1>10, <2>3, <2>4, OthersThreadOK DEF RInv
  <2>12. ASSUME NEW l \in List, NEW d \in Client, NEW i \in 1..MaxChains, l \notin {o, m} \/ <<d, i>> # <<c, 1>>
         PROVE  Keeps(d, i, l)' <=> Keeps(d, i, l)
    BY <2>4, <2>6, <2>12, OthersStay
  <2>13. ASSUME NEW l \in List \ {o, m} PROVE References(l)' = References(l)
    BY <2>12, ReferencesStay
  <2>14. Cardinality(References(o)') = Cardinality(References(o)) - 1
    BY <2>5, <2>6, <2>12, <1>9, ReferenceGiven
  <2>15. Cardinality(References(m)') = Cardinality(References(m)) + 1
    BY <2>5, <2>6, <2>12, <1>9, ReferenceTaken
  <2>16. RefCountExact'
    <3>1. lists'[m].ref = Cardinality(References(m)')
      BY <2>7, <2>9, <2>15, FS_EmptySet
    <3>2. lists'[o].ref = Cardinality(References(o)')
      BY <2>7, <2>9, <2>14
    <3>3. ASSUME NEW l \in List \ {o, m}, lists'[l].live PROVE lists'[l].ref = Cardinality(References(l)')
      BY <3>3, <2>9, <2>13 DEF RInv, RefCountExact
    <3> QED
      BY <3>1, <3>2, <3>3 DEF RefCountExact
  <2>17. ASSUME NEW l \in List, NEW d \in Client
         PROVE  (Uses(d, l)' <=> Uses(d, l)) /\ (Dying(d, l)' <=> Dying(d, l))
    BY <1>8, <2>4, OthersStay
  <2>18. NoUseAfterFree'
    <3>1. SUFFICES ASSUME NEW l \in List \ {o, m}, Users(l)' # {} \/ References(l)' # {}
                   PROVE  lists[l].live
      BY <2>9 DEF NoUseAfterFree
    <3>2. Users(l)' = Users(l)
      BY <2>17 DEF Users
    <3> QED
      BY <3>1, <3>2, <2>13 DEF RInv, ListsLiveExactly, NoUseAfterFree
  <2>19. NoLeak'
    <3>1. SUFFICES ASSUME NEW l \in List, lists'[l].live, References(l)' = {}
                   PROVE  l \in registry' \/ \E d \in Client : Dying(d, l)'
      BY DEF NoLeak
    <3>2. CASE l = o
      BY <1>1, <2>5, <3>2
    <3>3. CASE l = m
      BY <1>9, <2>6, <3>1, <3>3, NoReferencesNext
    <3>4. CASE l \notin {o, m}
      BY <1>1, <2>9, <2>13, <2>17, <3>1, <3>4 DEF RInv, ListsLiveExactly, NoLeak
    <3> QED
      BY <3>2, <3>3, <3>4
  <2>20. OneListPerChain'
    <3>1. m \notin registry
      BY <2>1 DEF RInv, ListsLiveExactly, OneListPerChain
    <3>2. \A l \in registry : lists'[l].live = lists[l].live /\ lists'[l].chain = lists[l].chain
      BY <3>1, <2>5, <2>9 DEF RInv, TypeOK
    <3> QED
      BY <3>2, <1>1 DEF RInv, ListsLiveExactly, OneListPerChain
  <2>21. DyingAlone'
    <3>1. SUFFICES ASSUME NEW e \in Client, NEW l \in List, Dying(e, l)'
                   PROVE  /\ l \notin registry'
                          /\ \A d \in Client : \A i \in 1..MaxChains : ~Keeps(d, i, l)'
                          /\ \A d \in Client \ {e} : d \notin Users(l)'
      BY DEF DyingAlone
    <3>2. Dying(e, l) /\ Uses(e, l)
      BY <3>1, <2>17 DEF Dying, Uses
    <3>3. lists[l].live
      BY <3>2, LiveUses DEF RInv
    <3>4. /\ l \notin registry
          /\ \A d \in Client : \A i \in 1..MaxChains : ~Keeps(d, i, l)
          /\ \A d \in Client \ {e} : ~Uses(d, l)
      BY <3>2 DEF RInv, DyingAlone, Users
    <3>5. l \notin {o, m}
      BY <3>3, <3>4, <2>1, <2>5
    <3>6. \A d \in Client : \A i \in 1..MaxChains : ~Keeps(d, i, l)'
      BY <2>12, <3>4, <3>5
    <3>7. \A d \in Client \ {e} : ~Uses(d, l)'
      BY <2>17, <3>4
    <3> QED
      BY <1>1, <3>4, <3>6, <3>7 DEF Users
  <2> QED
    BY <1>6, <2>10, <2>11, <2>16, <2>18, <2>19, <2>20, <2>21 DEF RInv, ListsLiveExactly
<1> QED
  BY <1>11, <1>12

(* nodelist_return_or_free: the reference is given back. *)
LEMMA ReturnReferenceInv ==
  ASSUME NEW c \in Client, RInv, ReturnReference(c)
  PROVE  RInv'
<1>1. PICK m \in List, n \in 1..MaxChains :
        /\ m = pc[c].list /\ n = pc[c].i
        /\ n \in DOMAIN client[c].chains /\ client[c].chains[n] = m
  <2>1. /\ ThreadOK(c) /\ pc[c].op \in {"term", "change"} /\ pc[c].at = "in"
        /\ client[c].chains \in Seq(List)
    BY DEF ReturnReference, RInv, Threads, TypeOK
  <2>2. /\ pc[c].i \in DOMAIN client[c].chains /\ pc[c].list = client[c].chains[pc[c].i]
        /\ Len(client[c].chains) <= MaxChains
    BY <2>1 DEF ThreadOK, Returning, Bounded
  <2>3. pc[c].i \in 1..MaxChains /\ pc[c].list \in List
    BY <2>1, <2>2, BoundAssumption
  <2> QED
    BY <2>2, <2>3
<1>2. /\ pc[c].at = "in" /\ pc[c].op \in {"term", "change"} /\ UNCHANGED <<client, held>>
      /\ lists' = [lists EXCEPT ![m].ref = @ - 1]
      /\ registry' = IF IsLast(m) THEN registry \ {m} ELSE registry
      /\ pc' = [pc EXCEPT ![c] = [pc[c] EXCEPT !.at = "returned", !.last = IsLast(m)]]
  BY <1>1 DEF ReturnReference, Goto
<1>3. ThreadOK(c) /\ held[c] = <<m>>
  BY <1>1, <1>2 DEF RInv, Threads, ThreadOK, Inside
<1>4. /\ pc'[c].at = "returned" /\ pc'[c].op = pc[c].op /\ pc'[c].list = m
      /\ pc'[c].i = n /\ pc'[c].last = IsLast(m)
  BY <1>1, <1>2 DEF RInv, TypeOK
<1>5. Only(c)
  BY <1>2 DEF Only, RInv, TypeOK
<1>6. \A i \in DOMAIN client[c].chains : Returned(c, i)' <=> (Returned(c, i) \/ i = n)
  BY <1>1, <1>2, <1>4 DEF Returned
<1>7. ~Returned(c, n)
  <2>1. pc[c].i \in Nat
    BY DEF RInv, TypeOK
  <2> QED
    BY <1>1, <1>2, <2>1 DEF Returned
<1>8. /\ Keeps(c, n, m) /\ \A l \in List : ~Keeps(c, n, l)'
      /\ \A l \in List, i \in 1..MaxChains : i # n => (Keeps(c, i, l)' <=> Keeps(c, i, l))
      /\ \A l \in List \ {m} : ~Keeps(c, n, l)
  BY <1>1, <1>2, <1>6, <1>7 DEF Keeps
<1>9. References(m) # {} /\ lists[m].live
  BY <1>1, <1>8, NoReferences DEF RInv, ListsLiveExactly, NoUseAfterFree
<1>10. lists[m].ref = Cardinality(References(m)) /\ lists[m].ref \in Nat /\ lists[m].ref # 0
  BY <1>9, ReferencesFinite, FS_EmptySet DEF RInv, RefCountExact
<1>11. /\ lists'[m].ref = lists[m].ref - 1 /\ lists'[m].live
       /\ \A l \in List : lists'[l].live = lists[l].live /\ lists'[l].chain = lists[l].chain
       /\ \A l \in List \ {m} : lists'[l] = lists[l]
  BY <1>2, <1>9 DEF RInv, TypeOK
<1>12. TypeOK'
  <2>1. lists' \in [List -> [live : BOOLEAN, chain : Chain, ref : Nat]]
    <3>1. lists[m].ref - 1 \in Nat
      BY <1>10
    <3> QED
      BY <1>2, <3>1 DEF RInv, TypeOK
  <2>2. pc' \in [Client -> [at : Points, op : Ops, list : List \cup {NoList}, i : Nat,
                            last : BOOLEAN, to : Chain]]
    <3>1. IsLast(m) \in BOOLEAN
      BY DEF IsLast
    <3>2. [pc[c] EXCEPT !.at = "returned", !.last = IsLast(m)] \in
            [at : Points, op : Ops, list : List \cup {NoList}, i : Nat, last : BOOLEAN, to : Chain]
      BY <3>1 DEF RInv, TypeOK, Points
    <3> QED
      BY <1>2, <3>2 DEF RInv, TypeOK
  <2>3. registry' \subseteq List
    BY <1>2 DEF RInv, TypeOK
  <2> QED
    BY <1>2, <2>1, <2>2, <2>3 DEF RInv, TypeOK
<1>13. ThreadOK(c)'
  <2>1. Resting(c)' /\ Entering(c)' /\ Inside(c)' /\ Replacing(c)' /\ Bounded(c)'
    BY <1>2, <1>3, <1>4 DEF ThreadOK, Resting, Entering, Inside, Replacing, Bounded
  <2>2. Returning(c)'
    BY <1>1, <1>2, <1>3, <1>4 DEF ThreadOK, Returning
  <2> QED
    BY <2>1, <2>2 DEF ThreadOK
<1>14. Threads'
  BY <1>5, <1>13, OthersThreadOK DEF RInv
<1>15. MutualExclusion'
  BY <1>2 DEF RInv, MutualExclusion
<1>16. ASSUME NEW l \in List, NEW d \in Client, NEW i \in 1..MaxChains, l # m \/ <<d, i>> # <<c, n>>
       PROVE  Keeps(d, i, l)' <=> Keeps(d, i, l)
  BY <1>5, <1>8, <1>16, OthersStay
<1>17. ASSUME NEW l \in List \ {m} PROVE References(l)' = References(l)
  BY <1>16, ReferencesStay
<1>18. Cardinality(References(m)') = Cardinality(References(m)) - 1
  BY <1>8, <1>16, ReferenceGiven
<1>19. RefCountExact'
  <2>1. lists'[m].ref = Cardinality(References(m)')
    BY <1>10, <1>11, <1>18
  <2>2. ASSUME NEW l \in List \ {m}, lists'[l].live PROVE lists'[l].ref = Cardinality(References(l)')
    BY <2>2, <1>11, <1>17 DEF RInv, RefCountExact
  <2> QED
    BY <2>1, <2>2 DEF RefCountExact
<1>20. \A l \in List : Uses(c, l)' => l = m
  BY <1>2, <1>3, <1>4 DEF Uses
<1>21. ASSUME NEW l \in List, NEW d \in Client, d # c
       PROVE  (Uses(d, l)' <=> Uses(d, l)) /\ (Dying(d, l)' <=> Dying(d, l))
  BY <1>5, <1>21, OthersStay
<1>22. \A l \in List : ~Dying(c, l) /\ (Dying(c, l)' <=> IsLast(m) /\ l = m)
  BY <1>2, <1>4 DEF Dying
<1>23. NoUseAfterFree'
  <2>1. SUFFICES ASSUME NEW l \in List \ {m}, Users(l)' # {} \/ References(l)' # {}
                 PROVE  lists[l].live
    BY <1>11 DEF NoUseAfterFree
  <2>2. CASE References(l)' # {}
    BY <2>2, <1>17 DEF RInv, ListsLiveExactly, NoUseAfterFree
  <2>3. CASE Users(l)' # {}
    <3>1. PICK d \in Client : Uses(d, l)'
      BY <2>3 DEF Users
    <3> QED
      BY <3>1, <1>20, <1>21, LiveUses DEF RInv
  <2> QED
    BY <2>1, <2>2, <2>3
<1>24. OneListPerChain'
  <2>1. registry' \subseteq registry
    BY <1>2
  <2> QED
    BY <2>1, <1>11 DEF RInv, TypeOK, ListsLiveExactly, OneListPerChain
(* Nobody else can be near the list when its last reference is given back. *)
<1>25. ASSUME IsLast(m)
       PROVE  /\ \A d \in Client, i \in 1..MaxChains : ~Keeps(d, i, m)'
              /\ \A d \in Client \ {c} : ~Uses(d, m)
  <2>1. Cardinality(References(m)) = 1
    BY <1>10, <1>25 DEF IsLast
  <2>2. \A d \in Client, i \in 1..MaxChains : Keeps(d, i, m) => d = c /\ i = n
    BY <2>1, <1>8, OnlyReference
  <2>3. \A d \in Client, i \in 1..MaxChains : ~Keeps(d, i, m)'
    BY <2>2, <1>8, <1>16
  <2>4. ASSUME NEW d \in Client \ {c}, Uses(d, m) PROVE FALSE
    <3>1. ThreadOK(d)
      BY DEF RInv, Threads
    <3>2. \A k \in DOMAIN held[d] : held[d][k] # m
      <4>1. 1 \in DOMAIN held[c] /\ held[c][1] = m
        BY <1>3
      <4> QED
        BY <4>1 DEF RInv, MutualExclusion
    <3>3. pc[d].at \in {"lock", "returned", "free"} /\ pc[d].list = m
      BY <2>4, <3>2 DEF Uses
    <3>4. CASE pc[d].at = "lock"
      <4>1. PICK j \in DOMAIN client[d].chains : Keeps(d, j, m)
        BY <3>1, <3>3, <3>4 DEF ThreadOK, Entering
      <4>2. j \in 1..MaxChains
        <5>1. client[d].chains \in Seq(List) /\ Len(client[d].chains) <= MaxChains
          BY <3>1 DEF ThreadOK, Bounded, RInv, TypeOK
        <5> QED
          BY <5>1, BoundAssumption
      <4> QED
        BY <4>1, <4>2, <2>2
    <3>5. CASE pc[d].at = "returned"
      <4>1. held[d] = <<m>>
        BY <3>1, <3>3, <3>5 DEF ThreadOK, Returning
      <4> QED
        BY <4>1, <3>2
    <3>6. CASE pc[d].at = "free"
      <4>1. Dying(d, m)
        BY <3>1, <3>3, <3>6 DEF ThreadOK, Returning, Dying
      <4> QED
        BY <4>1, <1>8 DEF RInv, DyingAlone
    <3> QED
      BY <3>3, <3>4, <3>5, <3>6
  <2> QED
    BY <2>3, <2>4
<1>26. NoLeak'
  <2>1. SUFFICES ASSUME NEW l \in List, lists'[l].live, References(l)' = {}
                 PROVE  l \in registry' \/ \E d \in Client : Dying(d, l)'
    BY DEF NoLeak
  <2>2. CASE l = m
    <3>1. Cardinality(References(m)') = 0
      BY <2>1, <2>2, FS_EmptySet
    <3>2. IsLast(m)
      BY <3>1, <1>10, <1>18, ReferencesFinite DEF IsLast
    <3> QED
      BY <3>2, <2>2, <1>22
  <2>3. CASE l # m
    <3>1. l \in registry \/ \E d \in Client : Dying(d, l)
      BY <2>1, <2>3, <1>11, <1>17 DEF RInv, ListsLiveExactly, NoLeak
    <3>2. l \in registry => l \in registry'
      BY <1>2, <2>3
    <3> QED
      BY <3>1, <3>2, <1>21, <1>22
  <2> QED
    BY <2>2, <2>3
<1>27. DyingAlone'
  <2>1. SUFFICES ASSUME NEW e \in Client, NEW l \in List, Dying(e, l)'
                 PROVE  /\ l \notin registry'
                        /\ \A d \in Client : \A i \in 1..MaxChains : ~Keeps(d, i, l)'
                        /\ \A d \in Client \ {e} : ~Uses(d, l)'
    BY DEF DyingAlone, Users
  <2>2. CASE e = c
    <3>1. IsLast(m) /\ l = m
      BY <2>1, <2>2, <1>22
    <3> QED
      BY <3>1, <2>2, <1>2, <1>21, <1>25
  <2>3. CASE e # c
    <3>1. Dying(e, l)
      BY <2>1, <2>3, <1>21
    <3>2. /\ l \notin registry
          /\ \A d \in Client : \A i \in 1..MaxChains : ~Keeps(d, i, l)
          /\ \A d \in Client \ {e} : ~Uses(d, l)
      BY <3>1 DEF RInv, DyingAlone, Users
    <3>3. l # m
      BY <3>2, <1>8
    <3>4. \A d \in Client : \A i \in 1..MaxChains : ~Keeps(d, i, l)'
      BY <3>2, <3>3, <1>16
    <3>5. \A d \in Client \ {e} : ~Uses(d, l)'
      BY <3>2, <3>3, <1>20, <1>21
    <3> QED
      BY <3>2, <3>4, <3>5, <1>2
  <2> QED
    BY <2>2, <2>3
<1> QED
  BY <1>12, <1>14, <1>15, <1>19, <1>23, <1>24, <1>26, <1>27 DEF RInv, ListsLiveExactly

(* The mutex is released after the reference has been given back. *)
LEMMA ReturnUnlockInv ==
  ASSUME NEW c \in Client, RInv, ReturnUnlock(c)
  PROVE  RInv'
<1>1. PICK a : a = IF pc[c].last THEN "free" ELSE "next"
  OBVIOUS
<1>2. /\ pc[c].at = "returned" /\ UNCHANGED <<lists, registry, client>>
      /\ held' = [held EXCEPT ![c] = <<>>]
      /\ pc' = [pc EXCEPT ![c] = [pc[c] EXCEPT !.at = a]]
  BY <1>1 DEF ReturnUnlock, Goto
<1>3. ThreadOK(c) /\ pc[c].last \in BOOLEAN
  BY DEF RInv, Threads, TypeOK
<1>4. pc[c].op \in {"term", "change"}
  BY <1>2, <1>3 DEF ThreadOK, Returning
<1>5. /\ pc'[c].at = a /\ pc'[c].op = pc[c].op /\ pc'[c].list = pc[c].list
      /\ pc'[c].i = pc[c].i /\ pc'[c].last = pc[c].last /\ held'[c] = <<>>
      /\ a = "free" <=> pc[c].last
      /\ a \in {"free", "next"}
  BY <1>1, <1>2, <1>3 DEF RInv, TypeOK
<1>6. Only(c)
  BY <1>2 DEF Only, RInv, TypeOK
<1>7. TypeOK'
  <2>1. [pc[c] EXCEPT !.at = a] \in
          [at : Points, op : Ops, list : List \cup {NoList}, i : Nat, last : BOOLEAN, to : Chain]
    BY <1>5 DEF RInv, TypeOK, Points
  <2> QED
    BY <1>2, <2>1 DEF RInv, TypeOK
<1>8. ThreadOK(c)'
  BY <1>2, <1>3, <1>4, <1>5
     DEF ThreadOK, Resting, Entering, Inside, Replacing, Returning, Bounded
<1>9. MutualExclusion'
  BY <1>5, <1>6, NoNewMutex DEF RInv
<1>10. \A l \in List, i \in 1..MaxChains : Keeps(c, i, l)' <=> Keeps(c, i, l)
  BY <1>2, <1>4, <1>5 DEF Keeps, Returned
<1>11. \A l \in List : Uses(c, l)' => Uses(c, l)
  BY <1>2, <1>5 DEF Uses
<1>12. \A l \in List : Dying(c, l)' <=> Dying(c, l)
  BY <1>2, <1>5 DEF Dying
<1> QED
  BY <1>2, <1>6, <1>7, <1>8, <1>9, <1>10, <1>11, <1>12, QuietStep

(* The list is freed. *)
LEMMA ReturnFreeInv ==
  ASSUME NEW c \in Client, RInv, ReturnFree(c)
  PROVE  RInv'
<1>1. ThreadOK(c) /\ pc[c].at = "free" /\ UNCHANGED <<registry, client, held>>
  BY DEF ReturnFree, RInv, Threads
<1>2. /\ pc[c].op \in {"term", "change"} /\ pc[c].last /\ held[c] = <<>>
      /\ pc[c].i \in DOMAIN client[c].chains /\ pc[c].list = client[c].chains[pc[c].i]
      /\ pc[c].op = "change" => pc[c].i = 1
  BY <1>1 DEF ThreadOK, Resting, Returning
<1>3. PICK m \in List : m = pc[c].list
  BY <1>2 DEF RInv, TypeOK
<1>4. /\ lists' = [lists EXCEPT ![m].live = FALSE]
      /\ pc' = [pc EXCEPT ![c] = [pc[c] EXCEPT !.at = "next"]]
  BY <1>3 DEF ReturnFree, Goto
<1>5. /\ pc'[c].at = "next" /\ pc'[c].op = pc[c].op /\ pc'[c].i = pc[c].i /\ held'[c] = <<>>
  BY <1>1, <1>2, <1>4 DEF RInv, TypeOK
<1>6. Only(c)
  BY <1>1, <1>4 DEF Only, RInv, TypeOK
<1>7. TypeOK'
  <2>1. [pc[c] EXCEPT !.at = "next"] \in
          [at : Points, op : Ops, list : List \cup {NoList}, i : Nat, last : BOOLEAN, to : Chain]
    BY DEF RInv, TypeOK, Points
  <2>2. lists' \in [List -> [live : BOOLEAN, chain : Chain, ref : Nat]]
    BY <1>4 DEF RInv, TypeOK
  <2> QED
    BY <1>1, <1>4, <2>1, <2>2 DEF RInv, TypeOK
<1>8. ThreadOK(c)'
  BY <1>1, <1>2, <1>5 DEF ThreadOK, Resting, Entering, Inside, Replacing, Returning, Bounded
<1>9. Threads'
  BY <1>6, <1>8, OthersThreadOK DEF RInv
<1>10. MutualExclusion'
  BY <1>1 DEF RInv, MutualExclusion
<1>11. \A l \in List, i \in 1..MaxChains : Keeps(c, i, l)' <=> Keeps(c, i, l)
  BY <1>1, <1>2, <1>5 DEF Keeps, Returned
<1>12. ASSUME NEW l \in List, NEW d \in Client, NEW i \in 1..MaxChains
       PROVE  Keeps(d, i, l)' <=> Keeps(d, i, l)
  BY <1>6, <1>11, OthersStay
<1>13. ASSUME NEW l \in List PROVE References(l)' = References(l)
  BY <1>12, ReferencesStay
<1>14. Dying(c, m)
  BY <1>1, <1>2, <1>3 DEF Dying
<1>15. /\ m \notin registry /\ References(m) = {}
       /\ \A d \in Client \ {c} : ~Uses(d, m)
  BY <1>14, NoReferences DEF RInv, DyingAlone, Users
<1>16. \A l \in List : /\ ~Uses(c, l)' /\ ~Dying(c, l)'
                       /\ l # m => ~Dying(c, l)
  BY <1>1, <1>2, <1>3, <1>5 DEF Uses, Dying
<1>17. ASSUME NEW l \in List, NEW d \in Client, d # c
       PROVE  (Uses(d, l)' <=> Uses(d, l)) /\ (Dying(d, l)' <=> Dying(d, l))
  BY <1>6, <1>17, OthersStay
<1>18. /\ ~lists'[m].live
       /\ \A l \in List : lists'[l].ref = lists[l].ref /\ lists'[l].chain = lists[l].chain
       /\ \A l \in List \ {m} : lists'[l].live = lists[l].live
  BY <1>4 DEF RInv, TypeOK
<1>19. RefCountExact'
  BY <1>13, <1>18 DEF RInv, RefCountExact
<1>20. NoUseAfterFree'
  <2>1. SUFFICES ASSUME NEW l \in List, Users(l)' # {} \/ References(l)' # {}
                 PROVE  l # m /\ lists[l].live
    BY <1>18 DEF NoUseAfterFree
  <2>2. CASE References(l)' # {}
    BY <2>2, <1>13, <1>15 DEF RInv, ListsLiveExactly, NoUseAfterFree
  <2>3. CASE Users(l)' # {}
    <3>1. PICK d \in Client : Uses(d, l)'
      BY <2>3 DEF Users
    <3>2. d # c /\ Uses(d, l)
      BY <3>1, <1>16, <1>17
    <3> QED
      BY <3>2, <1>15, LiveUses DEF RInv
  <2> QED
    BY <2>1, <2>2, <2>3
<1>21. NoLeak'
  <2>1. SUFFICES ASSUME NEW l \in List \ {m}, lists'[l].live, References(l)' = {}
                 PROVE  l \in registry' \/ \E d \in Client : Dying(d, l)'
    BY <1>18 DEF NoLeak
  <2>2. l \in registry \/ \E d \in Client : Dying(d, l)
    BY <2>1, <1>13, <1>18 DEF RInv, ListsLiveExactly, NoLeak
  <2> QED
    BY <1>1, <1>16, <1>17, <2>2
<1>22. OneListPerChain'
  <2>1. registry \subseteq List \ {m}
    BY <1>15 DEF RInv, TypeOK
  <2>2. \A l \in registry : lists'[l].live = lists[l].live /\ lists'[l].chain = lists[l].chain
    BY <1>18, <2>1
  <2> QED
    BY <1>1, <2>2 DEF RInv, ListsLiveExactly, OneListPerChain
<1>23. DyingAlone'
  <2>1. SUFFICES ASSUME NEW e \in Client, NEW l \in List, Dying(e, l)'
                 PROVE  /\ l \notin registry'
                        /\ \A d \in Client : \A i \in 1..MaxChains : ~Keeps(d, i, l)'
                        /\ \A d \in Client \ {e} : ~Uses(d, l)'
    BY DEF DyingAlone, Users
  <2>2. e # c /\ Dying(e, l)
    BY <2>1, <1>16, <1>17
  <2>3. /\ l \notin registry
        /\ \A d \in Client : \A i \in 1..MaxChains : ~Keeps(d, i, l)
        /\ \A d \in Client \ {e} : ~Uses(d, l)
    BY <2>2 DEF RInv, DyingAlone, Users
  <2> QED
    BY <2>3, <1>1, <1>12, <1>16, <1>17
<1> QED
  BY <1>7, <1>9, <1>10, <1>19, <1>20, <1>21, <1>22, <1>23 DEF RInv, ListsLiveExactly

(* The next list of a client that ends. *)
LEMMA TermNextInv ==
  ASSUME NEW c \in Client, RInv, TermNext(c)
  PROVE  RInv'
<1>1. /\ ThreadOK(c) /\ pc[c].at = "next" /\ pc[c].op = "term" /\ pc[c].i < Len(client[c].chains)
      /\ client[c].chains \in Seq(List) /\ pc[c].i \in Nat
      /\ UNCHANGED <<lists, registry, client, held>>
  BY DEF TermNext, RInv, Threads, TypeOK
<1>2. PICK n \in Nat : n = pc[c].i + 1
  BY <1>1
<1>3. n \in DOMAIN client[c].chains /\ client[c].chains[n] \in List /\ n \in 1..MaxChains
  <2>1. Len(client[c].chains) <= MaxChains /\ Len(client[c].chains) \in Nat
    BY <1>1 DEF ThreadOK, Bounded
  <2>2. n \in 1..Len(client[c].chains)
    BY <1>1, <1>2, <2>1
  <2> QED
    BY <1>1, <2>1, <2>2, BoundAssumption
<1> DEFINE p == At("lock", "term", client[c].chains[n], n)
<1>4. /\ p.at = "lock" /\ p.op = "term" /\ p.list = client[c].chains[n] /\ p.i = n
      /\ p \in [at : Points, op : Ops, list : List \cup {NoList}, i : Nat, last : BOOLEAN, to : Chain]
  BY <1>2, <1>3, LockPlace DEF Ops
<1>5. pc' = [pc EXCEPT ![c] = p]
  BY <1>2 DEF TermNext, Goto
<1> HIDE DEF p
<1>6. Only(c) /\ pc'[c] = p /\ TypeOK'
  BY <1>1, <1>4, <1>5 DEF Only, RInv, TypeOK
<1>7. held[c] = <<>> /\ held'[c] = <<>> /\ client[c].chains # <<>>
  BY <1>1 DEF ThreadOK, Resting
<1>8. \A i \in Nat : Returned(c, i)' <=> Returned(c, i)
  BY <1>1, <1>2, <1>4, <1>6 DEF Returned
<1>9. \A i \in 1..MaxChains, l \in List : Keeps(c, i, l)' <=> Keeps(c, i, l)
  BY <1>1, <1>8, BoundAssumption DEF Keeps
<1>10. ~Returned(c, n)
  BY <1>1, <1>2 DEF Returned
<1>11. Keeps(c, n, client[c].chains[n])
  BY <1>3, <1>10 DEF Keeps
<1>12. ThreadOK(c)'
  <2>1. Resting(c)' /\ Inside(c)' /\ Replacing(c)' /\ Bounded(c)'
    BY <1>1, <1>4, <1>6, <1>7 DEF ThreadOK, Resting, Inside, Replacing, Bounded
  <2>2. Returning(c)'
    BY <1>1, <1>3, <1>4, <1>6 DEF Returning
  <2>3. Entering(c)'
    <3>1. client'[c].chains[n] = pc'[c].list /\ n \in DOMAIN client'[c].chains /\ ~Returned(c, n)'
      BY <1>1, <1>3, <1>4, <1>6, <1>8, <1>10
    <3>2. \E j \in DOMAIN client'[c].chains : Keeps(c, j, pc[c].list)'
      BY <3>1 DEF Keeps
    <3> QED
      BY <3>2, <1>7 DEF Entering
  <2> QED
    BY <2>1, <2>2, <2>3 DEF ThreadOK
<1>13. MutualExclusion'
  BY <1>1 DEF RInv, MutualExclusion
<1>14. \A l \in List : Uses(c, l)' => \E i \in 1..MaxChains : Keeps(c, i, l)
  BY <1>3, <1>4, <1>6, <1>7, <1>11 DEF Uses
<1>15. \A l \in List : Dying(c, l)' <=> Dying(c, l)
  BY <1>1, <1>4, <1>6 DEF Dying
<1> QED
  BY <1>1, <1>6, <1>9, <1>12, <1>13, <1>14, <1>15, QuietStep

(* All lists are returned: the array goes. *)
LEMMA TermEndInv ==
  ASSUME NEW c \in Client, RInv, TermEnd(c)
  PROVE  RInv'
<1>1. /\ ThreadOK(c) /\ pc[c].at = "next" /\ pc[c].op = "term" /\ pc[c].i = Len(client[c].chains)
      /\ client[c].chains \in Seq(List)
      /\ UNCHANGED <<lists, registry, held>>
      /\ client' = [client EXCEPT ![c].chains = <<>>] /\ pc' = [pc EXCEPT ![c] = NoClient]
  BY DEF TermEnd, RInv, Threads, TypeOK, SetChains, Goto
<1>2. NoClient \in [at : Points, op : Ops, list : List \cup {NoList}, i : Nat, last : BOOLEAN, to : Chain]
  BY ChainAssumption DEF NoClient, At, Points, Ops
<1>3. Only(c) /\ pc'[c] = NoClient /\ TypeOK' /\ client'[c].chains = <<>>
  <2>1. Only(c) /\ pc'[c] = NoClient /\ client'[c].chains = <<>>
    BY <1>1 DEF Only, RInv, TypeOK
  <2>2. client' \in [Client -> [chain : Chain, chains : Seq(List)]]
    <3>1. <<>> \in Seq(List)
      OBVIOUS
    <3> QED
      BY <1>1, <3>1 DEF RInv, TypeOK
  <2> QED
    BY <1>1, <1>2, <2>1, <2>2 DEF RInv, TypeOK
<1>4. held[c] = <<>> /\ held'[c] = <<>>
  BY <1>1 DEF ThreadOK, Resting
<1>5. \A i \in DOMAIN client[c].chains : Returned(c, i)
  BY <1>1 DEF Returned
<1>6. \A i \in 1..MaxChains, l \in List : ~Keeps(c, i, l)' /\ ~Keeps(c, i, l)
  BY <1>3, <1>5 DEF Keeps
<1>7. ThreadOK(c)'
  BY <1>3, <1>4, BoundAssumption
     DEF ThreadOK, Resting, Entering, Inside, Replacing, Returning, Bounded, NoClient, At
<1>8. MutualExclusion'
  BY <1>1 DEF RInv, MutualExclusion
<1>9. \A l \in List : ~Uses(c, l)' /\ ~Dying(c, l)' /\ ~Dying(c, l)
  BY <1>1, <1>3, <1>4 DEF Uses, Dying, NoClient, At
<1> QED
  BY <1>1, <1>3, <1>6, <1>7, <1>8, <1>9, QuietStep

(* The list of the new chain replaces the one that was returned. *)
LEMMA ChangeNextInv ==
  ASSUME NEW c \in Client, RInv, ChangeNext(c)
  PROVE  RInv'
<1>1. PICK m \in List : /\ GetOrCreate(client[c].chain, m)
                        /\ SetChains(c, [client[c].chains EXCEPT ![1] = m])
                        /\ Goto(c, At("lock", "leave", m, 0))
  BY DEF ChangeNext
<1>2. /\ pc[c].at = "next" /\ pc[c].op = "change" /\ held' = held /\ ThreadOK(c)
      /\ client[c].chain \in Chain
  BY DEF ChangeNext, RInv, Threads, TypeOK
<1>3. PICK ch \in Chain : ch = client[c].chain
  BY <1>2
<1>4. /\ pc[c].i = 1 /\ 1 \in DOMAIN client[c].chains /\ held[c] = <<>> /\ held'[c] = <<>>
      /\ client[c].chains \in Seq(List) /\ Len(client[c].chains) <= MaxChains
      /\ 1 \in 1..MaxChains
  BY <1>2, FirstList, BoundAssumption DEF ThreadOK, Resting, Returning
<1>5. PICK s : s = [client[c].chains EXCEPT ![1] = m]
  OBVIOUS
<1>6. /\ s \in Seq(List) /\ Len(s) = Len(client[c].chains) /\ s[1] = m /\ s # <<>>
      /\ DOMAIN s = DOMAIN client[c].chains
      /\ \A i \in DOMAIN s : i # 1 => s[i] = client[c].chains[i]
  BY <1>4, <1>5
<1> DEFINE p == At("lock", "leave", m, 0)
<1>7. /\ p.at = "lock" /\ p.op = "leave" /\ p.list = m
      /\ p \in [at : Points, op : Ops, list : List \cup {NoList}, i : Nat, last : BOOLEAN, to : Chain]
  BY LockPlace DEF Ops
<1>8. /\ client' = [client EXCEPT ![c].chains = s] /\ pc' = [pc EXCEPT ![c] = p]
  BY <1>1, <1>5 DEF SetChains, Goto
<1> HIDE DEF p
<1>9. TypeOK'
  <2>1. /\ lists' \in [List -> [live : BOOLEAN, chain : Chain, ref : Nat]]
        /\ registry' \subseteq List
    BY <1>1, <1>3, GetOrCreateType DEF RInv
  <2>2. client' \in [Client -> [chain : Chain, chains : Seq(List)]]
    BY <1>6, <1>8 DEF RInv, TypeOK
  <2> QED
    BY <1>2, <1>7, <1>8, <2>1, <2>2 DEF RInv, TypeOK
<1>10. Only(c) /\ pc'[c] = p /\ client'[c].chains = s
  BY <1>2, <1>8 DEF Only, RInv, TypeOK
<1>11. /\ Returned(c, 1) /\ \A i : ~Returned(c, i)'
       /\ \A i \in Nat : i > 1 => ~Returned(c, i)
  BY <1>2, <1>4, <1>7, <1>10 DEF Returned
<1>12. \A i \in DOMAIN s : i = 1 \/ (i \in Nat /\ i > 1)
  BY <1>6
<1>13. /\ \A l \in List : ~Keeps(c, 1, l) /\ (Keeps(c, 1, l)' <=> l = m)
       /\ \A l \in List, i \in 1..MaxChains : i # 1 => (Keeps(c, i, l)' <=> Keeps(c, i, l))
  BY <1>4, <1>6, <1>10, <1>11, <1>12 DEF Keeps
<1>14. ThreadOK(c)'
  <2>1. Resting(c)' /\ Inside(c)' /\ Replacing(c)' /\ Returning(c)' /\ Bounded(c)'
    BY <1>4, <1>6, <1>7, <1>10 DEF Resting, Inside, Replacing, Returning, Bounded
  <2>2. Entering(c)'
    BY <1>4, <1>6, <1>7, <1>10, <1>13 DEF Entering
  <2> QED
    BY <2>1, <2>2 DEF ThreadOK
<1>15. MutualExclusion'
  BY <1>2 DEF RInv, MutualExclusion
<1>16. \A l \in List : (Uses(c, l)' => l = m) /\ ~Dying(c, l) /\ ~Dying(c, l)'
  BY <1>2, <1>4, <1>7, <1>10 DEF Uses, Dying
<1> QED
  BY <1>1, <1>3, <1>4, <1>9, <1>10, <1>13, <1>14, <1>15, <1>16, TakeStep

-----------------------------------------------------------------------------
(* The invariant and what follows from it *)

(* Without clients there are no lists. *)
LEMMA InitRInv == Init => RInv
<1> SUFFICES ASSUME Init PROVE RInv
  OBVIOUS
<1>1. \A c \in Client : /\ client[c].chains = <<>> /\ held[c] = <<>> /\ pc[c] = NoClient
  BY DEF Init
<1>2. TypeOK
  <2>1. NoClient \in [at : Points, op : Ops, list : List \cup {NoList}, i : Nat, last : BOOLEAN, to : Chain]
    BY ChainAssumption DEF NoClient, At, Points, Ops
  <2> QED
    BY <2>1, ChainAssumption DEF Init, TypeOK
<1>3. Threads
  BY <1>1, BoundAssumption
     DEF Threads, ThreadOK, Resting, Entering, Inside, Replacing, Returning, Bounded, NoClient, At
<1>4. MutualExclusion
  BY <1>1 DEF MutualExclusion
<1>5. \A c \in Client, l \in List : ~Uses(c, l) /\ ~Dying(c, l) /\ \A i \in 1..MaxChains : ~Keeps(c, i, l)
  BY <1>1 DEF Uses, Dying, Keeps, NoClient, At
<1>6. \A l \in List : References(l) = {} /\ Users(l) = {} /\ ~lists[l].live
  BY <1>5, NoReferences DEF Users, Init
<1>7. DyingAlone /\ RefCountExact
  BY <1>5, <1>6 DEF DyingAlone, RefCountExact
<1>8. ListsLiveExactly
  BY <1>6 DEF ListsLiveExactly, NoUseAfterFree, NoLeak, OneListPerChain, Init
<1> QED
  BY <1>2, <1>3, <1>4, <1>7, <1>8 DEF RInv

(* Every step of a thread keeps the invariant. *)
LEMMA NextRInv == RInv /\ [Next]_vars => RInv'
<1> SUFFICES ASSUME RInv, [Next]_vars PROVE RInv'
  OBVIOUS
<1>1. CASE Next
  <2>1. PICK c \in Client : Thread(c)
    BY <1>1 DEF Next
  <2>2. CASE Register(c) BY <2>2, RegisterInv
  <2>3. CASE RequestOwn(c) BY <2>3, RequestOwnInv
  <2>4. CASE RequestOther(c) BY <2>4, RequestOtherInv
  <2>5. CASE Configure(c) BY <2>5, ConfigureInv
  <2>6. CASE ChangeChain(c) BY <2>6, ChangeChainInv
  <2>7. CASE Terminate(c) BY <2>7, TerminateInv
  <2>8. CASE Lock(c) BY <2>8, LockInv
  <2>9. CASE UpdateList(c) BY <2>9, UpdateListInv
  <2>10. CASE Leave(c) BY <2>10, LeaveInv
  <2>11. CASE Separate(c) BY <2>11, SeparateInv
  <2>12. CASE ReturnReference(c) BY <2>12, ReturnReferenceInv
  <2>13. CASE ReturnUnlock(c) BY <2>13, ReturnUnlockInv
  <2>14. CASE ReturnFree(c) BY <2>14, ReturnFreeInv
  <2>15. CASE TermNext(c) BY <2>15, TermNextInv
  <2>16. CASE TermEnd(c) BY <2>16, TermEndInv
  <2>17. CASE ChangeNext(c) BY <2>17, ChangeNextInv
  <2> QED
    BY <2>1, <2>2, <2>3, <2>4, <2>5, <2>6, <2>7, <2>8, <2>9, <2>10, <2>11, <2>12, <2>13, <2>14,
       <2>15, <2>16, <2>17 DEF Thread
<1>2. CASE UNCHANGED vars
  <2>1. lists' = lists /\ registry' = registry /\ client' = client /\ held' = held /\ pc' = pc
    BY <1>2 DEF vars
  <2>2. TypeOK' /\ Threads' /\ MutualExclusion'
    BY <2>1 DEF RInv, TypeOK, Threads, ThreadOK, Resting, Entering, Inside, Replacing, Returning,
                Bounded, Keeps, Returned, MutualExclusion
  <2>3. DyingAlone' /\ RefCountExact'
    BY <2>1 DEF RInv, DyingAlone, Dying, Users, Uses, Keeps, Returned, RefCountExact, References
  <2>4. ListsLiveExactly'
    BY <2>1 DEF RInv, ListsLiveExactly, NoUseAfterFree, NoLeak, OneListPerChain, Users, Uses,
                References, Keeps, Returned, Dying
  <2> QED
    BY <2>2, <2>3, <2>4 DEF RInv
<1> QED
  BY <1>1, <1>2

(* The inductive invariant holds in every state. *)
LEMMA RInvHolds == Spec => []RInv
BY InitRInv, NextRInv, PTL DEF Spec

(* nodelist_get_or_create, nodelist_return_or_free and                        *)
(* nodelist_seperate_from_registry keep ref_counter equal to the number of    *)
(* references, for any number of clients, chains and lists.                   *)
THEOREM ReferencesAreCounted == Spec => []RefCountExact
<1>1. RInv => RefCountExact
  BY DEF RInv
<1> QED
  BY <1>1, RInvHolds, PTL

(* nodelist_return_or_free frees a list when its last reference is given      *)
(* back, and not while any thread refers to it, holds its mutex or waits for  *)
(* it; the registry has one live list for a chain.                            *)
THEOREM ListsLiveAsLongAsNeeded == Spec => []ListsLiveExactly
<1>1. RInv => ListsLiveExactly
  BY DEF RInv
<1> QED
  BY <1>1, RInvHolds, PTL

(* As long as only the list of the client itself is updated while its mutex   *)
(* is held, no threads wait for each other: a thread that waits for a mutex    *)
(* while it holds one waits for the one it holds.                             *)
THEOREM NobodyWaitsInACircle ==
  ASSUME ~Foreign
  PROVE  Spec => []NoDeadlock
<1>1. ASSUME RInv, NEW S \in SUBSET Client, S # {},
             \A c \in S : /\ Waiting(c)
                          /\ \E d \in S \ {c} : \E k \in DOMAIN held[d] : held[d][k] = pc[c].list
      PROVE  FALSE
  <2>1. PICK c \in S : TRUE
    BY <1>1
  <2>2. PICK d \in S \ {c} : \E k \in DOMAIN held[d] : held[d][k] = pc[c].list
    BY <1>1
  <2>3. PICK k \in DOMAIN held[d] : held[d][k] = pc[c].list
    BY <2>2
  <2>4. ThreadOK(d) /\ held[d] \in Seq(List) /\ pc[d].at = "lock" /\ d \in Client
    BY <1>1 DEF RInv, Threads, TypeOK, Waiting
  <2>5. held[d] # <<>>
    BY <2>3
  <2>6. Len(held[d]) = 1 /\ held[d][1] = pc[d].list
    BY <2>4, <2>5 DEF ThreadOK, Entering
  <2>7. PICK e \in S \ {d} : \E n \in DOMAIN held[e] : held[e][n] = pc[d].list
    BY <1>1
  <2>8. PICK n \in DOMAIN held[e] : held[e][n] = pc[d].list
    BY <2>7
  <2>9. 1 \in DOMAIN held[d]
    BY <2>4, <2>6
  <2>10. e \in Client /\ e # d /\ held[e][n] = held[d][1]
    BY <1>1, <2>6, <2>8
  <2> QED
    BY <1>1, <2>4, <2>9, <2>10 DEF RInv, MutualExclusion
<1>2. RInv => NoDeadlock
  BY <1>1 DEF NoDeadlock
<1> QED
  BY <1>2, RInvHolds, PTL
=============================================================================
