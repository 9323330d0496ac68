-------------------------- MODULE NodeSelectProofs --------------------------
(***************************************************************************)
(* The node selection, for every registry contract, every set of nodes and  *)
(* every number of requests.                                               *)
(*                                                                         *)
(* Almost everything the handlers do to the list is one of three things:    *)
(* they touch it, which changes bans and marks of nodes that stay where     *)
(* they are; they replace it as a whole, from the registry; or they set the *)
(* flags of the whitelist anew.  The invariant is stated for a list d and a *)
(* stored copy c, and each of the three is shown to preserve it.            *)
(***************************************************************************)
EXTENDS NodeSelect, FiniteSetTheorems, WellFoundedInduction, TLAPS

Datas == [list : Seq(Nodes), last : Nat,
          upd : [set : BOOLEAN, exp : Nat, ts : Nat, node : Addr \cup {NoAddr}],
          offlines : Seq(Offline), dirty : BOOLEAN,
          wl : [needs : BOOLEAN, last : Nat, addrs : Seq(Addr)]]

Copies == [last : Nat, list : Seq(Nodes), wlLast : Nat, wlAddrs : Seq(Addr)]

Requests == [st : {"idle", "updating", "data", "sent"}, subs : Seq(Subs),
             filter : SUBSET Addr, nodes : SUBSET Match, signers : Seq(Addr), since : Nat]

-----------------------------------------------------------------------------
(* The invariant *)

(* The list of the block last, or the boot nodes. *)
Registered(list, last) ==
  IF last = 0
  THEN Len(list) = Len(Boot) /\ \A i \in DOMAIN Boot : list[i].addr = Boot[i]
  ELSE /\ last \in Blocks
       /\ Len(list) = Len(Registry[last])
       /\ \A i \in DOMAIN list :
            /\ list[i].addr = Registry[last][i].addr
            /\ list[i].index = Registry[last][i].index
            /\ ~list[i].boot

White(d) == \A i \in DOMAIN d.list : d.list[i].white => d.list[i].addr \in ToSet(d.wl.addrs)

(* The bans in force are stored, or are going to be. *)
Saved(d, c) ==
  (Storage /\ ~d.dirty) =>
    \A i \in DOMAIN d.list : Banned(d, i) =>
      /\ i \in DOMAIN c.list
      /\ c.list[i].addr = d.list[i].addr
      /\ c.list[i].until = d.list[i].until

(* No address is twice in a list of the registry or among the boot nodes. *)
Different(list) == \A i, j \in DOMAIN list : list[i].addr = list[j].addr => i = j
Distinct ==
  /\ \A i, j \in DOMAIN Boot : Boot[i] = Boot[j] => i = j
  /\ \A b \in Blocks : Different(Registry[b])

(* A list: with verified lists it is one of the registry. *)
Fine(d) ==
  /\ d \in Datas
  /\ d.list # <<>>
  /\ Proof => Registered(d.list, d.last)
  /\ Distinct => Different(d.list)

(* A stored copy: the same, and flags are not stored. *)
FineCopy(c) ==
  /\ c \in Copies
  /\ \A i \in DOMAIN c.list : ~c.list[i].white /\ ~c.list[i].boot
  /\ Proof /\ c.list # <<>> => Registered(c.list, c.last)
  /\ Distinct => Different(c.list)

(* Both together: with verified lists they have the same block. *)
Linked(d, c) ==
  /\ Saved(d, c)
  /\ Proof /\ Storage => c.last = d.last /\ (d.last # 0 => c.list # <<>>)

DataInv(d, c) == Fine(d) /\ White(d) /\ FineCopy(c) /\ Linked(d, c)

(* What a required context brings is one of the lists of the registry. *)
SubsInv(subs) ==
  /\ subs \in Seq(Subs)
  /\ \A j \in DOMAIN subs :
       subs[j].state \in {"ok", "empty"} => subs[j].block \in Blocks /\ (Proof => subs[j].shape = "full")

Inv ==
  /\ TypeOK
  /\ DataInv(data, stored)
  /\ \A r \in Req : SubsInv(req[r].subs)

-----------------------------------------------------------------------------
(* Assumptions in the form the proofs use. *)
LEMMA RegistryFacts ==
  /\ Blocks \subseteq Nat \ {0} /\ 1 \in Blocks
  /\ \A b \in Blocks :
       /\ Registry[b] \in Seq([addr : Addr, index : Nat]) /\ Registry[b] # <<>>
       /\ WhiteLists[b] \in Seq(Addr)
<1>1. Registry \in Seq(Seq([addr : Addr, index : Nat])) /\ Registry # <<>>
  BY ListAssumption
<1>2. Blocks = 1..Len(Registry) /\ Len(Registry) \in Nat /\ Len(Registry) # 0
  BY <1>1 DEF Blocks
<1> QED
  BY <1>1, <1>2, ListAssumption, WhiteAssumption DEF Blocks

(* The members of a sequence. *)
LEMMA Member ==
  ASSUME NEW S, NEW l \in Seq(S)
  PROVE  \A i \in DOMAIN l : l[i] \in S
<1>1. DOMAIN l = 1..Len(l)
  OBVIOUS
<1> QED
  BY <1>1

LEMMA MapType ==
  ASSUME NEW S, NEW T, NEW l \in Seq(S), NEW m, m = [i \in DOMAIN l |-> m[i]], \A i \in DOMAIN l : m[i] \in T
  PROVE  m \in Seq(T) /\ Len(m) = Len(l)
<1>1. DOMAIN l = 1..Len(l) /\ Len(l) \in Nat
  OBVIOUS
<1> QED
  BY <1>1

(* The first member of a set of positions. *)
LEMMA FirstIn ==
  ASSUME NEW S \in SUBSET Nat, S # {}
  PROVE  First(S) \in S /\ \A j \in S : First(S) <= j
<1>1. PICK x \in S : \A y \in S : ~(<<y, x>> \in OpToRel(<, Nat))
  BY NatLessThanWellFounded, WFMin
<1>2. ASSUME NEW y \in S PROVE <<y, x>> \in OpToRel(<, Nat) <=> y < x
  <2>1. <<y, x>> \in Nat \X Nat /\ <<y, x>>[1] = y /\ <<y, x>>[2] = x
    OBVIOUS
  <2>2. OpToRel(<, Nat) = {ss \in Nat \X Nat : ss[1] < ss[2]}
    BY Zenon DEF OpToRel
  <2> QED
    BY <2>1, <2>2
<1>3. \A y \in S : ~(y < x)
  BY <1>1, <1>2, Zenon
<1>4. \A y \in S : x <= y
  BY <1>3
<1> QED
  BY <1>4 DEF First

-----------------------------------------------------------------------------
(* Touching a list: the nodes, their flags and what the list is stay. *)
Touched(d, e) ==
  /\ e \in Datas
  /\ e.last = d.last /\ e.wl = d.wl
  /\ Len(e.list) = Len(d.list)
  /\ \A i \in 1..Len(d.list) :
       /\ e.list[i].addr = d.list[i].addr /\ e.list[i].index = d.list[i].index
       /\ e.list[i].boot = d.list[i].boot /\ e.list[i].white = d.list[i].white

(* Bans are only added, and noted. *)
MoreBans(d, e) ==
  /\ ~e.dirty => ~d.dirty /\ \A i \in 1..Len(d.list) : e.list[i].until = d.list[i].until
  /\ \A i \in 1..Len(d.list) : Banned(d, i) => Banned(e, i)

Bans(d, e) == Touched(d, e) /\ MoreBans(d, e)

LEMMA BansRefl ==
  ASSUME NEW d \in Datas
  PROVE  Bans(d, d)
BY DEF Bans, Touched, MoreBans

LEMMA BansTrans ==
  ASSUME NEW d, NEW e, NEW f, Bans(d, e), Bans(e, f)
  PROVE  Bans(d, f)
BY DEF Bans, Touched, MoreBans

(* A list that is touched keeps the invariant, if the bans are accounted for. *)
LEMMA TouchedInv ==
  ASSUME NEW d, NEW e, NEW c, DataInv(d, c), Touched(d, e), Saved(e, c)
  PROVE  DataInv(e, c)
<1>1. d \in Datas /\ e \in Datas /\ d.list \in Seq(Nodes) /\ e.list \in Seq(Nodes)
  BY DEF DataInv, Fine, Touched, Datas
<1>2. DOMAIN d.list = 1..Len(d.list) /\ DOMAIN e.list = 1..Len(d.list) /\ Len(d.list) \in Nat
  BY <1>1 DEF Touched
<1>3. e.list # <<>>
  BY <1>1, <1>2 DEF DataInv, Fine, Touched
<1>4. White(e)
  BY <1>1, <1>2 DEF DataInv, Touched, White
<1>5. Proof => Registered(e.list, e.last)
  <2> HAVE Proof
  <2>1. CASE d.last = 0
    <3>1. DOMAIN Boot = 1..Len(d.list) /\ \A i \in DOMAIN Boot : d.list[i].addr = Boot[i]
      BY <1>2, <2>1, BootAssumption DEF DataInv, Fine, Registered
    <3> QED
      BY <1>2, <2>1, <3>1 DEF DataInv, Fine, Touched, Registered
  <2>2. CASE d.last # 0
    BY <1>2, <2>2 DEF DataInv, Fine, Touched, Registered
  <2> QED
    BY <2>1, <2>2
<1>6. Distinct => Different(e.list)
  BY <1>2 DEF DataInv, Fine, Touched, Different
<1>7. Linked(e, c)
  BY DEF DataInv, Touched, Linked
<1> QED
  BY <1>1, <1>3, <1>4, <1>5, <1>6, <1>7 DEF DataInv, Fine

LEMMA BansInv ==
  ASSUME NEW d, NEW e, NEW c, DataInv(d, c), Bans(d, e)
  PROVE  DataInv(e, c)
<1>1. d \in Datas /\ e \in Datas /\ d.list \in Seq(Nodes) /\ e.list \in Seq(Nodes)
  BY DEF DataInv, Fine, Bans, Touched, Datas
<1>2. DOMAIN d.list = 1..Len(d.list) /\ DOMAIN e.list = 1..Len(d.list)
  BY <1>1 DEF Bans, Touched
<1>3. Saved(e, c)
  BY <1>2 DEF DataInv, Linked, Bans, Touched, MoreBans, Saved, Banned
<1> QED
  BY <1>3, TouchedInv DEF Bans

(* blacklist_node *)
LEMMA BlacklistBans ==
  ASSUME NEW d \in Datas, NEW k, now \in Nat
  PROVE  Bans(d, Blacklist(d, k))
<1>1. CASE k \notin DOMAIN d.list \/ d.list[k].blocked
  BY <1>1, BansRefl DEF Blacklist
<1>2. CASE k \in DOMAIN d.list /\ ~d.list[k].blocked
  <2> DEFINE n == [d.list[k] EXCEPT !.until = now + Day, !.blocked = TRUE]
             l == [d.list EXCEPT ![k] = n]
             e == Blacklist(d, k)
  <2>1. d.list \in Seq(Nodes) /\ k \in 1..Len(d.list) /\ d.list[k] \in Nodes
    BY <1>2 DEF Datas
  <2>2. now + Day \in Nat /\ now + Day > now
    BY TimeAssumption
  <2>3. n \in Nodes /\ n.addr = d.list[k].addr /\ n.index = d.list[k].index /\ n.boot = d.list[k].boot
          /\ n.white = d.list[k].white /\ n.until = now + Day
    BY <2>1, <2>2 DEF Nodes
  <2>4. e = [d EXCEPT !.list = l, !.dirty = d.dirty \/ d.list[k].until # now + Day]
    BY <1>2 DEF Blacklist
  <2> HIDE DEF n, e
  <2>5. l \in Seq(Nodes) /\ Len(l) = Len(d.list) /\ \A i \in 1..Len(d.list) : l[i] = IF i = k THEN n ELSE d.list[i]
    BY <2>1, <2>3
  <2> HIDE DEF l
  <2>6. e \in Datas /\ e.list = l /\ e.last = d.last /\ e.wl = d.wl /\ (e.dirty <=> d.dirty \/ d.list[k].until # now + Day)
    BY <2>4, <2>5 DEF Datas
  <2>7. Touched(d, e)
    BY <2>3, <2>5, <2>6 DEF Touched
  <2>8. MoreBans(d, e)
    BY <2>1, <2>2, <2>3, <2>5, <2>6 DEF MoreBans, Banned
  <2> QED
    BY <2>7, <2>8 DEF Bans, e
<1> QED
  BY <1>1, <1>2

(* blacklist_node_addr *)
LEMMA BlacklistAddrBans ==
  ASSUME NEW d \in Datas, NEW a, now \in Nat
  PROVE  Bans(d, BlacklistAddr(d, a))
BY BlacklistBans, BansRefl DEF BlacklistAddr

Updates == [set : BOOLEAN, exp : Nat, ts : Nat, node : Addr \cup {NoAddr}]

LEMMA UpdateBans ==
  ASSUME NEW d, NEW e, NEW u \in Updates, Bans(d, e)
  PROVE  Bans(d, [e EXCEPT !.upd = u])
<1> DEFINE f == [e EXCEPT !.upd = u]
<1>1. f \in Datas /\ f.list = e.list /\ f.last = e.last /\ f.wl = e.wl /\ f.dirty = e.dirty
  BY DEF Bans, Touched, Datas, Updates
<1> HIDE DEF f
<1>2. Touched(d, f) /\ MoreBans(d, f)
  BY <1>1 DEF Bans, Touched, MoreBans, Banned
<1> QED
  BY <1>2 DEF Bans, f

LEMMA OfflineBans ==
  ASSUME NEW d, NEW e, NEW o \in Seq(Offline), Bans(d, e)
  PROVE  Bans(d, [e EXCEPT !.offlines = o])
<1> DEFINE f == [e EXCEPT !.offlines = o]
<1>1. f \in Datas /\ f.list = e.list /\ f.last = e.last /\ f.wl = e.wl /\ f.dirty = e.dirty
  BY DEF Bans, Touched, Datas
<1> HIDE DEF f
<1>2. Touched(d, f) /\ MoreBans(d, f)
  BY <1>1 DEF Bans, Touched, MoreBans, Banned
<1> QED
  BY <1>2 DEF Bans, f

LEMMA NoUpdateType == NoUpdate \in Updates
BY DEF NoUpdate, Updates

(* handle_failable, and the ends of update_nodelist *)
LEMMA DropUpdateBans ==
  ASSUME NEW d \in Datas, now \in Nat
  PROVE  Bans(d, DropUpdate(d))
<1>1. Bans(d, IF NotFirst(d) THEN BlacklistAddr(d, d.upd.node) ELSE d)
  BY BlacklistAddrBans, BansRefl
<1> QED
  BY <1>1, UpdateBans, NoUpdateType DEF DropUpdate

LEMMA CheckBlockBans ==
  ASSUME NEW d \in Datas, NEW b, now \in Nat
  PROVE  Bans(d, CheckBlock(d, b)) /\ CheckBlock(d, b).upd = NoUpdate
<1> DEFINE e == IF d.upd.set /\ d.upd.exp # b THEN BlacklistAddr(d, d.upd.node) ELSE d
<1>1. Bans(d, e)
  BY BlacklistAddrBans, BansRefl
<1>2. CheckBlock(d, b) = [e EXCEPT !.upd = NoUpdate]
  BY DEF CheckBlock
<1>3. e \in Datas
  BY <1>1 DEF Bans, Touched
<1> HIDE DEF e
<1>4. [e EXCEPT !.upd = NoUpdate].upd = NoUpdate
  BY <1>3 DEF Datas
<1> QED
  BY <1>1, <1>2, <1>4, UpdateBans, NoUpdateType

(* The loop body of handle_offline *)
LEMMA ReportOfflineBans ==
  ASSUME NEW d \in Datas, NEW a, NEW reporter \in Addr, NEW g, now \in Nat
  PROVE  Bans(d, ReportOffline(d, a, reporter, g))
<1> DEFINE at == {i \in DOMAIN d.offlines : EntryAddr(d.offlines[i], g) = a}
<1>1. CASE a \notin AddrsOf(d.list)
  BY <1>1, BansRefl DEF ReportOffline
<1>2. CASE a \in AddrsOf(d.list) /\ at = {}
  <2>0. PICK i \in DOMAIN d.list : d.list[i].addr = a
    BY <1>2 DEF AddrsOf
  <2>1. a \in Addr
    <3>1. d.list \in Seq(Nodes)
      BY DEF Datas
    <3>2. d.list[i] \in Nodes
      BY <3>1
    <3> QED
      BY <2>0, <3>2 DEF Nodes
  <2>2. <<[addr |-> a, reporter |-> reporter, dangling |-> FALSE]>> \in Seq(Offline)
    BY <2>1 DEF Offline
  <2> QED
    BY <1>2, <2>2, BansRefl, OfflineBans DEF ReportOffline
<1>3. CASE a \in AddrsOf(d.list) /\ at # {} /\ OtherReporter(d.offlines[First(at)], reporter)
  <2>1. <<>> \in Seq(Offline)
    OBVIOUS
  <2>2. ReportOffline(d, a, reporter, g) = [BlacklistAddr(d, a) EXCEPT !.offlines = <<>>]
    BY <1>3 DEF ReportOffline
  <2>3. Bans(d, BlacklistAddr(d, a))
    BY BlacklistAddrBans
  <2>4. Bans(d, [BlacklistAddr(d, a) EXCEPT !.offlines = <<>>])
    BY <2>1, <2>3, OfflineBans
  <2> QED
    BY <2>2, <2>4, Zenon
<1>4. CASE a \in AddrsOf(d.list) /\ at # {} /\ ~OtherReporter(d.offlines[First(at)], reporter)
  <2>2. ReportOffline(d, a, reporter, g) = d
    BY <1>4 DEF ReportOffline
  <2> QED
    BY <2>2, BansRefl
<1> QED
  BY <1>1, <1>2, <1>3, <1>4

(* A set of numbers that holds 0 and with every number below n the next one   *)
(* holds n: induction, for the two loops below.                               *)
LEMMA UpTo ==
  ASSUME NEW n \in Nat, NEW T, 0 \in T, \A i \in 1..n : i - 1 \in T => i \in T
  PROVE  n \in T
<1> SUFFICES ASSUME n \notin T PROVE FALSE
  OBVIOUS
<1> DEFINE out == {i \in 0..n : i \notin T}
           x == First(out)
<1>1. out \in SUBSET Nat /\ out # {}
  OBVIOUS
<1>2. x \in out /\ \A j \in out : x <= j
  BY <1>1, FirstIn
<1> HIDE DEF x
<1>3. x \in 1..n /\ x - 1 \in 0..n /\ ~(x <= x - 1)
  BY <1>2
<1> QED
  BY <1>2, <1>3

(* handle_offline: the loop over the signers. *)
LEMMA HandleOfflineBans ==
  ASSUME NEW d \in Datas, NEW signers \in Seq(Addr), NEW missing, NEW reporter \in Addr, NEW g, now \in Nat
  PROVE  Bans(d, HandleOffline(d, signers, missing, reporter, g))
<1> DEFINE L == Len(signers)
           Body(e, i) == IF signers[i] \in missing THEN ReportOffline(e, signers[i], reporter, g) ELSE e
           Runs(n, f) == f = [i \in 0..n |-> IF i = 0 THEN d ELSE Body(f[i - 1], i)]
           run == CHOOSE f : Runs(L, f)
<1>0. L \in Nat
  OBVIOUS
<1>1. HandleOffline(d, signers, missing, reporter, g) = run[L]
  BY DEF HandleOffline
<1> HIDE DEF Body, L
<1>2. \E f : Runs(L, f)
  <2> DEFINE T == {n \in 0..L : \E f : Runs(n, f)}
  <2>1. 0 \in T
    <3> DEFINE z == [i \in 0..0 |-> d]
    <3>1. Runs(0, z)
      OBVIOUS
    <3>2. \E f : Runs(0, f)
      <4> HIDE DEF z, Runs
      <4> QED
        BY <3>1
    <3> QED
      BY <1>0, <3>2
  <2>2. ASSUME NEW n \in 1..L, n - 1 \in T PROVE n \in T
    <3>1. PICK f : Runs(n - 1, f)
      BY <2>2
    <3> DEFINE h == [i \in 0..n |-> IF i = n THEN Body(f[n - 1], n) ELSE f[i]]
    <3>2. \A i \in 0..(n - 1) : f[i] = IF i = 0 THEN d ELSE Body(f[i - 1], i)
      BY <3>1
    <3>3. ASSUME NEW i \in 0..n PROVE h[i] = IF i = 0 THEN d ELSE Body(h[i - 1], i)
      <4>1. CASE i = 0
        BY <3>2, <4>1, <1>0
      <4>2. CASE i = n
        <5>1. n - 1 \in 0..n /\ n - 1 # n
          BY <1>0
        <5> QED
          BY <4>2, <5>1
      <4>3. CASE i \in 1..(n - 1)
        <5>1. i - 1 \in 0..n /\ i - 1 # n /\ i # n /\ i \in 0..(n - 1)
          BY <4>3, <1>0
        <5>2. h[i] = f[i] /\ h[i - 1] = f[i - 1]
          BY <5>1
        <5> QED
          BY <3>2, <4>3, <5>1, <5>2
      <4> QED
        BY <4>1, <4>2, <4>3, <1>0
    <3>4. Runs(n, h)
      BY <3>3
    <3>5. \E e : Runs(n, e)
      <4> HIDE DEF h, Runs
      <4> QED
        BY <3>4
    <3> QED
      BY <3>5
  <2> HIDE DEF T
  <2>3. L \in T
    BY <1>0, <2>1, <2>2, UpTo
  <2> QED
    BY <2>3 DEF T
<1>3. Runs(L, run)
  BY <1>2
<1> HIDE DEF run
<1>4. \A i \in 0..L : run[i] = IF i = 0 THEN d ELSE Body(run[i - 1], i)
  BY <1>3
<1> DEFINE T == {n \in 0..L : Bans(d, run[n])}
<1>5. 0 \in T
  BY <1>0, <1>4, BansRefl
<1>6. ASSUME NEW n \in 1..L, n - 1 \in T PROVE n \in T
  <2>1. run[n] = Body(run[n - 1], n) /\ n \in 0..L
    BY <1>0, <1>4
  <2>2. Bans(d, run[n - 1])
    BY <1>6
  <2>3. run[n - 1] \in Datas
    BY <2>2 DEF Bans, Touched
  <2>4. Bans(run[n - 1], Body(run[n - 1], n))
    BY <2>3, ReportOfflineBans, BansRefl DEF Body
  <2>5. Bans(d, Body(run[n - 1], n))
    BY <2>2, <2>4, BansTrans
  <2> QED
    BY <2>1, <2>5
<1> HIDE DEF T
<1>7. L \in T
  BY <1>0, <1>5, <1>6, UpTo
<1> QED
  BY <1>1, <1>7 DEF T

-----------------------------------------------------------------------------
(* The flags of the whitelist. *)

(* Only flags and the whitelist differ. *)
Alike(d, e) ==
  /\ e \in Datas
  /\ e.last = d.last /\ e.dirty = d.dirty
  /\ Len(e.list) = Len(d.list)
  /\ \A i \in 1..Len(d.list) :
       /\ e.list[i].addr = d.list[i].addr /\ e.list[i].index = d.list[i].index
       /\ e.list[i].boot = d.list[i].boot /\ e.list[i].until = d.list[i].until

LEMMA AlikeInv ==
  ASSUME NEW d, NEW e, NEW c, Fine(d), FineCopy(c), Linked(d, c), Alike(d, e), White(e)
  PROVE  DataInv(e, c)
<1>1. d \in Datas /\ e \in Datas /\ d.list \in Seq(Nodes) /\ e.list \in Seq(Nodes)
  BY DEF Fine, Alike, Datas
<1>2. DOMAIN d.list = 1..Len(d.list) /\ DOMAIN e.list = 1..Len(d.list) /\ Len(d.list) \in Nat
  BY <1>1 DEF Alike
<1>3. e.list # <<>>
  BY <1>1, <1>2 DEF Fine, Alike
<1>5. Proof => Registered(e.list, e.last)
  <2> HAVE Proof
  <2>1. CASE d.last = 0
    <3>1. DOMAIN Boot = 1..Len(d.list) /\ \A i \in DOMAIN Boot : d.list[i].addr = Boot[i]
      BY <1>2, <2>1, BootAssumption DEF Fine, Registered
    <3> QED
      BY <1>2, <2>1, <3>1 DEF Fine, Alike, Registered
  <2>2. CASE d.last # 0
    BY <1>2, <2>2 DEF Fine, Alike, Registered
  <2> QED
    BY <2>1, <2>2
<1>6. Distinct => Different(e.list)
  BY <1>2 DEF Fine, Alike, Different
<1>7. Linked(e, c)
  BY <1>2 DEF Alike, Linked, Saved, Banned
<1> QED
  BY <1>1, <1>3, <1>5, <1>6, <1>7 DEF DataInv, Fine

LEMMA AlikeTrans ==
  ASSUME NEW d, NEW e, NEW f, Alike(d, e), Alike(e, f)
  PROVE  Alike(d, f)
BY DEF Alike

(* in3_client_run_chain_whitelisting *)
LEMMA RunWhitelistingAlike ==
  ASSUME NEW d \in Datas, WhiteMode = "none" => White(d)
  PROVE  Alike(d, RunWhitelisting(d)) /\ White(RunWhitelisting(d)) /\ RunWhitelisting(d).wl = d.wl
<1>1. CASE WhiteMode = "none"
  BY <1>1 DEF RunWhitelisting, Alike
<1>2. CASE WhiteMode # "none"
  <2> DEFINE mark(i) == [d.list[i] EXCEPT !.white = d.list[i].addr \in Whitelisted(d.wl.addrs)]
             l == [i \in DOMAIN d.list |-> mark(i)]
             e == RunWhitelisting(d)
  <2>1. d.list \in Seq(Nodes) /\ DOMAIN d.list = 1..Len(d.list) /\ Len(d.list) \in Nat /\ d.wl.addrs \in Seq(Addr)
    BY DEF Datas
  <2>2. ASSUME NEW i \in 1..Len(d.list)
        PROVE  /\ mark(i) \in Nodes
               /\ mark(i).addr = d.list[i].addr /\ mark(i).index = d.list[i].index
               /\ mark(i).boot = d.list[i].boot /\ mark(i).until = d.list[i].until
               /\ mark(i).white <=> d.list[i].addr \in Whitelisted(d.wl.addrs)
    <3> DEFINE w == d.list[i].addr \in Whitelisted(d.wl.addrs)
               n == d.list[i]
    <3>1. n \in Nodes /\ w \in BOOLEAN
      BY <2>1
    <3>2. mark(i) = [n EXCEPT !.white = w]
      OBVIOUS
    <3> HIDE DEF n, w, mark
    <3>3. mark(i) \in Nodes /\ mark(i).addr = n.addr /\ mark(i).index = n.index /\ mark(i).boot = n.boot
            /\ mark(i).until = n.until /\ mark(i).white = w
      BY <3>1, <3>2 DEF Nodes
    <3> QED
      BY <3>3 DEF n, w
  <2>3. e = [d EXCEPT !.list = l]
    BY <1>2 DEF RunWhitelisting
  <2> HIDE DEF mark, e
  <2>4. l \in Seq(Nodes) /\ Len(l) = Len(d.list) /\ \A i \in 1..Len(d.list) : l[i] = mark(i)
    BY <2>1, <2>2
  <2> HIDE DEF l
  <2>5. e \in Datas /\ e.list = l /\ e.last = d.last /\ e.dirty = d.dirty /\ e.wl = d.wl
    BY <2>3, <2>4 DEF Datas
  <2>6. Alike(d, e)
    BY <2>2, <2>4, <2>5 DEF Alike
  <2>7. Whitelisted(d.wl.addrs) \subseteq ToSet(d.wl.addrs)
    BY <2>1 DEF Whitelisted, ToSet
  <2>8. White(e)
    <3>1. DOMAIN l = 1..Len(d.list)
      BY <2>1, <2>4
    <3> QED
      BY <2>2, <2>4, <2>5, <2>7, <3>1 DEF White
  <2> QED
    BY <2>5, <2>6, <2>8 DEF e
<1> QED
  BY <1>1, <1>2

LEMMA RunWhitelistingInv ==
  ASSUME NEW d, NEW c, Fine(d), FineCopy(c), Linked(d, c), WhiteMode = "none" => White(d)
  PROVE  DataInv(RunWhitelisting(d), c)
<1>1. d \in Datas
  BY DEF Fine
<1> QED
  BY <1>1, RunWhitelistingAlike, AlikeInv

-----------------------------------------------------------------------------
(* The stored copy *)

(* Registered and Different only look at the nodes. *)
SameNodes(l, m) ==
  /\ Len(m) = Len(l)
  /\ \A i \in 1..Len(l) : m[i].addr = l[i].addr /\ m[i].index = l[i].index /\ (m[i].boot => l[i].boot)

LEMMA SameNodesRegistered ==
  ASSUME NEW l \in Seq(Nodes), NEW m \in Seq(Nodes), SameNodes(l, m), NEW last
  PROVE  /\ Registered(l, last) => Registered(m, last)
         /\ Different(l) => Different(m)
<1>1. DOMAIN l = 1..Len(l) /\ DOMAIN m = 1..Len(l) /\ Len(l) \in Nat
  BY DEF SameNodes
<1>2. ASSUME Registered(l, last) PROVE Registered(m, last)
  <2>1. CASE last = 0
    <3>1. DOMAIN Boot = 1..Len(l) /\ \A i \in DOMAIN Boot : l[i].addr = Boot[i]
      BY <1>1, <1>2, <2>1, BootAssumption DEF Registered
    <3> QED
      BY <1>2, <1>1, <2>1, <3>1 DEF SameNodes, Registered
  <2>2. CASE last # 0
    BY <1>1, <1>2, <2>2 DEF SameNodes, Registered
  <2> QED
    BY <2>1, <2>2
<1>3. Different(l) => Different(m)
  BY <1>1 DEF SameNodes, Different
<1> QED
  BY <1>2, <1>3

LEMMA StrippedFacts ==
  ASSUME NEW l \in Seq(Nodes)
  PROVE  /\ Stripped(l) \in Seq(Nodes) /\ SameNodes(l, Stripped(l))
         /\ \A i \in 1..Len(l) : Stripped(l)[i].until = l[i].until /\ ~Stripped(l)[i].white /\ ~Stripped(l)[i].boot
<1> DEFINE n(i) == Node(l[i].addr, l[i].index, FALSE, l[i].until)
           m == Stripped(l)
<1>1. DOMAIN l = 1..Len(l) /\ Len(l) \in Nat
  OBVIOUS
<1>2. ASSUME NEW i \in 1..Len(l)
      PROVE  /\ n(i) \in Nodes /\ n(i).addr = l[i].addr /\ n(i).index = l[i].index
             /\ n(i).until = l[i].until /\ ~n(i).white /\ ~n(i).boot
  <2>1. l[i] \in Nodes
    BY <1>1
  <2> QED
    BY <2>1 DEF Node, Nodes
<1>3. m = [i \in 1..Len(l) |-> n(i)]
  BY <1>1 DEF Stripped
<1> HIDE DEF n, m
<1>4. m \in Seq(Nodes) /\ Len(m) = Len(l) /\ \A i \in 1..Len(l) : m[i] = n(i)
  BY <1>1, <1>2, <1>3
<1> QED
  BY <1>2, <1>4 DEF SameNodes, m

(* in3_cache_store_nodelist: a list that was changed is stored, one that was  *)
(* not is stored already.                                                     *)
LEMMA StoreInv ==
  ASSUME NEW d, NEW c, Fine(d), White(d), FineCopy(c), d.dirty \/ Linked(d, c)
  PROVE  DataInv(Clean(d), Store(d, c))
<1>1. d \in Datas /\ d.list \in Seq(Nodes) /\ c \in Copies
  BY DEF Fine, FineCopy, Datas
<1> DEFINE e == Clean(d)
           k == Store(d, c)
<1>2. e \in Datas /\ e.list = d.list /\ e.last = d.last /\ e.wl = d.wl
  BY <1>1 DEF Clean, Datas
<1> HIDE DEF e
<1>3. Fine(e) /\ White(e)
  BY <1>2 DEF Fine, White
<1>4. CASE ~Storage
  <2>1. k = c
    BY <1>4 DEF Store
  <2>2. Linked(e, c)
    BY <1>4 DEF Linked, Saved
  <2> QED
    BY <1>3, <2>1, <2>2 DEF DataInv, e
<1>5. CASE Storage /\ d.dirty
  <2> DEFINE l == Stripped(d.list)
  <2>1. k = [c EXCEPT !.last = d.last, !.list = l]
    BY <1>5 DEF Store
  <2>2. l \in Seq(Nodes) /\ SameNodes(d.list, l)
          /\ \A i \in 1..Len(d.list) : l[i].until = d.list[i].until /\ ~l[i].white /\ ~l[i].boot
    BY <1>1, StrippedFacts
  <2> HIDE DEF k, l
  <2>3. k \in Copies /\ k.list = l /\ k.last = d.last
    BY <1>1, <2>1, <2>2 DEF Copies, Datas
  <2>4. DOMAIN d.list = 1..Len(d.list) /\ DOMAIN l = 1..Len(d.list) /\ Len(d.list) \in Nat /\ Len(l) = Len(d.list)
    BY <1>1, <2>2 DEF SameNodes
  <2>5. l # <<>>
    BY <1>1, <2>2, <2>4 DEF Fine
  <2>6. FineCopy(k)
    BY <1>1, <2>2, <2>3, <2>4, SameNodesRegistered DEF FineCopy, Fine
  <2>7. Saved(e, k)
    BY <1>2, <2>2, <2>3, <2>4 DEF Saved, SameNodes
  <2>8. Linked(e, k)
    BY <1>2, <2>3, <2>5, <2>7 DEF Linked
  <2> QED
    BY <1>3, <2>6, <2>8 DEF DataInv, k, e
<1>6. CASE Storage /\ ~d.dirty
  <2>1. k = c
    BY <1>6 DEF Store
  <2>2. Linked(e, c)
    BY <1>2, <1>6 DEF Linked, Saved, Banned
  <2> QED
    BY <1>3, <2>1, <2>2 DEF DataInv, e
<1> QED
  BY <1>4, <1>5, <1>6

-----------------------------------------------------------------------------
(* A new list *)

(* The client does not go back to an older list, and a banned node that is in *)
(* the new list stays banned.                                                 *)
Keeps(d, e) ==
  \A i \in DOMAIN d.list :
    (Banned(d, i) /\ d.list[i].addr \in AddrsOf(e.list)) =>
      \E j \in DOMAIN e.list : e.list[j].addr = d.list[i].addr /\ e.list[j].until > now

Follows(d, e) == e.last >= d.last /\ (Distinct => Keeps(d, e))

LEMMA AlikeFollows ==
  ASSUME NEW d \in Datas, NEW e, NEW f, Follows(d, e), e \in Datas, Alike(e, f)
  PROVE  Follows(d, f)
<1>1. e.list \in Seq(Nodes) /\ f.list \in Seq(Nodes)
  BY DEF Alike, Datas
<1>2. DOMAIN e.list = 1..Len(e.list) /\ DOMAIN f.list = 1..Len(e.list) /\ AddrsOf(f.list) = AddrsOf(e.list)
  BY <1>1 DEF Alike, AddrsOf
<1> QED
  BY <1>2 DEF Follows, Keeps, Alike

LEMMA BansFollows ==
  ASSUME NEW d \in Datas, NEW e, NEW f, Bans(d, e), Follows(e, f)
  PROVE  Follows(d, f)
<1>1. d.list \in Seq(Nodes) /\ e.list \in Seq(Nodes)
  BY DEF Bans, Touched, Datas
<1>2. DOMAIN e.list = DOMAIN d.list /\ DOMAIN d.list = 1..Len(d.list)
  BY <1>1 DEF Bans, Touched
<1> QED
  BY <1>2 DEF Follows, Keeps, Bans, Touched, MoreBans

LEMMA SameFollows ==
  ASSUME NEW d \in Datas
  PROVE  Follows(d, d)
<1>1. d.last \in Nat
  BY DEF Datas
<1> QED
  BY <1>1 DEF Follows, Keeps, Banned

(* fill_chain: the weight a node of the new list gets *)
LEMMA NewUntilFacts ==
  ASSUME NEW l \in Seq(Nodes), NEW j, NEW a \in Addr, now \in Nat
  PROVE  /\ NewUntil(l, j, a) \in Nat
         /\ \A i \in DOMAIN l : (Different(l) /\ l[i].addr = a /\ l[i].until > now) => NewUntil(l, j, a) > now
<1> DEFINE at == Positions(l, a)
<1>1. at \in SUBSET Nat /\ at \subseteq DOMAIN l
  BY DEF Positions
<1>2. RegisterTime[a] + Day \in Nat /\ Performance[a] \in Nat
  BY TimeAssumption
<1>3. \A i \in DOMAIN l : l[i].until \in Nat
  <2>1. \A i \in DOMAIN l : l[i] \in Nodes
    BY Member
  <2> QED
    BY <2>1 DEF Nodes
<1>4. at # {} => First(at) \in at
  BY <1>1, FirstIn
<1>5. OldWeight(l, j, a) \in Nat
  BY <1>1, <1>2, <1>3, <1>4 DEF OldWeight
<1>6. ASSUME NEW i \in DOMAIN l, Different(l), l[i].addr = a, l[i].until > now
      PROVE  OldWeight(l, j, a) > now
  <2>1. at = {i}
    BY <1>6 DEF Positions, Different
  <2>2. First(at) = i
    BY <1>4, <2>1
  <2> QED
    BY <1>6, <2>1, <2>2 DEF OldWeight
<1> QED
  BY <1>2, <1>5, <1>6 DEF NewUntil

LEMMA FillChainFacts ==
  ASSUME NEW d, Fine(d), NEW b \in Blocks, NewerBlock(d, b), now \in Nat
  PROVE  /\ Fine(FillChain(d, b)) /\ White(FillChain(d, b)) /\ FillChain(d, b).dirty
         /\ Follows(d, FillChain(d, b))
<1> DEFINE n(i) == Node(Registry[b][i].addr, Registry[b][i].index, FALSE, NewUntil(d.list, i, Registry[b][i].addr))
           l == [i \in DOMAIN Registry[b] |-> n(i)]
           o == [i \in DOMAIN d.offlines |-> [d.offlines[i] EXCEPT !.dangling = TRUE]]
           e == FillChain(d, b)
           L == Len(Registry[b])
<1>1. /\ d \in Datas /\ d.list \in Seq(Nodes) /\ d.offlines \in Seq(Offline)
      /\ b \in Nat \ {0} /\ Registry[b] \in Seq([addr : Addr, index : Nat]) /\ Registry[b] # <<>>
  BY RegistryFacts DEF Fine, Datas
<1>2. DOMAIN Registry[b] = 1..L /\ L \in Nat /\ L # 0
  BY <1>1
<1>3. ASSUME NEW i \in 1..L
      PROVE  /\ n(i) \in Nodes /\ n(i).addr = Registry[b][i].addr /\ n(i).index = Registry[b][i].index
             /\ ~n(i).boot /\ ~n(i).white /\ n(i).until = NewUntil(d.list, i, Registry[b][i].addr)
  <2>1. Registry[b][i] \in [addr : Addr, index : Nat]
    BY <1>1, <1>2, Member
  <2>2. NewUntil(d.list, i, Registry[b][i].addr) \in Nat
    BY <1>1, <2>1, NewUntilFacts
  <2> QED
    BY <2>1, <2>2 DEF Node, Nodes
<1>4. o \in Seq(Offline)
  <2>1. \A i \in DOMAIN d.offlines : d.offlines[i] \in Offline
    BY <1>1, Member
  <2>2. \A i \in DOMAIN d.offlines : o[i] \in Offline
    BY <2>1 DEF Offline
  <2>3. o = [i \in DOMAIN d.offlines |-> o[i]]
    OBVIOUS
  <2> HIDE DEF o
  <2> QED
    BY <1>1, <2>2, <2>3, MapType
<1>5. e = [d EXCEPT !.last = b, !.list = l, !.offlines = o, !.dirty = TRUE]
  BY DEF FillChain
<1> HIDE DEF n, o, e, L
<1>6. l \in Seq(Nodes) /\ Len(l) = L /\ DOMAIN l = 1..L /\ \A i \in 1..L : l[i] = n(i)
  BY <1>2, <1>3
<1> HIDE DEF l
<1>7. e \in Datas /\ e.list = l /\ e.last = b /\ e.dirty
  BY <1>1, <1>4, <1>5, <1>6 DEF Datas
<1>8. l # <<>>
  BY <1>2, <1>6
<1>9. Registered(l, b)
  BY <1>1, <1>2, <1>3, <1>6 DEF Registered, L
<1>10. Distinct => Different(l)
  BY <1>2, <1>3, <1>6 DEF Distinct, Different
<1>11. White(e)
  BY <1>3, <1>6, <1>7 DEF White
<1>12. ASSUME Distinct PROVE Keeps(d, e)
  <2> SUFFICES ASSUME NEW i \in DOMAIN d.list, Banned(d, i), d.list[i].addr \in AddrsOf(l)
               PROVE  \E j \in DOMAIN l : l[j].addr = d.list[i].addr /\ l[j].until > now
    BY <1>7 DEF Keeps
  <2>1. PICK j \in DOMAIN l : l[j].addr = d.list[i].addr
    BY DEF AddrsOf
  <2>2. j \in 1..L /\ l[j] = n(j) /\ Registry[b][j].addr = d.list[i].addr
    BY <1>3, <1>6, <2>1
  <2>3. d.list[i].addr \in Addr
    <3>1. d.list[i] \in Nodes
      BY <1>1, Member
    <3> QED
      BY <3>1 DEF Nodes
  <2>4. NewUntil(d.list, j, d.list[i].addr) > now
    BY <1>1, <1>12, <2>3, NewUntilFacts DEF Fine, Banned
  <2>5. l[j].until > now
    BY <1>3, <2>2, <2>4
  <2> QED
    BY <2>1, <2>5
<1>13. e.last >= d.last
  BY <1>1, <1>7 DEF NewerBlock, Datas
<1> QED
  BY <1>7, <1>8, <1>9, <1>10, <1>11, <1>12, <1>13 DEF Fine, Follows, e

(* update_nodelist with an answer: the list is replaced and stored at once.   *)
LEMMA TakeOver ==
  ASSUME NEW d, NEW c, DataInv(d, c), NEW b \in Blocks, now \in Nat
  PROVE  /\ DataInv(RunWhitelisting(Clean(FillChain(d, b))), Store(FillChain(d, b), c))
         /\ Follows(d, RunWhitelisting(Clean(FillChain(d, b))))
<1> DEFINE f == FillChain(d, b)
           e == Clean(f)
           k == Store(f, c)
<1>1. Fine(f) /\ White(f) /\ (f.dirty \/ Linked(f, c)) /\ Follows(d, f)
  <2>1. CASE NewerBlock(d, b)
    BY <2>1, FillChainFacts DEF DataInv
  <2>2. CASE ~NewerBlock(d, b)
    <3>1. f = d
      BY <2>2 DEF FillChain
    <3>2. d \in Datas
      BY DEF DataInv, Fine
    <3> QED
      BY <3>1, <3>2, SameFollows DEF DataInv
  <2> QED
    BY <2>1, <2>2
<1> HIDE DEF f
<1>2. d \in Datas /\ f \in Datas
  BY <1>1 DEF DataInv, Fine
<1>3. DataInv(e, k)
  BY <1>1, StoreInv DEF DataInv
<1>4. e.list = f.list /\ e.last = f.last /\ e \in Datas
  BY <1>2 DEF Clean, Datas
<1> HIDE DEF e, k
<1>5. Follows(d, e)
  BY <1>1, <1>4 DEF Follows, Keeps
<1>6. Alike(e, RunWhitelisting(e)) /\ DataInv(RunWhitelisting(e), k)
  BY <1>3, <1>4, RunWhitelistingAlike, RunWhitelistingInv DEF DataInv
<1>7. Follows(d, RunWhitelisting(e))
  BY <1>2, <1>4, <1>5, <1>6, AlikeFollows
<1> QED
  BY <1>6, <1>7 DEF e, k, f

-----------------------------------------------------------------------------
(* The required contexts *)

LEMMA FindSubFacts ==
  ASSUME NEW subs \in Seq(Subs), NEW k \in Nat, NEW kind
  PROVE  \/ FindSub(subs, k, kind) = 0
         \/ /\ FindSub(subs, k, kind) \in DOMAIN subs /\ FindSub(subs, k, kind) > k
            /\ subs[FindSub(subs, k, kind)].kind = kind
<1> DEFINE at == {j \in DOMAIN subs : j > k /\ subs[j].kind = kind}
<1>1. at \in SUBSET Nat
  OBVIOUS
<1>2. at # {} => First(at) \in at
  BY <1>1, FirstIn
<1> QED
  BY <1>2 DEF FindSub

LEMMA RemoveSubFacts ==
  ASSUME NEW subs, SubsInv(subs), NEW j \in DOMAIN subs
  PROVE  /\ SubsInv(RemoveSub(subs, j)) /\ Len(RemoveSub(subs, j)) = j - 1
         /\ \A i \in DOMAIN RemoveSub(subs, j) : i \in DOMAIN subs /\ RemoveSub(subs, j)[i] = subs[i]
<1> DEFINE q == RemoveSub(subs, j)
<1>1. subs \in Seq(Subs) /\ j \in 1..Len(subs) /\ DOMAIN subs = 1..Len(subs)
  BY DEF SubsInv
<1>2. q \in Seq(Subs) /\ Len(q) = j - 1 /\ \A i \in 1..(j - 1) : q[i] = subs[i]
  BY <1>1 DEF RemoveSub
<1> HIDE DEF q
<1>3. DOMAIN q = 1..(j - 1) /\ DOMAIN q \subseteq DOMAIN subs
  BY <1>1, <1>2
<1> QED
  BY <1>2, <1>3 DEF SubsInv, q

LEMMA InsertSub ==
  ASSUME NEW subs, SubsInv(subs), NEW p \in 1..(Len(subs) + 1), NEW sub \in Subs, sub.state = "pick"
  PROVE  SubsInv(InsertAt(subs, p, sub))
<1> DEFINE front == SubSeq(subs, 1, p - 1)
           back == SubSeq(subs, p, Len(subs))
           q == InsertAt(subs, p, sub)
           L == Len(subs)
<1>1. subs \in Seq(Subs) /\ L \in Nat /\ DOMAIN subs = 1..L
  BY DEF SubsInv
<1>2. p \in 1..(L + 1)
  OBVIOUS
<1>3. q = front \o <<sub>> \o back
  BY DEF InsertAt
<1>4. front \in Seq(Subs) /\ Len(front) = p - 1 /\ \A i \in 1..(p - 1) : front[i] = subs[i]
  BY <1>1
<1>5. back \in Seq(Subs) /\ Len(back) = L - p + 1 /\ \A i \in 1..(L - p + 1) : back[i] = subs[p + i - 1]
  BY <1>1
<1> HIDE DEF front, back, q, L
<1>6. q \in Seq(Subs) /\ Len(q) = L + 1
  <2>1. <<sub>> \in Seq(Subs) /\ Len(<<sub>>) = 1
    OBVIOUS
  <2>2. front \o <<sub>> \in Seq(Subs) /\ Len(front \o <<sub>>) = p
    BY <1>2, <1>4, <2>1
  <2> QED
    BY <1>1, <1>2, <1>3, <1>5, <2>2
<1>7. ASSUME NEW j \in DOMAIN q PROVE q[j] = sub \/ \E i \in DOMAIN subs : q[j] = subs[i]
  <2>1. j \in 1..(L + 1) /\ p \in 1..(L + 1)
    BY <1>2, <1>6
  <2>2. CASE j < p
    BY <1>1, <1>3, <1>4, <1>5, <2>1, <2>2
  <2>3. CASE j = p
    BY <1>1, <1>3, <1>4, <1>5, <2>1, <2>3
  <2>4. CASE j > p
    <3>1. j - p \in 1..(L - p + 1) /\ p + (j - p) - 1 \in 1..L
      BY <1>1, <2>1, <2>4
    <3>2. q[j] = back[j - p]
      BY <1>1, <1>3, <1>4, <1>5, <2>1, <2>4
    <3> QED
      BY <1>1, <1>5, <3>1, <3>2
  <2> QED
    BY <1>1, <2>1, <2>2, <2>3, <2>4
<1> QED
  BY <1>6, <1>7 DEF SubsInv, q

-----------------------------------------------------------------------------
(* in3_node_list_get *)

(* A call on its way: the list, the stored copy, the contexts, the result. *)
Working(s) ==
  /\ s = [d |-> s.d, c |-> s.c, subs |-> s.subs, ret |-> s.ret]
  /\ DataInv(s.d, s.c)
  /\ SubsInv(s.subs)

(* No context behind k is under way. *)
Settled(subs, k) ==
  /\ k \in 0..Len(subs)
  /\ \A j \in DOMAIN subs : j > k => subs[j].state \in {"ok", "empty"}

LEMMA AddSubWorks ==
  ASSUME NEW s, Working(s), NEW k, Settled(s.subs, k), NEW kind \in {"nodeList", "whiteList"}, NEW a \in Addr \cup {NoAddr}
  PROVE  Working(AddSub(s, k, NewSub(kind, a))) /\ AddSub(s, k, NewSub(kind, a)).d = s.d
<1> DEFINE sub == NewSub(kind, a)
           q == InsertAt(s.subs, k + 1, sub)
           t == AddSub(s, k, sub)
<1>1. sub \in Subs /\ sub.state = "pick"
  BY DEF NewSub, Subs, SubStates, Shapes
<1>2. SubsInv(q)
  <2>1. k + 1 \in 1..(Len(s.subs) + 1)
    BY DEF Working, SubsInv, Settled
  <2> DEFINE p == k + 1
  <2> HIDE DEF p
  <2>2. SubsInv(InsertAt(s.subs, p, sub))
    BY <1>1, <2>1, InsertSub DEF Working, p
  <2> QED
    BY <2>2 DEF p
<1>3. t = [s EXCEPT !.subs = q, !.ret = "EXEC"]
  BY DEF AddSub
<1> HIDE DEF sub, q, t
<1>4. t = [d |-> s.d, c |-> s.c, subs |-> q, ret |-> "EXEC"]
  BY <1>3 DEF Working
<1> QED
  BY <1>2, <1>4 DEF Working, t, sub

LEMMA BansWork ==
  ASSUME NEW s, Working(s), NEW e, Bans(s.d, e)
  PROVE  Working([s EXCEPT !.d = e]) /\ [s EXCEPT !.d = e].d = e /\ [s EXCEPT !.d = e].subs = s.subs /\ Follows(s.d, e)
<1> DEFINE t == [s EXCEPT !.d = e]
<1>1. DataInv(e, s.c)
  BY BansInv DEF Working
<1>2. t = [d |-> e, c |-> s.c, subs |-> s.subs, ret |-> s.ret]
  BY DEF Working
<1>3. s.d \in Datas /\ e \in Datas
  BY <1>1 DEF Working, DataInv, Fine
<1>4. Follows(s.d, e)
  BY <1>3, BansFollows, SameFollows
<1> HIDE DEF t
<1> QED
  BY <1>1, <1>2, <1>4 DEF Working, t

(* fill_chain with a list that can not be read (lists are not verified). *)
LEMMA FillChainFailsFacts ==
  ASSUME NEW d, NEW c, DataInv(d, c), ~Proof, NEW b \in Blocks, now \in Nat
  PROVE  DataInv(FillChainFails(d, b), c) /\ Follows(d, FillChainFails(d, b))
<1> DEFINE e == FillChainFails(d, b)
<1>1. d \in Datas /\ b \in Nat
  BY RegistryFacts DEF DataInv, Fine
<1>2. CASE NewerBlock(d, b)
  <2>1. e = [d EXCEPT !.last = b, !.dirty = TRUE]
    BY <1>2 DEF FillChainFails
  <2>2. e \in Datas /\ e.list = d.list /\ e.wl = d.wl /\ e.last = b /\ e.dirty
    BY <1>1, <2>1 DEF Datas
  <2> HIDE DEF e
  <2>3. DataInv(e, c)
    BY <2>2 DEF DataInv, Fine, White, Linked, Saved
  <2>4. Follows(d, d)
    BY <1>1, SameFollows
  <2>5. e.last >= d.last
    BY <1>1, <1>2, <2>2 DEF NewerBlock, Datas
  <2> QED
    BY <2>2, <2>3, <2>4, <2>5 DEF Follows, Keeps, e
<1>3. CASE ~NewerBlock(d, b)
  BY <1>1, <1>3, SameFollows DEF FillChainFails
<1> QED
  BY <1>2, <1>3

(* case REQ_SUCCESS of update_nodelist *)
LEMMA ApplyWorks ==
  ASSUME NEW s, Working(s), NEW k, Settled(s.subs, k), NEW j \in DOMAIN s.subs, j > k, s.subs[j].state = "ok", now \in Nat
  PROVE  /\ Working(ApplyNodelist(s, j)) /\ Settled(ApplyNodelist(s, j).subs, k)
         /\ Follows(s.d, ApplyNodelist(s, j).d)
<1> DEFINE sub == s.subs[j]
           b == IF sub.shape = "incomplete" THEN 0 ELSE sub.block
           e == CheckBlock(s.d, b)
           t == ApplyNodelist(s, j)
<1>1. s.d \in Datas /\ DataInv(s.d, s.c) /\ s.subs \in Seq(Subs)
  BY DEF Working, DataInv, Fine, SubsInv
<1>2. sub.block \in Blocks /\ (Proof => sub.shape = "full")
  BY DEF Working, SubsInv
<1>3. Bans(s.d, e)
  BY <1>1, CheckBlockBans
<1>4. DataInv(e, s.c) /\ e \in Datas
  BY <1>1, <1>3, BansInv DEF DataInv, Fine
<1>5. CASE sub.shape = "incomplete"
  <2>1. t = [s EXCEPT !.d = e, !.ret = "ERR"]
    BY <1>5 DEF ApplyNodelist
  <2>2. t = [d |-> e, c |-> s.c, subs |-> s.subs, ret |-> "ERR"]
    BY <2>1 DEF Working
  <2> HIDE DEF e, t
  <2>3. Follows(s.d, e)
    BY <1>1, <1>3, <1>4, BansFollows, SameFollows
  <2> QED
    BY <1>4, <2>2, <2>3 DEF Working, t
<1>6. CASE sub.shape = "badNode" /\ NewerBlock(e, b)
  <2> DEFINE f == FillChainFails(e, b)
  <2>1. t = [s EXCEPT !.d = f, !.ret = "ERR"]
    BY <1>6 DEF ApplyNodelist
  <2>2. t = [d |-> f, c |-> s.c, subs |-> s.subs, ret |-> "ERR"]
    BY <2>1 DEF Working
  <2>3. DataInv(f, s.c) /\ Follows(e, f)
    BY <1>2, <1>4, <1>6, FillChainFailsFacts
  <2>4. Follows(s.d, f)
    BY <1>1, <1>3, <2>3, BansFollows
  <2> HIDE DEF e, f, t
  <2> QED
    BY <2>2, <2>3, <2>4 DEF Working, t
<1>7. CASE sub.shape # "incomplete" /\ ~(sub.shape = "badNode" /\ NewerBlock(e, b))
  <2> DEFINE f == RunWhitelisting(Clean(FillChain(e, b)))
             c == Store(FillChain(e, b), s.c)
             q == RemoveSub(s.subs, j)
  <2>1. t = [s EXCEPT !.d = f, !.c = c, !.subs = q]
    BY <1>7 DEF ApplyNodelist
  <2>2. t = [d |-> f, c |-> c, subs |-> q, ret |-> s.ret]
    BY <2>1 DEF Working
  <2>3. DataInv(f, c) /\ Follows(e, f)
    BY <1>2, <1>4, <1>7, TakeOver
  <2>4. Follows(s.d, f)
    BY <1>1, <1>3, <2>3, BansFollows
  <2>5. SubsInv(q) /\ Len(q) = j - 1 /\ \A i \in DOMAIN q : i \in DOMAIN s.subs /\ q[i] = s.subs[i]
    BY RemoveSubFacts DEF Working
  <2>6. k \in 0..Len(s.subs) /\ j \in 1..Len(s.subs) /\ Len(s.subs) \in Nat
    BY <1>1 DEF Settled
  <2> HIDE DEF e, f, c, q, t
  <2>7. k \in 0..(j - 1)
    BY <2>6
  <2>8. Settled(q, k)
    BY <2>5, <2>7 DEF Settled
  <2> QED
    BY <2>2, <2>3, <2>4, <2>5, <2>8 DEF Working, t
<1> QED
  BY <1>5, <1>6, <1>7

(* update_nodelist *)
LEMMA UpdateNodelistWorks ==
  ASSUME NEW s, Working(s), NEW k, Settled(s.subs, k), now \in Nat
  PROVE  /\ Working(UpdateNodelist(s, k)) /\ Follows(s.d, UpdateNodelist(s, k).d)
         /\ UpdateNodelist(s, k).ret = "OK" => Settled(UpdateNodelist(s, k).subs, k)
<1> DEFINE j == FindSub(s.subs, k, "nodeList")
           t == UpdateNodelist(s, k)
<1>1. s.d \in Datas /\ s.subs \in Seq(Subs) /\ k \in Nat /\ Follows(s.d, s.d)
  BY SameFollows DEF Working, DataInv, Fine, SubsInv, Settled
<1>2. j = 0 \/ (j \in DOMAIN s.subs /\ j > k)
  BY <1>1, FindSubFacts
<1>3. CASE j = 0
  <2> DEFINE a == IF NotFirst(s.d) THEN s.d.upd.node ELSE NoAddr
  <2>1. a \in Addr \cup {NoAddr}
    BY <1>1 DEF Datas
  <2>2. t = AddSub(s, k, NewSub("nodeList", a))
    BY <1>3 DEF UpdateNodelist
  <2> HIDE DEF a, t
  <2>3. Working(t) /\ t.d = s.d
    BY <2>1, <2>2, AddSubWorks
  <2>4. t.ret = "EXEC"
    BY <2>2 DEF AddSub, Working
  <2> QED
    BY <1>1, <2>3, <2>4 DEF t
<1>4. CASE j # 0 /\ s.subs[j].state = "empty"
  <2>1. t = [s EXCEPT !.d = DropUpdate(s.d)]
    BY <1>4 DEF UpdateNodelist
  <2>2. Bans(s.d, DropUpdate(s.d))
    BY <1>1, DropUpdateBans
  <2> HIDE DEF t
  <2> QED
    BY <2>1, <2>2, BansWork DEF t
<1>5. CASE j # 0 /\ s.subs[j].state = "ok"
  <2>1. t = ApplyNodelist(s, j)
    BY <1>5 DEF UpdateNodelist
  <2>2. j \in DOMAIN s.subs /\ j > k
    BY <1>2, <1>5
  <2> HIDE DEF t, j
  <2> QED
    BY <1>5, <2>1, <2>2, ApplyWorks DEF t
<1>6. j # 0 => s.subs[j].state \in {"ok", "empty"}
  BY <1>2 DEF Settled
<1> QED
  BY <1>3, <1>4, <1>5, <1>6

(* in3_client_fill_chain_whitelist *)
LEMMA FillWhitelistAlike ==
  ASSUME NEW d \in Datas, White(d), NEW b \in Blocks, WhiteMode = "contract"
  PROVE  Alike(d, FillWhitelist(d, b)) /\ White(FillWhitelist(d, b))
<1>1. CASE b > d.wl.last
  <2> DEFINE w == [d.wl EXCEPT !.last = b, !.addrs = WhiteLists[b]]
             e == [d EXCEPT !.wl = w]
  <2>1. b \in Nat /\ WhiteLists[b] \in Seq(Addr)
    BY RegistryFacts
  <2>2. w \in [needs : BOOLEAN, last : Nat, addrs : Seq(Addr)]
    BY <2>1 DEF Datas
  <2>3. FillWhitelist(d, b) = RunWhitelisting(e)
    <3>1. [d EXCEPT !.wl.last = b, !.wl.addrs = WhiteLists[b]] = e
      BY DEF Datas
    <3> QED
      BY <1>1, <3>1 DEF FillWhitelist
  <2> HIDE DEF w
  <2>4. e \in Datas /\ e.list = d.list /\ e.last = d.last /\ e.dirty = d.dirty
    BY <2>2 DEF Datas
  <2> HIDE DEF e
  <2>5. Alike(d, e)
    BY <2>4 DEF Alike
  <2>6. Alike(e, RunWhitelisting(e)) /\ White(RunWhitelisting(e))
    BY <2>4, RunWhitelistingAlike
  <2> QED
    BY <2>3, <2>5, <2>6, AlikeTrans
<1>2. CASE ~(b > d.wl.last)
  BY <1>2 DEF FillWhitelist, Alike
<1> QED
  BY <1>1, <1>2

LEMMA StoreWhitelistFacts ==
  ASSUME NEW d \in Datas, NEW e, NEW c, FineCopy(c), Linked(e, c)
  PROVE  FineCopy(StoreWhitelist(d, c)) /\ Linked(e, StoreWhitelist(d, c))
<1> DEFINE k == StoreWhitelist(d, c)
<1>1. c \in Copies /\ d.wl.last \in Nat /\ d.wl.addrs \in Seq(Addr)
  BY DEF FineCopy, Datas
<1>2. k = c \/ k = [c EXCEPT !.wlLast = d.wl.last, !.wlAddrs = d.wl.addrs]
  BY DEF StoreWhitelist
<1> HIDE DEF k
<1>3. k \in Copies /\ k.list = c.list /\ k.last = c.last
  BY <1>1, <1>2 DEF Copies
<1> QED
  BY <1>3 DEF FineCopy, Linked, Saved, k

(* update_whitelist *)
LEMMA UpdateWhitelistWorks ==
  ASSUME NEW s, Working(s), NEW k, Settled(s.subs, k), WhiteMode = "contract", now \in Nat
  PROVE  Working(UpdateWhitelist(s, k)) /\ Alike(s.d, UpdateWhitelist(s, k).d)
<1> DEFINE j == FindSub(s.subs, k, "whiteList")
           t == UpdateWhitelist(s, k)
           e == FillWhitelist(s.d, s.subs[j].block)
<1>1. s.d \in Datas /\ s.subs \in Seq(Subs) /\ k \in Nat /\ Alike(s.d, s.d)
  BY DEF Working, DataInv, Fine, SubsInv, Settled, Alike
<1>2. j = 0 \/ (j \in DOMAIN s.subs /\ j > k)
  BY <1>1, FindSubFacts
<1>3. CASE j = 0
  <2>1. t = AddSub(s, k, NewSub("whiteList", NoAddr))
    BY <1>3 DEF UpdateWhitelist
  <2> HIDE DEF t
  <2>2. Working(t) /\ t.d = s.d
    BY <2>1, AddSubWorks
  <2> QED
    BY <1>1, <2>2 DEF t
<1>4. CASE j # 0 /\ (s.subs[j].state = "empty" \/ s.subs[j].shape = "incomplete")
  <2>1. t = [s EXCEPT !.ret = "ERR"]
    BY <1>4 DEF UpdateWhitelist
  <2>2. t = [d |-> s.d, c |-> s.c, subs |-> s.subs, ret |-> "ERR"]
    BY <2>1 DEF Working
  <2> HIDE DEF t
  <2> QED
    BY <1>1, <2>2 DEF Working, t
<1>5. CASE j # 0 /\ ~(s.subs[j].state = "empty" \/ s.subs[j].shape = "incomplete")
  <2> DEFINE f == RunWhitelisting(e)
             c == StoreWhitelist(e, s.c)
             q == RemoveSub(s.subs, j)
  <2>1. t = [s EXCEPT !.d = f, !.c = c, !.subs = q]
    BY <1>5 DEF UpdateWhitelist
  <2>2. t = [d |-> f, c |-> c, subs |-> q, ret |-> s.ret]
    BY <2>1 DEF Working
  <2>3. j \in DOMAIN s.subs /\ s.subs[j].state = "ok"
    BY <1>2, <1>5 DEF Settled
  <2>4. s.subs[j].block \in Blocks
    BY <2>3 DEF Working, SubsInv
  <2>5. Alike(s.d, e) /\ White(e)
    BY <1>1, <2>4, FillWhitelistAlike DEF Working, DataInv
  <2> HIDE DEF e
  <2>6. e \in Datas
    BY <2>5 DEF Alike
  <2>7. Alike(e, f) /\ White(f)
    BY <2>5, <2>6, RunWhitelistingAlike
  <2> HIDE DEF f
  <2>8. FineCopy(c) /\ Linked(s.d, c)
    BY <2>6, StoreWhitelistFacts DEF Working, DataInv
  <2> HIDE DEF c
  <2>9. Alike(s.d, f)
    BY <2>5, <2>7, AlikeTrans
  <2>10. DataInv(f, c)
    BY <2>7, <2>8, <2>9, AlikeInv DEF Working, DataInv
  <2>12. SubsInv(q)
    BY <2>3, RemoveSubFacts DEF Working
  <2> HIDE DEF q, t
  <2> QED
    BY <2>2, <2>9, <2>10, <2>12 DEF Working, t
<1> QED
  BY <1>3, <1>4, <1>5

(* in3_node_list_get *)
LEMMA NodeListGetWorks ==
  ASSUME NEW s, Working(s), s.ret = "OK", NEW k, Settled(s.subs, k), now \in Nat
  PROVE  Working(NodeListGet(s, k)) /\ Follows(s.d, NodeListGet(s, k).d)
<1> DEFINE t == IF WantsNodelist(s, k) THEN UpdateNodelist(s, k) ELSE s
<1>0. s.d \in Datas
  BY DEF Working, DataInv, Fine
<1>1. Working(t) /\ Follows(s.d, t.d) /\ (t.ret = "OK" => Settled(t.subs, k))
  BY <1>0, UpdateNodelistWorks, SameFollows
<1>2. NodeListGet(s, k) = IF t.ret = "OK" /\ WantsWhitelist(t, k)
                          THEN UpdateWhitelist([t EXCEPT !.d.wl.needs = FALSE], k) ELSE t
  BY DEF NodeListGet
<1> HIDE DEF t
<1>3. CASE t.ret = "OK" /\ WantsWhitelist(t, k)
  <2> DEFINE w == [t.d.wl EXCEPT !.needs = FALSE]
             e == [t.d EXCEPT !.wl = w]
             u == [t EXCEPT !.d = e]
  <2>1. t.d \in Datas /\ DataInv(t.d, t.c)
    BY <1>1 DEF Working, DataInv, Fine
  <2>2. w \in [needs : BOOLEAN, last : Nat, addrs : Seq(Addr)] /\ w.addrs = t.d.wl.addrs
    BY <2>1 DEF Datas
  <2>3. [t EXCEPT !.d.wl.needs = FALSE] = u
    OBVIOUS
  <2> HIDE DEF w
  <2>4. e \in Datas /\ e.list = t.d.list /\ e.last = t.d.last /\ e.dirty = t.d.dirty /\ e.wl = w
    BY <2>1, <2>2 DEF Datas
  <2>5. u = [d |-> e, c |-> t.c, subs |-> t.subs, ret |-> t.ret]
    BY <1>1 DEF Working
  <2> HIDE DEF e, u
  <2>6. Alike(t.d, e) /\ White(e)
    BY <2>1, <2>2, <2>4 DEF Alike, White, DataInv
  <2>7. DataInv(e, t.c)
    BY <2>1, <2>6, AlikeInv DEF DataInv
  <2>8. Working(u) /\ Settled(u.subs, k) /\ u.d = e
    BY <1>1, <1>3, <2>5, <2>7 DEF Working
  <2>9. Working(UpdateWhitelist(u, k)) /\ Alike(e, UpdateWhitelist(u, k).d)
    BY <1>3, <2>8, UpdateWhitelistWorks DEF WantsWhitelist
  <2>10. NodeListGet(s, k) = UpdateWhitelist(u, k)
    BY <1>2, <1>3, <2>3
  <2>11. Alike(t.d, UpdateWhitelist(u, k).d)
    BY <2>6, <2>9, AlikeTrans
  <2>12. Follows(s.d, UpdateWhitelist(u, k).d)
    BY <1>0, <1>1, <2>1, <2>11, AlikeFollows
  <2> QED
    BY <2>9, <2>10, <2>12
<1>4. CASE ~(t.ret = "OK" /\ WantsWhitelist(t, k))
  BY <1>1, <1>2, <1>4
<1> QED
  BY <1>3, <1>4

-----------------------------------------------------------------------------
(* in3_node_list_pick_nodes *)

LEMMA UnblockFacts ==
  ASSUME NEW d \in Datas, NEW S
  PROVE  Touched(d, Unblock(d, S)) /\ Alike(d, Unblock(d, S))
<1> DEFINE mark(i) == [d.list[i] EXCEPT !.blocked = d.list[i].blocked /\ i \notin S]
           l == [i \in DOMAIN d.list |-> mark(i)]
           e == Unblock(d, S)
<1>1. d.list \in Seq(Nodes) /\ DOMAIN d.list = 1..Len(d.list) /\ Len(d.list) \in Nat
  BY DEF Datas
<1>2. ASSUME NEW i \in 1..Len(d.list)
      PROVE  /\ mark(i) \in Nodes
             /\ mark(i).addr = d.list[i].addr /\ mark(i).index = d.list[i].index
             /\ mark(i).boot = d.list[i].boot /\ mark(i).until = d.list[i].until
             /\ mark(i).white = d.list[i].white
  <2> DEFINE w == d.list[i].blocked /\ i \notin S
             n == d.list[i]
  <2>1. n \in Nodes /\ w \in BOOLEAN
    BY <1>1
  <2>2. mark(i) = [n EXCEPT !.blocked = w]
    OBVIOUS
  <2> HIDE DEF n, w, mark
  <2>3. mark(i) \in Nodes /\ mark(i).addr = n.addr /\ mark(i).index = n.index /\ mark(i).boot = n.boot
          /\ mark(i).until = n.until /\ mark(i).white = n.white
    BY <2>1, <2>2 DEF Nodes
  <2> QED
    BY <2>3 DEF n
<1>3. e = [d EXCEPT !.list = l]
  BY DEF Unblock
<1> HIDE DEF mark, e
<1>4. l \in Seq(Nodes) /\ Len(l) = Len(d.list) /\ \A i \in 1..Len(d.list) : l[i] = mark(i)
  BY <1>1, <1>2
<1> HIDE DEF l
<1>5. e \in Datas /\ e.list = l /\ e.last = d.last /\ e.dirty = d.dirty /\ e.wl = d.wl
  BY <1>3, <1>4 DEF Datas
<1> QED
  BY <1>2, <1>4, <1>5 DEF Touched, Alike, e

LEMMA LiftBansFacts ==
  ASSUME NEW d \in Datas
  PROVE  Touched(d, LiftBans(d)) /\ \A i \in 1..Len(d.list) : LiftBans(d).list[i].until = 0
<1> DEFINE mark(i) == [d.list[i] EXCEPT !.until = 0]
           l == [i \in DOMAIN d.list |-> mark(i)]
           e == LiftBans(d)
<1>1. d.list \in Seq(Nodes) /\ DOMAIN d.list = 1..Len(d.list) /\ Len(d.list) \in Nat
  BY DEF Datas
<1>2. ASSUME NEW i \in 1..Len(d.list)
      PROVE  /\ mark(i) \in Nodes
             /\ mark(i).addr = d.list[i].addr /\ mark(i).index = d.list[i].index
             /\ mark(i).boot = d.list[i].boot /\ mark(i).until = 0
             /\ mark(i).white = d.list[i].white
  <2>1. d.list[i] \in Nodes
    BY <1>1
  <2> QED
    BY <2>1 DEF Nodes
<1>3. e = [d EXCEPT !.list = l]
  BY DEF LiftBans
<1> HIDE DEF mark, e
<1>4. l \in Seq(Nodes) /\ Len(l) = Len(d.list) /\ \A i \in 1..Len(d.list) : l[i] = mark(i)
  BY <1>1, <1>2
<1> HIDE DEF l
<1>5. e \in Datas /\ e.list = l /\ e.last = d.last /\ e.dirty = d.dirty /\ e.wl = d.wl
  BY <1>3, <1>4 DEF Datas
<1> QED
  BY <1>2, <1>4, <1>5 DEF Touched, e

(* What a call makes of the list: not an older one; bans are kept, unless all *)
(* of them are lifted.                                                        *)
Ends(d, e) ==
  /\ e.last >= d.last
  /\ Distinct => Keeps(d, e) \/ \A i \in DOMAIN e.list : e.list[i].until = 0

LEMMA SearchFacts ==
  ASSUME NEW x \in Datas, NEW d, NEW c, DataInv(d, c), Follows(x, d), NEW only, NEW without, now \in Nat
  PROVE  /\ DataInv(Search(d, only, without).d, c)
         /\ Search(d, only, without).found \subseteq DOMAIN Search(d, only, without).d.list
         /\ Ends(x, Search(d, only, without).d)
<1> DEFINE found == Matching(d, Preselected, only, without)
           lift  == found = {} /\ (TooManyBanned(d) \/ Preselected # {})
           again == Matching(LiftBans(d), {}, only, without)
           s == Search(d, only, without)
<1>1. d \in Datas /\ d.list \in Seq(Nodes) /\ DOMAIN d.list = 1..Len(d.list) /\ x.last \in Nat /\ d.last \in Nat
  BY DEF DataInv, Fine, Datas
<1>2. CASE lift
  <2> DEFINE l == LiftBans(d)
             e == Unblock(l, again)
  <2>1. s.found = again /\ s.d = e
    BY <1>2 DEF Search
  <2>2. Touched(d, l) /\ \A i \in 1..Len(d.list) : l.list[i].until = 0
    BY <1>1, LiftBansFacts
  <2>3. again \subseteq DOMAIN l.list
    BY DEF Matching
  <2> HIDE DEF l, again
  <2>4. l \in Datas
    BY <2>2 DEF Touched
  <2>5. Touched(l, e) /\ Alike(l, e)
    BY <2>4, UnblockFacts
  <2> HIDE DEF e, s
  <2>6. Touched(d, e)
    BY <2>2, <2>5 DEF Touched
  <2>7. DOMAIN l.list = 1..Len(d.list) /\ DOMAIN e.list = 1..Len(d.list)
    BY <2>2, <2>4, <2>6 DEF Touched, Datas
  <2>8. \A i \in 1..Len(d.list) : e.list[i].until = 0
    BY <2>2, <2>5 DEF Alike, Touched
  <2>9. Saved(e, c)
    BY <2>7, <2>8 DEF Saved, Banned
  <2>10. DataInv(e, c)
    BY <2>6, <2>9, TouchedInv
  <2>11. Ends(x, e)
    BY <2>6, <2>7, <2>8 DEF Ends, Touched, Follows
  <2> QED
    BY <2>1, <2>3, <2>7, <2>10, <2>11 DEF s
<1>3. CASE ~lift
  <2> DEFINE e == Unblock(d, found)
  <2>1. s.found = found /\ s.d = e
    BY <1>3 DEF Search
  <2>2. found \subseteq DOMAIN d.list
    BY DEF Matching
  <2> HIDE DEF found, s
  <2>3. Touched(d, e) /\ Alike(d, e)
    BY <1>1, UnblockFacts
  <2> HIDE DEF e
  <2>4. DOMAIN e.list = 1..Len(d.list)
    BY <2>3 DEF Touched, Datas
  <2>5. Saved(e, c)
    BY <1>1, <2>3, <2>4 DEF Alike, Touched, DataInv, Linked, Saved, Banned
  <2>6. DataInv(e, c)
    BY <2>3, <2>5, TouchedInv
  <2>7. Follows(x, e)
    BY <1>1, <2>3, AlikeFollows
  <2> QED
    BY <1>1, <2>1, <2>2, <2>4, <2>6, <2>7 DEF Ends, Follows, s
<1> QED
  BY <1>2, <1>3

-----------------------------------------------------------------------------
(* Steps.  now does not change in a handler. *)

LEMMA InvFacts ==
  ASSUME Inv
  PROVE  /\ now \in Nat /\ data \in Datas /\ stored \in Copies /\ DataInv(data, stored)
         /\ req \in [Req -> Requests] /\ mutex.base \in Nat
         /\ \A r \in Req : SubsInv(req[r].subs) /\ req[r].subs \in Seq(Subs)
BY TimeAssumption DEF Inv, TypeOK, Datas, Copies, Requests, SubsInv

LEMMA HandlerStep ==
  ASSUME Inv, NEW r \in Req, NEW q \in Requests, SubsInv(q.subs), SetReq(r, q),
         DataInv(data', stored'), mutex' \in [owner : Req \cup {NoReq}, base : Nat],
         UNCHANGED <<now, world, restarts>>
  PROVE  Inv'
<1>1. DataInv(data, stored)'
  BY DEF DataInv, Fine, FineCopy, White, Linked, Saved, Banned, Registered, Different, Distinct
<1>2. data' \in Datas /\ stored' \in Copies
  BY DEF DataInv, Fine, FineCopy
<1>3. req \in [Req -> Requests] /\ req' \in [Req -> Requests]
  BY InvFacts DEF SetReq
<1>4. \A p \in Req : SubsInv(req'[p].subs)
  BY <1>3, InvFacts DEF SetReq
<1>5. TypeOK'
  BY <1>2, <1>3 DEF Inv, TypeOK, Datas, Copies, Requests
<1> QED
  BY <1>1, <1>4, <1>5 DEF Inv, SubsInv

LEMMA EndsFacts ==
  ASSUME NEW d \in Datas, NEW e
  PROVE  Follows(d, e) => Ends(d, e)
BY DEF Follows, Ends

LEMMA BansEnds ==
  ASSUME NEW d \in Datas, NEW e, Bans(d, e)
  PROVE  Ends(d, e)
<1>1. e \in Datas
  BY DEF Bans, Touched
<1> QED
  BY <1>1, BansFollows, SameFollows, EndsFacts

(* A request with another stage, other contexts or other nodes. *)
LEMMA RequestTypes ==
  ASSUME Inv, NEW r \in Req
  PROVE  /\ req[r] \in Requests /\ Idle \in Requests /\ SubsInv(Idle.subs) /\ SubsInv(req[r].subs)
         /\ \A subs : SubsInv(subs) => [req[r] EXCEPT !.subs = subs] \in Requests
                                       /\ [req[r] EXCEPT !.subs = subs].subs = subs
         /\ mutex \in [owner : Req \cup {NoReq}, base : Nat] /\ Free \in [owner : Req \cup {NoReq}, base : Nat]
<1>1. req[r] \in Requests
  BY InvFacts
<1>2. Idle \in Requests /\ Idle.subs = <<>>
  BY DEF Idle, Requests
<1>3. SubsInv(<<>>)
  BY DEF SubsInv
<1>4. ASSUME NEW subs, SubsInv(subs)
      PROVE  [req[r] EXCEPT !.subs = subs] \in Requests /\ [req[r] EXCEPT !.subs = subs].subs = subs
  BY <1>1, <1>4 DEF Requests, SubsInv
<1>5. mutex \in [owner : Req \cup {NoReq}, base : Nat] /\ Free \in [owner : Req \cup {NoReq}, base : Nat]
  BY DEF Inv, TypeOK, Free
<1>6. SubsInv(req[r].subs)
  BY DEF Inv
<1> QED
  BY <1>1, <1>2, <1>3, <1>4, <1>5, <1>6

(* One context changes its state. *)
LEMMA SetSub ==
  ASSUME NEW subs, SubsInv(subs), NEW j \in DOMAIN subs, NEW x \in Subs,
         x.state \in {"ok", "empty"} => x.block \in Blocks /\ (Proof => x.shape = "full")
  PROVE  SubsInv([subs EXCEPT ![j] = x])
<1>1. subs \in Seq(Subs) /\ DOMAIN subs = 1..Len(subs)
  BY DEF SubsInv
<1> DEFINE q == [subs EXCEPT ![j] = x]
<1>2. q \in Seq(Subs) /\ DOMAIN q = DOMAIN subs /\ \A i \in DOMAIN subs : q[i] = IF i = j THEN x ELSE subs[i]
  BY <1>1
<1> HIDE DEF q
<1> QED
  BY <1>2 DEF SubsInv, q

LEMMA ErrorSub ==
  ASSUME Inv, NEW r \in Req, NEW j
  PROVE  /\ [req[r] EXCEPT !.subs[j].state = "error"] \in Requests
         /\ SubsInv([req[r] EXCEPT !.subs[j].state = "error"].subs)
<1> DEFINE subs == req[r].subs
           x == [subs[j] EXCEPT !.state = "error"]
           s == [subs EXCEPT ![j] = x]
           q == [req[r] EXCEPT !.subs = s]
<1>1. [req[r] EXCEPT !.subs[j].state = "error"] = q
  OBVIOUS
<1>2. SubsInv(subs) /\ subs \in Seq(Subs)
  BY RequestTypes DEF SubsInv
<1>3. CASE j \in DOMAIN subs
  <2>1. subs[j] \in Subs
    BY <1>2, <1>3, Member
  <2>2. x \in Subs /\ x.state = "error"
    BY <2>1 DEF Subs, SubStates
  <2> HIDE DEF x
  <2>3. SubsInv(s)
    BY <1>2, <1>3, <2>2, SetSub
  <2> HIDE DEF s
  <2>4. q \in Requests /\ q.subs = s
    BY <2>3, RequestTypes
  <2> HIDE DEF q
  <2> QED
    BY <1>1, <2>3, <2>4, Zenon
<1>4. CASE j \notin DOMAIN subs
  <2>1. s = subs
    BY <1>2, <1>4
  <2>2. SubsInv(s)
    BY <1>2, <2>1
  <2> HIDE DEF s
  <2>3. q \in Requests /\ q.subs = s
    BY <2>2, RequestTypes
  <2> HIDE DEF q
  <2> QED
    BY <1>1, <2>2, <2>3, Zenon
<1> QED
  BY <1>3, <1>4

LEMMA GettingFacts ==
  ASSUME Inv, NEW r \in Req, NEW k \in 0..Len(req[r].subs), CanPick(r, k)
  PROVE  Working(Getting(r, k)) /\ Follows(data, Getting(r, k).d)
<1> DEFINE s == [d |-> data, c |-> stored, subs |-> req[r].subs, ret |-> "OK"]
<1>1. SubsInv(req[r].subs) /\ req[r].subs \in Seq(Subs) /\ DataInv(data, stored) /\ now \in Nat
  BY InvFacts
<1>2. Working(s)
  BY <1>1 DEF Working
<1>3. \A j \in DOMAIN req[r].subs : req[r].subs[j].state \in SubStates
  <2>1. \A j \in DOMAIN req[r].subs : req[r].subs[j] \in Subs
    BY <1>1, Member
  <2> QED
    BY <2>1 DEF Subs
<1>4. Settled(req[r].subs, k)
  BY <1>1, <1>3 DEF CanPick, Level, Settled, SubStates
<1>5. Getting(r, k) = NodeListGet(s, k)
  BY DEF Getting
<1>6. s.subs = req[r].subs /\ s.ret = "OK" /\ s.d = data
  OBVIOUS
<1> HIDE DEF s
<1> QED
  BY <1>1, <1>2, <1>4, <1>5, <1>6, NodeListGetWorks

LEMMA SearchingFacts ==
  ASSUME Inv, NEW r \in Req, NEW k \in 0..Len(req[r].subs), CanPick(r, k)
  PROVE  /\ DataInv(Searching(r, k, Getting(r, k).d).d, Getting(r, k).c)
         /\ Searching(r, k, Getting(r, k).d).found \subseteq DOMAIN Searching(r, k, Getting(r, k).d).d.list
         /\ Ends(data, Searching(r, k, Getting(r, k).d).d)
<1> DEFINE s == Getting(r, k)
<1>1. DataInv(s.d, s.c) /\ Follows(data, s.d)
  BY GettingFacts DEF Working
<1>2. data \in Datas /\ now \in Nat
  BY InvFacts
<1> HIDE DEF s
<1>3. \A only, without : /\ DataInv(Search(s.d, only, without).d, s.c)
                         /\ Search(s.d, only, without).found \subseteq DOMAIN Search(s.d, only, without).d.list
                         /\ Ends(data, Search(s.d, only, without).d)
  BY <1>1, <1>2, SearchFacts
<1>4. \E only, without : Searching(r, k, s.d) = Search(s.d, only, without)
  BY DEF Searching
<1> QED
  BY <1>3, <1>4 DEF s

-----------------------------------------------------------------------------
(* The handlers *)

LEMMA StartStep ==
  ASSUME Inv, NEW r \in Req, Start(r)
  PROVE  Inv' /\ Ends(data, data')
<1>1. PICK f \in Filters : SetReq(r, [Idle EXCEPT !.st = "updating", !.filter = f, !.since = now])
  BY DEF Start
<1> DEFINE q == [Idle EXCEPT !.st = "updating", !.filter = f, !.since = now]
<1>2. q \in Requests /\ q.subs = Idle.subs
  <2>1. f \in SUBSET Addr /\ now \in Nat
    BY InvFacts, RequestAssumption
  <2> QED
    BY <2>1, RequestTypes DEF Requests
<1>3. SubsInv(q.subs)
  BY <1>2, RequestTypes
<1> HIDE DEF q
<1>4. UNCHANGED <<data, stored, mutex, now, world, restarts>> /\ data \in Datas /\ DataInv(data, stored)
  BY InvFacts DEF Start
<1>5. Inv'
  BY <1>1, <1>2, <1>3, <1>4, HandlerStep, RequestTypes DEF q
<1> QED
  BY <1>4, <1>5, SameFollows, EndsFacts

LEMMA PickUpdatesStep ==
  ASSUME Inv, NEW r \in Req, PickUpdates(r)
  PROVE  Inv' /\ Ends(data, data')
<1>1. PICK k \in 0..Len(req[r].subs) :
        /\ CanPick(r, k)
        /\ data' = Getting(r, k).d /\ stored' = Getting(r, k).c
        /\ SetReq(r, [req[r] EXCEPT !.subs = Getting(r, k).subs])
        /\ mutex' = IF mutex.owner = r THEN mutex ELSE [owner |-> r, base |-> k]
        /\ UNCHANGED <<now, world, restarts>>
  BY DEF PickUpdates
<1> DEFINE q == [req[r] EXCEPT !.subs = Getting(r, k).subs]
<1>2. DataInv(data', stored') /\ SubsInv(Getting(r, k).subs) /\ Follows(data, data')
  BY <1>1, GettingFacts DEF Working
<1>3. q \in Requests /\ SubsInv(q.subs)
  BY <1>2, RequestTypes
<1>4. k \in Nat
  BY InvFacts
<1>5. mutex' \in [owner : Req \cup {NoReq}, base : Nat]
  BY <1>1, <1>4, RequestTypes
<1> HIDE DEF q
<1>6. Inv'
  BY <1>1, <1>2, <1>3, <1>5, HandlerStep DEF q
<1> QED
  BY <1>2, <1>6, InvFacts, EndsFacts

LEMMA PickFailsStep ==
  ASSUME Inv, NEW r \in Req, PickFails(r)
  PROVE  Inv' /\ Ends(data, data')
<1>1. PICK k \in 0..Len(req[r].subs) :
        /\ CanPick(r, k)
        /\ data' = Getting(r, k).d \/ data' = Searching(r, k, Getting(r, k).d).d
        /\ stored' = Getting(r, k).c
        /\ FailLevel(r, k)
        /\ mutex' = Free
        /\ UNCHANGED <<now, world, restarts>>
  BY DEF PickFails
<1>2. DataInv(data', stored') /\ Ends(data, data')
  <2>1. CASE data' = Getting(r, k).d
    BY <1>1, <2>1, GettingFacts, InvFacts, EndsFacts DEF Working
  <2>2. CASE data' = Searching(r, k, Getting(r, k).d).d
    BY <1>1, <2>2, SearchingFacts
  <2> QED
    BY <1>1, <2>1, <2>2
<1>3. PICK base : SetReq(r, IF base # 0 /\ req[r].subs[base].kind = "nodeList"
                            THEN [req[r] EXCEPT !.subs[base].state = "error"] ELSE Idle)
  BY <1>1 DEF FailLevel
<1>4. \E q \in Requests : SubsInv(q.subs) /\ SetReq(r, q)
  BY <1>3, ErrorSub, RequestTypes
<1>5. Inv'
  BY <1>1, <1>2, <1>4, HandlerStep, RequestTypes
<1> QED
  BY <1>2, <1>5

(* The nodes that are drawn: positions of the list. *)
LEMMA DrawnFacts ==
  ASSUME NEW l \in Seq(Nodes), NEW found, found \subseteq DOMAIN l, NEW n, NEW S \in Draws(found, n)
  PROVE  /\ {[pos |-> i, addr |-> l[i].addr] : i \in S} \in SUBSET Match
         /\ \A order \in Orders(S) : [j \in DOMAIN order |-> l[order[j]].addr] \in Seq(Addr)
<1>1. S \subseteq DOMAIN l /\ DOMAIN l = 1..Len(l) /\ Len(l) \in Nat
  BY DEF Draws
<1>2. \A i \in S : l[i].addr \in Addr /\ i \in Nat \ {0}
  <2>1. \A i \in DOMAIN l : l[i] \in Nodes
    BY Member
  <2> QED
    BY <1>1, <2>1 DEF Nodes
<1>3. IsFiniteSet(S) /\ Cardinality(S) \in Nat
  <2>1. IsFiniteSet(1..Len(l))
    BY <1>1, FS_Interval
  <2>2. IsFiniteSet(S)
    BY <1>1, <2>1, FS_Subset
  <2> QED
    BY <2>2, FS_CardinalityType
<1>4. ASSUME NEW order \in Orders(S) PROVE [j \in DOMAIN order |-> l[order[j]].addr] \in Seq(Addr)
  <2>1. order \in [1..Cardinality(S) -> S]
    BY DEF Orders
  <2> DEFINE c == Cardinality(S)
  <2>2. \A j \in 1..c : l[order[j]].addr \in Addr
    BY <1>2, <2>1
  <2>3. DOMAIN order = 1..c /\ c \in Nat
    BY <1>3, <2>1
  <2> HIDE DEF c
  <2> QED
    BY <2>2, <2>3
<1> QED
  BY <1>2, <1>4 DEF Match

LEMMA PickDataStep ==
  ASSUME Inv, NEW r \in Req, PickData(r)
  PROVE  Inv' /\ Ends(data, data')
<1> DEFINE s == Getting(r, 0)
           f == Searching(r, 0, s.d)
<1>1. PICK S \in Draws(f.found, Count) :
        SetReq(r, [req[r] EXCEPT !.st = "data", !.subs = s.subs,
                     !.nodes = {[pos |-> i, addr |-> f.d.list[i].addr] : i \in S}])
  BY DEF PickData
<1>2. CanPick(r, 0) /\ data' = f.d /\ stored' = s.c /\ UNCHANGED <<mutex, now, world, restarts>> /\ 0 \in 0..Len(req[r].subs)
  BY InvFacts DEF PickData
<1>3. DataInv(f.d, s.c) /\ f.found \subseteq DOMAIN f.d.list /\ Ends(data, f.d) /\ SubsInv(s.subs)
  BY <1>2, SearchingFacts, GettingFacts DEF Working
<1> HIDE DEF s, f
<1> DEFINE N == {[pos |-> i, addr |-> f.d.list[i].addr] : i \in S}
           q == [req[r] EXCEPT !.st = "data", !.subs = s.subs, !.nodes = N]
<1>4. f.d.list \in Seq(Nodes)
  BY <1>3 DEF DataInv, Fine, Datas
<1>5. N \in SUBSET Match
  BY <1>3, <1>4, DrawnFacts
<1> HIDE DEF N
<1>6. q \in Requests /\ q.subs = s.subs
  BY <1>3, <1>5, RequestTypes DEF Requests, SubsInv
<1>7. SetReq(r, q)
  BY <1>1 DEF N
<1> HIDE DEF q
<1>8. Inv'
  BY <1>2, <1>3, <1>6, <1>7, HandlerStep, RequestTypes
<1> QED
  BY <1>2, <1>3, <1>8

LEMMA PickSignerStep ==
  ASSUME Inv, NEW r \in Req, PickSigner(r)
  PROVE  Inv' /\ Ends(data, data')
<1> DEFINE s == Getting(r, 0)
           f == Searching(r, 0, s.d)
<1>1. PICK S \in Draws(f.found, SigCount) : \E order \in Orders(S) :
        SetReq(r, [req[r] EXCEPT !.st = "sent", !.subs = s.subs,
                     !.signers = [j \in DOMAIN order |-> f.d.list[order[j]].addr]])
  BY DEF PickSigner
<1>2. PICK order \in Orders(S) :
        SetReq(r, [req[r] EXCEPT !.st = "sent", !.subs = s.subs,
                     !.signers = [j \in DOMAIN order |-> f.d.list[order[j]].addr]])
  BY <1>1
<1>3. CanPick(r, 0) /\ data' = f.d /\ stored' = s.c /\ UNCHANGED <<mutex, now, world, restarts>> /\ 0 \in 0..Len(req[r].subs)
  BY InvFacts DEF PickSigner
<1>4. DataInv(f.d, s.c) /\ f.found \subseteq DOMAIN f.d.list /\ Ends(data, f.d) /\ SubsInv(s.subs)
  BY <1>3, SearchingFacts, GettingFacts DEF Working
<1> HIDE DEF s, f
<1> DEFINE N == [j \in DOMAIN order |-> f.d.list[order[j]].addr]
           q == [req[r] EXCEPT !.st = "sent", !.subs = s.subs, !.signers = N]
<1>5. f.d.list \in Seq(Nodes)
  BY <1>4 DEF DataInv, Fine, Datas
<1>6. N \in Seq(Addr)
  BY <1>4, <1>5, DrawnFacts
<1> HIDE DEF N
<1>7. q \in Requests /\ q.subs = s.subs
  BY <1>4, <1>6, RequestTypes DEF Requests, SubsInv
<1>8. SetReq(r, q)
  BY <1>2 DEF N
<1> HIDE DEF q
<1>9. Inv'
  BY <1>3, <1>4, <1>7, <1>8, HandlerStep, RequestTypes
<1> QED
  BY <1>3, <1>4, <1>9

LEMMA SendUnsignedStep ==
  ASSUME Inv, NEW r \in Req, SendUnsigned(r)
  PROVE  Inv' /\ Ends(data, data')
<1> DEFINE q == [req[r] EXCEPT !.st = "sent"]
<1>1. q \in Requests /\ q.subs = req[r].subs /\ SetReq(r, q)
  BY RequestTypes DEF Requests, SendUnsigned
<1> HIDE DEF q
<1>2. SubsInv(q.subs)
  BY <1>1, RequestTypes
<1>3. UNCHANGED <<data, stored, mutex, now, world, restarts>> /\ data \in Datas /\ DataInv(data, stored)
  BY InvFacts DEF SendUnsigned
<1>4. Inv'
  BY <1>1, <1>2, <1>3, HandlerStep, RequestTypes
<1> QED
  BY <1>3, <1>4, SameFollows, EndsFacts

LEMMA PickForSubStep ==
  ASSUME Inv, NEW r \in Req, PickForSub(r)
  PROVE  Inv' /\ Ends(data, data')
<1>1. PICK k \in DOMAIN req[r].subs :
        /\ CanPick(r, k)
        /\ data' = Searching(r, k, Getting(r, k).d).d /\ stored' = Getting(r, k).c
        /\ \E i \in Searching(r, k, Getting(r, k).d).found :
             SetReq(r, [req[r] EXCEPT !.st = "updating",
                 !.subs = [Getting(r, k).subs EXCEPT ![k].state = "waiting",
                                                     ![k].node = Searching(r, k, Getting(r, k).d).d.list[i].addr]])
        /\ mutex' = Free
        /\ UNCHANGED <<now, world, restarts>>
  BY DEF PickForSub
<1> DEFINE s == Getting(r, k)
           f == Searching(r, k, s.d)
<1>2. PICK i \in f.found :
         SetReq(r, [req[r] EXCEPT !.st = "updating",
                 !.subs = [s.subs EXCEPT ![k].state = "waiting", ![k].node = f.d.list[i].addr]])
  BY <1>1
<1>3. k \in 0..Len(req[r].subs)
  BY InvFacts
<1>4. DataInv(f.d, s.c) /\ f.found \subseteq DOMAIN f.d.list /\ Ends(data, f.d) /\ SubsInv(s.subs)
  BY <1>1, <1>3, SearchingFacts, GettingFacts DEF Working
<1>5. data' = f.d /\ stored' = s.c
  BY <1>1
<1> HIDE DEF s, f
<1>6. f.d.list[i].addr \in Addr
  <2>1. f.d.list \in Seq(Nodes)
    BY <1>4 DEF DataInv, Fine, Datas
  <2>2. f.d.list[i] \in Nodes
    BY <1>4, <2>1, Member
  <2> QED
    BY <2>2 DEF Nodes
<1> DEFINE x == [s.subs[k] EXCEPT !.state = "waiting", !.node = f.d.list[i].addr]
           t == [s.subs EXCEPT ![k] = x]
           q == [req[r] EXCEPT !.st = "updating", !.subs = t]
<1>7. [s.subs EXCEPT ![k].state = "waiting", ![k].node = f.d.list[i].addr] = t
  OBVIOUS
<1>8. SubsInv(t)
  <2>1. CASE k \in DOMAIN s.subs
    <3>1. s.subs[k] \in Subs
      BY <1>4, <2>1, Member DEF SubsInv
    <3>2. x \in Subs /\ x.state = "waiting"
      BY <1>6, <3>1 DEF Subs, SubStates
    <3> HIDE DEF x
    <3> QED
      BY <1>4, <2>1, <3>2, SetSub
  <2>2. CASE k \notin DOMAIN s.subs
    <3>1. t = s.subs
      BY <1>4, <2>2 DEF SubsInv
    <3> QED
      BY <1>4, <3>1
  <2> QED
    BY <2>1, <2>2
<1>9. SetReq(r, q)
  BY <1>2, <1>7
<1> HIDE DEF t
<1>10. q \in Requests /\ q.subs = t
  BY <1>8, RequestTypes DEF Requests, SubsInv
<1> HIDE DEF q
<1>11. Inv'
  BY <1>1, <1>4, <1>5, <1>8, <1>9, <1>10, HandlerStep, RequestTypes
<1> QED
  BY <1>4, <1>5, <1>11

LEMMA SubAnswersStep ==
  ASSUME Inv, NEW r \in Req, SubAnswers(r)
  PROVE  Inv' /\ Ends(data, data')
<1>1. PICK j \in DOMAIN req[r].subs, b \in Nat, sh \in Shapes, st \in {"ok", "empty"} :
        /\ b \in Blocks /\ (Proof => sh = "full")
        /\ SetReq(r, [req[r] EXCEPT !.subs[j].state = st, !.subs[j].block = b, !.subs[j].shape = sh])
  <2>1. PICK j \in DOMAIN req[r].subs : \E b \in Delivers(req[r].subs[j].node),
          sh \in IF Proof THEN {"full"} ELSE Shapes, st \in {"ok", "empty"} :
          SetReq(r, [req[r] EXCEPT !.subs[j].state = st, !.subs[j].block = b, !.subs[j].shape = sh])
    BY DEF SubAnswers
  <2>2. PICK b \in Delivers(req[r].subs[j].node), sh \in IF Proof THEN {"full"} ELSE Shapes, st \in {"ok", "empty"} :
          SetReq(r, [req[r] EXCEPT !.subs[j].state = st, !.subs[j].block = b, !.subs[j].shape = sh])
    BY <2>1
  <2>3. Registry \in Seq(Seq([addr : Addr, index : Nat])) /\ Blocks = 1..Len(Registry) /\ world \in Blocks
    BY ListAssumption DEF Blocks, Inv, TypeOK
  <2>4. b \in Blocks /\ b \in Nat
    BY <2>2, <2>3 DEF Delivers
  <2>5. sh \in Shapes /\ (Proof => sh = "full")
    BY DEF Shapes
  <2> QED
    BY <2>2, <2>4, <2>5
<1> DEFINE y == req[r].subs[j]
           x == [y EXCEPT !.state = st, !.block = b, !.shape = sh]
           t == [req[r].subs EXCEPT ![j] = x]
           q == [req[r] EXCEPT !.subs = t]
<1>2. [req[r] EXCEPT !.subs[j].state = st, !.subs[j].block = b, !.subs[j].shape = sh] = q
  OBVIOUS
<1>3. SubsInv(req[r].subs) /\ y \in Subs
  BY InvFacts, Member
<1>4. x \in Subs /\ x.block = b /\ x.shape = sh
  <2> HIDE DEF y
  <2> QED
    BY <1>1, <1>3 DEF Subs, SubStates
<1> HIDE DEF x
<1>5. SubsInv(t)
  BY <1>1, <1>3, <1>4, SetSub
<1> HIDE DEF t
<1>6. q \in Requests /\ q.subs = t
  BY <1>5, RequestTypes
<1>7. SetReq(r, q)
  BY <1>1, <1>2, Zenon
<1> HIDE DEF q
<1>8. UNCHANGED <<data, stored, mutex, now, world, restarts>> /\ data \in Datas /\ DataInv(data, stored)
  BY InvFacts DEF SubAnswers
<1>9. Inv'
  BY <1>5, <1>6, <1>7, <1>8, HandlerStep, RequestTypes
<1> QED
  BY <1>8, <1>9, SameFollows, EndsFacts

(* A handler that bans nodes. *)
LEMMA BanStep ==
  ASSUME Inv, NEW r \in Req, NEW q \in Requests, SubsInv(q.subs), SetReq(r, q), Bans(data, data'),
         UNCHANGED <<stored, mutex, now, world, restarts>>
  PROVE  Inv' /\ Ends(data, data')
<1>1. data \in Datas /\ DataInv(data, stored)
  BY InvFacts
<1>2. DataInv(data', stored') /\ Ends(data, data')
  BY <1>1, BansInv, BansEnds
<1>3. Inv'
  BY <1>2, HandlerStep, RequestTypes
<1> QED
  BY <1>2, <1>3

LEMMA SubRejectedStep ==
  ASSUME Inv, NEW r \in Req, SubRejected(r)
  PROVE  Inv' /\ Ends(data, data')
<1>1. PICK j \in DOMAIN req[r].subs :
        /\ data' = BlacklistAddr(data, req[r].subs[j].node)
        /\ \/ SetReq(r, [req[r] EXCEPT !.subs[j].state = "pick", !.subs[j].node = NoAddr])
           \/ SetReq(r, IF req[r].subs[j].kind = "nodeList"
                        THEN [req[r] EXCEPT !.subs[j].state = "error"] ELSE Idle)
  BY DEF SubRejected
<1>2. UNCHANGED <<stored, mutex, now, world, restarts>>
  BY DEF SubRejected
<1>3. Bans(data, data')
  BY <1>1, InvFacts, BlacklistAddrBans
<1>4. \E q \in Requests : SubsInv(q.subs) /\ SetReq(r, q)
  <2>1. CASE SetReq(r, IF req[r].subs[j].kind = "nodeList"
                       THEN [req[r] EXCEPT !.subs[j].state = "error"] ELSE Idle)
    BY <2>1, ErrorSub, RequestTypes
  <2>2. CASE SetReq(r, [req[r] EXCEPT !.subs[j].state = "pick", !.subs[j].node = NoAddr])
    <3> DEFINE y == req[r].subs[j]
               x == [y EXCEPT !.state = "pick", !.node = NoAddr]
               t == [req[r].subs EXCEPT ![j] = x]
               q == [req[r] EXCEPT !.subs = t]
    <3>1. [req[r] EXCEPT !.subs[j].state = "pick", !.subs[j].node = NoAddr] = q
      OBVIOUS
    <3>2. SubsInv(req[r].subs) /\ y \in Subs
      BY InvFacts, Member
    <3>3. x \in Subs /\ x.state = "pick"
      <4> HIDE DEF y
      <4> QED
        BY <3>2 DEF Subs, SubStates
    <3> HIDE DEF x
    <3>4. SubsInv(t)
      BY <3>2, <3>3, SetSub
    <3> HIDE DEF t
    <3>5. q \in Requests /\ q.subs = t
      BY <3>4, RequestTypes
    <3>6. SetReq(r, q)
      BY <2>2, <3>1, Zenon
    <3> HIDE DEF q
    <3> QED
      BY <3>4, <3>5, <3>6
  <2> QED
    BY <1>1, <2>1, <2>2
<1> QED
  BY <1>2, <1>3, <1>4, BanStep

LEMMA FailableStep ==
  ASSUME Inv, NEW r \in Req, Failable(r)
  PROVE  Inv' /\ Ends(data, data')
<1>1. PICK j \in DOMAIN req[r].subs :
        /\ data' = DropUpdate(data)
        /\ SetReq(r, [req[r] EXCEPT !.subs = RemoveSub(req[r].subs, j)])
  BY DEF Failable
<1>2. UNCHANGED <<stored, mutex, now, world, restarts>>
  BY DEF Failable
<1>3. Bans(data, data')
  BY <1>1, InvFacts, DropUpdateBans
<1> DEFINE t == RemoveSub(req[r].subs, j)
           q == [req[r] EXCEPT !.subs = t]
<1>4. SubsInv(t)
  BY InvFacts, RemoveSubFacts
<1> HIDE DEF t
<1>5. q \in Requests /\ q.subs = t
  BY <1>4, RequestTypes
<1>6. SetReq(r, q)
  BY <1>1 DEF t
<1> HIDE DEF q
<1> QED
  BY <1>2, <1>3, <1>4, <1>5, <1>6, BanStep

LEMMA RejectedFacts ==
  ASSUME Inv, NEW r \in Req, NEW m, Rejected(r, m)
  PROVE  \E q \in Requests : SubsInv(q.subs) /\ SetReq(r, q)
<1> DEFINE q == [req[r] EXCEPT !.nodes = req[r].nodes \ {m}]
<1>1. q \in Requests /\ q.subs = req[r].subs
  BY RequestTypes DEF Requests
<1>2. SetReq(r, Idle) \/ SetReq(r, q)
  BY DEF Rejected
<1> HIDE DEF q
<1> QED
  BY <1>1, <1>2, RequestTypes

LEMMA RejectStep ==
  ASSUME Inv, NEW r \in Req, Reject(r)
  PROVE  Inv' /\ Ends(data, data')
<1>1. PICK m \in req[r].nodes : data' = BlacklistAddr(data, m.addr) /\ Rejected(r, m)
        /\ UNCHANGED <<stored, mutex, now, world, restarts>>
  BY DEF Reject
<1>2. Bans(data, data')
  BY <1>1, InvFacts, BlacklistAddrBans
<1> QED
  BY <1>1, <1>2, RejectedFacts, BanStep

LEMMA RejectSignerStep ==
  ASSUME Inv, NEW r \in Req, RejectSigner(r)
  PROVE  Inv' /\ Ends(data, data')
<1>1. PICK m \in req[r].nodes, i \in DOMAIN req[r].signers :
        /\ data' = BlacklistAddr(BlacklistAddr(data, req[r].signers[i]), m.addr) /\ Rejected(r, m)
        /\ UNCHANGED <<stored, mutex, now, world, restarts>>
  BY DEF RejectSigner
<1> DEFINE e == BlacklistAddr(data, req[r].signers[i])
<1>2. Bans(data, e)
  BY InvFacts, BlacklistAddrBans
<1>3. e \in Datas
  BY <1>2 DEF Bans, Touched
<1> HIDE DEF e
<1>4. Bans(e, BlacklistAddr(e, m.addr))
  BY <1>3, InvFacts, BlacklistAddrBans
<1>5. Bans(data, data')
  BY <1>1, <1>2, <1>4, BansTrans DEF e
<1> QED
  BY <1>1, <1>5, RejectedFacts, BanStep

LEMMA MissingSignaturesStep ==
  ASSUME Inv, NEW r \in Req, MissingSignatures(r)
  PROVE  Inv' /\ Ends(data, data')
<1>1. PICK m \in req[r].nodes, missing \in (SUBSET ToSet(req[r].signers)) \ {{}}, g \in Addr :
        /\ data' = HandleOffline(data, req[r].signers, missing, m.addr, g) /\ Rejected(r, m)
        /\ UNCHANGED <<stored, mutex, now, world, restarts>>
  BY DEF MissingSignatures
<1>2. m.addr \in Addr /\ req[r].signers \in Seq(Addr)
  BY RequestTypes DEF Requests, Match
<1>3. Bans(data, data')
  BY <1>1, <1>2, InvFacts, HandleOfflineBans
<1> QED
  BY <1>1, <1>3, RejectedFacts, BanStep

(* check_autoupdate changes the plans for an update, and not the list. *)
LEMMA FollowupsFacts ==
  ASSUME Inv, NEW r \in Req, NEW m \in req[r].nodes, NEW d \in Followups(m)
  PROVE  Alike(data, d) /\ White(d)
<1>1. data \in Datas /\ White(data) /\ now \in Nat /\ m \in Match /\ data.list \in Seq(Nodes)
  BY InvFacts, RequestTypes DEF DataInv, Requests, Datas
<1>2. Alike(data, data)
  BY <1>1 DEF Alike
<1>3. CASE d = data
  BY <1>1, <1>2, <1>3
<1>4. CASE d # data
  <2>1. PICK lnl \in Reports(m.addr), wait \in {0, 1}, junk \in Uninitialised :
          d = AutoupdateWhitelist(Autoupdate(data, m, lnl, wait, junk), lnl)
    BY <1>4 DEF Followups
  <2>2. lnl \in Nat /\ now + wait \in Nat
    <3>1. Blocks \subseteq Nat /\ world \in Blocks
      BY RegistryFacts DEF Inv, TypeOK
    <3> QED
      BY <1>1, <3>1 DEF Reports
  <2>3. junk \in Updates
    <3>1. MaxTime \in Nat
      BY TimeAssumption
    <3>2. Update(0, 0, NoAddr) \in Updates /\ Update(1, MaxTime, NoAddr) \in Updates
      BY <3>1 DEF Update, Updates
    <3>3. junk = Update(0, 0, NoAddr) \/ junk = Update(1, MaxTime, NoAddr)
      BY DEF Uninitialised
    <3> QED
      BY <3>2, <3>3
  <2> DEFINE e == Autoupdate(data, m, lnl, wait, junk)
  <2>4. e = data \/ \E u \in Updates : e = [data EXCEPT !.upd = u]
    <3>1. CASE m.pos \in DOMAIN data.list
      <4>1. data.list[m.pos] \in Nodes
        BY <1>1, <3>1, Member
      <4>2. Update(lnl, now + wait, data.list[m.pos].addr) \in Updates
        BY <2>2, <4>1 DEF Update, Updates, Nodes
      <4> QED
        BY <3>1, <4>2 DEF Autoupdate
    <3>2. CASE m.pos \notin DOMAIN data.list
      BY <2>3, <3>2 DEF Autoupdate
    <3> QED
      BY <3>1, <3>2
  <2> HIDE DEF e
  <2>5. e \in Datas /\ e.list = data.list /\ e.last = data.last /\ e.dirty = data.dirty /\ e.wl = data.wl
    BY <1>1, <2>4 DEF Datas, Updates
  <2>6. d = e \/ d = [e EXCEPT !.wl.needs = TRUE]
    BY <2>1 DEF AutoupdateWhitelist, e
  <2> DEFINE w == [e.wl EXCEPT !.needs = TRUE]
  <2>7. w \in [needs : BOOLEAN, last : Nat, addrs : Seq(Addr)] /\ w.addrs = e.wl.addrs
    BY <2>5 DEF Datas
  <2>8. [e EXCEPT !.wl.needs = TRUE] = [e EXCEPT !.wl = w]
    OBVIOUS
  <2> HIDE DEF w
  <2>9. d \in Datas /\ d.list = e.list /\ d.last = e.last /\ d.dirty = e.dirty /\ d.wl.addrs = e.wl.addrs
    <3>1. CASE d = e
      BY <2>5, <3>1
    <3>2. CASE d = [e EXCEPT !.wl = w]
      BY <2>5, <2>7, <3>2 DEF Datas
    <3> QED
      BY <2>6, <2>8, <3>1, <3>2
  <2> QED
    BY <1>1, <2>5, <2>9 DEF Alike, White
<1> QED
  BY <1>3, <1>4

LEMMA AcceptStep ==
  ASSUME Inv, NEW r \in Req, Accept(r)
  PROVE  Inv' /\ Ends(data, data')
<1>1. PICK m \in req[r].nodes :
        /\ \E d \in Followups(m) : data' = Clean(d) /\ stored' = Store(d, stored)
        /\ SetReq(r, Idle)
        /\ UNCHANGED <<mutex, now, world, restarts>>
  BY DEF Accept
<1>2. PICK d \in Followups(m) : data' = Clean(d) /\ stored' = Store(d, stored)
  BY <1>1
<1>3. Alike(data, d) /\ White(d)
  BY FollowupsFacts
<1>4. data \in Datas /\ DataInv(data, stored)
  BY InvFacts
<1>5. DataInv(d, stored)
  BY <1>3, <1>4, AlikeInv DEF DataInv
<1>6. DataInv(Clean(d), Store(d, stored))
  BY <1>5, StoreInv DEF DataInv
<1>7. Follows(data, d)
  BY <1>3, <1>4, SameFollows, AlikeFollows
<1>8. Clean(d).list = d.list /\ Clean(d).last = d.last
  BY <1>5 DEF Clean, DataInv, Fine, Datas
<1>9. Ends(data, Clean(d))
  BY <1>7, <1>8 DEF Ends, Follows, Keeps
<1>10. Inv'
  BY <1>1, <1>2, <1>6, HandlerStep, RequestTypes
<1> QED
  BY <1>2, <1>9, <1>10

-----------------------------------------------------------------------------
(* init_boot_nodes *)
LEMMA BootListFacts ==
  /\ BootList \in Seq(Nodes) /\ BootList # <<>> /\ Len(BootList) = Len(Boot)
  /\ \A i \in 1..Len(Boot) : BootList[i].addr = Boot[i] /\ ~BootList[i].white /\ BootList[i].until = 0
<1> DEFINE n(i) == Node(Boot[i], i, TRUE, 0)
<1>1. Boot \in Seq(Addr) /\ DOMAIN Boot = 1..Len(Boot) /\ Len(Boot) \in Nat /\ Len(Boot) # 0
  BY BootAssumption
<1>2. ASSUME NEW i \in 1..Len(Boot) PROVE n(i) \in Nodes /\ n(i).addr = Boot[i] /\ ~n(i).white /\ n(i).until = 0
  <2>1. Boot[i] \in Addr
    BY <1>1
  <2> QED
    BY <2>1 DEF Node, Nodes
<1>3. BootList = [i \in 1..Len(Boot) |-> n(i)]
  BY <1>1 DEF BootList
<1> HIDE DEF n
<1>4. BootList \in Seq(Nodes) /\ Len(BootList) = Len(Boot) /\ \A i \in 1..Len(Boot) : BootList[i] = n(i)
  BY <1>1, <1>2, <1>3
<1>5. BootList # <<>>
  BY <1>1, <1>4
<1> QED
  BY <1>2, <1>4, <1>5

LEMMA FreshDataFacts ==
  ASSUME NEW c, FineCopy(c), now \in Nat, (Proof /\ Storage /\ c.list = <<>>) => c.last = 0
  PROVE  DataInv(FreshData(c), c) /\ FreshData(c).last = IF c.list # <<>> THEN c.last ELSE 0
<1> DEFINE cached == c.list # <<>>
           white == c.wlAddrs # <<>> /\ WhiteMode = "contract"
           l == IF cached THEN c.list ELSE BootList
           b == IF cached THEN c.last ELSE 0
           u == IF cached THEN NoUpdate ELSE Update(0, 0, NoAddr)
           n == WhiteMode = "contract"
           w == [needs |-> n, last |-> IF white THEN c.wlLast ELSE 0,
                 addrs |-> IF white THEN c.wlAddrs ELSE IF WhiteMode = "manual" THEN WhiteLists[1] ELSE <<>>]
           x == [list |-> l, last |-> b, upd |-> u, offlines |-> <<>>, dirty |-> FALSE, wl |-> w]
<1>1. FreshData(c) = RunWhitelisting(x)
  BY DEF FreshData
<1>2. c \in Copies /\ c.list \in Seq(Nodes) /\ DOMAIN c.list = 1..Len(c.list)
  BY DEF FineCopy, Copies
<1>3. l \in Seq(Nodes) /\ l # <<>> /\ b \in Nat /\ u \in Updates /\ \A i \in DOMAIN l : ~l[i].white
  <2>1. CASE cached
    BY <1>2, <2>1, NoUpdateType DEF FineCopy, Copies
  <2>2. CASE ~cached
    <3>1. Update(0, 0, NoAddr) \in Updates
      BY DEF Update, Updates
    <3>2. DOMAIN BootList = 1..Len(Boot)
      BY BootListFacts
    <3> QED
      BY <2>2, <3>1, <3>2, BootListFacts
  <2> QED
    BY <2>1, <2>2
<1>4. w \in [needs : BOOLEAN, last : Nat, addrs : Seq(Addr)]
  <2>1. c.wlLast \in Nat /\ c.wlAddrs \in Seq(Addr) /\ WhiteLists[1] \in Seq(Addr) /\ n \in BOOLEAN
    BY <1>2, RegistryFacts DEF Copies
  <2> HIDE DEF n
  <2> QED
    BY <2>1
<1>5. Proof => Registered(l, b)
  <2>1. CASE cached
    BY <2>1 DEF FineCopy
  <2>2. CASE ~cached
    <3>1. DOMAIN Boot = 1..Len(Boot)
      BY BootAssumption
    <3> QED
      BY <2>2, <3>1, BootListFacts DEF Registered
  <2> QED
    BY <2>1, <2>2
<1>6. Distinct => Different(l)
  <2>1. CASE cached
    BY <2>1 DEF FineCopy
  <2>2. CASE ~cached
    <3>1. DOMAIN Boot = 1..Len(Boot) /\ DOMAIN BootList = 1..Len(Boot)
      BY BootAssumption, BootListFacts
    <3> QED
      BY <2>2, <3>1, BootListFacts DEF Distinct, Different
  <2> QED
    BY <2>1, <2>2
<1>7. ASSUME NEW i \in DOMAIN l, l[i].until > now PROVE i \in DOMAIN c.list /\ c.list[i] = l[i]
  <2>1. CASE cached
    BY <2>1
  <2>2. CASE ~cached
    <3>1. DOMAIN BootList = 1..Len(Boot)
      BY BootListFacts
    <3> QED
      BY <1>7, <2>2, <3>1, BootListFacts
  <2> QED
    BY <2>1, <2>2
<1>8. Proof /\ Storage => c.last = b /\ (b # 0 => c.list # <<>>)
  OBVIOUS
<1>9. b = IF c.list # <<>> THEN c.last ELSE 0
  OBVIOUS
<1> HIDE DEF l, b, u, w
<1>10. x \in Datas /\ x.list = l /\ x.last = b /\ x.wl = w
  BY <1>3, <1>4 DEF Datas, Updates
<1> HIDE DEF x
<1>11. Fine(x) /\ White(x)
  BY <1>3, <1>5, <1>6, <1>10 DEF Fine, White
<1>12. Linked(x, c)
  BY <1>7, <1>8, <1>10 DEF Linked, Saved, Banned
<1>13. DataInv(RunWhitelisting(x), c) /\ RunWhitelisting(x).last = x.last
  BY <1>10, <1>11, <1>12, RunWhitelistingInv, RunWhitelistingAlike DEF Alike
<1> QED
  BY <1>1, <1>9, <1>10, <1>13

LEMMA InitInv ==
  Init => Inv
<1> SUFFICES ASSUME Init PROVE Inv
  OBVIOUS
<1>1. now \in Nat /\ now \in StartTime..MaxTime /\ world \in Blocks /\ restarts \in 0..Restarts
  BY TimeAssumption, RequestAssumption, RegistryFacts DEF Init
<1>2. FineCopy(stored) /\ stored.last = 0
  <2>1. stored \in Copies /\ stored.list = <<>> /\ stored.last = 0
    BY DEF Init, NothingStored, Copies
  <2> QED
    BY <2>1 DEF FineCopy, Different
<1>3. DataInv(data, stored)
  BY <1>1, <1>2, FreshDataFacts DEF Init
<1>4. Idle \in Requests /\ Idle.subs = <<>> /\ SubsInv(<<>>)
  BY DEF Idle, Requests, SubsInv
<1>5. req \in [Req -> Requests] /\ \A r \in Req : req[r] = Idle
  BY <1>4 DEF Init
<1>6. mutex \in [owner : Req \cup {NoReq}, base : Nat]
  BY DEF Init, Free
<1>7. TypeOK
  BY <1>1, <1>3, <1>5, <1>6 DEF TypeOK, DataInv, Fine, FineCopy, Datas, Copies, Requests
<1> QED
  BY <1>3, <1>4, <1>5, <1>7 DEF Inv

(* The program starts again with what it has stored. *)
LEMMA RestartStep ==
  ASSUME Inv, Restart
  PROVE  Inv' /\ restarts' # restarts /\ Restarts # 0 /\ (Proof /\ Storage => data'.last = data.last)
<1>1. data' = FreshData(stored) /\ req' = [r \in Req |-> Idle] /\ mutex' = Free /\ UNCHANGED <<stored, now, world>>
      /\ restarts > 0 /\ restarts' = restarts - 1
  BY DEF Restart
<1>2. restarts' \in 0..Restarts /\ restarts' # restarts /\ Restarts # 0
  BY <1>1, RequestAssumption DEF Inv, TypeOK
<1>3. DataInv(data, stored) /\ now \in Nat /\ data \in Datas
  BY InvFacts
<1>4. DataInv(data', stored) /\ data'.last = IF stored.list # <<>> THEN stored.last ELSE 0
  BY <1>1, <1>3, FreshDataFacts DEF DataInv, Linked
<1>5. DataInv(data, stored)'
  BY <1>1, <1>4 DEF DataInv, Fine, FineCopy, White, Linked, Saved, Banned, Registered, Different, Distinct
<1>6. Idle \in Requests /\ Idle.subs = <<>> /\ SubsInv(<<>>)
  BY DEF Idle, Requests, SubsInv
<1>7. req' \in [Req -> Requests] /\ \A r \in Req : req'[r] = Idle
  BY <1>1, <1>6
<1>8. mutex' \in [owner : Req \cup {NoReq}, base : Nat]
  BY <1>1 DEF Free
<1>9. TypeOK'
  BY <1>1, <1>2, <1>4, <1>7, <1>8 DEF Inv, TypeOK, DataInv, Fine, FineCopy, Datas, Copies, Requests
<1>10. Inv'
  BY <1>5, <1>6, <1>7, <1>9 DEF Inv, SubsInv
<1>11. Proof /\ Storage => data'.last = data.last
  BY <1>3, <1>4 DEF DataInv, Linked
<1> QED
  BY <1>2, <1>10, <1>11

LEMMA TickStep ==
  ASSUME Inv, Tick
  PROVE  Inv' /\ data' = data
<1>1. now' = now + 1 /\ now < MaxTime /\ UNCHANGED <<data, stored, req, mutex, world, restarts>>
  BY DEF Tick
<1>2. now \in Nat /\ now' \in Nat /\ now' \in StartTime..MaxTime
  BY <1>1, TimeAssumption, InvFacts DEF Inv, TypeOK
<1>3. DataInv(data, stored)
  BY InvFacts
<1>4. data.list \in Seq(Nodes) /\ \A i \in DOMAIN data.list : data.list[i].until \in Nat
  <2>1. data.list \in Seq(Nodes)
    BY InvFacts DEF Datas
  <2>2. \A i \in DOMAIN data.list : data.list[i] \in Nodes
    BY <2>1, Member
  <2> QED
    BY <2>1, <2>2 DEF Nodes
<1>5. DataInv(data, stored)'
  <2>1. Saved(data, stored)'
    BY <1>1, <1>2, <1>3, <1>4 DEF DataInv, Linked, Saved, Banned
  <2> QED
    BY <1>1, <1>3, <2>1 DEF DataInv, Fine, FineCopy, White, Linked, Registered, Different, Distinct
<1>6. TypeOK'
  BY <1>1, <1>2 DEF Inv, TypeOK
<1>7. \A r \in Req : SubsInv(req'[r].subs)
  BY <1>1 DEF Inv
<1> QED
  BY <1>1, <1>5, <1>6, <1>7 DEF Inv, SubsInv

LEMMA StutterStep ==
  ASSUME Inv, UNCHANGED <<data, stored, req, mutex, now, restarts>>, world' \in Blocks
  PROVE  Inv' /\ data' = data
<1>1. DataInv(data, stored)'
  BY DEF Inv, DataInv, Fine, FineCopy, White, Linked, Saved, Banned, Registered, Different, Distinct
<1>2. TypeOK'
  BY DEF Inv, TypeOK
<1>3. \A r \in Req : SubsInv(req'[r].subs)
  BY DEF Inv
<1> QED
  BY <1>1, <1>2, <1>3 DEF Inv, SubsInv

-----------------------------------------------------------------------------
(* A handler keeps the invariant, and the client does not go back to an older *)
(* list and does not forget bans.                                             *)
LEMMA HandlerInv ==
  ASSUME Inv, NEW r \in Req, Handler(r)
  PROVE  Inv' /\ Ends(data, data')
BY StartStep, PickUpdatesStep, PickFailsStep, PickDataStep, PickSignerStep, SendUnsignedStep,
   PickForSubStep, SubAnswersStep, SubRejectedStep, FailableStep, RejectStep, RejectSignerStep,
   MissingSignaturesStep, AcceptStep DEF Handler

LEMMA SameEnds ==
  ASSUME Inv, data' = data
  PROVE  Ends(data, data')
<1>1. data \in Datas
  BY InvFacts
<1>2. Ends(data, data)
  BY <1>1, SameFollows, EndsFacts
<1> QED
  BY <1>2 DEF Ends, Keeps, AddrsOf

LEMMA NextStep ==
  ASSUME Inv, [Next]_vars
  PROVE  /\ Inv'
         /\ \/ Ends(data, data')
            \/ restarts' # restarts /\ Restarts # 0 /\ (Proof /\ Storage => data'.last = data.last)
<1>1. ASSUME NEW r \in Req, Handler(r) PROVE Inv' /\ Ends(data, data')
  BY <1>1, HandlerInv
<1>2. CASE Restart
  BY <1>2, RestartStep
<1>3. CASE Tick
  BY <1>3, TickStep, SameEnds
<1>4. CASE RegistryChanges
  BY <1>4, StutterStep, SameEnds DEF RegistryChanges
<1>5. CASE UNCHANGED vars
  <2>1. world' \in Blocks /\ UNCHANGED <<data, stored, req, mutex, now, restarts>>
    BY <1>5 DEF vars, Inv, TypeOK
  <2> QED
    BY <2>1, StutterStep, SameEnds
<1> QED
  BY <1>1, <1>2, <1>3, <1>4, <1>5 DEF Next

-----------------------------------------------------------------------------
(* in3_node_list_pick_nodes: a search every node fits finds one. *)
LEMMA SearchFinds ==
  ASSUME NEW d \in Datas, d.list # <<>>, Unfit = {}, WhiteMode = "none", now \in Nat
  PROVE  Search(d, {}, {}).found # {}
<1> DEFINE found == Matching(d, Preselected, {}, {})
           again == Matching(LiftBans(d), {}, {}, {})
           banned == {i \in DOMAIN d.list : Banned(d, i)}
<1>1. d.list \in Seq(Nodes) /\ DOMAIN d.list = 1..Len(d.list) /\ Len(d.list) \in Nat /\ Len(d.list) # 0
  BY DEF Datas
<1>2. again # {}
  <2>1. Touched(d, LiftBans(d)) /\ \A i \in 1..Len(d.list) : LiftBans(d).list[i].until = 0
    BY <1>1, LiftBansFacts
  <2> DEFINE e == LiftBans(d)
  <2>2. e.list \in Seq(Nodes) /\ Len(e.list) = Len(d.list)
    BY <2>1 DEF Touched, Datas
  <2>3. 1 \in DOMAIN e.list /\ e.list[1].until = 0
    BY <1>1, <2>1, <2>2
  <2>4. ~Banned(e, 1)
    BY <2>3 DEF Banned
  <2> HIDE DEF e
  <2>5. 1 \in Matching(e, {}, {}, {})
    BY <2>3, <2>4 DEF Matching, Allowed
  <2> QED
    BY <2>5 DEF e
<1>3. ASSUME found = {}, Preselected = {} PROVE TooManyBanned(d)
  <2>1. banned = 1..Len(d.list)
    BY <1>1, <1>3 DEF Matching, Allowed
  <2> DEFINE n == Len(d.list)
  <2>2. n \in Nat /\ n # 0 /\ banned = 1..n
    BY <1>1, <2>1
  <2> HIDE DEF n, banned
  <2>3. Cardinality(1..n) = n
    BY <2>2, FS_Interval
  <2>4. n > n \div 2
    BY <2>2
  <2> QED
    BY <2>2, <2>3, <2>4 DEF TooManyBanned, banned, n
<1>4. Search(d, {}, {}).found
        = IF found = {} /\ (TooManyBanned(d) \/ Preselected # {}) THEN again ELSE found
  BY DEF Search
<1> QED
  BY <1>2, <1>3, <1>4

LEMMA InvFindsNodes ==
  ASSUME Inv
  PROVE  NeverStarved
<1> SUFFICES ASSUME NEW r \in Req, CanPick(r, 0), req[r].st = "updating", req[r].filter = {},
                    Unfit = {}, WhiteMode = "none"
             PROVE  Searching(r, 0, Getting(r, 0).d).found # {}
  BY DEF NeverStarved
<1> DEFINE d == Getting(r, 0).d
<1>1. req[r].subs \in Seq(Subs) /\ now \in Nat
  BY InvFacts
<1>2. Working(Getting(r, 0))
  <2>1. 0 \in 0..Len(req[r].subs)
    BY <1>1
  <2> QED
    BY <2>1, GettingFacts
<1>3. d \in Datas /\ d.list # <<>>
  BY <1>2 DEF Working, DataInv, Fine
<1> HIDE DEF d
<1>4. Search(d, {}, {}).found # {}
  BY <1>1, <1>3, SearchFinds
<1>5. Searching(r, 0, d) = Search(d, {}, {})
  BY DEF Searching
<1> QED
  BY <1>4, <1>5 DEF d

-----------------------------------------------------------------------------
LEMMA Invariance == Spec => []Inv
<1>1. Init => Inv
  BY InitInv
<1>2. Inv /\ [Next]_vars => Inv'
  BY NextStep
<1> QED
  BY <1>1, <1>2, PTL DEF Spec

(* The type invariant of the node selection: whatever nodes report and        *)
(* deliver, positions, blocks and times are numbers and the addresses in the  *)
(* list, in its stored copy, in the requests and in the contexts they require *)
(* are addresses of nodes (nodelist.c, nodeselect_def.c, cache.c).            *)
THEOREM TypeCorrect == Spec => []TypeOK
<1>1. Inv => TypeOK
  BY DEF Inv
<1> QED
  BY <1>1, Invariance, PTL

(* With verified lists the list of the client always is the one the registry  *)
(* contract had at last_block, or the boot nodes: fill_chain never mixes two   *)
(* lists, whatever update or restart comes between.                           *)
THEOREM ListRegistered ==
  ASSUME Proof
  PROVE  Spec => []ListIsRegistered
<1>1. Inv => ListIsRegistered
  BY DEF Inv, DataInv, Fine, Registered, ListIsRegistered
<1> QED
  BY <1>1, Invariance, PTL

(* Only nodes of the current whitelist are flagged as such                    *)
(* (in3_client_run_chain_whitelisting), however node lists, whitelists and    *)
(* restarts follow each other.                                                *)
THEOREM WhiteSound == Spec => []WhiteFlagsSound
<1>1. Inv => WhiteFlagsSound
  BY DEF Inv, DataInv, White, WhiteFlagsSound
<1> QED
  BY <1>1, Invariance, PTL

(* A ban in force is in the stored copy, or the list is dirty and going to be *)
(* stored (blacklist_node, in3_cache_store_nodelist).                         *)
THEOREM BansSaved == Spec => []BansAreSaved
<1>1. Inv => BansAreSaved
  BY DEF Inv, DataInv, Linked, Saved, BansAreSaved
<1> QED
  BY <1>1, Invariance, PTL

(* A request any node could answer is never left without one, however many    *)
(* nodes have been banned (in3_node_list_pick_nodes).                         *)
THEOREM NotStarved == Spec => []NeverStarved
<1> QED
  BY InvFindsNodes, Invariance, PTL

(* The client never goes back to an older list: not by any order of answers   *)
(* to concurrent updates (fill_chain), and not by a restart when lists are    *)
(* verified and stored (in3_cache_store_nodelist).                            *)
THEOREM NeverFalls ==
  ASSUME Restarts = 0 \/ (Storage /\ Proof)
  PROVE  Spec => LastBlockNeverFalls
<1>1. Inv /\ [Next]_vars => [data'.last >= data.last]_vars
  <2> SUFFICES ASSUME Inv, [Next]_vars
               PROVE  data'.last >= data.last
    OBVIOUS
  <2>1. data.last \in Nat
    BY InvFacts DEF Datas
  <2> QED
    BY <2>1, NextStep DEF Ends
<1> QED
  BY <1>1, Invariance, PTL DEF Spec, LastBlockNeverFalls

(* A banned node is still banned after the list has been replaced, wherever   *)
(* it is in the new one (fill_chain), unless the same call lifted all bans.   *)
(* No address may be twice in a list, as the contract guarantees.             *)
THEOREM BansKept ==
  ASSUME Distinct
  PROVE  Spec => UpdateKeepsBans
<1> DEFINE Kept ==
      (restarts' = restarts /\ data'.last # data.last) =>
        \/ \A i \in DOMAIN data'.list : data'.list[i].until = 0
        \/ \A i \in DOMAIN data.list :
             (Banned(data, i) /\ data.list[i].addr \in AddrsOf(data'.list)) =>
               \E j \in DOMAIN data'.list :
                 data'.list[j].addr = data.list[i].addr /\ data'.list[j].until > now
<1>1. Inv /\ [Next]_vars => [Kept]_vars
  <2> SUFFICES ASSUME Inv, [Next]_vars, restarts' = restarts
               PROVE  Keeps(data, data') \/ \A i \in DOMAIN data'.list : data'.list[i].until = 0
    BY DEF Keeps
  <2> QED
    BY NextStep DEF Ends
<1> QED
  BY <1>1, Invariance, PTL DEF Spec, UpdateKeepsBans

=============================================================================
