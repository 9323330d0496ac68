-------------------------------- MODULE Feed --------------------------------
(***************************************************************************)
(* What a filter promises, whoever polls it and however often: a cursor    *)
(* over the blocks of a chain that only grows.  A block filter reports     *)
(* every block behind its cursor once; an event filter reports the logs of *)
(* every block from its cursor on, and may report some of them again.      *)
(***************************************************************************)
EXTENDS Integers

CONSTANTS Id, MaxHead, None

VARIABLES
  head,  \* the last block of the chain
  feeds  \* None or [kind, last, lo, hi, seen] for each id: the cursor, the
         \* blocks asked for, and how often each block was reported so far

vars == <<head, feeds>>

Init == head = 1 /\ feeds = [i \in Id |-> None]

Grow == head < MaxHead /\ head' = head + 1 /\ UNCHANGED feeds

(* What feeds'[i] may be, whose other entries stay. *)
Changed(i) == feeds' = [feeds EXCEPT ![i] = feeds'[i]]

Install(i) ==
  /\ feeds[i] = None /\ feeds'[i] # None
  /\ feeds'[i].kind \in {"event", "block"} /\ feeds'[i].last \in 1..head
  /\ feeds'[i].seen = [b \in 1..MaxHead |-> 0]
  /\ Changed(i) /\ UNCHANGED head

Remove ==
  /\ \A i \in Id : feeds'[i] \in {None, feeds[i]}
  /\ UNCHANGED head

(* The blocks up to n were new, and n is a block of the chain. *)
Reports(f, n, seen) ==
  IF f.kind = "block"
  THEN seen = [b \in 1..MaxHead |-> IF f.last < b /\ b <= n THEN f.seen[b] + 1 ELSE f.seen[b]]
  ELSE /\ \A b \in 1..MaxHead : f.last <= b /\ b <= n /\ f.lo <= b /\ b <= f.hi => seen[b] > 0
       /\ \A b \in 1..MaxHead : seen[b] >= f.seen[b]

Poll(i) ==
  /\ feeds[i] # None /\ feeds'[i] # None
  /\ \E n \in feeds[i].last..head :
       /\ feeds'[i] = [feeds[i] EXCEPT !.last = IF feeds[i].kind = "block" THEN n ELSE n + 1, !.seen = feeds'[i].seen]
       /\ Reports(feeds[i], n, feeds'[i].seen)
  /\ Changed(i) /\ UNCHANGED head

Next ==
  \/ Grow
  \/ \E i \in Id : Install(i) \/ Poll(i)
  \/ Remove

Spec == Init /\ [][Next]_vars
=============================================================================
