-------------------------------- MODULE Usn --------------------------------
(***************************************************************************)
(* api/usn/usn_api.c: a device that is rented through a contract.  It      *)
(* keeps the bookings of its devices up to date (usn_update_state), calls  *)
(* a handler when one of them starts or stops, and decides whether a       *)
(* message of a user may act on it (usn_verify_message).                   *)
(*                                                                         *)
(* Every request is a step of its own, so the chain moves between them;    *)
(* the clock (conf->now) is set by the program between two updates.        *)
(***************************************************************************)
EXTENDS Integers, Sequences, SequencesExt

CONSTANTS Device, User, None,
          MaxTime, MaxBlocks,    \* bounds
          Lag                    \* how many blocks a node may be behind

VARIABLES now,      \* conf->now
          devices,  \* conf->devices: [id, bookings, current], current 0 for -1
          last,     \* conf->last_checked_block
          at,       \* where usn_update_state is, and its local variables
          receipt,  \* last_receipt
          blocks,   \* the chain: one event of the contract, or of another one, per block
          open,     \* what the handler was told last: the start of the booking, or 0
          since,    \* last_checked_block when the device was registered
          doubled,  \* the handler was told of a start while another one was running
          lost      \* a device lost the booking it was told is running

vars == <<now, devices, last, at, receipt, blocks, open, since, doubled, lost>>

-----------------------------------------------------------------------------
(* The contract: bookings of a device do not overlap, the one who rents may   *)
(* return early.  Both events carry the start, which does not change, and the *)
(* end.  The transaction of an event is the number of its block.              *)

EventsOf(d, b) == SelectSeq(SubSeq(blocks, 1, b), LAMBDA e : e.own /\ e.device = d)
RentsOf(d, b) == SelectSeq(EventsOf(d, b), LAMBDA e : e.kind = "rent")
UntilAt(d, b, from) == Last(SelectSeq(EventsOf(d, b), LAMBDA e : e.from = from)).until
BookingOf(d, b, e) == [from |-> e.from, until |-> UntilAt(d, b, e.from), controller |-> e.controller]

(* getState of all indexes, in a block *)
StateAt(d, b) == [n \in DOMAIN RentsOf(d, b) |-> BookingOf(d, b, RentsOf(d, b)[n])]
Newest == Len(blocks)

Rentable(d, from, until) ==
  \A n \in DOMAIN StateAt(d, Newest) : LET s == StateAt(d, Newest)[n] IN s.from # from /\ (until <= s.from \/ s.until <= from)
Mined(e) == Newest < MaxBlocks /\ blocks' = Append(blocks, e)
Event(kind, d, from, until, c, own) == [kind |-> kind, device |-> d, from |-> from, until |-> until, controller |-> c, own |-> own]

-----------------------------------------------------------------------------
Running(b, t) == b.from <= t /\ t < b.until

(* Mutant: a log never changes a booking that is known. *)
OnlyNewBookings(bs, e) ==
  IF \E n \in DOMAIN bs : bs[n].from = e.from THEN bs
  ELSE Append(bs, [from |-> e.from, until |-> e.until, controller |-> e.controller])

(* usn_add_booking; the first booking of a device is written behind the one   *)
(* byte that is allocated for it, and the model goes on as if it were there.  *)
usn_add_booking(bs, e) ==
  IF \E n \in DOMAIN bs : bs[n].from = e.from
  THEN [bs EXCEPT ![SelectInSeq(bs, LAMBDA b : b.from = e.from)].until = e.until]
  ELSE Append(bs, [from |-> e.from, until |-> e.until, controller |-> e.controller])

NoEvent == [type |-> "NONE", ts |-> MaxTime + 1, device |-> 0]

(* The loop over the bookings of a device: the earliest end, or the earliest  *)
(* start that is still to come or was missed.                                 *)
EarlierStop(e, i, b) == IF b.until < e.ts THEN [type |-> "STOP", ts |-> b.until, device |-> i] ELSE e
EarlierStart(e, i, d, b) ==
  IF (b.from > now \/ (d.current = 0 /\ b.until > now)) /\ b.from < e.ts THEN [type |-> "START", ts |-> b.from, device |-> i] ELSE e
usn_get_next_event(ds) ==
  FoldLeftDomain(LAMBDA e, i : FoldLeft(LAMBDA f, b : EarlierStart(EarlierStop(f, i, b), i, ds[i], b), e, ds[i].bookings), NoEvent, ds)

(* Mutant: the device keeps its current booking when one ends. *)
HandledKeepsCurrent(d, e) ==
  LET n == SelectInSeq(d.bookings, LAMBDA b : IF e.type = "START" THEN b.from = e.ts ELSE b.until = e.ts)
  IN  IF e.type = "START" THEN [d EXCEPT !.current = n] ELSE [d EXCEPT !.bookings = RemoveAt(@, n)]

usn_event_handled(d, e) ==
  LET n == SelectInSeq(d.bookings, LAMBDA b : IF e.type = "START" THEN b.from = e.ts ELSE b.until = e.ts)
  IN  IF e.type = "START" THEN [d EXCEPT !.current = n] ELSE [d EXCEPT !.bookings = RemoveAt(@, n), !.current = 0]

(* The booking handler of the user. *)
Told(s, e) ==
  LET d == s.ds[e.device].id
  IN  [s EXCEPT !.open[d] = IF e.type = "START" THEN e.ts ELSE 0, !.doubled = @ \/ (e.type = "START" /\ s.open[d] # 0)]

RECURSIVE check_actions(_, _)
check_actions(s, e) ==
  IF e.type = "NONE" \/ e.ts > now THEN s
  ELSE LET t == [Told(s, e) EXCEPT !.ds[e.device] = usn_event_handled(@, e)]
       IN  check_actions(t, usn_get_next_event(t.ds))

Check(ds) ==
  LET s == check_actions([ds |-> ds, open |-> open, doubled |-> doubled], usn_get_next_event(ds))
  IN  devices' = s.ds /\ open' = s.open /\ doubled' = s.doubled

-----------------------------------------------------------------------------
Idle == at.pc \in {"idle", "updated", "failed"}
NotUpdating(pc) == [pc |-> pc, block |-> 0, dev |-> 0, n |-> 0, size |-> 0]

(* usn_update_state: first what is due now. *)
UpdateState ==
  /\ Idle
  /\ Check(devices)
  /\ at' = NotUpdating("block")
  /\ UNCHANGED <<now, last, receipt, blocks, since, lost>>

(* The rest of usn_update_state ignores how usn_update_bookings ended. *)
EndsAt(ds, pc) == Check(ds) /\ at' = NotUpdating(pc)
Ends(ds) == EndsAt(ds, "updated")

(* The current booking of a device is not at its place any more. *)
LosesTrack(d) == d.current # 0 /\ ~(d.current \in DOMAIN d.bookings /\ d.bookings[d.current].from = open[d.id])

(* An answer that stops the first load leaves the devices as far as they were *)
(* read: one of them may have a part of its bookings only.                    *)
RequestFails ==
  /\ at.pc \in {"block", "size", "state", "logs"}
  /\ EndsAt(devices, IF at.pc = "state" THEN "failed" ELSE "updated")
  /\ lost' = (lost \/ (at.pc = "state" /\ LosesTrack(devices[at.dev])))
  /\ UNCHANGED <<now, last, receipt, blocks, since>>

(* Where the load of the bookings goes on: the next device, or the end. *)
LoadFrom(ds, i, block) ==
  IF i <= Len(ds) THEN devices' = ds /\ at' = [NotUpdating("size") EXCEPT !.block = block, !.dev = i] /\ UNCHANGED <<last, open, doubled>>
  ELSE Ends(ds) /\ last' = block

(* eth_blockNumber *)
BlockNumber ==
  /\ at.pc = "block"
  /\ \E b \in {n \in Newest - Lag..Newest : n >= 0} :
       CASE last = b -> Ends(devices) /\ UNCHANGED last
         [] last # b /\ last = 0 -> LoadFrom(devices, 1, b)
         [] OTHER -> at' = [NotUpdating("logs") EXCEPT !.block = b] /\ UNCHANGED <<devices, last, open, doubled>>
  /\ UNCHANGED <<now, receipt, blocks, since, lost>>

Emptied(i) == [devices EXCEPT ![i].bookings = <<>>]

(* The number of bookings of a device. *)
BookingCount ==
  /\ at.pc = "size"
  /\ LET size == Len(StateAt(devices[at.dev].id, Newest))
     IN  IF size = 0 THEN LoadFrom(Emptied(at.dev), at.dev + 1, at.block)
         ELSE devices' = Emptied(at.dev) /\ at' = [at EXCEPT !.pc = "state", !.n = 1, !.size = size] /\ UNCHANGED <<last, open, doubled>>
  /\ UNCHANGED <<now, receipt, blocks, since, lost>>

(* getState: one booking *)
BookingState ==
  /\ at.pc = "state"
  /\ LET ds == [devices EXCEPT ![at.dev].bookings = Append(@, StateAt(devices[at.dev].id, Newest)[at.n])]
     IN  IF at.n = at.size THEN LoadFrom(ds, at.dev + 1, at.block)
         ELSE devices' = ds /\ at' = [at EXCEPT !.n = @ + 1] /\ UNCHANGED <<last, open, doubled>>
  /\ UNCHANGED <<now, receipt, blocks, since, lost>>

Ids == [i \in DOMAIN devices |-> devices[i].id]

(* eth_getLogs, between the last block that was checked and this one; a node  *)
(* that is behind gives a range without blocks.                               *)
Logs ==
  /\ at.pc = "logs"
  /\ LET logs == SelectSeq(SubSeq(blocks, last + 1, at.block), LAMBDA e : e.own)
         Book(ds, e) == IF ~Contains(Ids, e.device) THEN ds
                        ELSE [ds EXCEPT ![SelectInSeq(Ids, LAMBDA i : i = e.device)].bookings = usn_add_booking(@, e)]
     IN  Ends(FoldLeft(Book, devices, logs))
  /\ last' = at.block
  /\ UNCHANGED <<now, receipt, blocks, since, lost>>

(* usn_remove_old_bookings; the current booking is not adjusted. *)
RemoveOldBookings ==
  /\ Idle
  /\ devices' = [i \in DOMAIN devices |-> [devices[i] EXCEPT !.bookings = SelectSeq(@, LAMBDA b : b.until > now)]]
  /\ lost' = (lost \/ \E i \in DOMAIN devices : LosesTrack(devices'[i]))
  /\ UNCHANGED <<now, last, at, receipt, blocks, open, since, doubled>>

(* usn_register_device *)
RegisterDevice(d) ==
  /\ Idle /\ ~Contains(Ids, d)
  /\ devices' = Append(devices, [id |-> d, bookings |-> <<>>, current |-> 0])
  /\ since' = [since EXCEPT ![d] = last]
  /\ UNCHANGED <<now, last, at, receipt, blocks, open, doubled, lost>>

-----------------------------------------------------------------------------
ReceiptOf(tx) == [tx |-> tx, from |-> blocks[tx].from, until |-> blocks[tx].until, controller |-> blocks[tx].controller]
NoReceipt == [tx |-> 0, from |-> 0, until |-> 0, controller |-> None]

(* Mutant: the event may come from any contract. *)
RentedAnywhere(tx, d) == tx \in DOMAIN blocks /\ blocks[tx].kind = "rent" /\ blocks[tx].device = d

(* get_rented_event; a receipt with an event of this device and the contract  *)
(* is kept.                                                                   *)
Rented(tx, d) == tx \in DOMAIN blocks /\ blocks[tx].kind = "rent" /\ blocks[tx].device = d /\ blocks[tx].own

(* Mutant: the end of the rental is not looked at. *)
Starts(r, sender) == r.from < r.until /\ r.from <= now /\ sender = r.controller

Allows(r, sender) == r.from < r.until /\ r.from <= now /\ now <= r.until /\ sender = r.controller

(* verify_action_message, of a message to d that sender signed: a receipt     *)
(* that was kept is used for every message with its transaction, whatever its *)
(* device.  Without a transaction the contract is asked, and as long as it    *)
(* answers, any answer is taken for a yes.                                    *)
verify_action_message(d, tx, sender) ==
  LET found == Contains(Ids, d) /\ tx # None /\ (tx = receipt.tx \/ Rented(tx, d))
      r     == IF ~found \/ tx = receipt.tx THEN receipt ELSE ReceiptOf(tx)
  IN  [accepted |-> Contains(Ids, d) /\ (tx = None \/ (found /\ Allows(r, sender))), receipt |-> r]

(* usn_verify_message: only a message with a new receipt changes something. *)
VerifyAction(d, tx, sender) ==
  /\ Idle
  /\ receipt' = verify_action_message(d, tx, sender).receipt /\ receipt' # receipt
  /\ UNCHANGED <<now, devices, last, at, blocks, open, since, doubled, lost>>

-----------------------------------------------------------------------------
(* What usn_rent makes the contract do: a booking from now on; others may     *)
(* book for a later time.                                                     *)
Rent(d, c) ==
  /\ \E until \in now + 1..MaxTime : Rentable(d, now, until) /\ Mined(Event("rent", d, now, until, c, TRUE))
  /\ UNCHANGED <<now, devices, last, at, receipt, open, since, doubled, lost>>
Book(d, c) ==
  /\ \E from \in now + 1..MaxTime, until \in now + 2..MaxTime :
       from < until /\ Rentable(d, from, until) /\ Mined(Event("rent", d, from, until, c, TRUE))
  /\ UNCHANGED <<now, devices, last, at, receipt, open, since, doubled, lost>>

(* usn_return, at the contract: the booking that is running ends now. *)
ReturnDevice(d) ==
  /\ \E n \in DOMAIN StateAt(d, Newest) :
       LET b == StateAt(d, Newest)[n]
       IN  Running(b, now) /\ Mined(Event("return", d, b.from, now, b.controller, TRUE))
  /\ UNCHANGED <<now, devices, last, at, receipt, open, since, doubled, lost>>

(* Who may send a message to a device. *)
Senders == User \cup {"stranger"}

(* The same event of another contract. *)
OtherContract(d, c) ==
  /\ Mined(Event("rent", d, now, MaxTime, c, FALSE))
  /\ UNCHANGED <<now, devices, last, at, receipt, open, since, doubled, lost>>

Tick ==
  /\ Idle /\ now < MaxTime
  /\ now' = now + 1
  /\ at' = NotUpdating("idle")
  /\ UNCHANGED <<devices, last, receipt, blocks, open, since, doubled, lost>>

Init ==
  /\ now = 1 /\ devices = <<>> /\ last = 0 /\ at = NotUpdating("idle") /\ receipt = NoReceipt /\ blocks = <<>>
  /\ open = [d \in Device |-> 0] /\ since = [d \in Device |-> 0] /\ doubled = FALSE /\ lost = FALSE

Next ==
  \/ UpdateState \/ RequestFails \/ BlockNumber \/ BookingCount \/ BookingState \/ Logs \/ RemoveOldBookings \/ Tick
  \/ \E d \in Device : RegisterDevice(d) \/ ReturnDevice(d)
  \/ \E d \in Device, u \in User : Rent(d, u) \/ Book(d, u) \/ OtherContract(d, u)
  \/ \E d \in Device, tx \in 0..Newest \cup {None}, u \in Senders : VerifyAction(d, tx, u)

Spec == Init /\ [][Next]_vars

-----------------------------------------------------------------------------
(* After every update, one whose requests failed included, a device is on     *)
(* exactly when one of the bookings it knows of is running, the handler was   *)
(* told so, and it was never told of two starts in a row: unless the program  *)
(* removed the bookings before the running one, or a second first load ended  *)
(* in the middle of them.                                                     *)
HandlerFollows ==
  ~lost =>
    /\ ~doubled
    /\ at.pc = "updated" =>
         \A i \in DOMAIN devices :
           LET d == devices[i]
           IN  /\ d.current # 0 <=> \E n \in DOMAIN d.bookings : Running(d.bookings[n], now)
               /\ d.current # 0 => d.current \in DOMAIN d.bookings /\ Running(d.bookings[d.current], now)
               /\ open[d.id] = IF d.current = 0 THEN 0 ELSE d.bookings[d.current].from

(* What the device knows is not older than the block it checked last: every   *)
(* booking it knows has an end it had in that block or later, and it knows    *)
(* every booking of the contract unless it was over by then.  Bookings from   *)
(* before a device was registered count only when the first load was still to *)
(* come.                                                                      *)
BookingsAreCurrent ==
  at.pc = "updated" /\ last # 0 =>
    \A i \in DOMAIN devices :
      LET d == devices[i]
          Untils(from) == {UntilAt(d.id, b, from) : b \in {n \in last..Newest : \E k \in 1..n : blocks[k].own /\ blocks[k].device = d.id /\ blocks[k].from = from}}
      IN  /\ \A k \in DOMAIN d.bookings : d.bookings[k].until \in Untils(d.bookings[k].from)
          /\ since[d.id] = 0 =>
               \A n \in DOMAIN StateAt(d.id, last) :
                 LET from == StateAt(d.id, last)[n].from
                 IN  \/ \E k \in DOMAIN d.bookings : d.bookings[k].from = from
                     \/ \E u \in Untils(from) : u <= now

(* Whoever is let in with the transaction he names has rented with it, from   *)
(* this contract, for this time, and this device, or another one that is      *)
(* registered here and whose receipt is the one that was kept.  A message     *)
(* without a transaction lets anybody in, see README.                         *)
OnlyRentersAct ==
  \A d \in Device, tx \in 0..Newest, u \in Senders :
    verify_action_message(d, tx, u).accepted =>
      LET e == blocks[tx]
      IN  /\ e.own /\ e.kind = "rent" /\ e.controller = u /\ e.from <= now /\ now <= e.until
          /\ Contains(Ids, d) /\ (e.device = d \/ (receipt.tx = tx /\ Contains(Ids, e.device)))

DevicesFollow == HandlerFollows /\ BookingsAreCurrent /\ OnlyRentersAct
=============================================================================
