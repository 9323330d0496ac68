------------------------------- MODULE Musig --------------------------------
(***************************************************************************)
(* zksync_musig_sign: a schnorr signature of several members over one      *)
(* message.  The client (member 1) has the urls of the others and asks     *)
(* them in three rounds for their precommitments, commitments and shares;  *)
(* each asking carries what it knows so far, and the answer is merged into *)
(* its session.  The handler runs from its start again for every answer.   *)
(* Sessions are memory: the oldest one is dropped when there are too many, *)
(* and a member that restarts has none.                                    *)
(***************************************************************************)
EXTENDS Integers, Sequences

CONSTANTS Message, Call,
          N,               (* the number of public keys                     *)
          MAX_SESSIONS,
          Verifying,       (* members with a proof_verify_method            *)
          Creates,         (* the client has a proof_create_method          *)
          Proven,          (* messages whose proof the methods accept       *)
          MaxRestarts      (* bound: restarts of members                    *)

VARIABLES sessions,        (* of every member: musig_sessions, newest first *)
          calls,           (* the requests of the client                    *)
          restarts

musigVars == <<sessions, calls, restarts>>

Member == 1..N
Client == 1

(* What the proofs assume of the constants. *)
MusigConstantsOK ==
  /\ N \in Nat \ {0}
  /\ MAX_SESSIONS \in Nat
  /\ Verifying \subseteq Member
  /\ Creates \/ Client \notin Verifying    (* or every call is refused: no account *)

(* A bytes32 that is zero. *)
None  == <<>>
Blank == [i \in Member |-> None]

-----------------------------------------------------------------------------
(* The signer of zkcrypto: what a member computes from its seed. *)

(* Mutant: every session has a seed of its own. *)
SeedPerRun(p, m) == <<p, m, restarts>>

(* The seed depends on the message and the keys only, so that a session that  *)
(* was lost is made again as it was.                                          *)
Seed(p, m) == <<p, m>>

Precommitment(p, seed) == <<"precommitment", p, seed>>
Commitment(p, seed)    == <<"commitment", p, seed>>
Share(p, seed, coms)   == <<"share", p, seed, coms>>

(* receive_commitment: every commitment is the one that was precommitted to. *)
Opens(pres, coms) == \A i \in Member : coms[i] = Commitment(pres[i][2], pres[i][3])

-----------------------------------------------------------------------------
(* Sessions *)

is_complete(slots) == \A i \in Member : slots[i] # None

Session(p, m) ==
  [id |-> m, seed |-> Seed(p, m), pre |-> [Blank EXCEPT ![p] = Precommitment(p, Seed(p, m))], com |-> Blank, sig |-> Blank]

(* add_sessiondata *)
DataOf(s) == [pre |-> s.pre, com |-> s.com, sig |-> s.sig]

(* Only slots of others that are still empty are filled. *)
Fill(mine, theirs, p) == [i \in Member |-> IF i # p /\ mine[i] = None THEN theirs[i] ELSE mine[i]]

update_session(s, d, p) ==
  [s EXCEPT !.pre = Fill(@, d.pre, p), !.com = Fill(@, d.com, p), !.sig = Fill(@, d.sig, p)]

get_session(p, m) == {k \in DOMAIN sessions[p] : sessions[p][k].id = m}

(* The session is found, or made. *)
SessionOf(p, m) ==
  IF get_session(p, m) # {} THEN sessions[p][CHOOSE k \in get_session(p, m) : TRUE] ELSE Session(p, m)

(* cleanup_session: the session is taken out of the list. *)
Without(l, m) ==
  LET k == CHOOSE k \in DOMAIN l : l[k].id = m
  IN  SubSeq(l, 1, k - 1) \o SubSeq(l, k + 1, Len(l))

(* Mutant: no session is ever dropped. *)
KeepSessions(l) == l

check_max_sessions(l) ==
  IF Len(l) > MAX_SESSIONS THEN SubSeq(l, 1, MAX_SESSIONS) \o SubSeq(l, MAX_SESSIONS + 2, Len(l)) ELSE l

(* The list with the session s, which is new or was changed in place. *)
Stored(p, s) ==
  IF get_session(p, s.id) # {}
  THEN [k \in DOMAIN sessions[p] |-> IF sessions[p][k].id = s.id THEN s ELSE sessions[p][k]]
  ELSE <<s>> \o check_max_sessions(sessions[p])

(* TRY_SIG: an error drops the session. *)
Dropped(p, m) ==
  IF get_session(p, m) # {} THEN Without(sessions[p], m) ELSE check_max_sessions(sessions[p])

-----------------------------------------------------------------------------
(* The rounds of the handler.  h is the session, the requests sent for this   *)
(* call, and what the macros of the handler would return.                     *)

(* Mutant: the commitment is revealed at once. *)
CommitEarly(h, p, was) == [h EXCEPT !.s.com[p] = Commitment(p, h.s.seed)]

(* receive_precommitment, when the precommitments became complete in this run *)
receive_precommitment(h, p, was) ==
  IF h.ret = "ok" /\ ~was /\ is_complete(h.s.pre) THEN [h EXCEPT !.s.com[p] = Commitment(p, h.s.seed)] ELSE h

(* receive_commitment and sign, when the commitments became complete *)
receive_commitment(h, p, was) ==
  IF h.ret # "ok" \/ was \/ ~is_complete(h.s.com) THEN h
  ELSE IF Opens(h.s.pre, h.s.com) THEN [h EXCEPT !.s.sig[p] = Share(p, h.s.seed, h.s.com)]
  ELSE [h EXCEPT !.ret = "error"]

(* request_message: a request is found again by its parameters alone. *)
request_message(h, i, round) ==
  LET d     == DataOf(h.s)
      known == {x \in h.subs : x.data = d}
  IN  IF known = {} THEN [h EXCEPT !.subs = @ \cup {[to |-> i, data |-> d, answer |-> None]}, !.ret = "waiting"]
      ELSE LET a == (CHOOSE x \in known : TRUE).answer
               s == update_session(h.s, a[1], Client)
           IN  IF a = None THEN [h EXCEPT !.ret = "waiting"]
               ELSE IF s[round][i] = None THEN [h EXCEPT !.ret = "error"]
               ELSE [h EXCEPT !.s = s]

AskMember(h, i, round) ==
  IF h.ret # "ok" \/ i = Client \/ h.s[round][i] # None THEN h ELSE request_message(h, i, round)

(* The members are asked in the order of their keys. *)
Round(h, round) ==
  LET upto[i \in 0..N] == IF i = 0 THEN h ELSE AskMember(upto[i - 1], i, round)
  IN  upto[N]

(* zksync_musig_sign at the client: the parameter is the message. *)
SignAtClient(s, subs) ==
  Round(receive_commitment(Round(receive_precommitment(Round([s |-> s, subs |-> subs, ret |-> "ok"], "pre"),
                                                       Client, is_complete(s.pre)), "com"),
                           Client, is_complete(s.com)), "sig")

(* ... and at another member, which has no urls: the parameter is an object *)
(* with what the client knows.                                              *)
SignAtMember(p, s, d) ==
  receive_commitment(receive_precommitment([s |-> update_session(s, d, p), subs |-> {}, ret |-> "ok"],
                                           p, is_complete(s.pre)),
                     p, is_complete(s.com))

-----------------------------------------------------------------------------
NoCall == [msg |-> None, st |-> "free", subs |-> {}, out |-> None]

MusigInit ==
  /\ sessions = [p \in Member |-> <<>>]
  /\ calls = [c \in Call |-> NoCall]
  /\ restarts = 0

(* The client runs the handler for the call c. *)
SignRun(c, m) ==
  \E h \in {SignAtClient(SessionOf(Client, m), calls[c].subs)} :
    LET done == h.ret = "ok" /\ is_complete(h.s.sig)
    IN  /\ calls' = [calls EXCEPT ![c] =
             [msg |-> m, subs |-> h.subs, out |-> IF done THEN <<DataOf(h.s)>> ELSE None,
              st |-> IF h.ret = "waiting" THEN "waiting" ELSE IF done THEN "done"
                     ELSE IF h.ret = "error" THEN "failed" ELSE "partial"]]
        /\ sessions' = [sessions EXCEPT ![Client] =
             IF h.ret = "error" THEN Dropped(Client, m)
             ELSE IF done THEN Without(Stored(Client, h.s), m)
             ELSE Stored(Client, h.s)]
        /\ UNCHANGED restarts

Start(c, m) == calls[c].st = "free" /\ SignRun(c, m)

(* The request is executed again when nothing it waits for is open. *)
Resume(c) ==
  /\ calls[c].st = "waiting" /\ \A x \in calls[c].subs : x.answer # None
  /\ SignRun(c, calls[c].msg)

Answered(c, x, d) ==
  calls' = [calls EXCEPT ![c].subs = (@ \ {x}) \cup {[x EXCEPT !.answer = <<d>>]}]

FailCall(c) == calls' = [calls EXCEPT ![c].st = "failed"]

(* verify_proof: a proof is only welcome where there is a method for it. *)
verify_proof(p, m) == IF p \in Verifying THEN m \in Proven ELSE ~Creates

(* A member handles a request of the client; the answer arrives, or is lost   *)
(* and the request sent again.                                                *)
Serve(c, x) ==
  /\ calls[c].st = "waiting" /\ x.answer = None
  /\ UNCHANGED restarts
  /\ LET p == x.to
         m == calls[c].msg
     IN  IF get_session(p, m) = {} /\ ~verify_proof(p, m) THEN FailCall(c) /\ UNCHANGED sessions
         ELSE \E h \in {SignAtMember(p, SessionOf(p, m), x.data)} :
                \/ /\ h.ret = "ok"
                   /\ sessions' = [sessions EXCEPT ![p] = Stored(p, h.s)]
                   /\ Answered(c, x, DataOf(h.s)) \/ UNCHANGED calls
                \/ /\ h.ret = "error"
                   /\ sessions' = [sessions EXCEPT ![p] = Dropped(p, m)]
                   /\ FailCall(c)

(* A request fails: the call ends without its handler being run again, so    *)
(* that the session stays.                                                   *)
Lose(c) ==
  /\ calls[c].st = "waiting" /\ \E x \in calls[c].subs : x.answer = None
  /\ FailCall(c)
  /\ UNCHANGED <<sessions, restarts>>

(* A member loses its sessions. *)
Forget(p) ==
  /\ p # Client /\ restarts < MaxRestarts
  /\ restarts' = restarts + 1
  /\ sessions' = [sessions EXCEPT ![p] = <<>>]
  /\ UNCHANGED calls

MusigNext ==
  \/ \E c \in Call, m \in Message : Start(c, m)
  \/ \E c \in Call : Resume(c) \/ Lose(c) \/ \E x \in calls[c].subs : Serve(c, x)
  \/ \E p \in Member : Forget(p)

MusigSpec == MusigInit /\ [][MusigNext]_musigVars

-----------------------------------------------------------------------------
(* Properties *)

(* The combined signature is one: its shares are of all members, each made    *)
(* with the nonce its member has for the message of the call and with the     *)
(* commitments of all, although members lost their sessions, calls for the    *)
(* same message share one, and answers come from an earlier session; and no   *)
(* member that verifies proofs took part without one.                         *)
CombinedIsValid ==
  \A c \in Call : calls[c].st = "done" =>
    /\ \A i \in Member : /\ calls[c].out[1].pre[i] = Precommitment(i, Seed(i, calls[c].msg))
                         /\ calls[c].out[1].com[i] = Commitment(i, calls[c].out[1].pre[i][3])
                         /\ calls[c].out[1].sig[i] = Share(i, calls[c].out[1].pre[i][3], calls[c].out[1].com)
    /\ Verifying \ {Client} # {} => calls[c].msg \in Proven

(* A member reveals its commitment when it has the precommitments of all, and *)
(* its share when it has their commitments.                                   *)
RoundsInOrder ==
  \A p \in Member : \A k \in DOMAIN sessions[p] :
    /\ sessions[p][k].com[p] # None => is_complete(sessions[p][k].pre)
    /\ sessions[p][k].sig[p] # None => is_complete(sessions[p][k].com)

(* A member keeps at most one session more than MAX_SESSIONS, one of a        *)
(* message.                                                                   *)
SessionsBounded ==
  \A p \in Member :
    /\ Len(sessions[p]) <= MAX_SESSIONS + 1
    /\ \A j, k \in DOMAIN sessions[p] : sessions[p][j].id = sessions[p][k].id => j = k

MusigSigns == CombinedIsValid /\ RoundsInOrder /\ SessionsBounded
=============================================================================
