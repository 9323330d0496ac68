----------------------------- MODULE HttpServer -----------------------------
(***************************************************************************)
(* The http server of the command line tool (cmd/http-server), built with  *)
(* THREADSAFE: the main thread accepts connections and queues them, a pool *)
(* of threads takes them out and answers.  All threads share one client,   *)
(* whose counter of pending requests is no atomic, one stdout, which every *)
(* thread redirects to its connection, and one table of file descriptors.  *)
(***************************************************************************)
EXTENDS Integers, Sequences, FiniteSets, FiniteSetsExt

CONSTANTS Conn,        (* the connections clients open, numbered as they   *)
                       (* are accepted                                     *)
          Thread,      (* thread_pool                                      *)
          Addr,        (* addresses malloc may return for a queue_t        *)
          Nil,         (* NULL, no connection                              *)
          Console,     (* what stdout refers to at first                   *)
          PendingMask  (* the largest value of in3_t.pending: 0xFFFF       *)

(* Standard output; the descriptors below the first connection's are taken.  *)
Stdout == 1
Fds    == {Stdout} \cup 4..(4 + Cardinality(Conn))

(* Nil and Console are no connections, and Nil is no memory. *)
ConstantsOK ==
  /\ IsFiniteSet(Conn) /\ Conn \subseteq Nat /\ Addr \subseteq Nat /\ Thread # {}
  /\ Nil \notin Conn \cup Addr \cup {Console} /\ Console \notin Conn
  /\ PendingMask \in Nat \ {0}

VARIABLES heap,     (* the queue_t at every address                        *)
          live,     (* the addresses in use                                *)
          qHead, qTail,
          pc, job,  (* of every thread: its step, its req_t                *)
          woken,    (* threads a signal has woken                          *)
          fd,       (* what every descriptor refers to                     *)
          sock,     (* of every connection: "new", "open", "shut", "gone"  *)
          out,      (* the buffer of stdout: the answers printed           *)
          got,      (* what every client was sent                          *)
          dead,     (* SIGPIPE has ended the process                       *)
          pending, reg,  (* in3_t.pending, and the copies threads work on  *)
          sequential     (* no connection came before the last was closed  *)

queueVars == <<heap, live, qHead, qTail, woken>>
ioVars    == <<fd, sock, out, got, dead>>
cntVars   == <<pending, reg>>
vars      == <<queueVars, ioVars, cntVars, pc, job, sequential>>

(* req_t: the descriptor; con is the connection it was made for, and asked    *)
(* the one whose request was read.                                            *)
NoJob == [fd |-> 0, con |-> Nil, asked |-> Nil]

(* Descriptors that refer to the socket of a connection. *)
Refs(c, table) == {f \in DOMAIN table : table[f] = c}

(* close: the socket goes with its last descriptor. *)
AfterClose(f, table, socks) ==
  LET c    == table[f]
      left == [table EXCEPT ![f] = Nil]
  IN  [fd   |-> left,
       sock |-> IF c \in Conn /\ Refs(c, left) = {} THEN [socks EXCEPT ![c] = "gone"] ELSE socks]

Init ==
  /\ heap = [a \in Addr |-> [r |-> NoJob, next |-> Nil]] /\ live = {}
  /\ qHead = Nil /\ qTail = Nil /\ woken = {}
  /\ pc = [t \in Thread |-> "next"] /\ job = [t \in Thread |-> NoJob]
  /\ fd = [f \in Fds |-> IF f = Stdout THEN Console ELSE Nil]
  /\ sock = [c \in Conn |-> "new"]
  /\ out = <<>> /\ got = [c \in Conn |-> <<>>] /\ dead = FALSE
  /\ pending = 0 /\ reg = [t \in Thread |-> 0]
  /\ sequential = TRUE

-----------------------------------------------------------------------------
(* The queue *)

(* A thread goes on from one step to the next. *)
Step(t, from, to) == pc[t] = from /\ pc' = [pc EXCEPT ![t] = to]

Waiting == {t \in Thread : pc[t] = "wait"} \ woken

(* pthread_cond_signal *)
Signal ==
  IF Waiting # {} THEN \E t \in Waiting : woken' = woken \cup {t} ELSE UNCHANGED woken

(* queue_add: the new entry becomes the second one; q_tail only moves when    *)
(* the queue was empty, and may be the address of an entry that was freed.    *)
(* Of the addresses that were never used one stands for all.                  *)
QueueAdd(r) ==
  \E a \in Addr \ live :
    /\ heap[a].r = NoJob => \A b \in Addr : b < a => heap[b].r # NoJob
    /\ live' = live \cup {a}
    /\ LET h == [heap EXCEPT ![a] = [r |-> r, next |-> Nil]]
       IN  IF qTail = Nil THEN heap' = h /\ qHead' = a /\ qTail' = a
           ELSE heap' = [h EXCEPT ![qTail].next = a] /\ UNCHANGED <<qHead, qTail>>
    /\ Signal

(* accept: the connection gets the lowest descriptor that is free. *)
Accept(c) ==
  LET f == Min({g \in Fds : fd[g] = Nil})
  IN  /\ sock[c] = "new" /\ \A d \in Conn : d < c => sock[d] # "new"
      /\ fd' = [fd EXCEPT ![f] = c]
      /\ sock' = [sock EXCEPT ![c] = "open"]
      /\ sequential' = (sequential /\ (\A d \in Conn : sock[d] \in {"new", "gone"})
                                   /\ \A t \in Thread : pc[t] \in {"next", "wait"})
      /\ QueueAdd([fd |-> f, con |-> c, asked |-> Nil])
      /\ UNCHANGED <<out, got, dead, cntVars, pc, job>>

(* Mutant: the entry stays in the queue. *)
PopKeeps(t) ==
  /\ qHead # Nil
  /\ job' = [job EXCEPT ![t] = heap[qHead].r]
  /\ pc' = [pc EXCEPT ![t] = "recv"]
  /\ UNCHANGED <<heap, live, qHead, qTail>>

(* The part of queue_next behind the wait, under the same lock. *)
Pop(t) ==
  IF qHead = Nil THEN pc' = [pc EXCEPT ![t] = "next"] /\ UNCHANGED <<heap, live, qHead, qTail, job>>
  ELSE /\ job' = [job EXCEPT ![t] = heap[qHead].r]
       /\ qHead' = heap[qHead].next
       /\ qTail' = IF heap[qHead].next = Nil THEN Nil ELSE qTail
       /\ live' = live \ {qHead}
       /\ pc' = [pc EXCEPT ![t] = "recv"]
       /\ UNCHANGED heap

(* Mutant: a thread waits although the queue has an entry. *)
WaitsAlways(t) ==
  /\ Step(t, "next", "wait")
  /\ UNCHANGED <<queueVars, ioVars, cntVars, job, sequential>>

QueueNext(t) ==
  /\ pc[t] = "next"
  /\ IF qHead = Nil THEN pc' = [pc EXCEPT ![t] = "wait"] /\ UNCHANGED <<heap, live, qHead, qTail, job>>
                    ELSE Pop(t)
  /\ UNCHANGED <<woken, ioVars, cntVars, sequential>>

(* pthread_cond_wait returns; queue_next does not wait again. *)
Wake(t) ==
  /\ pc[t] = "wait" /\ t \in woken
  /\ woken' = woken \ {t}
  /\ Pop(t)
  /\ UNCHANGED <<ioVars, cntVars, sequential>>

-----------------------------------------------------------------------------
(* respond *)

(* fflush: the buffer goes to what stdout refers to now, if anything.  A      *)
(* socket that is shut down raises SIGPIPE, which nobody handles.             *)
Flush ==
  LET c == fd[Stdout]
  IN  /\ out' = <<>>
      /\ dead' = (c \in Conn /\ sock[c] = "shut" /\ out # <<>>)
      /\ got' = IF c \in Conn /\ sock[c] = "open" THEN [got EXCEPT ![c] = @ \o out] ELSE got

(* recv fails, or the client has closed its side. *)
RecvNothing(t) ==
  /\ Step(t, "recv", "closing")
  /\ UNCHANGED <<queueVars, ioVars, cntVars, job, sequential>>

(* A message: dup2(r->con, STDOUT_FILENO); then it is executed, or it is no   *)
(* request at all.                                                            *)
Recv(t) ==
  LET f      == job[t].fd
      closed == IF f = Stdout THEN [fd |-> fd, sock |-> sock] ELSE AfterClose(Stdout, fd, sock)
  IN  /\ pc[t] = "recv" /\ fd[f] \in Conn
      /\ \E to \in {"exec", "answer"} : pc' = [pc EXCEPT ![t] = to]
      /\ job' = [job EXCEPT ![t].asked = fd[f]]
      /\ fd' = [closed.fd EXCEPT ![Stdout] = fd[f]]
      /\ sock' = closed.sock
      /\ UNCHANGED <<queueVars, out, got, dead, cntVars, sequential>>

(* req_new: no context once pending has reached the largest value; pending++. *)
ReqNew(t) ==
  /\ IF pending = PendingMask THEN Step(t, "exec", "answer") ELSE Step(t, "exec", "count")
  /\ reg' = [reg EXCEPT ![t] = pending]
  /\ UNCHANGED <<queueVars, ioVars, pending, job, sequential>>

Count(t) ==
  /\ Step(t, "count", "send")
  /\ pending' = (reg[t] + 1) % (PendingMask + 1)
  /\ UNCHANGED <<queueVars, ioVars, reg, job, sequential>>

(* in3_send_req and printf of the answer, whatever it is: stdout buffers it.  *)
(* Then req_free reads pending.                                               *)
Send(t) ==
  /\ Step(t, "send", "free")
  /\ out' = Append(out, job[t].asked)
  /\ reg' = [reg EXCEPT ![t] = pending]
  /\ UNCHANGED <<queueVars, fd, sock, got, dead, pending, job, sequential>>

(* error_response without a context *)
ErrorResponse(t) ==
  /\ Step(t, "answer", "flush")
  /\ out' = Append(out, job[t].asked)
  /\ UNCHANGED <<queueVars, fd, sock, got, dead, cntVars, job, sequential>>

(* Mutant: the answer of the request is not flushed. *)
FreeWithoutFlush(t) ==
  /\ Step(t, "free", "shut")
  /\ pending' = (reg[t] + PendingMask) % (PendingMask + 1)
  /\ UNCHANGED <<queueVars, ioVars, reg, job, sequential>>

(* pending-- of req_free, then fflush(stdout) *)
ReqFree(t) ==
  /\ Step(t, "free", "shut")
  /\ pending' = (reg[t] + PendingMask) % (PendingMask + 1)
  /\ Flush
  /\ UNCHANGED <<queueVars, fd, sock, reg, job, sequential>>

(* fflush(stdout) *)
FlushStdout(t) ==
  /\ Step(t, "flush", "shut")
  /\ Flush
  /\ UNCHANGED <<queueVars, fd, sock, cntVars, job, sequential>>

(* shutdown(STDOUT_FILENO, SHUT_WR) *)
ShutStdout(t) ==
  /\ Step(t, "shut", "close1")
  /\ sock' = IF fd[Stdout] \in Conn THEN [sock EXCEPT ![fd[Stdout]] = "shut"] ELSE sock
  /\ UNCHANGED <<queueVars, fd, out, got, dead, cntVars, job, sequential>>

(* close(STDOUT_FILENO): the next connection gets this descriptor. *)
CloseStdout(t) ==
  /\ Step(t, "close1", "closing")
  /\ LET closed == AfterClose(Stdout, fd, sock) IN fd' = closed.fd /\ sock' = closed.sock
  /\ UNCHANGED <<queueVars, out, got, dead, cntVars, job, sequential>>

(* shutdown(r->con) and close(r->con), whatever the descriptor refers to now. *)
CloseCon(t) ==
  LET f == job[t].fd
  IN  /\ Step(t, "closing", "next")
      /\ LET closed == AfterClose(f, fd, IF fd[f] \in Conn THEN [sock EXCEPT ![fd[f]] = "shut"] ELSE sock)
         IN  fd' = closed.fd /\ sock' = closed.sock
      /\ job' = [job EXCEPT ![t] = NoJob]
      /\ UNCHANGED <<queueVars, out, got, dead, cntVars, sequential>>

Run(t) ==
  \/ QueueNext(t) \/ Wake(t) \/ Recv(t) \/ RecvNothing(t) \/ ReqNew(t) \/ Count(t) \/ Send(t)
  \/ ReqFree(t) \/ ErrorResponse(t) \/ FlushStdout(t) \/ ShutStdout(t)
  \/ CloseStdout(t) \/ CloseCon(t)

Next == ~dead /\ ((\E c \in Conn : Accept(c)) \/ \E t \in Thread : Run(t))

Spec == Init /\ [][Next]_vars

-----------------------------------------------------------------------------
(* Properties *)

(* The entries a thread can still find: q_head and what follows it. *)
Reachable ==
  IF qHead = Nil THEN {} ELSE {qHead} \cup ({heap[qHead].next} \ {Nil})

(* queue_add, queue_next: no lost wake-up.  While the queue has an entry not  *)
(* all threads wait, although a signal may come before they do, may wake a    *)
(* thread whose entry another one takes, and the wait is not repeated.        *)
NoLostWakeup == qHead # Nil => \E t \in Thread : pc[t] # "wait" \/ t \in woken

(* respond: a client that is alone, from its accept to its close, gets its    *)
(* own answer, at most one, although stdout is redirected and closed each     *)
(* time and the next connection gets the descriptor of stdout itself; and the *)
(* counter of pending requests returns to 0.                                  *)
AloneIsAnswered ==
  sequential =>
    /\ ~dead
    /\ \A c \in Conn : got[c] \in {<<>>, <<c>>}
    /\ (\A t \in Thread : pc[t] \in {"next", "wait"}) => pending = 0 /\ out = <<>>

(* queue_next: a connection is given to one thread only, and only once,       *)
(* although q_tail may refer to freed memory that malloc returns again.       *)
TakenOnce ==
  /\ \A s, t \in Thread : s # t /\ job[s] # NoJob => job[s].con # job[t].con
  /\ \A t \in Thread : job[t] # NoJob => \A a \in Reachable : heap[a].r.con # job[t].con
  /\ Reachable \subseteq live

(* All of it together. *)
ServerAnswers == NoLostWakeup /\ TakenOnce /\ AloneIsAnswered
=============================================================================
