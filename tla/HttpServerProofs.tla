-------------------------- MODULE HttpServerProofs --------------------------
(***************************************************************************)
(* The http server, for any number of threads and of connections.          *)
(*                                                                         *)
(* q_tail is never moved and may refer to memory that was freed and used   *)
(* again; the queue still is one of three things: empty, an entry that is  *)
(* also q_tail with at most one behind it, or a last entry that q_tail     *)
(* does not refer to.  A client that is alone takes the server through the *)
(* stages of Queued and Busy, which say what every descriptor refers to.   *)
(***************************************************************************)
EXTENDS HttpServer, FiniteSetTheorems, WellFoundedInduction, TLAPS

(* Descriptors are numbers; a req_t is for a connection and its descriptor.   *)
Jobs == {NoJob} \cup [fd : Fds, con : Conn, asked : Conn \cup {Nil}]

Pcs == {"next", "wait", "recv", "exec", "answer", "count", "send", "free", "flush", "shut",
        "close1", "closing"}

TypeOK ==
  /\ heap \in [Addr -> [r : Jobs, next : Addr \cup {Nil}]] /\ live \in SUBSET Addr
  /\ qHead \in Addr \cup {Nil} /\ qTail \in Addr \cup {Nil} /\ woken \in SUBSET Thread
  /\ pc \in [Thread -> Pcs] /\ job \in [Thread -> Jobs]
  /\ fd \in [Fds -> Conn \cup {Nil, Console}]
  /\ sock \in [Conn -> {"new", "open", "shut", "gone"}]
  /\ out \in Seq(Conn \cup {Nil}) /\ got \in [Conn -> Seq(Conn \cup {Nil})]
  /\ pending \in Nat /\ reg \in [Thread -> Nat]

-----------------------------------------------------------------------------
(* The queue *)

Con(a) == heap[a].r.con

Empty  == qHead = Nil /\ qTail = Nil
Headed ==
  /\ qHead \in live /\ qTail = qHead
  /\ heap[qHead].next # Nil =>
       /\ heap[qHead].next \in live \ {qHead}
       /\ heap[heap[qHead].next].next = Nil
       /\ Con(heap[qHead].next) # Con(qHead)
Loose  == qHead \in live /\ qTail # Nil /\ qTail # qHead /\ heap[qHead].next = Nil

(* What was given to the server is not new, is taken once, and is queued no   *)
(* more; a thread that is not at rest has taken something.                    *)
AtRest(t) == pc[t] \in {"next", "wait"}

Taken ==
  /\ \A a \in Reachable : Con(a) \in Conn
  /\ \A a \in Addr : Con(a) \in Conn => sock[Con(a)] # "new"
  /\ \A t \in Thread : /\ job[t].con \in Conn => sock[job[t].con] # "new"
                       /\ ~AtRest(t) => job[t].con \in Conn
  /\ \A s, t \in Thread : s # t /\ job[s] # NoJob => job[s].con # job[t].con
  /\ \A t \in Thread : job[t] # NoJob => \A a \in Reachable : Con(a) # job[t].con

(* Descriptors refer to what was accepted, one to each but for stdout: so     *)
(* there always is a free one.                                                *)
Table ==
  /\ \A g \in Fds : fd[g] \in Conn => sock[fd[g]] # "new"
  /\ \A g \in Fds \ {Stdout} : fd[g] # Console
  /\ \A g, h \in Fds \ {Stdout} : g # h /\ fd[g] \in Conn => fd[g] # fd[h]

QueueInv == TypeOK /\ (Empty \/ Headed \/ Loose) /\ Taken /\ Table

-----------------------------------------------------------------------------
(* A client that is alone *)

(* The descriptors: c is the connection at f, and stdout is not its.          *)
Apart(c, f) ==
  /\ fd[f] = c
  /\ \A g \in Fds \ {f} : fd[g] = Nil \/ (g = Stdout /\ fd[g] = Console)

(* Stdout refers to the connection as well. *)
Joined(c, f) ==
  /\ fd[f] = c /\ fd[Stdout] = c
  /\ \A g \in Fds \ {f, Stdout} : fd[g] = Nil

Others(c) == \A d \in Conn \ {c} : sock[d] \in {"new", "gone"}

Quiet == out = <<>> /\ pending = 0

Idle ==
  /\ Empty /\ Quiet /\ \A t \in Thread : AtRest(t)
  /\ \A g \in Fds : fd[g] = Nil \/ (g = Stdout /\ fd[g] = Console)
  /\ \A d \in Conn : sock[d] \in {"new", "gone"}

Queued(c) ==
  /\ qHead # Nil /\ qTail = qHead /\ heap[qHead].next = Nil /\ Con(qHead) = c
  /\ heap[qHead].r.fd \in Fds /\ Apart(c, heap[qHead].r.fd)
  /\ Quiet /\ \A t \in Thread : AtRest(t)
  /\ sock[c] = "open" /\ got[c] = <<>> /\ Others(c)

(* The stages of respond *)
Stage(t, c, f) ==
  \/ pc[t] = "recv" /\ Apart(c, f) /\ Quiet /\ sock[c] = "open" /\ got[c] = <<>>
  \/ pc[t] \in {"exec", "answer"} /\ Joined(c, f) /\ Quiet /\ sock[c] = "open" /\ got[c] = <<>>
  \/ pc[t] = "count" /\ Joined(c, f) /\ Quiet /\ reg[t] = 0 /\ sock[c] = "open" /\ got[c] = <<>>
  \/ pc[t] = "send" /\ Joined(c, f) /\ out = <<>> /\ pending = 1 /\ sock[c] = "open" /\ got[c] = <<>>
  \/ pc[t] = "free" /\ Joined(c, f) /\ out = <<c>> /\ reg[t] = 1 /\ sock[c] = "open" /\ got[c] = <<>>
  \/ pc[t] = "flush" /\ Joined(c, f) /\ out = <<c>> /\ pending = 0 /\ sock[c] = "open" /\ got[c] = <<>>
  \/ pc[t] = "shut" /\ Joined(c, f) /\ Quiet /\ sock[c] = "open"
  \/ pc[t] = "close1" /\ Joined(c, f) /\ Quiet /\ sock[c] = "shut"
  \/ pc[t] = "closing" /\ Apart(c, f) /\ Quiet /\ sock[c] \in {"open", "shut"}
  \/ pc[t] = "closing" /\ f = Stdout /\ (\A g \in Fds : fd[g] = Nil) /\ Quiet /\ sock[c] = "gone"

Busy(t, c) ==
  /\ Empty /\ \A s \in Thread \ {t} : AtRest(s)
  /\ job[t].con = c /\ (pc[t] \notin {"recv", "closing"} => job[t].asked = c)
  /\ job[t].fd \in Fds /\ Stage(t, c, job[t].fd)
  /\ Others(c)

Alone ==
  /\ Idle \/ (\E c \in Conn : Queued(c)) \/ (\E t \in Thread, c \in Conn : Busy(t, c))
  /\ ~dead
  /\ \A d \in Conn : got[d] \in {<<>>, <<d>>} /\ (sock[d] = "new" => got[d] = <<>>)

Inv == QueueInv /\ NoLostWakeup /\ (sequential => Alone)

-----------------------------------------------------------------------------
(* Descriptors *)

LEMMA FdsFacts ==
  ASSUME ConstantsOK
  PROVE  /\ Cardinality(Conn) \in Nat /\ Fds \subseteq Nat /\ Stdout \in Fds /\ 4 \in Fds
         /\ 4..(4 + Cardinality(Conn)) \subseteq Fds \ {Stdout}
         /\ Nil \notin Conn /\ Console \notin Conn /\ Nil # Console /\ Nil \notin Addr
<1>1. Cardinality(Conn) \in Nat
  BY FS_CardinalityType DEF ConstantsOK
<1> QED
  BY <1>1 DEF Fds, Stdout, ConstantsOK

(* A set of numbers that is not empty has a least one. *)
LEMMA MinIn ==
  ASSUME NEW S \in SUBSET Nat, S # {}
  PROVE  Min(S) \in S
<1>1. PICK x \in S : \A y \in S : ~(<<y, x>> \in OpToRel(<, Nat))
  BY NatLessThanWellFounded, WFMin
<1>2. ASSUME NEW y \in S PROVE <<y, x>> \in OpToRel(<, Nat) <=> y < x
  <2>1. <<y, x>> \in Nat \X Nat /\ <<y, x>>[1] = y /\ <<y, x>>[2] = x
    OBVIOUS
  <2>2. OpToRel(<, Nat) = {ss \in Nat \X Nat : ss[1] < ss[2]}
    BY Zenon DEF OpToRel
  <2> QED
    BY <2>1, <2>2
<1>3. \A y \in S : ~(y < x)
  BY <1>1, <1>2, Zenon
<1>4. \A y \in S : x <= y
  BY <1>3
<1> QED
  BY <1>4 DEF Min

(* accept finds a free descriptor: all but stdout refer to different          *)
(* connections, and there are more of them than connections.                  *)
LEMMA FreeDescriptor ==
  ASSUME ConstantsOK, TypeOK, Table
  PROVE  /\ Min({g \in Fds : fd[g] = Nil}) \in Fds
         /\ fd[Min({g \in Fds : fd[g] = Nil})] = Nil
<1> DEFINE U == 4..(4 + Cardinality(Conn))
           F == {g \in Fds : fd[g] = Nil}
<1>1. Cardinality(Conn) \in Nat /\ U \subseteq Fds \ {Stdout}
  BY FdsFacts
<1>2. IsFiniteSet(U) /\ Cardinality(U) = Cardinality(Conn) + 1
  <2>1. 4 \in Int /\ 4 + Cardinality(Conn) \in Int
    BY <1>1
  <2> DEFINE top == 4 + Cardinality(Conn)
  <2>2. ~(4 > top) /\ top - 4 + 1 = Cardinality(Conn) + 1
    BY <1>1
  <2>3. IsFiniteSet(4..top) /\ Cardinality(4..top) = IF 4 > top THEN 0 ELSE top - 4 + 1
    BY <2>1, FS_Interval
  <2> QED
    BY <2>2, <2>3
<1>3. \E g \in U : fd[g] = Nil
  <2> SUFFICES ASSUME \A g \in U : fd[g] # Nil PROVE FALSE
    OBVIOUS
  <2> DEFINE h == [g \in U |-> fd[g]]
  <2> HIDE DEF U
  <2>1. h \in [U -> Conn]
    BY <1>1 DEF TypeOK, Table
  <2>2. \A x, y \in U : x # y => h[x] # h[y]
    BY <1>1, <2>1 DEF Table
  <2>3. IsFiniteSet(Conn) /\ Cardinality(Conn) < Cardinality(U)
    BY <1>1, <1>2 DEF ConstantsOK
  <2> HIDE DEF h
  <2>4. \E x, y \in U : x # y /\ h[x] = h[y]
    BY <1>2, <2>1, <2>3, FS_PigeonHole
  <2> QED
    BY <2>2, <2>4
<1>4. F \in SUBSET Nat /\ F # {}
  BY <1>1, <1>3, FdsFacts
<1>5. Min(F) \in F
  BY <1>4, MinIn
<1> QED
  BY <1>5

(* close: the descriptor is free, its socket is gone or as before. *)
Closed(f, socks, r) ==
  /\ r.fd = [fd EXCEPT ![f] = Nil] /\ r.fd \in [Fds -> Conn \cup {Nil, Console}]
  /\ r.sock \in [Conn -> {"new", "open", "shut", "gone"}]
  /\ \A c \in Conn : r.sock[c] = socks[c] \/ r.sock[c] = "gone"
  /\ \A c \in Conn \ {fd[f]} : r.sock[c] = socks[c]
  /\ fd[f] \in Conn /\ (\A g \in Fds \ {f} : fd[g] # fd[f]) => r.sock[fd[f]] = "gone"
  /\ fd[f] \in Conn /\ (\E g \in Fds \ {f} : fd[g] = fd[f]) => r.sock = socks
  /\ fd[f] \notin Conn => r.sock = socks

LEMMA CloseFacts ==
  ASSUME ConstantsOK, TypeOK, NEW f \in Fds, NEW socks \in [Conn -> {"new", "open", "shut", "gone"}]
  PROVE  Closed(f, socks, AfterClose(f, fd, socks))
<1> DEFINE left == [fd EXCEPT ![f] = Nil]
           c == fd[f]
           sk == IF c \in Conn /\ Refs(c, left) = {} THEN [socks EXCEPT ![c] = "gone"] ELSE socks
<1>1. AfterClose(f, fd, socks) = [fd |-> left, sock |-> sk]
  BY DEF AfterClose
<1>2. left \in [Fds -> Conn \cup {Nil, Console}] /\ left[f] = Nil /\ \A g \in Fds \ {f} : left[g] = fd[g]
  BY DEF TypeOK
<1>3. c \in Conn => (Refs(c, left) = {} <=> \A g \in Fds \ {f} : fd[g] # c)
  BY <1>2, FdsFacts DEF Refs
<1> HIDE DEF left
<1>4. /\ sk \in [Conn -> {"new", "open", "shut", "gone"}]
      /\ \A d \in Conn : sk[d] = socks[d] \/ sk[d] = "gone"
      /\ \A d \in Conn \ {c} : sk[d] = socks[d]
      /\ c \in Conn /\ (\A g \in Fds \ {f} : fd[g] # c) => sk[c] = "gone"
      /\ c \in Conn /\ (\E g \in Fds \ {f} : fd[g] = c) => sk = socks
      /\ c \notin Conn => sk = socks
  BY <1>3
<1> HIDE DEF sk
<1> QED
  BY <1>1, <1>2, <1>4 DEF left, Closed

(* shutdown: sockets that are not new stay so. *)
LEMMA ShutFacts ==
  ASSUME TypeOK, NEW f \in Fds
  PROVE  LET s == IF fd[f] \in Conn THEN [sock EXCEPT ![fd[f]] = "shut"] ELSE sock
         IN  /\ s \in [Conn -> {"new", "open", "shut", "gone"}]
             /\ \A c \in Conn : s[c] = sock[c] \/ s[c] = "shut"
             /\ \A c \in Conn \ {fd[f]} : s[c] = sock[c]
             /\ fd[f] \in Conn => s[fd[f]] = "shut"
             /\ fd[f] \notin Conn => s = sock
BY DEF TypeOK

-----------------------------------------------------------------------------
(* The steps of respond leave the queue alone *)

(* A thread goes on with what it has taken, or gives it up and rests. *)
Responds(t) ==
  /\ UNCHANGED queueVars /\ sequential' = sequential
  /\ ~AtRest(t) /\ pc'[t] # "wait" /\ \A s \in Thread \ {t} : pc'[s] = pc[s] /\ job'[s] = job[s]
  /\ job'[t].con = job[t].con \/ (job'[t] = NoJob /\ pc'[t] = "next")
  /\ \A c \in Conn : sock[c] # "new" => sock'[c] # "new"

LEMMA RespondsKeepsQueue ==
  ASSUME ConstantsOK, QueueInv, TypeOK', NEW t \in Thread, Responds(t)
  PROVE  (Empty \/ Headed \/ Loose)' /\ Taken' /\ NoLostWakeup'
<1>1. UNCHANGED <<heap, live, qHead, qTail, woken>>
  BY DEF Responds, queueVars
<1>2. (Empty \/ Headed \/ Loose)'
  BY <1>1 DEF QueueInv, Empty, Headed, Loose, Con
<1>3. NoLostWakeup'
  BY DEF NoLostWakeup, Responds
<1>4. Reachable' = Reachable /\ \A a \in Addr : Con(a)' = Con(a)
  BY <1>1 DEF Reachable, Con
<1>5. /\ \A s \in Thread : /\ job[s] = NoJob \/ job[s].con \in Conn
                           /\ job'[s] = NoJob \/ job'[s].con \in Conn
                           /\ job'[s] # NoJob => job[s] # NoJob /\ job'[s].con = job[s].con
      /\ NoJob.con = Nil /\ Nil \notin Conn
  <2>1. NoJob.con = Nil /\ Nil \notin Conn
    BY FdsFacts DEF NoJob
  <2>2. \A j \in Jobs : j = NoJob \/ j.con \in Conn
    BY DEF Jobs
  <2>3. \A s \in Thread : job[s] \in Jobs /\ job'[s] \in Jobs
    BY DEF QueueInv, TypeOK
  <2> QED
    BY <2>1, <2>2, <2>3 DEF Responds
<1>6. (\A a \in Reachable : Con(a) \in Conn)' /\ (\A a \in Addr : Con(a) \in Conn => sock[Con(a)] # "new")'
  <2>1. Reachable \subseteq Addr
    BY DEF QueueInv, TypeOK, Reachable
  <2> QED
    BY <1>4, <2>1 DEF QueueInv, Taken, Responds
<1>7. \A s \in Thread : /\ job'[s].con \in Conn => sock'[job'[s].con] # "new"
                        /\ ~AtRest(s)' => job'[s].con \in Conn
  BY <1>5 DEF QueueInv, Taken, Responds, AtRest
<1>8. \A s, u \in Thread : s # u /\ job'[s] # NoJob => job'[s].con # job'[u].con
  BY <1>5 DEF QueueInv, Taken
<1>9. \A s \in Thread : job'[s] # NoJob => \A a \in Reachable : Con(a) # job'[s].con
  BY <1>5 DEF QueueInv, Taken
<1>10. Reachable \subseteq Addr
  BY DEF QueueInv, TypeOK, Reachable
<1> QED
  BY <1>2, <1>3, <1>4, <1>6, <1>7, <1>8, <1>9, <1>10 DEF Taken

(* The descriptors stay, or one is closed. *)
LEMMA TableKept ==
  ASSUME ConstantsOK, QueueInv, \A c \in Conn : sock[c] # "new" => sock'[c] # "new",
         fd' = fd \/ \E f \in Fds : fd' = [fd EXCEPT ![f] = Nil]
  PROVE  Table'
<1>1. \A g \in Fds : fd'[g] = fd[g] \/ fd'[g] = Nil
  BY DEF QueueInv, TypeOK
<1> QED
  BY <1>1, FdsFacts DEF QueueInv, Table

(* The steps that only go on and count. *)
LEMMA PlainSteps ==
  ASSUME ConstantsOK, QueueInv, NEW t \in Thread,
         RecvNothing(t) \/ ReqNew(t) \/ Count(t) \/ Send(t) \/ ErrorResponse(t)
  PROVE  TypeOK' /\ Responds(t) /\ Table'
<1> USE DEF queueVars, ioVars, cntVars, Step
<1>1. UNCHANGED <<heap, live, qHead, qTail, woken, fd, sock, got, dead, job, sequential>>
  BY DEF RecvNothing, ReqNew, Count, Send, ErrorResponse
<1>2. /\ ~AtRest(t) /\ pc' \in [Thread -> Pcs] /\ pc'[t] # "wait"
      /\ \A s \in Thread \ {t} : pc'[s] = pc[s]
  BY DEF RecvNothing, ReqNew, Count, Send, ErrorResponse, QueueInv, TypeOK, Pcs, AtRest
<1>3. job[t].asked \in Conn \cup {Nil}
  BY DEF QueueInv, TypeOK, Jobs, NoJob
<1>4. out' \in Seq(Conn \cup {Nil})
  <2>1. out' = out \/ out' = Append(out, job[t].asked)
    BY DEF RecvNothing, ReqNew, Count, Send, ErrorResponse
  <2>2. out \in Seq(Conn \cup {Nil})
    BY DEF QueueInv, TypeOK
  <2> QED
    BY <1>3, <2>1, <2>2
<1>5. pending' \in Nat /\ reg' \in [Thread -> Nat]
  <2>1. \A n \in Nat : (n + 1) % (PendingMask + 1) \in Nat
    BY DEF ConstantsOK
  <2> QED
    BY <2>1 DEF RecvNothing, ReqNew, Count, Send, ErrorResponse, QueueInv, TypeOK
<1>6. TypeOK'
  BY <1>1, <1>2, <1>4, <1>5 DEF QueueInv, TypeOK
<1>7. Responds(t)
  BY <1>1, <1>2 DEF Responds
<1>8. Table'
  BY <1>1, TableKept
<1> QED
  BY <1>6, <1>7, <1>8

(* The steps that flush, shut and close. *)
LEMMA FlushSteps ==
  ASSUME ConstantsOK, QueueInv, NEW t \in Thread, ReqFree(t) \/ FlushStdout(t)
  PROVE  TypeOK' /\ Responds(t) /\ Table'
<1> USE DEF queueVars, ioVars, cntVars, Step
<1>1. UNCHANGED <<heap, live, qHead, qTail, woken, fd, sock, reg, job, sequential>>
  BY DEF ReqFree, FlushStdout
<1>2. /\ ~AtRest(t) /\ pc' \in [Thread -> Pcs] /\ pc'[t] # "wait"
      /\ \A s \in Thread \ {t} : pc'[s] = pc[s]
  BY DEF ReqFree, FlushStdout, QueueInv, TypeOK, Pcs, AtRest
<1>3. out' \in Seq(Conn \cup {Nil}) /\ got' \in [Conn -> Seq(Conn \cup {Nil})]
  <2> DEFINE c == fd[Stdout]
             g == got[c] \o out
  <2>1. out' = <<>> /\ (got' = got \/ (c \in Conn /\ got' = [got EXCEPT ![c] = g]))
    BY DEF ReqFree, FlushStdout, Flush
  <2>2. out \in Seq(Conn \cup {Nil}) /\ got \in [Conn -> Seq(Conn \cup {Nil})]
    BY DEF QueueInv, TypeOK
  <2>3. c \in Conn => g \in Seq(Conn \cup {Nil})
    BY <2>2
  <2> HIDE DEF g, c
  <2> QED
    BY <2>1, <2>2, <2>3
<1>4. pending' \in Nat
  <2>1. \A n \in Nat : (n + PendingMask) % (PendingMask + 1) \in Nat
    BY DEF ConstantsOK
  <2> QED
    BY <2>1 DEF ReqFree, FlushStdout, QueueInv, TypeOK
<1>5. TypeOK'
  BY <1>1, <1>2, <1>3, <1>4 DEF QueueInv, TypeOK
<1>6. Responds(t)
  BY <1>1, <1>2 DEF Responds
<1>7. Table'
  BY <1>1, TableKept
<1> QED
  BY <1>5, <1>6, <1>7

(* A thread that is not at rest has a connection and its descriptor. *)
LEMMA JobFacts ==
  ASSUME ConstantsOK, QueueInv, NEW t \in Thread, ~AtRest(t)
  PROVE  /\ job[t] \in [fd : Fds, con : Conn, asked : Conn \cup {Nil}]
         /\ job[t].fd \in Fds /\ job[t].con \in Conn
<1>1. job[t] \in Jobs /\ job[t].con \in Conn /\ NoJob.con = Nil
  BY DEF QueueInv, TypeOK, Taken, NoJob
<1> QED
  BY <1>1, FdsFacts DEF Jobs

LEMMA CloseSteps ==
  ASSUME ConstantsOK, QueueInv, NEW t \in Thread, ShutStdout(t) \/ CloseStdout(t) \/ CloseCon(t)
  PROVE  TypeOK' /\ Responds(t) /\ Table'
<1> USE DEF queueVars, ioVars, cntVars, Step
<1>1. UNCHANGED <<heap, live, qHead, qTail, woken, out, got, dead, pending, reg, sequential>>
  BY DEF ShutStdout, CloseStdout, CloseCon
<1>2. /\ ~AtRest(t) /\ pc' \in [Thread -> Pcs] /\ pc'[t] # "wait"
      /\ \A s \in Thread \ {t} : pc'[s] = pc[s]
  BY DEF ShutStdout, CloseStdout, CloseCon, QueueInv, TypeOK, Pcs, AtRest
<1>3. /\ job' \in [Thread -> Jobs] /\ \A s \in Thread \ {t} : job'[s] = job[s]
      /\ job'[t] = job[t] \/ (job'[t] = NoJob /\ pc'[t] = "next")
  BY DEF ShutStdout, CloseStdout, CloseCon, QueueInv, TypeOK, Jobs
<1>4. /\ sock' \in [Conn -> {"new", "open", "shut", "gone"}] /\ fd' \in [Fds -> Conn \cup {Nil, Console}]
      /\ \A c \in Conn : sock[c] # "new" => sock'[c] # "new"
      /\ fd' = fd \/ \E f \in Fds : fd' = [fd EXCEPT ![f] = Nil]
  <2>1. TypeOK /\ Stdout \in Fds
    BY FdsFacts DEF QueueInv
  <2>2. CASE ShutStdout(t)
    BY <2>1, <2>2, ShutFacts DEF ShutStdout, TypeOK
  <2>3. CASE CloseStdout(t)
    <3>1. sock \in [Conn -> {"new", "open", "shut", "gone"}]
      BY <2>1 DEF TypeOK
    <3> DEFINE r == AfterClose(Stdout, fd, sock)
    <3>2. fd' = r.fd /\ sock' = r.sock
      BY <2>3 DEF CloseStdout
    <3>3. /\ r.fd = [fd EXCEPT ![Stdout] = Nil] /\ r.fd \in [Fds -> Conn \cup {Nil, Console}]
          /\ r.sock \in [Conn -> {"new", "open", "shut", "gone"}]
          /\ \A c \in Conn : r.sock[c] = sock[c] \/ r.sock[c] = "gone"
      <4>1. Closed(Stdout, sock, r)
        BY <2>1, <3>1, CloseFacts
      <4> HIDE DEF r
      <4> QED
        BY <2>1, <3>1, <4>1 DEF Closed
    <3> HIDE DEF r
    <3> QED
      BY <2>1, <3>2, <3>3
  <2>4. CASE CloseCon(t)
    <3> DEFINE f == job[t].fd
               s == IF fd[f] \in Conn THEN [sock EXCEPT ![fd[f]] = "shut"] ELSE sock
               r == AfterClose(f, fd, s)
    <3>1. f \in Fds
      BY <1>2, JobFacts
    <3>2. fd' = r.fd /\ sock' = r.sock
      BY <2>4 DEF CloseCon
    <3> HIDE DEF f
    <3>3. s \in [Conn -> {"new", "open", "shut", "gone"}] /\ \A c \in Conn : s[c] = sock[c] \/ s[c] = "shut"
      BY <2>1, <3>1, ShutFacts
    <3> HIDE DEF s
    <3>4. /\ r.fd = [fd EXCEPT ![f] = Nil] /\ r.fd \in [Fds -> Conn \cup {Nil, Console}]
          /\ r.sock \in [Conn -> {"new", "open", "shut", "gone"}]
          /\ \A c \in Conn : r.sock[c] = s[c] \/ r.sock[c] = "gone"
      <4>1. Closed(f, s, r)
        BY <2>1, <3>1, <3>3, CloseFacts
      <4> HIDE DEF r
      <4> QED
        BY <2>1, <3>1, <3>3, <4>1 DEF Closed
    <3> HIDE DEF r
    <3> QED
      BY <3>1, <3>2, <3>3, <3>4
  <2> QED
    BY <2>2, <2>3, <2>4
<1>5. TypeOK'
  BY <1>1, <1>2, <1>3, <1>4 DEF QueueInv, TypeOK
<1>6. Responds(t)
  BY <1>1, <1>2, <1>3, <1>4 DEF Responds
<1>7. Table'
  BY <1>4, TableKept
<1> QED
  BY <1>5, <1>6, <1>7

(* recv and dup2: stdout refers to the connection as well. *)
LEMMA RecvStep ==
  ASSUME ConstantsOK, QueueInv, NEW t \in Thread, Recv(t)
  PROVE  TypeOK' /\ Responds(t) /\ Table'
<1> USE DEF queueVars, ioVars, cntVars
<1> DEFINE f == job[t].fd
           closed == IF f = Stdout THEN [fd |-> fd, sock |-> sock] ELSE AfterClose(Stdout, fd, sock)
<1>1. UNCHANGED <<heap, live, qHead, qTail, woken, out, got, dead, pending, reg, sequential>>
  BY DEF Recv
<1>2. /\ ~AtRest(t) /\ pc' \in [Thread -> Pcs] /\ pc'[t] # "wait"
      /\ \A s \in Thread \ {t} : pc'[s] = pc[s]
  BY DEF Recv, QueueInv, TypeOK, Pcs, AtRest
<1>3. f \in Fds /\ fd[f] \in Conn /\ Stdout \in Fds
  BY <1>2, JobFacts, FdsFacts DEF Recv
<1>4. job' \in [Thread -> Jobs] /\ job'[t].con = job[t].con /\ \A s \in Thread \ {t} : job'[s] = job[s]
  <2>1. job' = [job EXCEPT ![t].asked = fd[f]] /\ job \in [Thread -> Jobs]
    BY DEF Recv, QueueInv, TypeOK
  <2>2. job[t] \in [fd : Fds, con : Conn, asked : Conn \cup {Nil}]
    BY <1>2, JobFacts
  <2>3. [job[t] EXCEPT !.asked = fd[f]] \in [fd : Fds, con : Conn, asked : Conn \cup {Nil}]
    BY <1>3, <2>2
  <2>4. [job[t] EXCEPT !.asked = fd[f]] \in Jobs /\ [job[t] EXCEPT !.asked = fd[f]].con = job[t].con
    BY <2>2, <2>3 DEF Jobs
  <2> QED
    BY <2>1, <2>4
<1>5. /\ sock' \in [Conn -> {"new", "open", "shut", "gone"}] /\ fd' \in [Fds -> Conn \cup {Nil, Console}]
      /\ \A c \in Conn : sock[c] # "new" => sock'[c] # "new"
      /\ \A g \in Fds \ {Stdout} : fd'[g] = fd[g]
      /\ fd'[Stdout] = fd[f]
  <2>1. sock \in [Conn -> {"new", "open", "shut", "gone"}] /\ fd \in [Fds -> Conn \cup {Nil, Console}] /\ TypeOK
    BY DEF QueueInv, TypeOK
  <2>2. /\ closed.fd \in [Fds -> Conn \cup {Nil, Console}] /\ closed.sock \in [Conn -> {"new", "open", "shut", "gone"}]
        /\ \A g \in Fds \ {Stdout} : closed.fd[g] = fd[g]
        /\ \A c \in Conn : closed.sock[c] = sock[c] \/ closed.sock[c] = "gone"
    <3>1. CASE f = Stdout
      BY <2>1, <3>1
    <3>2. CASE f # Stdout
      <4> DEFINE r == AfterClose(Stdout, fd, sock)
      <4>1. /\ r.fd = [fd EXCEPT ![Stdout] = Nil] /\ r.fd \in [Fds -> Conn \cup {Nil, Console}]
            /\ r.sock \in [Conn -> {"new", "open", "shut", "gone"}]
            /\ \A c \in Conn : r.sock[c] = sock[c] \/ r.sock[c] = "gone"
        <5>1. Closed(Stdout, sock, r)
          BY <1>3, <2>1, CloseFacts
        <5> HIDE DEF r
        <5> QED
          BY <1>3, <2>1, <5>1 DEF Closed
      <4>2. closed = r
        BY <3>2
      <4> HIDE DEF closed, r
      <4> QED
        BY <2>1, <4>1, <4>2
    <3> QED
      BY <3>1, <3>2
  <2>3. fd' = [closed.fd EXCEPT ![Stdout] = fd[f]] /\ sock' = closed.sock
    BY DEF Recv
  <2> HIDE DEF closed
  <2> QED
    BY <1>3, <2>2, <2>3
<1>6. TypeOK'
  BY <1>1, <1>2, <1>4, <1>5 DEF QueueInv, TypeOK
<1>7. Responds(t)
  BY <1>1, <1>2, <1>4, <1>5 DEF Responds
<1>8. Table'
  BY <1>3, <1>5 DEF QueueInv, Table
<1> QED
  BY <1>6, <1>7, <1>8

-----------------------------------------------------------------------------
(* queue_next and queue_add *)

(* A thread finds the queue empty, or takes its first entry. *)
Takes(t) ==
  /\ AtRest(t) /\ UNCHANGED <<heap, ioVars, cntVars, sequential>>
  /\ IF qHead = Nil
     THEN /\ UNCHANGED <<live, qHead, qTail, job>>
          /\ pc' = [pc EXCEPT ![t] = "wait"] \/ pc' = [pc EXCEPT ![t] = "next"]
     ELSE /\ job' = [job EXCEPT ![t] = heap[qHead].r]
          /\ qHead' = heap[qHead].next
          /\ qTail' = IF heap[qHead].next = Nil THEN Nil ELSE qTail
          /\ live' = live \ {qHead}
          /\ pc' = [pc EXCEPT ![t] = "recv"]
  /\ woken' \in SUBSET Thread

LEMMA TakingTakes ==
  ASSUME QueueInv, NEW t \in Thread, QueueNext(t) \/ Wake(t)
  PROVE  Takes(t)
<1>1. woken' \in SUBSET Thread
  BY DEF QueueInv, TypeOK, QueueNext, Wake
<1> QED
  BY <1>1 DEF QueueNext, Wake, Pop, Takes, AtRest

LEMMA TakesKeepsQueue ==
  ASSUME ConstantsOK, QueueInv, NEW t \in Thread, Takes(t)
  PROVE  QueueInv' /\ NoLostWakeup'
<1> USE DEF ioVars, cntVars
<1>1. CASE qHead = Nil
  <2>1. UNCHANGED <<heap, live, qHead, qTail, job, fd, sock, out, got, dead, pending, reg, sequential>>
    BY <1>1 DEF Takes
  <2>2. pc' \in [Thread -> Pcs] /\ AtRest(t)' /\ AtRest(t) /\ \A s \in Thread \ {t} : pc'[s] = pc[s]
    BY <1>1 DEF Takes, QueueInv, TypeOK, Pcs, AtRest
  <2>3. TypeOK'
    BY <2>1, <2>2 DEF QueueInv, TypeOK, Takes
  <2>4. (Empty \/ Headed \/ Loose)' /\ Table' /\ NoLostWakeup'
    BY <1>1, <2>1 DEF QueueInv, Empty, Headed, Loose, Con, Table, NoLostWakeup
  <2>5. Reachable' = Reachable /\ \A a \in Addr : Con(a)' = Con(a)
    BY <2>1 DEF Reachable, Con
  <2>6. Reachable \subseteq Addr
    BY DEF QueueInv, TypeOK, Reachable
  <2>7. \A s \in Thread : ~AtRest(s)' => ~AtRest(s)
    BY <2>2 DEF AtRest
  <2>8. Taken'
    BY <2>1, <2>5, <2>6, <2>7 DEF QueueInv, Taken
  <2> QED
    BY <2>3, <2>4, <2>8 DEF QueueInv
<1>2. CASE qHead # Nil
  <2>1. /\ UNCHANGED <<heap, fd, sock, out, got, dead, pending, reg, sequential>>
        /\ job' = [job EXCEPT ![t] = heap[qHead].r]
        /\ qHead' = heap[qHead].next
        /\ qTail' = IF heap[qHead].next = Nil THEN Nil ELSE qTail
        /\ live' = live \ {qHead}
        /\ pc' = [pc EXCEPT ![t] = "recv"]
    BY <1>2 DEF Takes
  <2>2. qHead \in Addr /\ heap[qHead].r \in Jobs /\ heap[qHead].next \in Addr \cup {Nil}
    BY <1>2 DEF QueueInv, TypeOK
  <2>3. TypeOK'
    BY <2>1, <2>2 DEF QueueInv, TypeOK, Pcs, Takes
  <2>4. (Empty \/ Headed \/ Loose)'
    <3>1. CASE Loose
      BY <2>1, <3>1 DEF Loose, Empty
    <3>2. CASE Headed /\ heap[qHead].next = Nil
      BY <2>1, <3>2 DEF Empty
    <3>3. CASE Headed /\ heap[qHead].next # Nil
      BY <2>1, <3>3, <1>2 DEF Headed, Loose
    <3> QED
      BY <1>2, <3>1, <3>2, <3>3 DEF QueueInv, Empty
  <2>5. NoLostWakeup'
    BY <2>1 DEF NoLostWakeup, QueueInv, TypeOK
  <2>6. Table'
    BY <2>1 DEF QueueInv, Table
  <2>7. qHead \in Reachable /\ Con(qHead) \in Conn
    BY <1>2 DEF QueueInv, Taken, Reachable
  <2>8. \A a \in Addr : Con(a)' = Con(a)
    BY <2>1 DEF Con
  <2>9. Reachable' \subseteq Reachable \ {qHead} /\ (\A a \in Reachable' : Con(a) # Con(qHead)) /\ Reachable \subseteq Addr
    <3>1. Reachable \subseteq Addr
      BY DEF QueueInv, TypeOK, Reachable
    <3>2. CASE heap[qHead].next = Nil
      BY <2>1, <3>1, <3>2 DEF Reachable
    <3>3. CASE heap[qHead].next # Nil
      <4>1. Headed
        BY <1>2, <3>3 DEF QueueInv, Empty, Loose
      <4>2. Reachable' = {heap[qHead].next}
        BY <2>1, <3>3, <4>1 DEF Reachable, Headed
      <4> QED
        BY <1>2, <3>1, <3>3, <4>1, <4>2 DEF Reachable, Headed
    <3> QED
      BY <3>2, <3>3
  <2>10. job'[t] = heap[qHead].r /\ job'[t].con = Con(qHead) /\ \A s \in Thread \ {t} : job'[s] = job[s]
    BY <2>1 DEF QueueInv, TypeOK, Con
  <2>11. pc'[t] = "recv" /\ \A s \in Thread \ {t} : AtRest(s)' = AtRest(s)
    BY <2>1 DEF QueueInv, TypeOK, AtRest
  <2>12. \A s \in Thread : job[s] # NoJob => Con(qHead) # job[s].con
    BY <2>7 DEF QueueInv, Taken
  <2>13. \A s \in Thread : job[s] = NoJob => job[s].con = Nil
    BY DEF NoJob
  <2>14. (\A a \in Reachable : Con(a) \in Conn)' /\ (\A a \in Addr : Con(a) \in Conn => sock[Con(a)] # "new")'
    BY <2>1, <2>8, <2>9 DEF QueueInv, Taken
  <2>15. \A s \in Thread : /\ job'[s].con \in Conn => sock'[job'[s].con] # "new"
                           /\ ~AtRest(s)' => job'[s].con \in Conn
    BY <2>1, <2>2, <2>7, <2>10, <2>11 DEF QueueInv, Taken
  <2>16. \A s, u \in Thread : s # u /\ job'[s] # NoJob => job'[s].con # job'[u].con
    <3> SUFFICES ASSUME NEW s \in Thread, NEW u \in Thread, s # u, job'[s] # NoJob
                 PROVE  job'[s].con # job'[u].con
      OBVIOUS
    <3>1. CASE s # t /\ u # t
      BY <2>10, <3>1 DEF QueueInv, Taken
    <3>2. CASE s = t
      BY <2>7, <2>10, <2>12, <2>13, <3>2, FdsFacts
    <3>3. CASE u = t
      BY <2>10, <2>12, <3>3
    <3> QED
      BY <3>1, <3>2, <3>3
  <2>17. \A s \in Thread : job'[s] # NoJob => \A a \in Reachable' : Con(a) # job'[s].con
    BY <2>9, <2>10 DEF QueueInv, Taken
  <2>18. Taken'
    <3>1. Reachable' \subseteq Addr
      BY <2>9
    <3> QED
      BY <2>8, <2>14, <2>15, <2>16, <2>17, <3>1 DEF Taken
  <2> QED
    BY <2>3, <2>4, <2>5, <2>6, <2>18 DEF QueueInv
<1> QED
  BY <1>1, <1>2

(* pthread_cond_signal: afterwards somebody is awake. *)
LEMMA SignalWakes ==
  ASSUME ConstantsOK, TypeOK, Signal
  PROVE  woken' \in SUBSET Thread /\ \E t \in Thread : pc[t] # "wait" \/ t \in woken'
<1>1. CASE Waiting # {}
  BY <1>1 DEF Signal, Waiting, TypeOK
<1>2. CASE Waiting = {}
  BY <1>2 DEF Signal, Waiting, TypeOK, ConstantsOK
<1> QED
  BY <1>1, <1>2

(* The connection that is accepted, as it is queued at address a. *)
Queues(c, f, a) ==
  /\ f \in Fds /\ fd[f] = Nil /\ fd' = [fd EXCEPT ![f] = c]
  /\ sock[c] = "new" /\ sock' = [sock EXCEPT ![c] = "open"]
  /\ UNCHANGED <<out, got, dead, pending, reg, pc, job>>
  /\ a \in Addr \ live /\ live' = live \cup {a}
  /\ heap' \in [Addr -> [r : Jobs, next : Addr \cup {Nil}]]
  /\ heap'[a].r = [fd |-> f, con |-> c, asked |-> Nil]
  /\ \A b \in Addr \ {a} : heap'[b].r = heap[b].r
  /\ IF qTail = Nil
     THEN qHead' = a /\ qTail' = a /\ heap'[a].next = Nil
     ELSE /\ qHead' = qHead /\ qTail' = qTail
          /\ \A b \in Addr \ {a, qTail} : heap'[b].next = heap[b].next
          /\ heap'[qTail].next = a
          /\ a # qTail => heap'[a].next = Nil
  /\ woken' \in SUBSET Thread /\ \E t \in Thread : pc[t] # "wait" \/ t \in woken'

LEMMA AcceptQueues ==
  ASSUME ConstantsOK, QueueInv, NEW c \in Conn, Accept(c)
  PROVE  \E a \in Addr : Queues(c, Min({g \in Fds : fd[g] = Nil}), a)
<1> DEFINE f == Min({g \in Fds : fd[g] = Nil})
           r == [fd |-> f, con |-> c, asked |-> Nil]
<1>1. f \in Fds /\ fd[f] = Nil
  BY FreeDescriptor DEF QueueInv
<1>2. /\ sock[c] = "new" /\ fd' = [fd EXCEPT ![f] = c] /\ sock' = [sock EXCEPT ![c] = "open"]
      /\ UNCHANGED <<out, got, dead, pending, reg, pc, job>> /\ QueueAdd(r)
  BY DEF Accept, cntVars
<1> HIDE DEF f
<1>3. r \in Jobs
  BY <1>1 DEF Jobs
<1> DEFINE new == [r |-> r, next |-> Nil]
           h(a) == [heap EXCEPT ![a] = new]
<1>4. PICK a \in Addr \ live : /\ live' = live \cup {a} /\ Signal
                               /\ IF qTail = Nil THEN heap' = h(a) /\ qHead' = a /\ qTail' = a
                                  ELSE heap' = [h(a) EXCEPT ![qTail].next = a] /\ UNCHANGED <<qHead, qTail>>
  BY <1>2 DEF QueueAdd
<1>5. new \in [r : Jobs, next : Addr \cup {Nil}] /\ new.r = r /\ new.next = Nil
  BY <1>3
<1> HIDE DEF new
<1>6. heap \in [Addr -> [r : Jobs, next : Addr \cup {Nil}]] /\ qTail \in Addr \cup {Nil} /\ TypeOK
  BY DEF QueueInv, TypeOK
<1>7. h(a) \in [Addr -> [r : Jobs, next : Addr \cup {Nil}]] /\ h(a)[a] = new /\ \A b \in Addr \ {a} : h(a)[b] = heap[b]
  BY <1>5, <1>6
<1> DEFINE k == h(a)
<1> HIDE DEF h
<1>8. k \in [Addr -> [r : Jobs, next : Addr \cup {Nil}]] /\ k[a] = new /\ \A b \in Addr \ {a} : k[b] = heap[b]
  BY <1>7
<1>9. IF qTail = Nil THEN heap' = k /\ qHead' = a /\ qTail' = a
      ELSE heap' = [k EXCEPT ![qTail].next = a] /\ UNCHANGED <<qHead, qTail>>
  BY <1>4
<1> HIDE DEF k
<1>10. /\ heap' \in [Addr -> [r : Jobs, next : Addr \cup {Nil}]]
       /\ heap'[a].r = r
       /\ \A b \in Addr \ {a} : heap'[b].r = heap[b].r
       /\ IF qTail = Nil
          THEN qHead' = a /\ qTail' = a /\ heap'[a].next = Nil
          ELSE /\ qHead' = qHead /\ qTail' = qTail
               /\ \A b \in Addr \ {a, qTail} : heap'[b].next = heap[b].next
               /\ heap'[qTail].next = a
               /\ a # qTail => heap'[a].next = Nil
  <2>1. CASE qTail = Nil
    BY <1>5, <1>6, <1>8, <1>9, <2>1
  <2>2. CASE qTail # Nil
    <3> DEFINE e == [k[qTail] EXCEPT !.next = a]
    <3>1. qTail \in Addr /\ k[qTail] \in [r : Jobs, next : Addr \cup {Nil}]
      BY <1>6, <1>8, <2>2
    <3>2. e \in [r : Jobs, next : Addr \cup {Nil}] /\ e.r = k[qTail].r /\ e.next = a
      BY <3>1
    <3>3. heap' = [k EXCEPT ![qTail] = e]
      BY <1>9, <2>2
    <3> HIDE DEF e
    <3>4. /\ heap' \in [Addr -> [r : Jobs, next : Addr \cup {Nil}]] /\ heap'[qTail] = e
          /\ \A b \in Addr \ {qTail} : heap'[b] = k[b]
      BY <1>8, <3>1, <3>2, <3>3
    <3>5. heap'[a].r = r
      BY <1>5, <1>8, <3>2, <3>4
    <3>6. \A b \in Addr \ {a} : heap'[b].r = heap[b].r
      BY <1>8, <3>2, <3>4
    <3> QED
      BY <1>5, <1>8, <1>9, <2>2, <3>1, <3>2, <3>4, <3>5, <3>6
  <2> QED
    BY <2>1, <2>2
<1>11. woken' \in SUBSET Thread /\ \E t \in Thread : pc[t] # "wait" \/ t \in woken'
  BY <1>4, <1>6, SignalWakes
<1>12. Queues(c, f, a)
  BY <1>1, <1>2, <1>4, <1>10, <1>11 DEF Queues
<1> QED
  BY <1>12 DEF f

LEMMA QueuesKeepsQueue ==
  ASSUME ConstantsOK, QueueInv, NEW c \in Conn, NEW f, NEW a \in Addr, Queues(c, f, a)
  PROVE  QueueInv' /\ NoLostWakeup'
<1>1. /\ f \in Fds /\ fd[f] = Nil /\ fd' = [fd EXCEPT ![f] = c]
      /\ sock[c] = "new" /\ sock' = [sock EXCEPT ![c] = "open"]
      /\ UNCHANGED <<out, got, dead, pending, reg, pc, job>>
      /\ a \in Addr \ live /\ live' = live \cup {a}
      /\ woken' \in SUBSET Thread /\ \E t \in Thread : pc[t] # "wait" \/ t \in woken'
  BY DEF Queues
<1>2. qHead' \in Addr \cup {Nil} /\ qTail' \in Addr \cup {Nil}
  BY DEF Queues, QueueInv, TypeOK
<1>3. TypeOK'
  BY <1>1, <1>2 DEF QueueInv, TypeOK, Queues
<1>4. NoLostWakeup'
  BY <1>1 DEF NoLostWakeup
<1>5. sock'[c] = "open" /\ \A d \in Conn \ {c} : sock'[d] = sock[d]
  BY <1>1 DEF QueueInv, TypeOK
<1>6. Table'
  <2>1. fd'[f] = c /\ \A g \in Fds \ {f} : fd'[g] = fd[g]
    BY <1>1 DEF QueueInv, TypeOK
  <2>2. \A g \in Fds : fd[g] # c
    BY <1>1 DEF QueueInv, Table
  <2>3. \A g \in Fds : fd'[g] \in Conn => sock'[fd'[g]] # "new"
    BY <1>5, <2>1 DEF QueueInv, Table
  <2>4. \A g \in Fds \ {Stdout} : fd'[g] # Console
    BY <2>1, FdsFacts DEF QueueInv, Table
  <2>5. \A g, h \in Fds \ {Stdout} : g # h /\ fd'[g] \in Conn => fd'[g] # fd'[h]
    BY <2>1, <2>2 DEF QueueInv, Table
  <2> QED
    BY <2>3, <2>4, <2>5 DEF Table
<1>7. Con(a)' = c /\ \A b \in Addr \ {a} : Con(b)' = Con(b)
  BY DEF Queues, Con
<1>8. \A b \in Reachable : Con(b) # c
  BY <1>1 DEF QueueInv, Taken, Reachable, TypeOK
<1>9. (Empty \/ Headed \/ Loose)' /\ Reachable' \subseteq Reachable \cup {a}
  <2>1. CASE Empty
    BY <2>1, FdsFacts, <1>1 DEF Empty, Headed, Reachable, Queues
  <2>2. CASE Headed
    <3>1. qHead \in Addr /\ qTail = qHead /\ qHead # Nil /\ qHead # a /\ qHead \in live
      BY <1>1, <2>2, FdsFacts DEF Headed, QueueInv, TypeOK
    <3>2. qHead' = qHead /\ qTail' = qHead /\ heap'[qHead].next = a /\ heap'[a].next = Nil
      BY <3>1 DEF Queues
    <3>3. Con(qHead)' = Con(qHead) /\ qHead \in Reachable
      BY <1>7, <3>1, <3>2 DEF Reachable, Con
    <3> QED
      BY <1>1, <1>7, <1>8, <3>1, <3>2, <3>3, FdsFacts DEF Headed, Reachable, Con
  <2>3. CASE Loose
    <3>1. qHead \in Addr /\ qTail # Nil /\ qHead # qTail /\ qHead # a /\ qHead \in live /\ heap[qHead].next = Nil
      BY <1>1, <2>3, FdsFacts DEF Loose, QueueInv, TypeOK
    <3>2. qHead' = qHead /\ qTail' = qTail /\ heap'[qHead].next = Nil
      BY <3>1 DEF Queues
    <3> QED
      BY <1>1, <3>1, <3>2, FdsFacts DEF Loose, Reachable
  <2> QED
    BY <2>1, <2>2, <2>3 DEF QueueInv
<1>10. Taken'
  <2>1. Reachable \subseteq Addr /\ Reachable' \subseteq Addr
    <3>1. Reachable \subseteq Addr
      BY DEF QueueInv, TypeOK, Reachable
    <3> QED
      BY <1>9, <3>1
  <2>2. a \notin Reachable
    BY <1>1, FdsFacts DEF QueueInv, Reachable, Empty, Headed, Loose
  <2>3. \A b \in Reachable' : Con(b)' \in Conn
    BY <1>7, <1>9, <2>1 DEF QueueInv, Taken
  <2>4. \A b \in Addr : Con(b)' \in Conn => sock'[Con(b)'] # "new"
    BY <1>5, <1>7 DEF QueueInv, Taken
  <2>5. \A t \in Thread : /\ job'[t].con \in Conn => sock'[job'[t].con] # "new"
                          /\ ~AtRest(t)' => job'[t].con \in Conn
    BY <1>1, <1>5 DEF QueueInv, Taken, AtRest
  <2>6. \A s, t \in Thread : s # t /\ job'[s] # NoJob => job'[s].con # job'[t].con
    BY <1>1 DEF QueueInv, Taken
  <2>7. \A t \in Thread : job'[t] # NoJob => \A b \in Reachable' : Con(b)' # job'[t].con
    <3>1. \A t \in Thread : job[t] # NoJob => job[t].con # c
      BY <1>1 DEF QueueInv, Taken
    <3> QED
      BY <1>1, <1>7, <1>9, <2>1, <3>1 DEF QueueInv, Taken
  <2> QED
    BY <2>3, <2>4, <2>5, <2>6, <2>7 DEF Taken
<1> QED
  BY <1>3, <1>4, <1>6, <1>9, <1>10 DEF QueueInv

-----------------------------------------------------------------------------
(* A client that is alone *)

(* Who responds is the one that is busy. *)
LEMMA WhoResponds ==
  ASSUME Alone, NEW t \in Thread, ~AtRest(t)
  PROVE  \E c \in Conn : Busy(t, c)
BY DEF Alone, Idle, Queued, Busy

(* What a step keeps of the answers. *)
Answers == \A d \in Conn : got[d] \in {<<>>, <<d>>} /\ (sock[d] = "new" => got[d] = <<>>)

LEMMA AcceptAlone ==
  ASSUME ConstantsOK, Inv, NEW c \in Conn, Accept(c), sequential'
  PROVE  Alone'
<1>1. /\ sequential /\ (\A d \in Conn : sock[d] \in {"new", "gone"}) /\ \A t \in Thread : AtRest(t)
  BY DEF Accept, AtRest
<1>2. Alone /\ QueueInv
  BY <1>1 DEF Inv
<1>3. Idle
  BY <1>1, <1>2 DEF Alone, Queued, Busy, Stage, AtRest
<1>4. PICK f \in Fds, a \in Addr : Queues(c, f, a)
  <2>1. \E b \in Addr : Queues(c, Min({g \in Fds : fd[g] = Nil}), b)
    BY <1>2, AcceptQueues
  <2>2. Min({g \in Fds : fd[g] = Nil}) \in Fds
    BY <1>2, FreeDescriptor DEF QueueInv
  <2> QED
    BY <2>1, <2>2
<1>5. qTail = Nil /\ qHead' = a /\ qTail' = a /\ heap'[a].next = Nil /\ heap'[a].r = [fd |-> f, con |-> c, asked |-> Nil]
  BY <1>3, <1>4 DEF Idle, Empty, Queues
<1>6. /\ f \in Fds /\ fd[f] = Nil /\ fd' = [fd EXCEPT ![f] = c] /\ sock[c] = "new" /\ sock' = [sock EXCEPT ![c] = "open"]
      /\ UNCHANGED <<out, got, dead, pending, reg, pc, job>>
  BY <1>4 DEF Queues
<1>7. fd'[f] = c /\ \A g \in Fds \ {f} : fd'[g] = fd[g]
  BY <1>2, <1>6 DEF QueueInv, TypeOK
<1>8. sock'[c] = "open" /\ \A d \in Conn \ {c} : sock'[d] = sock[d]
  BY <1>2, <1>6 DEF QueueInv, TypeOK
<1>9. a # Nil
  BY FdsFacts
<1>10. Apart(c, f)'
  BY <1>3, <1>7 DEF Idle, Apart
<1>11. heap'[a].r.fd = f /\ Con(a)' = c
  BY <1>5 DEF Con
<1>12. Quiet' /\ (\A t \in Thread : AtRest(t)') /\ Others(c)' /\ got'[c] = <<>>
  BY <1>1, <1>2, <1>3, <1>6, <1>8 DEF Idle, Quiet, AtRest, Others, Alone
<1>13. Queued(c)'
  BY <1>5, <1>6, <1>8, <1>9, <1>10, <1>11, <1>12 DEF Queued, Con
<1>14. ~dead' /\ Answers'
  BY <1>2, <1>6, <1>8 DEF Alone, Answers
<1> QED
  BY <1>13, <1>14 DEF Alone, Answers

LEMMA TakesAlone ==
  ASSUME ConstantsOK, QueueInv, Alone, NEW t \in Thread, Takes(t)
  PROVE  Alone'
<1> USE DEF ioVars, cntVars
<1>1. UNCHANGED <<heap, fd, sock, out, got, dead, pending, reg, sequential>> /\ AtRest(t)
  BY DEF Takes
<1>2. ~dead' /\ Answers'
  BY <1>1 DEF Alone, Answers
<1>3. CASE qHead = Nil
  <2>1. UNCHANGED <<live, qHead, qTail, job>>
    BY <1>3 DEF Takes
  <2>2. AtRest(t)' /\ \A s \in Thread \ {t} : pc'[s] = pc[s]
    BY <1>3 DEF Takes, QueueInv, TypeOK, AtRest
  <2>3. \A s \in Thread : AtRest(s) => AtRest(s)'
    BY <2>2 DEF AtRest
  <2>4. CASE Idle
    BY <1>1, <1>2, <2>1, <2>3, <2>4 DEF Alone, Answers, Idle, Empty, Quiet
  <2>5. CASE \E s \in Thread, c \in Conn : Busy(s, c)
    <3>1. PICK s \in Thread, c \in Conn : Busy(s, c)
      BY <2>5
    <3>2. s # t
      BY <1>1, <3>1 DEF Busy, Stage, AtRest
    <3>3. pc'[s] = pc[s] /\ job'[s] = job[s]
      BY <2>1, <2>2, <3>2
    <3>4. Stage(s, c, job[s].fd)'
      <4>1. PICK n : n = job[s].fd /\ Stage(s, c, n) /\ job'[s].fd = n
        BY <3>1, <3>3 DEF Busy
      <4>2. (Apart(c, n) <=> Apart(c, n)') /\ (Joined(c, n) <=> Joined(c, n)') /\ (Quiet <=> Quiet')
        BY <1>1 DEF Apart, Joined, Quiet
      <4>3. Stage(s, c, n)'
        BY <1>1, <3>3, <4>1, <4>2 DEF Stage
      <4> QED
        BY <4>1, <4>3
    <3>5. Busy(s, c)'
      BY <1>1, <2>1, <2>3, <3>1, <3>3, <3>4 DEF Busy, Empty, Others
    <3> QED
      BY <1>2, <3>5 DEF Alone, Answers
  <2> QED
    BY <1>3, <2>4, <2>5 DEF Alone, Queued
<1>4. CASE qHead # Nil
  <2>1. PICK c \in Conn : Queued(c)
    BY <1>4 DEF Alone, Idle, Busy, Empty
  <2>2. /\ job' = [job EXCEPT ![t] = heap[qHead].r] /\ qHead' = Nil /\ qTail' = Nil /\ pc' = [pc EXCEPT ![t] = "recv"]
    BY <1>4, <2>1 DEF Takes, Queued
  <2>3. job'[t] = heap[qHead].r /\ pc'[t] = "recv" /\ \A s \in Thread \ {t} : pc'[s] = pc[s]
    BY <2>2 DEF QueueInv, TypeOK
  <2>4. PICK n \in Fds : Apart(c, n) /\ job'[t].con = c /\ job'[t].fd = n
    BY <2>1, <2>3 DEF Queued, Con
  <2>5. Apart(c, n)' /\ Quiet' /\ Others(c)' /\ sock'[c] = "open" /\ got'[c] = <<>>
    BY <1>1, <2>1, <2>4 DEF Apart, Quiet, Others, Queued
  <2>6. \A s \in Thread \ {t} : AtRest(s)'
    BY <2>1, <2>3 DEF Queued, AtRest
  <2>7. Stage(t, c, job[t].fd)'
    BY <2>3, <2>4, <2>5 DEF Stage
  <2>8. Busy(t, c)'
    BY <2>2, <2>3, <2>4, <2>5, <2>6, <2>7 DEF Busy, Empty
  <2> QED
    BY <1>2, <2>8 DEF Alone, Answers
<1> QED
  BY <1>3, <1>4

(* A step of respond: what is still to be shown of it. *)
LEMMA StaysAlone ==
  ASSUME QueueInv, Alone, NEW t \in Thread, NEW c \in Conn, Busy(t, c), Responds(t), ~dead',
         \A d \in Conn \ {c} : got'[d] = got[d] /\ sock'[d] = sock[d],
         got'[c] \in {<<>>, <<c>>}, sock'[c] # "new",
         \/ /\ job'[t].fd = job[t].fd /\ job'[t].con = c /\ (pc'[t] \notin {"recv", "closing"} => job'[t].asked = c)
            /\ Stage(t, c, job[t].fd)'
         \/ pc'[t] = "next" /\ Quiet' /\ sock'[c] = "gone"
            /\ \A g \in Fds : fd'[g] = Nil \/ (g = Stdout /\ fd'[g] = Console)
  PROVE  Alone'
<1>1. ~dead' /\ Answers'
  BY DEF Alone, Answers
<1>2. Empty' /\ (\A s \in Thread \ {t} : AtRest(s)') /\ Others(c)'
  BY DEF Responds, queueVars, Busy, Empty, AtRest, Others
<1>3. CASE pc'[t] = "next" /\ Quiet' /\ sock'[c] = "gone"
            /\ \A g \in Fds : fd'[g] = Nil \/ (g = Stdout /\ fd'[g] = Console)
  <2>1. Idle'
    BY <1>2, <1>3 DEF Idle, AtRest, Others
  <2> QED
    BY <1>1, <2>1 DEF Alone, Answers
<1>4. CASE /\ job'[t].fd = job[t].fd /\ job'[t].con = c /\ (pc'[t] \notin {"recv", "closing"} => job'[t].asked = c)
           /\ Stage(t, c, job[t].fd)'
  <2>1. Busy(t, c)'
    BY <1>2, <1>4 DEF Busy
  <2> QED
    BY <1>1, <2>1 DEF Alone, Answers
<1> QED
  BY <1>3, <1>4

(* What a busy thread knows. *)
LEMMA BusyFacts ==
  ASSUME ConstantsOK, QueueInv, NEW t \in Thread, NEW c \in Conn, Busy(t, c)
  PROVE  /\ job[t].fd \in Fds /\ Stage(t, c, job[t].fd) /\ job[t].con = c
         /\ Stdout \in Fds /\ Nil \notin Conn /\ Console \notin Conn /\ Nil # Console
         /\ pc[t] \notin {"recv", "closing"} => job[t].asked = c
BY FdsFacts DEF Busy

LEMMA PlainAlone ==
  ASSUME ConstantsOK, QueueInv, Alone, NEW t \in Thread, NEW c \in Conn, Busy(t, c), Responds(t),
         RecvNothing(t) \/ ReqNew(t) \/ Count(t) \/ Send(t) \/ ErrorResponse(t)
  PROVE  Alone'
<1> USE DEF queueVars, ioVars, cntVars, Step
<1>1. PICK f \in Fds : f = job[t].fd
  BY BusyFacts
<1>2. Stage(t, c, f) /\ job[t].con = c /\ (pc[t] \notin {"recv", "closing"} => job[t].asked = c)
  BY <1>1, BusyFacts
<1>3. UNCHANGED <<fd, sock, got, dead, job>>
  BY DEF RecvNothing, ReqNew, Count, Send, ErrorResponse
<1>4. Apart(c, f)' = Apart(c, f) /\ Joined(c, f)' = Joined(c, f)
  BY <1>3 DEF Apart, Joined
<1>5. Stage(t, c, f)' /\ (pc'[t] \notin {"recv", "closing"} => job'[t].asked = c)
  <2>1. CASE RecvNothing(t)
    <3>1. pc[t] = "recv" /\ pc'[t] = "closing" /\ UNCHANGED <<out, pending>>
      BY <2>1 DEF RecvNothing, QueueInv, TypeOK
    <3>2. Apart(c, f) /\ Quiet /\ sock[c] = "open"
      BY <1>2, <3>1 DEF Stage
    <3> QED
      BY <1>3, <1>4, <3>1, <3>2 DEF Stage, Quiet
  <2>2. CASE ReqNew(t)
    <3>1. /\ pc[t] = "exec" /\ pc'[t] \in {"answer", "count"} /\ UNCHANGED <<out, pending>> /\ reg'[t] = pending
      BY <2>2 DEF ReqNew, QueueInv, TypeOK
    <3>2. Joined(c, f) /\ Quiet /\ sock[c] = "open" /\ got[c] = <<>> /\ job[t].asked = c
      BY <1>2, <3>1 DEF Stage
    <3> QED
      BY <1>3, <1>4, <3>1, <3>2 DEF Stage, Quiet
  <2>3. CASE Count(t)
    <3>1. /\ pc[t] = "count" /\ pc'[t] = "send" /\ UNCHANGED out /\ pending' = (reg[t] + 1) % (PendingMask + 1)
      BY <2>3 DEF Count, QueueInv, TypeOK
    <3>2. Joined(c, f) /\ Quiet /\ reg[t] = 0 /\ sock[c] = "open" /\ got[c] = <<>> /\ job[t].asked = c
      BY <1>2, <3>1 DEF Stage
    <3>3. (0 + 1) % (PendingMask + 1) = 1
      BY DEF ConstantsOK
    <3> QED
      BY <1>3, <1>4, <3>1, <3>2, <3>3 DEF Stage, Quiet
  <2>4. CASE Send(t)
    <3>1. /\ pc[t] = "send" /\ pc'[t] = "free" /\ out' = Append(out, job[t].asked) /\ reg'[t] = pending
      BY <2>4 DEF Send, QueueInv, TypeOK
    <3>2. Joined(c, f) /\ out = <<>> /\ pending = 1 /\ sock[c] = "open" /\ got[c] = <<>> /\ job[t].asked = c
      BY <1>2, <3>1 DEF Stage
    <3>3. Append(<<>>, c) = <<c>>
      OBVIOUS
    <3> QED
      BY <1>3, <1>4, <3>1, <3>2, <3>3 DEF Stage, Quiet
  <2>5. CASE ErrorResponse(t)
    <3>1. /\ pc[t] = "answer" /\ pc'[t] = "flush" /\ out' = Append(out, job[t].asked) /\ UNCHANGED pending
      BY <2>5 DEF ErrorResponse, QueueInv, TypeOK
    <3>2. Joined(c, f) /\ Quiet /\ sock[c] = "open" /\ got[c] = <<>> /\ job[t].asked = c
      BY <1>2, <3>1 DEF Stage
    <3>3. Append(<<>>, c) = <<c>>
      OBVIOUS
    <3> QED
      BY <1>3, <1>4, <3>1, <3>2, <3>3 DEF Stage, Quiet
  <2> QED
    BY <2>1, <2>2, <2>3, <2>4, <2>5
<1>6. job'[t].fd = f /\ job'[t].con = c
  BY <1>1, <1>2, <1>3
<1>7. Stage(t, c, job[t].fd)'
  BY <1>5, <1>6
<1>8. got'[c] \in {<<>>, <<c>>} /\ sock'[c] # "new" /\ ~dead'
  BY <1>2, <1>3 DEF Alone, Stage
<1> QED
  BY <1>1, <1>3, <1>5, <1>6, <1>7, <1>8, StaysAlone

(* fflush: the answer goes to the client. *)
LEMMA FlushAlone ==
  ASSUME ConstantsOK, QueueInv, Alone, NEW t \in Thread, NEW c \in Conn, Busy(t, c), Responds(t),
         ReqFree(t) \/ FlushStdout(t)
  PROVE  Alone'
<1> USE DEF queueVars, ioVars, cntVars, Step
<1>1. PICK f \in Fds : f = job[t].fd
  BY BusyFacts
<1>2. Stage(t, c, f) /\ job[t].con = c /\ job[t].asked = c
  <2>1. pc[t] \notin {"recv", "closing"}
    BY DEF ReqFree, FlushStdout
  <2> QED
    BY <1>1, <2>1, BusyFacts
<1>3. UNCHANGED <<fd, sock, job>> /\ pc'[t] = "shut" /\ Flush
  BY DEF ReqFree, FlushStdout, QueueInv, TypeOK
<1>4. Joined(c, f) /\ sock[c] = "open" /\ got[c] = <<>> /\ out = <<c>>
  BY <1>2 DEF ReqFree, FlushStdout, Stage
<1>5. pending' = 0
  <2>1. CASE ReqFree(t)
    <3>1. reg[t] = 1 /\ pending' = (reg[t] + PendingMask) % (PendingMask + 1)
      BY <1>2, <2>1 DEF ReqFree, Stage
    <3>2. (1 + PendingMask) % (PendingMask + 1) = 0
      BY DEF ConstantsOK
    <3> QED
      BY <3>1, <3>2
  <2>2. CASE FlushStdout(t)
    BY <1>2, <2>2 DEF FlushStdout, Stage
  <2> QED
    BY <2>1, <2>2
<1>6. Joined(c, f)' /\ fd[Stdout] = c
  BY <1>3, <1>4 DEF Joined
<1>7. out' = <<>> /\ got' = [got EXCEPT ![c] = <<>> \o <<c>>] /\ ~dead'
  BY <1>3, <1>4, <1>6 DEF Flush
<1>8. got'[c] = <<c>> /\ \A d \in Conn \ {c} : got'[d] = got[d]
  <2>1. <<>> \o <<c>> = <<c>>
    OBVIOUS
  <2> QED
    BY <1>7, <2>1 DEF QueueInv, TypeOK
<1>9. Stage(t, c, f)'
  BY <1>3, <1>4, <1>5, <1>6, <1>7 DEF Stage, Quiet
<1>10. job'[t].fd = f /\ job'[t].con = c /\ job'[t].asked = c
  BY <1>1, <1>2, <1>3
<1>11. Stage(t, c, job[t].fd)'
  BY <1>9, <1>10
<1>12. sock'[c] # "new"
  BY <1>3, <1>4
<1> QED
  BY <1>1, <1>3, <1>7, <1>8, <1>10, <1>11, <1>12, StaysAlone

LEMMA RecvAlone ==
  ASSUME ConstantsOK, QueueInv, Alone, NEW t \in Thread, NEW c \in Conn, Busy(t, c), Responds(t), Recv(t)
  PROVE  Alone'
<1> USE DEF queueVars, ioVars, cntVars
<1>1. PICK f \in Fds : f = job[t].fd
  BY BusyFacts
<1>2. Stage(t, c, f) /\ job[t].con = c /\ Stdout \in Fds /\ Nil \notin Conn /\ Console \notin Conn
  BY <1>1, BusyFacts
<1>3. Apart(c, f) /\ Quiet /\ sock[c] = "open" /\ got[c] = <<>>
  BY <1>2 DEF Recv, Stage
<1>4. fd[f] = c /\ (f # Stdout => fd[Stdout] \notin Conn)
  BY <1>2, <1>3 DEF Apart
<1>5. /\ fd' \in [Fds -> Conn \cup {Nil, Console}] /\ fd'[Stdout] = c
      /\ (\A g \in Fds \ {Stdout} : fd'[g] = fd[g]) /\ sock' = sock
  <2>1. sock \in [Conn -> {"new", "open", "shut", "gone"}] /\ fd \in [Fds -> Conn \cup {Nil, Console}] /\ TypeOK
    BY DEF QueueInv, TypeOK
  <2>2. CASE f = Stdout
    <3>1. fd' = [fd EXCEPT ![Stdout] = c] /\ sock' = sock
      BY <1>1, <1>4, <2>2 DEF Recv
    <3> QED
      BY <1>2, <2>1, <3>1
  <2>3. CASE f # Stdout
    <3> DEFINE r == AfterClose(Stdout, fd, sock)
    <3>1. fd' = [r.fd EXCEPT ![Stdout] = c] /\ sock' = r.sock
      BY <1>1, <1>4, <2>3 DEF Recv
    <3>2. /\ r.fd = [fd EXCEPT ![Stdout] = Nil] /\ r.fd \in [Fds -> Conn \cup {Nil, Console}]
          /\ (fd[Stdout] \notin Conn => r.sock = sock)
      <4>1. Closed(Stdout, sock, r)
        BY <1>2, <2>1, CloseFacts
      <4> HIDE DEF r
      <4> QED
        BY <1>2, <2>1, <4>1 DEF Closed
    <3> HIDE DEF r
    <3> QED
      BY <1>2, <1>4, <2>1, <2>3, <3>1, <3>2
  <2> QED
    BY <2>2, <2>3
<1>6. Joined(c, f)'
  <2>1. fd'[f] = c
    BY <1>4, <1>5
  <2>2. \A g \in Fds \ {f, Stdout} : fd'[g] = Nil
    BY <1>3, <1>5 DEF Apart
  <2> QED
    BY <1>5, <2>1, <2>2 DEF Joined
<1>7. UNCHANGED <<out, got, dead, pending>> /\ pc'[t] \in {"exec", "answer"}
  BY DEF Recv, QueueInv, TypeOK
<1>8. Stage(t, c, f)'
  BY <1>3, <1>5, <1>6, <1>7 DEF Stage, Quiet
<1>9. job'[t].fd = f /\ job'[t].con = c /\ job'[t].asked = c
  <2>1. job' = [job EXCEPT ![t].asked = c]
    BY <1>1, <1>4 DEF Recv
  <2>2. job[t] \in [fd : Fds, con : Conn, asked : Conn \cup {Nil}] /\ job \in [Thread -> Jobs]
    BY JobFacts DEF Responds, QueueInv, TypeOK
  <2>3. job'[t] = [job[t] EXCEPT !.asked = c]
    BY <2>1, <2>2
  <2> QED
    BY <1>1, <1>2, <2>2, <2>3
<1>10. Stage(t, c, job[t].fd)'
  BY <1>8, <1>9
<1>11. got'[c] \in {<<>>, <<c>>} /\ sock'[c] # "new" /\ ~dead'
  BY <1>3, <1>5, <1>7 DEF Alone
<1> QED
  BY <1>1, <1>5, <1>7, <1>9, <1>10, <1>11, StaysAlone

LEMMA ShutAlone ==
  ASSUME ConstantsOK, QueueInv, Alone, NEW t \in Thread, NEW c \in Conn, Busy(t, c), Responds(t), ShutStdout(t)
  PROVE  Alone'
<1> USE DEF queueVars, ioVars, cntVars, Step
<1>1. PICK f \in Fds : f = job[t].fd
  BY BusyFacts
<1>2. Stage(t, c, f) /\ job[t].con = c /\ job[t].asked = c
  <2>1. pc[t] \notin {"recv", "closing"}
    BY DEF ShutStdout
  <2> QED
    BY <1>1, <2>1, BusyFacts
<1>3. Joined(c, f) /\ Quiet
  BY <1>2 DEF ShutStdout, Stage
<1>4. UNCHANGED <<fd, out, got, dead, pending, job>> /\ pc'[t] = "close1" /\ sock' = [sock EXCEPT ![c] = "shut"]
  BY <1>3 DEF ShutStdout, Joined, QueueInv, TypeOK
<1>5. sock'[c] = "shut" /\ \A d \in Conn \ {c} : sock'[d] = sock[d]
  BY <1>4 DEF QueueInv, TypeOK
<1>6. Stage(t, c, f)'
  BY <1>3, <1>4, <1>5 DEF Stage, Quiet, Joined
<1>7. job'[t].fd = f /\ job'[t].con = c /\ job'[t].asked = c
  BY <1>1, <1>2, <1>4
<1>8. Stage(t, c, job[t].fd)'
  BY <1>6, <1>7
<1>9. got'[c] \in {<<>>, <<c>>} /\ ~dead'
  BY <1>4 DEF Alone
<1>10. \A d \in Conn \ {c} : got'[d] = got[d]
  BY <1>4
<1> QED
  BY <1>1, <1>5, <1>7, <1>8, <1>9, <1>10, StaysAlone

(* close(STDOUT_FILENO): the connection has its own descriptor left, or none. *)
LEMMA CloseStdoutAlone ==
  ASSUME ConstantsOK, QueueInv, Alone, NEW t \in Thread, NEW c \in Conn, Busy(t, c), Responds(t), CloseStdout(t)
  PROVE  Alone'
<1> USE DEF queueVars, ioVars, cntVars, Step
<1>1. PICK f \in Fds : f = job[t].fd
  BY BusyFacts
<1>2. Stage(t, c, f) /\ job[t].con = c /\ Stdout \in Fds
  BY <1>1, BusyFacts
<1>3. Joined(c, f) /\ Quiet /\ sock[c] = "shut"
  BY <1>2 DEF CloseStdout, Stage
<1>4. UNCHANGED <<out, got, dead, pending, job>> /\ pc'[t] = "closing"
  BY DEF CloseStdout, QueueInv, TypeOK
<1> DEFINE r == AfterClose(Stdout, fd, sock)
<1>5. fd' = r.fd /\ sock' = r.sock
  BY DEF CloseStdout
<1>6. fd[Stdout] = c /\ fd[f] = c /\ \A g \in Fds \ {f, Stdout} : fd[g] = Nil
  BY <1>3 DEF Joined
<1>7. sock \in [Conn -> {"new", "open", "shut", "gone"}] /\ fd \in [Fds -> Conn \cup {Nil, Console}] /\ TypeOK /\ Nil \notin Conn
  BY BusyFacts DEF QueueInv, TypeOK
<1>8. /\ r.fd = [fd EXCEPT ![Stdout] = Nil]
      /\ \A d \in Conn \ {c} : r.sock[d] = sock[d]
      /\ (\A g \in Fds \ {Stdout} : fd[g] # c) => r.sock[c] = "gone"
      /\ (\E g \in Fds \ {Stdout} : fd[g] = c) => r.sock = sock
  <2>1. Closed(Stdout, sock, r)
    BY <1>2, <1>6, <1>7, CloseFacts
  <2> HIDE DEF r
  <2> QED
    BY <1>2, <1>6, <1>7, <2>1 DEF Closed
<1> HIDE DEF r
<1>9. fd'[Stdout] = Nil /\ \A g \in Fds \ {Stdout} : fd'[g] = fd[g]
  BY <1>2, <1>5, <1>7, <1>8
<1>10. Stage(t, c, f)' /\ sock'[c] # "new"
  <2>1. CASE f = Stdout
    <3>1. sock'[c] = "gone" /\ \A g \in Fds : fd'[g] = Nil
      BY <1>5, <1>6, <1>7, <1>8, <1>9, <2>1
    <3> QED
      BY <1>3, <1>4, <2>1, <3>1 DEF Stage, Quiet
  <2>2. CASE f # Stdout
    <3>1. sock'[c] = "shut"
      BY <1>3, <1>5, <1>6, <1>8, <2>2
    <3>2. Apart(c, f)'
      BY <1>6, <1>9, <2>2 DEF Apart
    <3> QED
      BY <1>3, <1>4, <3>1, <3>2 DEF Stage, Quiet
  <2> QED
    BY <2>1, <2>2
<1>11. job'[t].fd = f /\ job'[t].con = c
  BY <1>1, <1>2, <1>4
<1>12. Stage(t, c, job[t].fd)'
  BY <1>10, <1>11
<1>13. got'[c] \in {<<>>, <<c>>} /\ ~dead' /\ \A d \in Conn \ {c} : got'[d] = got[d] /\ sock'[d] = sock[d]
  BY <1>4, <1>5, <1>8 DEF Alone
<1> QED
  BY <1>1, <1>4, <1>10, <1>11, <1>12, <1>13, StaysAlone

(* shutdown and close of r->con: nothing refers to the connection any more. *)
LEMMA CloseConAlone ==
  ASSUME ConstantsOK, QueueInv, Alone, NEW t \in Thread, NEW c \in Conn, Busy(t, c), Responds(t), CloseCon(t)
  PROVE  Alone'
<1> USE DEF queueVars, ioVars, cntVars, Step
<1>1. PICK f \in Fds : f = job[t].fd
  BY BusyFacts
<1>2. Stage(t, c, f) /\ job[t].con = c /\ Stdout \in Fds /\ Nil \notin Conn /\ Console \notin Conn
  BY <1>1, BusyFacts
<1>3. Quiet /\ (Apart(c, f) \/ (f = Stdout /\ (\A g \in Fds : fd[g] = Nil) /\ sock[c] = "gone"))
  BY <1>2 DEF CloseCon, Stage
<1>4. UNCHANGED <<out, got, dead, pending>> /\ pc'[t] = "next"
  BY DEF CloseCon, QueueInv, TypeOK
<1> DEFINE s == IF fd[f] \in Conn THEN [sock EXCEPT ![fd[f]] = "shut"] ELSE sock
           r == AfterClose(f, fd, s)
<1>5. fd' = r.fd /\ sock' = r.sock
  BY <1>1 DEF CloseCon
<1>6. fd \in [Fds -> Conn \cup {Nil, Console}] /\ TypeOK
  BY DEF QueueInv, TypeOK
<1>7. /\ s \in [Conn -> {"new", "open", "shut", "gone"}]
      /\ \A d \in Conn \ {fd[f]} : s[d] = sock[d]
      /\ fd[f] \notin Conn => s = sock
  BY <1>6, ShutFacts
<1> HIDE DEF s
<1>8. /\ r.fd = [fd EXCEPT ![f] = Nil]
      /\ \A d \in Conn \ {fd[f]} : r.sock[d] = s[d]
      /\ fd[f] \in Conn /\ (\A g \in Fds \ {f} : fd[g] # fd[f]) => r.sock[fd[f]] = "gone"
      /\ fd[f] \notin Conn => r.sock = s
  <2>1. Closed(f, s, r)
    BY <1>6, <1>7, CloseFacts
  <2> HIDE DEF r
  <2> QED
    BY <1>6, <1>7, <2>1 DEF Closed
<1> HIDE DEF r
<1>9. fd'[f] = Nil /\ \A g \in Fds \ {f} : fd'[g] = fd[g]
  BY <1>5, <1>6, <1>8
<1>10. /\ sock'[c] = "gone" /\ \A d \in Conn \ {c} : sock'[d] = sock[d]
       /\ \A g \in Fds : fd'[g] = Nil \/ (g = Stdout /\ fd'[g] = Console)
  <2>1. CASE Apart(c, f)
    <3>1. fd[f] = c /\ \A g \in Fds \ {f} : fd[g] # c
      BY <1>2, <2>1 DEF Apart
    <3> QED
      BY <1>5, <1>7, <1>8, <1>9, <2>1, <3>1 DEF Apart
  <2>2. CASE f = Stdout /\ (\A g \in Fds : fd[g] = Nil) /\ sock[c] = "gone"
    <3>1. fd[f] \notin Conn /\ sock' = sock
      BY <1>2, <1>5, <1>7, <1>8, <2>2
    <3> QED
      BY <1>9, <2>2, <3>1
  <2> QED
    BY <1>3, <2>1, <2>2
<1>11. Quiet' /\ got'[c] \in {<<>>, <<c>>} /\ ~dead' /\ (\A d \in Conn \ {c} : got'[d] = got[d]) /\ sock'[c] # "new"
  BY <1>3, <1>4, <1>10 DEF Alone, Quiet
<1> QED
  BY <1>4, <1>10, <1>11, StaysAlone

-----------------------------------------------------------------------------

LEMMA InitInv ==
  ASSUME ConstantsOK, Init
  PROVE  Inv
<1>1. TypeOK
  <2>1. [r |-> NoJob, next |-> Nil] \in [r : Jobs, next : Addr \cup {Nil}]
    BY DEF Jobs
  <2>2. fd \in [Fds -> Conn \cup {Nil, Console}]
    BY DEF Init
  <2> QED
    BY <2>1, <2>2 DEF Init, TypeOK, Jobs, Pcs
<1>2. Empty
  BY DEF Init, Empty
<1>3. Taken
  BY FdsFacts DEF Init, Taken, Reachable, Con, NoJob, AtRest
<1>4. Table
  BY FdsFacts DEF Init, Table
<1>5. Idle
  BY <1>2 DEF Init, Idle, Quiet, AtRest
<1>6. Alone
  BY <1>5 DEF Init, Alone
<1>7. NoLostWakeup
  BY DEF Init, NoLostWakeup
<1> QED
  BY <1>1, <1>2, <1>3, <1>4, <1>6, <1>7 DEF Inv, QueueInv

LEMMA RespondStep ==
  ASSUME ConstantsOK, Inv, NEW t \in Thread,
         \/ RecvNothing(t) \/ ReqNew(t) \/ Count(t) \/ Send(t) \/ ErrorResponse(t)
         \/ ReqFree(t) \/ FlushStdout(t) \/ ShutStdout(t) \/ CloseStdout(t) \/ CloseCon(t) \/ Recv(t)
  PROVE  Inv'
<1>1. TypeOK' /\ Responds(t) /\ Table'
  BY PlainSteps, FlushSteps, CloseSteps, RecvStep DEF Inv
<1>2. QueueInv' /\ NoLostWakeup'
  BY <1>1, RespondsKeepsQueue DEF Inv, QueueInv
<1>3. ASSUME sequential' PROVE Alone'
  <2>1. Alone /\ QueueInv /\ ~AtRest(t)
    BY <1>1, <1>3 DEF Inv, Responds
  <2>2. PICK c \in Conn : Busy(t, c)
    BY <2>1, WhoResponds
  <2> QED
    BY <1>1, <2>1, <2>2, PlainAlone, FlushAlone, ShutAlone, CloseStdoutAlone, CloseConAlone, RecvAlone
<1> QED
  BY <1>2, <1>3 DEF Inv

LEMMA NextStep ==
  ASSUME ConstantsOK, Inv, [Next]_vars
  PROVE  Inv'
<1>1. ASSUME NEW c \in Conn, Accept(c) PROVE Inv'
  <2>1. QueueInv' /\ NoLostWakeup'
    BY <1>1, AcceptQueues, QueuesKeepsQueue DEF Inv
  <2> QED
    BY <1>1, <2>1, AcceptAlone DEF Inv
<1>2. ASSUME NEW t \in Thread, QueueNext(t) \/ Wake(t) PROVE Inv'
  <2>1. Takes(t) /\ sequential' = sequential
    BY <1>2, TakingTakes DEF Inv, Takes
  <2>2. QueueInv' /\ NoLostWakeup'
    BY <2>1, TakesKeepsQueue DEF Inv
  <2> QED
    BY <2>1, <2>2, TakesAlone DEF Inv
<1>3. CASE UNCHANGED vars
  BY <1>3 DEF vars, queueVars, ioVars, cntVars, Inv, QueueInv, TypeOK, Empty, Headed, Loose, Taken, Table, Con, Reachable,
       NoLostWakeup, Alone, Idle, Queued, Busy, Stage, Quiet, Apart, Joined, Others, AtRest
<1> QED
  BY <1>1, <1>2, <1>3, RespondStep DEF Next, Run

(* The invariant says what is to be shown. *)
LEMMA InvAnswers ==
  ASSUME ConstantsOK, Inv
  PROVE  ServerAnswers
<1>1. TakenOnce
  <2>1. Reachable \subseteq live
    BY DEF Inv, QueueInv, Empty, Headed, Loose, Reachable
  <2> QED
    BY <2>1 DEF Inv, QueueInv, Taken, TakenOnce, Con
<1>2. AloneIsAnswered
  <2>1. ASSUME sequential, \A t \in Thread : pc[t] \in {"next", "wait"} PROVE pending = 0 /\ out = <<>>
    BY <2>1 DEF Inv, Alone, Idle, Queued, Busy, Stage, AtRest, Quiet
  <2> QED
    BY <2>1 DEF Inv, Alone, AloneIsAnswered
<1> QED
  BY <1>1, <1>2 DEF ServerAnswers, Inv

(* queue_add, queue_next, respond: the queue loses no wake-up, hands no       *)
(* connection out twice, and a client that is alone is sent its own answer,   *)
(* for any number of threads and connections and wherever malloc puts the     *)
(* entries.                                                                   *)
THEOREM ServerIsRight ==
  ASSUME ConstantsOK
  PROVE  Spec => []ServerAnswers
<1>1. Init => Inv
  BY InitInv
<1>2. Inv /\ [Next]_vars => Inv'
  BY NextStep
<1>3. Inv => ServerAnswers
  BY InvAnswers
<1> QED
  BY <1>1, <1>2, <1>3, PTL DEF Spec

=============================================================================
