---------------------------- MODULE ServerProofs ----------------------------
(***************************************************************************)
(* Proofs about module Server: sessions get their own answers, and         *)
(* transactions and mutexes do not outlive the statements that hold them,  *)
(* for any number of clients, any sessions and any number of faults.       *)
(***************************************************************************)
EXTENDS Server, TLAPS

Loc == {"none", "new", "read", "scan", "analyze", "work", "auto", "gone", "broken"}
Op == LogOp \cup {"explicit", "committed", "aborted"}
Request == [of : Client \cup {NoClient}, no : Nat, kind : Kind]
Transaction ==
  [id : Int, state : {"GROWING", "COMMITTED", "ABORTED"}, txn_mode : BOOLEAN, prev_lsn : Int,
   write_set : BOOLEAN]

MainTypes ==
  /\ main \in {"lock", "accept", "closing"}
  /\ sockfd \in Client \cup {NoClient} /\ backlog \in Seq(Client) /\ spawned \in Nat

ParseTypes == buffer_mutex \in Handler \cup {0} /\ parse_tree \in Request

SessionTypes ==
  /\ hpc \in [Handler -> Loc] /\ fd \in [Handler -> Client \cup {NoClient}]
  /\ req \in [Handler -> Request] /\ got \in [Handler -> Request]
  /\ finish_analyze \in [Handler -> BOOLEAN] /\ txn_ok \in [Handler -> BOOLEAN]

TxnTypes ==
  /\ txn \in [Handler -> Transaction] /\ todo \in [Handler -> Seq(Op)]
  /\ next_txn_id \in Nat /\ global_lsn \in Nat

ClientTypes ==
  /\ cl \in [Client -> {"on", "wait", "closed"}] /\ sent \in [Client -> Seq(Kind)]
  /\ inbox \in [Client -> Seq(Request)] /\ stream \in [Client -> Seq(Request)]
  /\ shown \in [Client -> Request] /\ split \in [Client -> BOOLEAN]

(* Connections are handed over one at a time: from accept until the new    *)
(* thread has copied it, sockfd is the connection of that thread alone.    *)
Connections ==
  /\ \A h \in Serving : fd[h] \in Client
  /\ \A g, h \in Serving : fd[g] = fd[h] => g = h
  /\ \A i, j \in 1 .. Len(backlog) : backlog[i] = backlog[j] => i = j
  /\ \A i \in 1 .. Len(backlog) : \A h \in Serving : backlog[i] # fd[h]
  /\ \A h \in Handler : h > spawned => hpc[h] = "none"
  /\ main = "accept" => sockfd_mutex = TRUE
  /\ \A h \in Handler : hpc[h] = "new" =>
       /\ sockfd_mutex = TRUE /\ main # "accept" /\ sockfd \in Client
       /\ \A g \in Handler : hpc[g] = "new" => g = h
       /\ \A g \in Serving : fd[g] # sockfd
       /\ \A i \in 1 .. Len(backlog) : backlog[i] # sockfd

(* While the process lives, a thread between yyparse and the release of    *)
(* buffer_mutex holds it, so that ast::parse_tree is its own.              *)
Trees ==
  /\ \A h \in Handler : got[h] = req[h]
  /\ \A h \in Handler :
       buffer_mutex = h => hpc[h] = "analyze" \/ (hpc[h] = "work" /\ finish_analyze[h] = FALSE)
  /\ \A h \in Handler : hpc[h] \in {"scan", "analyze"} => finish_analyze[h] = FALSE
  /\ alive = TRUE => \A h \in Handler :
       /\ hpc[h] = "analyze" => buffer_mutex = h /\ parse_tree = req[h]
       /\ hpc[h] = "work" /\ finish_analyze[h] = FALSE => buffer_mutex = h

(* What is left of an abort, and of the commit behind an answer. *)
Aborting(s) == s = <<"ABORT", "flush", "aborted">> \/ s = <<"flush", "aborted">> \/ s = <<"aborted">>
Committing(s) ==
  \/ s = <<"BEGIN", "COMMIT", "flush", "committed">> \/ s = <<"COMMIT", "flush", "committed">>
  \/ s = <<"flush", "committed">>

Closed(t) == t.state # "GROWING" \/ t.txn_mode = TRUE

(* A transaction t at place l, with ops left to do. *)
InOrder(l, t, ok, ops) ==
  /\ l \in {"none", "new", "read", "gone"} => Closed(t)
  /\ l \in {"scan", "analyze"} => ok = TRUE
  /\ l = "work" /\ ok = FALSE => Aborting(ops)
  /\ l = "auto" => Committing(ops)

Ends == \A h \in Handler : InOrder(hpc[h], txn[h], txn_ok[h], todo[h])

(* A client that has had no answer in pieces has at most one request under *)
(* way: in its connection to the server, with a handler, or answered.      *)
Latest(c, r) == r.of = c /\ r.no = Len(sent[c])
Busy(c) == {h \in Handler : fd[h] = c /\ hpc[h] \in {"scan", "analyze", "work"}}

OneAsked(c) ==
  /\ cl[c] = "on" => /\ inbox[c] = <<>> /\ stream[c] = <<>> /\ Busy(c) = {}
                     /\ sent[c] # <<>> => Latest(c, shown[c])
  /\ cl[c] = "wait" =>
       /\ inbox[c] # <<>> => Len(inbox[c]) = 1 /\ Latest(c, inbox[c][1]) /\ stream[c] = <<>> /\ Busy(c) = {}
       /\ stream[c] # <<>> => Len(stream[c]) = 1 /\ Latest(c, stream[c][1]) /\ Busy(c) = {}
       /\ \A h \in Busy(c) : Latest(c, req[h])

Asks == \A c \in Client : split[c] = FALSE => OneAsked(c)

ServerTypes == MainTypes /\ ParseTypes /\ SessionTypes /\ TxnTypes /\ ClientTypes

ServerInv == ServerTypes /\ Connections /\ Trees /\ Ends /\ Asks
-----------------------------------------------------------------------------
(* What the parts of the invariant that a step can disturb need to know of *)
(* it.                                                                     *)

(* Clients and handlers are numbered from 1. *)
LEMMA Numbered == Handler = Client /\ Client \subseteq Nat \ {0} /\ NoClient \notin Client
BY ServerAssumption DEF Handler, NoClient

(* Sequences that grow by one element, or have just one. *)
LEMMA OneMore ==
  ASSUME NEW S, NEW s \in Seq(S), NEW x \in S
  PROVE  Append(s, x) \in Seq(S) /\ Len(Append(s, x)) = Len(s) + 1
OBVIOUS

(* The first element of a sequence that had none. *)
LEMMA FirstOne == ASSUME NEW x PROVE Len(Append(<<>>, x)) = 1 /\ Append(<<>>, x)[1] = x
OBVIOUS

(* Taking the only element leaves the empty sequence. *)
LEMMA LastOne ==
  ASSUME NEW S, NEW s \in Seq(S), Len(s) = 1
  PROVE  Head(s) = s[1] /\ Tail(s) = <<>> /\ SubSeq(s, 2, 1) = <<>>
<1>1. s # <<>> /\ Head(s) = s[1]
  OBVIOUS
<1>2. Tail(s) \in Seq(S) /\ Len(Tail(s)) = 0
  BY <1>1
<1>3. SubSeq(s, 2, 1) \in Seq(S) /\ Len(SubSeq(s, 2, 1)) = 0
  OBVIOUS
<1>4. \A t \in Seq(S) : Len(t) = 0 => t = <<>>
  OBVIOUS
<1> QED
  BY <1>1, <1>2, <1>3, <1>4

(* A request as a client sends it. *)
LEMMA SentRequest ==
  ASSUME NEW c \in Client, NEW n \in Nat, NEW k \in Kind
  PROVE  [of |-> c, no |-> n, kind |-> k] \in Request
BY DEF Request

HandlerAny(h) == HandlerStep(h) \/ (Up /\ (Fail(h) \/ AnswerFails(h)))

(* A handler that has its connection keeps it, and stays a handler that    *)
(* has one; it leaves the accept loop alone.                               *)
Moves(h) ==
  /\ h \in Serving /\ hpc' \in [Handler -> Loc] /\ hpc'[h] \notin {"none", "new"}
  /\ \A g \in Handler : g # h => hpc'[g] = hpc[g]
  /\ UNCHANGED <<fd, sockfd, sockfd_mutex, main, backlog, spawned>>

(* Every step of a handler but its first is such a move. *)
LEMMA HandlerMoves ==
  ASSUME SessionTypes, NEW h \in Handler, HandlerAny(h)
  PROVE  Start(h) \/ Moves(h)
<1>0. hpc \in [Handler -> Loc]
  BY DEF SessionTypes
<1> USE DEF Goto, Serving, mainVars
<1>1. CASE Receive(h)
  <2>1. hpc[h] = "read" /\ (hpc' = hpc \/ \E l \in Loc \ {"none", "new"} : hpc' = [hpc EXCEPT ![h] = l])
    BY <1>1 DEF Receive, Loc
  <2>2. UNCHANGED <<fd, sockfd, sockfd_mutex, main, backlog, spawned>>
    BY <1>1 DEF Receive
  <2> QED
    BY ONLY <1>0, <2>1, <2>2, h \in Handler DEF Moves, Serving
<1>2. CASE ReadFails(h)
  BY <1>0, <1>2 DEF ReadFails, Moves, Loc
<1>3. CASE yyparse(h)
  BY <1>0, <1>3 DEF yyparse, Moves, Loc
<1>4. CASE do_analyze(h)
  BY <1>0, <1>4 DEF do_analyze, Moves, Loc
<1>5. CASE Work(h)
  <2>1. hpc[h] \in {"work", "auto"} /\ (hpc' = hpc \/ \E l \in Loc \ {"none", "new"} : hpc' = [hpc EXCEPT ![h] = l])
    BY <1>5 DEF Work, WriteRecord, Continue, Loc
  <2>2. UNCHANGED <<fd, sockfd, sockfd_mutex, main, backlog, spawned>>
    BY <1>5 DEF Work
  <2> QED
    BY ONLY <1>0, <2>1, <2>2, h \in Handler DEF Moves, Serving
<1>6. CASE Answer(h)
  <2>1. hpc[h] = "work" /\ \E l \in Loc \ {"none", "new"} : hpc' = [hpc EXCEPT ![h] = l]
    BY <1>6 DEF Answer, Finish, Continue, Loc
  <2>2. UNCHANGED <<fd, sockfd, sockfd_mutex, main, backlog, spawned>>
    BY <1>6 DEF Answer, Finish
  <2> QED
    BY ONLY <1>0, <2>1, <2>2, h \in Handler DEF Moves, Serving
<1>7. CASE Fail(h)
  BY <1>0, <1>7 DEF Fail, Moves
<1>8. CASE AnswerFails(h)
  BY <1>0, <1>8 DEF AnswerFails, Finish, Moves, Loc
<1> QED
  BY <1>1, <1>2, <1>3, <1>4, <1>5, <1>6, <1>7, <1>8 DEF HandlerAny, HandlerStep

(* A step of the accept loop leaves the sessions alone, and a client's     *)
(* step the whole server.                                                  *)
LEMMA MainLeaves ==
  ASSUME MainAny
  PROVE  /\ UNCHANGED <<buffer_mutex, parse_tree, finish_analyze, fd, req, got, txn_ok, txn, next_txn_id, todo>>
         /\ UNCHANGED <<cl, sent, inbox, stream, shown, split>> /\ alive /\ global_lsn' = global_lsn
         /\ ~(\E h \in Handler : hpc'[h] # hpc[h]) \/ Accept
BY DEF MainAny, MainStep, LockSockfd, Accept, close_db, AcceptError, CreateFails, sigint_handler,
       flush_log_to_disk, logVars, parseVars, clientVars, Up

(* A client changes nothing but its own state and its connection. *)
LEMMA ClientLeaves ==
  ASSUME NEW c, ClientStep(c)
  PROVE  /\ UNCHANGED <<buffer_mutex, parse_tree, finish_analyze, fd, req, got, txn_ok, txn, next_txn_id, todo>>
         /\ UNCHANGED <<alive, main, sockfd_mutex, sockfd, backlog, spawned, hpc, global_lsn>>
BY DEF ClientStep, logVars, parseVars, handlerVars

-----------------------------------------------------------------------------
(* Every step keeps the types and the connections apart. *)

(* The accept loop's variables keep their types. *)
LEMMA MainTypesStep ==
  ASSUME MainTypes, SessionTypes, Next
  PROVE  MainTypes'
<1> USE DEF MainTypes
<1>1. CASE MainAny
  <2>1. backlog \in Seq(Client) /\ spawned \in Nat
    OBVIOUS
  <2>2. CASE Accept \/ CreateFails
    <3>1. Head(backlog) \in Client /\ Tail(backlog) \in Seq(Client)
      BY <2>1, <2>2 DEF Accept, CreateFails
    <3> QED
      BY <2>1, <2>2, <3>1 DEF Accept, CreateFails
  <2> QED
    BY <1>1, <2>1, <2>2 DEF MainAny, MainStep, LockSockfd, AcceptError, sigint_handler, close_db
<1>2. ASSUME NEW h \in Handler, HandlerAny(h) PROVE MainTypes'
  BY <1>2, HandlerMoves DEF Moves, Start
<1>3. ASSUME NEW c \in Client, ClientStep(c) PROVE MainTypes'
  BY <1>3, ClientLeaves
<1> QED
  BY <1>1, <1>2, <1>3 DEF Next, HandlerAny

(* Taking the first of distinct connections leaves the others distinct. *)
LEMMA Popped ==
  ASSUME NEW s \in Seq(Client), s # <<>>, \A i, j \in 1 .. Len(s) : s[i] = s[j] => i = j
  PROVE  /\ Head(s) = s[1] /\ Head(s) \in Client /\ Tail(s) \in Seq(Client)
         /\ \A i \in 1 .. Len(Tail(s)) : i + 1 \in 1 .. Len(s) /\ Tail(s)[i] = s[i + 1]
         /\ \A i \in 1 .. Len(Tail(s)) : Tail(s)[i] # Head(s)
         /\ \A i, j \in 1 .. Len(Tail(s)) : Tail(s)[i] = Tail(s)[j] => i = j
<1>1. /\ Len(s) \in Nat /\ Len(s) > 0 /\ Head(s) = s[1] /\ Head(s) \in Client
      /\ Tail(s) \in Seq(Client) /\ Len(Tail(s)) = Len(s) - 1
  OBVIOUS
<1>2. ASSUME NEW i \in 1 .. Len(Tail(s)) PROVE i + 1 \in 1 .. Len(s) /\ Tail(s)[i] = s[i + 1]
  BY <1>1
<1>3. ASSUME NEW i \in 1 .. Len(Tail(s)) PROVE Tail(s)[i] # Head(s)
  BY ONLY <1>1, <1>2, i \in 1 .. Len(Tail(s)), \A j, k \in 1 .. Len(s) : s[j] = s[k] => j = k
<1>4. ASSUME NEW i \in 1 .. Len(Tail(s)), NEW j \in 1 .. Len(Tail(s)), Tail(s)[i] = Tail(s)[j] PROVE i = j
  <2>1. s[i + 1] = s[j + 1] /\ i + 1 \in 1 .. Len(s) /\ j + 1 \in 1 .. Len(s)
    BY <1>2, <1>4
  <2>2. i + 1 = j + 1
    BY <2>1
  <2> QED
    BY <2>2, <1>1
<1> QED
  BY <1>1, <1>2, <1>3, <1>4

(* Connections are kept apart by the steps of the accept loop.             *)
LEMMA ConnectionsMain ==
  ASSUME MainTypes, SessionTypes, Connections, MainAny
  PROVE  Connections'
<1>0. /\ Handler = Client /\ Client \subseteq Nat \ {0}
      /\ hpc \in [Handler -> Loc] /\ backlog \in Seq(Client) /\ spawned \in Nat /\ fd' = fd
  BY Numbered, MainLeaves DEF MainTypes, SessionTypes
<1>1. CASE LockSockfd
  BY <1>0, <1>1 DEF LockSockfd, Connections, Serving
<1>2. CASE Accept
  <2>1. \A h \in Handler : hpc[h] # "new"
    BY <1>2 DEF Accept, Connections
  <2>2. backlog # <<>> /\ backlog' = Tail(backlog) /\ sockfd' = Head(backlog)
    BY <1>2 DEF Accept
  <2>3. /\ hpc' = [hpc EXCEPT ![spawned + 1] = "new"] /\ spawned' = spawned + 1
        /\ main' = "lock" /\ main = "accept" /\ sockfd_mutex' = sockfd_mutex
    BY <1>2 DEF Accept
  <2>4. sockfd_mutex = TRUE /\ \A h \in Handler : h > spawned => hpc[h] = "none"
    BY <2>3 DEF Connections
  <2>5. Serving' = Serving
    BY <1>0, <2>3, <2>4 DEF Serving
  <2>6. \A h \in Handler : hpc'[h] = "new" => h = spawned + 1
    BY <1>0, <2>1, <2>3
  <2>7. \A h \in Handler : h > spawned' => hpc'[h] = "none"
    BY <1>0, <2>3, <2>4
  <2>8. /\ \A h \in Serving : fd[h] \in Client
        /\ \A g, h \in Serving : fd[g] = fd[h] => g = h
        /\ \A i, j \in 1 .. Len(backlog) : backlog[i] = backlog[j] => i = j
        /\ \A i \in 1 .. Len(backlog) : \A h \in Serving : backlog[i] # fd[h]
    BY DEF Connections
  <2>9. /\ sockfd' = backlog[1] /\ sockfd' \in Client /\ Len(backlog) \in Nat \ {0}
        /\ \A i \in 1 .. Len(backlog') : i + 1 \in 1 .. Len(backlog) /\ backlog'[i] = backlog[i + 1]
        /\ \A i \in 1 .. Len(backlog') : backlog'[i] # sockfd'
        /\ \A i, j \in 1 .. Len(backlog') : backlog'[i] = backlog'[j] => i = j
    BY <1>0, <2>2, <2>8, Popped
  <2>10. \A i \in 1 .. Len(backlog') : \A h \in Serving : backlog'[i] # fd[h]
    BY ONLY <2>9, <2>8
  <2>12. \A g \in Serving : fd[g] # sockfd'
    BY ONLY <2>9, <2>8
  <2> QED
    BY ONLY <1>0, <2>3, <2>4, <2>5, <2>6, <2>7, <2>8, <2>9, <2>10, <2>12 DEF Connections
<1>3. CASE CreateFails
  <2>1. \A h \in Handler : hpc[h] # "new"
    BY <1>3 DEF CreateFails, Connections
  <2>2. backlog # <<>> /\ backlog' = Tail(backlog)
    BY <1>3 DEF CreateFails
  <2>3. hpc' = hpc /\ spawned' = spawned /\ main' = "closing"
    BY <1>3 DEF CreateFails
  <2>4. Serving' = Serving
    BY <2>3 DEF Serving
  <2>5. /\ \A h \in Serving : fd[h] \in Client
        /\ \A g, h \in Serving : fd[g] = fd[h] => g = h
        /\ \A i, j \in 1 .. Len(backlog) : backlog[i] = backlog[j] => i = j
        /\ \A i \in 1 .. Len(backlog) : \A h \in Serving : backlog[i] # fd[h]
        /\ \A h \in Handler : h > spawned => hpc[h] = "none"
    BY DEF Connections
  <2>6. /\ \A i \in 1 .. Len(backlog') : i + 1 \in 1 .. Len(backlog) /\ backlog'[i] = backlog[i + 1]
        /\ \A i, j \in 1 .. Len(backlog') : backlog'[i] = backlog'[j] => i = j
    BY <1>0, <2>2, <2>5, Popped
  <2>7. \A i \in 1 .. Len(backlog') : \A h \in Serving : backlog'[i] # fd[h]
    BY ONLY <2>5, <2>6
  <2> QED
    BY ONLY <1>0, <2>1, <2>3, <2>4, <2>5, <2>6, <2>7 DEF Connections
<1>4. CASE AcceptError
  BY <1>0, <1>4 DEF AcceptError, Connections, Serving
<1>5. CASE sigint_handler \/ close_db
  BY <1>0, <1>5 DEF sigint_handler, close_db, Connections, Serving
<1> QED
  BY <1>1, <1>2, <1>3, <1>4, <1>5 DEF MainAny, MainStep

(* The accept loop only creates threads. *)
LEMMA MainSpawns ==
  ASSUME MainTypes, SessionTypes, Connections, MainAny
  PROVE  \A h \in Handler : hpc'[h] = hpc[h] \/ (hpc[h] = "none" /\ hpc'[h] = "new")
<1>1. CASE Accept
  <2>1. hpc' = [hpc EXCEPT ![spawned + 1] = "new"]
    BY <1>1 DEF Accept
  <2>2. spawned \in Nat /\ hpc \in [Handler -> Loc] /\ Handler \subseteq Nat
    BY Numbered DEF MainTypes, SessionTypes
  <2>3. \A h \in Handler : h > spawned => hpc[h] = "none"
    BY DEF Connections
  <2> QED
    BY ONLY <2>1, <2>2, <2>3
<1>2. CASE ~Accept
  BY <1>2, MainLeaves
<1> QED
  BY <1>1, <1>2

(* The new thread takes its connection over; the others keep theirs.       *)
LEMMA ConnectionsStep ==
  ASSUME MainTypes, SessionTypes, Connections, Next
  PROVE  Connections'
<1>0. hpc \in [Handler -> Loc] /\ fd \in [Handler -> Client \cup {NoClient}] /\ backlog \in Seq(Client)
  BY DEF MainTypes, SessionTypes
<1>1. ASSUME NEW h \in Handler, HandlerAny(h) PROVE Connections'
  <2>1. CASE Start(h)
    <3>1. /\ hpc[h] = "new" /\ hpc' = [hpc EXCEPT ![h] = "read"] /\ fd' = [fd EXCEPT ![h] = sockfd]
          /\ UNCHANGED <<main, sockfd, backlog, spawned>>
      BY <2>1 DEF Start, Goto
    <3>2. /\ main # "accept" /\ sockfd \in Client
          /\ \A g \in Handler : hpc[g] = "new" => g = h
          /\ \A g \in Serving : fd[g] # sockfd
          /\ \A i \in 1 .. Len(backlog) : backlog[i] # sockfd
      BY <3>1 DEF Connections
    <3>3. Serving' = Serving \cup {h} /\ h \notin Serving
      BY <1>0, <3>1 DEF Serving
    <3>4. fd'[h] = sockfd /\ \A g \in Serving : fd'[g] = fd[g]
      BY <1>0, <3>1, <3>3 DEF Serving
    <3>5. \A g \in Handler : hpc'[g] # "new"
      BY <1>0, <3>1, <3>2
    <3>6. \A g \in Handler : g > spawned => hpc'[g] = "none"
      BY <1>0, <3>1 DEF Connections
    <3>7. /\ \A g \in Serving : fd[g] \in Client
          /\ \A g, k \in Serving : fd[g] = fd[k] => g = k
          /\ \A i, j \in 1 .. Len(backlog) : backlog[i] = backlog[j] => i = j
          /\ \A i \in 1 .. Len(backlog) : \A g \in Serving : backlog[i] # fd[g]
      BY DEF Connections
    <3> QED
      BY ONLY <3>1, <3>2, <3>3, <3>4, <3>5, <3>6, <3>7 DEF Connections
  <2>2. CASE Moves(h)
    <3>1. Serving' = Serving
      BY <1>0, <2>2 DEF Moves, Serving
    <3>2. \A g \in Handler : /\ hpc'[g] = "new" => hpc[g] = "new"
                             /\ hpc[g] = "none" => hpc'[g] = "none"
      BY <1>0, <2>2 DEF Moves, Serving
    <3> QED
      BY <2>2, <3>1, <3>2 DEF Moves, Connections
  <2> QED
    BY <1>1, <2>1, <2>2, HandlerMoves
<1>2. ASSUME NEW c \in Client, ClientStep(c) PROVE Connections'
  BY <1>2, ClientLeaves DEF Connections, Serving
<1> QED
  BY <1>1, <1>2, ConnectionsMain DEF Next, HandlerAny


(* A handler's request, which its read takes from its own connection. *)
LEMMA ReceiveTypes ==
  ASSUME SessionTypes, ClientTypes, Connections, NEW h \in Handler, Receive(h)
  PROVE  /\ fd[h] \in Client /\ inbox[fd[h]] \in Seq(Request) /\ inbox[fd[h]] # <<>>
         /\ Head(inbox[fd[h]]) \in Request /\ Tail(inbox[fd[h]]) \in Seq(Request)
<1>1. h \in Serving /\ inbox[fd[h]] # <<>>
  BY DEF Receive, Serving
<1>2. fd[h] \in Client
  BY <1>1 DEF Connections
<1>3. inbox[fd[h]] \in Seq(Request)
  BY <1>2 DEF ClientTypes
<1> QED
  BY <1>1, <1>2, <1>3

(* Requests, answers and flags keep their types. *)
LEMMA SessionTypesStep ==
  ASSUME MainTypes, ParseTypes, SessionTypes, ClientTypes, Connections, Next
  PROVE  SessionTypes' /\ ParseTypes'
<1> DEFINE Rest == /\ req \in [Handler -> Request] /\ got \in [Handler -> Request]
                   /\ finish_analyze \in [Handler -> BOOLEAN] /\ txn_ok \in [Handler -> BOOLEAN]
                   /\ buffer_mutex \in Handler \cup {0} /\ parse_tree \in Request
<1>0. Rest /\ hpc \in [Handler -> Loc] /\ fd \in [Handler -> Client \cup {NoClient}]
      /\ sockfd \in Client \cup {NoClient}
  BY DEF SessionTypes, MainTypes, ParseTypes
<1>1. ASSUME NEW h \in Handler, HandlerAny(h) PROVE SessionTypes' /\ ParseTypes'
  <2>1. hpc' \in [Handler -> Loc] /\ fd' \in [Handler -> Client \cup {NoClient}]
    BY <1>0, <1>1, HandlerMoves DEF Moves, Start, Goto, Loc
  <2>2. NoRequest \in Request
    BY DEF NoRequest, Request, Kind
  <2>3. Rest'
    <3>1. CASE Start(h) \/ ReadFails(h) \/ Fail(h)
      BY <1>0, <3>1 DEF Start, ReadFails, Fail, parseVars
    <3>2. CASE Receive(h)
      <4>1. Head(inbox[fd[h]]) \in Request
        BY <3>2, ReceiveTypes
      <4> QED
        BY <1>0, <3>2, <4>1 DEF Receive, parseVars
    <3>3. CASE yyparse(h)
      <4>1. req[h] \in Request
        BY <1>0
      <4> QED
        BY <1>0, <3>3, <4>1 DEF yyparse
    <3>4. CASE do_analyze(h)
      BY <1>0, <3>4 DEF do_analyze, parseVars
    <3>5. CASE Work(h)
      <4>1. /\ req' = req \/ req' = [req EXCEPT ![h] = NoRequest]
            /\ got' = got \/ got' = [got EXCEPT ![h] = NoRequest]
            /\ UNCHANGED <<finish_analyze, txn_ok, buffer_mutex, parse_tree>>
        BY <3>5 DEF Work, WriteRecord, Continue, parseVars
      <4> QED
        BY ONLY <1>0, <2>2, <4>1, h \in Handler
    <3>6. CASE Answer(h)
      <4>1. /\ req' = req \/ req' = [req EXCEPT ![h] = NoRequest]
            /\ got' = got \/ got' = [got EXCEPT ![h] = NoRequest]
            /\ UNCHANGED <<finish_analyze, txn_ok, parse_tree>>
            /\ buffer_mutex' \in {buffer_mutex, 0}
        BY <3>6 DEF Answer, Finish, Continue
      <4> QED
        BY ONLY <1>0, <2>2, <4>1, h \in Handler
    <3>7. CASE AnswerFails(h)
      BY <1>0, <3>7 DEF AnswerFails, Finish
    <3> QED
      BY <1>1, <3>1, <3>2, <3>3, <3>4, <3>5, <3>6, <3>7 DEF HandlerAny, HandlerStep
  <2> QED
    BY <2>1, <2>3 DEF SessionTypes, ParseTypes
<1>2. CASE MainAny
  <2>1. hpc' \in [Handler -> Loc]
    BY <1>0, <1>2 DEF MainAny, MainStep, LockSockfd, Accept, close_db, AcceptError, CreateFails,
                      sigint_handler, Loc
  <2> QED
    BY <1>0, <1>2, <2>1, MainLeaves DEF SessionTypes, ParseTypes
<1>3. ASSUME NEW c \in Client, ClientStep(c) PROVE SessionTypes' /\ ParseTypes'
  BY <1>0, <1>3, ClientLeaves DEF SessionTypes, ParseTypes
<1> QED
  BY <1>1, <1>2, <1>3 DEF Next, HandlerAny

(* The operations of commit, abort and the statements. *)
LEMMA OpTypes ==
  ASSUME NEW t \in Transaction, NEW k
  PROVE  commit(t) \in Seq(Op) /\ abort(t) \in Seq(Op) /\ run(k, t) \in Seq(Op)
<1>0. /\ "BEGIN" \in Op /\ "COMMIT" \in Op /\ "ABORT" \in Op /\ "flush" \in Op /\ "DATA" \in Op
      /\ "persist" \in Op /\ "explicit" \in Op /\ "committed" \in Op /\ "aborted" \in Op
  BY DEF Op, LogOp, RecordType
<1>4. /\ <<"explicit">> \in Seq(Op) /\ <<"DATA", "persist">> \in Seq(Op) /\ <<>> \in Seq(Op)
      /\ <<"BEGIN">> \in Seq(Op) /\ <<"COMMIT", "flush">> \in Seq(Op) /\ <<"committed">> \in Seq(Op)
      /\ <<"ABORT", "flush">> \in Seq(Op) /\ <<"aborted">> \in Seq(Op)
  BY <1>0
<1>1. ensure_txn_logged(t) \in Seq(Op)
  BY <1>4 DEF ensure_txn_logged
<1>2. commit(t) \in Seq(Op)
  <2>1. ensure_txn_logged(t) \o <<"COMMIT", "flush">> \in Seq(Op)
    BY <1>1, <1>4
  <2> QED
    BY <1>4, <2>1 DEF commit
<1>3. abort(t) \in Seq(Op)
  BY <1>4 DEF abort
<1>5. ensure_txn_logged(t) \o <<"explicit">> \in Seq(Op) /\ ensure_txn_logged(t) \o <<"DATA", "persist">> \in Seq(Op)
  BY <1>1, <1>4
<1> QED
  BY <1>2, <1>3, <1>4, <1>5 DEF run

(* Settle keeps the type, and ends what it is to end. *)
LEMMA SettleTypes ==
  ASSUME NEW t \in Transaction, NEW s
  PROVE  /\ Settle(t, s) \in Transaction
         /\ s = <<"committed">> \/ s = <<"aborted">> => Closed(Settle(t, s))
         /\ s = <<>> => Settle(t, s) = t
<1>1. [t EXCEPT !.txn_mode = TRUE] \in Transaction
  BY DEF Transaction
<1>2. ASSUME NEW x \in {"COMMITTED", "ABORTED"}
      PROVE  /\ [t EXCEPT !.state = x, !.write_set = FALSE] \in Transaction
             /\ [t EXCEPT !.state = x, !.write_set = FALSE].state = x
  BY DEF Transaction
<1>3. <<"committed">> # <<"explicit">> /\ <<"aborted">> # <<"explicit">> /\ <<"aborted">> # <<"committed">>
  OBVIOUS
<1>4. <<>> # <<"explicit">> /\ <<>> # <<"committed">> /\ <<>> # <<"aborted">>
  OBVIOUS
<1>5. Settle(t, s) \in Transaction
  BY <1>1, <1>2 DEF Settle
<1>6. CASE s = <<"committed">>
  BY <1>2, <1>3, <1>4, <1>5, <1>6 DEF Settle, Closed
<1>7. CASE s = <<"aborted">>
  BY <1>2, <1>3, <1>4, <1>5, <1>7 DEF Settle, Closed
<1>8. CASE s = <<>>
  BY <1>3, <1>4, <1>5, <1>8 DEF Settle
<1> QED
  BY <1>5, <1>6, <1>7, <1>8


(* A function updated within its range keeps its type. *)
LEMMA Updated ==
  ASSUME NEW S, NEW T, NEW f \in [S -> T], NEW x \in S, NEW y \in T
  PROVE  /\ [f EXCEPT ![x] = y] \in [S -> T] /\ [f EXCEPT ![x] = y][x] = y
         /\ \A z \in S : z # x => [f EXCEPT ![x] = y][z] = f[z]
OBVIOUS

(* What is left of a statement is a sequence of operations. *)
LEMMA TodoTypes ==
  ASSUME TxnTypes, NEW h \in Handler
  PROVE  /\ txn[h] \in Transaction /\ todo[h] \in Seq(Op)
         /\ todo[h] # <<>> => Tail(todo[h]) \in Seq(Op)
<1>1. txn[h] \in Transaction /\ todo[h] \in Seq(Op)
  BY DEF TxnTypes
<1> QED
  BY <1>1

(* The transaction that Work continues with. *)
Marked(t, o) == [t EXCEPT !.write_set = @ \/ o = "persist"]

(* A write set that is marked leaves state and mode of the transaction. *)
LEMMA MarkedTypes ==
  ASSUME NEW t \in Transaction, NEW o
  PROVE  Marked(t, o) \in Transaction /\ Marked(t, o).state = t.state /\ Marked(t, o).txn_mode = t.txn_mode
BY DEF Marked, Transaction

(* prev_lsn may be any number. *)
LEMMA ChainedTypes ==
  ASSUME NEW t \in Transaction, NEW n \in Nat
  PROVE  [t EXCEPT !.prev_lsn = n] \in Transaction
BY DEF Transaction

(* A step of Work waits for room, adds a record or flushes. *)
LEMMA WorkCases ==
  ASSUME NEW h, Work(h)
  PROVE  /\ hpc[h] \in {"work", "auto"} /\ UsesLog(todo[h]) /\ todo[h] # <<>>
         /\ UNCHANGED <<fd, txn_ok, next_txn_id, buffer_mutex, parse_tree, finish_analyze, alive>>
         /\ UNCHANGED <<cl, sent, inbox, stream, shown, split>>
         /\ \/ UNCHANGED <<txn, todo, hpc, req, got>> /\ global_lsn' = global_lsn
            \/ /\ Head(todo[h]) \in RecordType /\ txn' = [txn EXCEPT ![h].prev_lsn = global_lsn]
               /\ todo' = [todo EXCEPT ![h] = Tail(todo[h])] /\ UNCHANGED <<hpc, req, got>>
               /\ global_lsn' = global_lsn + 1
            \/ /\ Head(todo[h]) \notin RecordType /\ global_lsn' = global_lsn
               /\ Continue(h, hpc[h], Marked(txn[h], Head(todo[h])), Tail(todo[h]))
<1>1. /\ hpc[h] \in {"work", "auto"} /\ UsesLog(todo[h]) /\ todo[h] # <<>>
      /\ UNCHANGED <<fd, txn_ok, next_txn_id, buffer_mutex, parse_tree, finish_analyze, alive>>
      /\ UNCHANGED <<cl, sent, inbox, stream, shown, split>>
  BY DEF Work, UsesLog, mainVars, parseVars, clientVars
<1>2. CASE Head(todo[h]) \in RecordType
  <2>1. WriteRecord(h)
    BY <1>2 DEF Work
  <2>2. global_lsn' = global_lsn \/ global_lsn' = global_lsn + 1
    BY <2>1 DEF WriteRecord, add_log_to_buffer, FlushFull, AddFlushed, PutRecord
  <2> QED
    BY <1>1, <1>2, <2>1, <2>2 DEF WriteRecord
<1>3. CASE Head(todo[h]) \notin RecordType
  BY <1>1, <1>3 DEF Work, Marked, flush_log_to_disk
<1> QED
  BY <1>2, <1>3

(* What Answer does to the session. *)
Ending(h) == Settle(txn[h], todo[h])
After(h) == IF txn_ok[h] /\ ~Ending(h).txn_mode THEN commit(Ending(h)) ELSE <<>>

(* Answer ends the session's request and goes on with the commit of a single statement. *)
LEMMA AnswerCases ==
  ASSUME NEW h, Answer(h)
  PROVE  /\ hpc[h] = "work" /\ ~UsesLog(todo[h]) /\ Continue(h, "auto", Ending(h), After(h))
         /\ buffer_mutex' = IF finish_analyze[h] THEN buffer_mutex ELSE 0
         /\ stream' = IF cl[fd[h]] = "closed" THEN stream ELSE [stream EXCEPT ![fd[h]] = Append(@, got[h])]
         /\ UNCHANGED <<fd, txn_ok, next_txn_id, parse_tree, finish_analyze, alive, global_lsn>>
         /\ UNCHANGED <<cl, sent, inbox, shown, split>>
BY DEF Answer, Finish, Ending, After, mainVars, logVars

(* Transactions and their operations keep their types. *)
LEMMA TxnTypesStep ==
  ASSUME TxnTypes, SessionTypes, Next
  PROVE  TxnTypes'
<1>0. /\ txn \in [Handler -> Transaction] /\ todo \in [Handler -> Seq(Op)]
      /\ next_txn_id \in Nat /\ global_lsn \in Nat
  BY DEF TxnTypes
<1>1. ASSUME NEW h \in Handler, HandlerAny(h) PROVE TxnTypes'
  <2>0. txn[h] \in Transaction /\ todo[h] \in Seq(Op) /\ (todo[h] # <<>> => Tail(todo[h]) \in Seq(Op))
    BY TodoTypes
  <2>1. CASE Start(h) \/ ReadFails(h) \/ yyparse(h) \/ AnswerFails(h)
    BY <1>0, <2>1 DEF Start, ReadFails, yyparse, AnswerFails, Finish, TxnTypes, logVars
  <2>2. CASE Receive(h)
    <3>1. NewTransaction(next_txn_id) \in Transaction
      BY <1>0 DEF NewTransaction, Transaction, INVALID_LSN
    <3>2. /\ \/ UNCHANGED <<txn, next_txn_id>>
             \/ txn' = [txn EXCEPT ![h] = NewTransaction(next_txn_id)] /\ next_txn_id' = next_txn_id + 1
          /\ UNCHANGED <<todo, global_lsn>>
      BY <2>2 DEF Receive, SetTransaction, flush_log_to_disk, logVars
    <3>3. CASE txn' = [txn EXCEPT ![h] = NewTransaction(next_txn_id)]
      BY ONLY <1>0, <3>1, <3>2, <3>3, h \in Handler, Updated DEF TxnTypes
    <3>4. CASE txn' = txn
      BY ONLY <1>0, <3>2, <3>4 DEF TxnTypes
    <3> QED
      BY ONLY <3>2, <3>3, <3>4
  <2>3. CASE do_analyze(h) \/ Fail(h)
    <3>1. abort(txn[h]) \in Seq(Op) /\ run(parse_tree.kind, txn[h]) \in Seq(Op)
      BY <2>0, OpTypes
    <3>2. PICK s \in Seq(Op) : todo' = [todo EXCEPT ![h] = s] /\ UNCHANGED <<txn, next_txn_id, global_lsn>>
      BY <2>3, <3>1 DEF do_analyze, Fail, logVars
    <3>3. todo' \in [Handler -> Seq(Op)]
      BY ONLY <1>0, <3>2, h \in Handler, s \in Seq(Op), Updated
    <3> QED
      BY ONLY <1>0, <3>2, <3>3 DEF TxnTypes
  <2>4. CASE Work(h)
    <3>1. ASSUME NEW t \in Transaction, NEW s \in Seq(Op), NEW l, Continue(h, l, t, s)
          PROVE  txn' \in [Handler -> Transaction] /\ todo' \in [Handler -> Seq(Op)]
      <4>1. Settle(t, s) \in Transaction
        BY SettleTypes
      <4>2. PICK u \in Transaction : txn' = [txn EXCEPT ![h] = u]
        BY <3>1, <4>1 DEF Continue
      <4>3. PICK o \in Seq(Op) : todo' = [todo EXCEPT ![h] = o]
        <5>1. <<>> \in Seq(Op)
          OBVIOUS
        <5>2. todo' = [todo EXCEPT ![h] = <<>>] \/ todo' = [todo EXCEPT ![h] = s]
          BY <3>1 DEF Continue
        <5> QED
          BY ONLY <5>1, <5>2, s \in Seq(Op), Zenon
      <4>4. txn' \in [Handler -> Transaction]
        BY ONLY <1>0, <4>2, h \in Handler, u \in Transaction, Updated
      <4>5. todo' \in [Handler -> Seq(Op)]
        BY ONLY <1>0, <4>3, h \in Handler, o \in Seq(Op), Updated
      <4> QED
        BY <4>4, <4>5
    <3>2. Marked(txn[h], Head(todo[h])) \in Transaction
      BY <2>0, MarkedTypes
    <3>3. [txn EXCEPT ![h].prev_lsn = global_lsn] \in [Handler -> Transaction]
      <4>1. [txn[h] EXCEPT !.prev_lsn = global_lsn] \in Transaction
        BY <1>0, <2>0, ChainedTypes
      <4>2. [txn EXCEPT ![h].prev_lsn = global_lsn] = [txn EXCEPT ![h] = [txn[h] EXCEPT !.prev_lsn = global_lsn]]
        BY <1>0
      <4> QED
        BY ONLY <1>0, <4>1, <4>2, h \in Handler, Updated
    <3>4. todo[h] # <<>> /\ next_txn_id' = next_txn_id /\ Tail(todo[h]) \in Seq(Op)
      BY <2>0, <2>4, WorkCases
    <3>5. CASE Continue(h, hpc[h], Marked(txn[h], Head(todo[h])), Tail(todo[h])) /\ global_lsn' = global_lsn
      BY <1>0, <3>1, <3>2, <3>4, <3>5 DEF TxnTypes
    <3>6. CASE /\ txn' = [txn EXCEPT ![h].prev_lsn = global_lsn]
               /\ todo' = [todo EXCEPT ![h] = Tail(todo[h])] /\ global_lsn' = global_lsn + 1
      <4>1. todo' \in [Handler -> Seq(Op)]
        BY ONLY <1>0, <3>4, <3>6, h \in Handler, Updated
      <4> QED
        BY ONLY <1>0, <3>3, <3>4, <3>6, <4>1 DEF TxnTypes
    <3>7. CASE UNCHANGED <<txn, todo, global_lsn>>
      BY <1>0, <3>4, <3>7 DEF TxnTypes
    <3> QED
      BY <2>4, <3>5, <3>6, <3>7, WorkCases
  <2>5. CASE Answer(h)
    <3>1. Ending(h) \in Transaction
      BY <2>0, SettleTypes DEF Ending
    <3>2. After(h) \in Seq(Op)
      BY <3>1, OpTypes DEF After
    <3>3. Settle(Ending(h), After(h)) \in Transaction
      BY <3>1, SettleTypes
    <3>4. Continue(h, "auto", Ending(h), After(h)) /\ UNCHANGED <<next_txn_id, global_lsn>>
      BY <2>5, AnswerCases
    <3>5. PICK u \in Transaction : txn' = [txn EXCEPT ![h] = u]
      BY <3>1, <3>3, <3>4 DEF Continue
    <3>6. PICK o \in Seq(Op) : todo' = [todo EXCEPT ![h] = o]
      <4>1. <<>> \in Seq(Op)
        OBVIOUS
      <4>2. todo' = [todo EXCEPT ![h] = <<>>] \/ todo' = [todo EXCEPT ![h] = After(h)]
        BY <3>4 DEF Continue
      <4> QED
        BY ONLY <3>2, <4>1, <4>2, Zenon
    <3>7. txn' \in [Handler -> Transaction]
      BY ONLY <1>0, <3>5, h \in Handler, u \in Transaction, Updated
    <3>8. todo' \in [Handler -> Seq(Op)]
      BY ONLY <1>0, <3>6, h \in Handler, o \in Seq(Op), Updated
    <3> QED
      BY <1>0, <3>4, <3>7, <3>8 DEF TxnTypes
  <2> QED
    BY <1>1, <2>1, <2>2, <2>3, <2>4, <2>5 DEF HandlerAny, HandlerStep
<1>2. CASE MainAny
  BY <1>0, <1>2, MainLeaves DEF TxnTypes
<1>3. ASSUME NEW c \in Client, ClientStep(c) PROVE TxnTypes'
  BY <1>0, <1>3, ClientLeaves DEF TxnTypes
<1> QED
  BY <1>1, <1>2, <1>3 DEF Next, HandlerAny


(* Every other step of a handler leaves the clients and their connections. *)
LEMMA HandlerLeavesClients ==
  ASSUME NEW h, HandlerAny(h), ~Receive(h), ~Answer(h)
  PROVE  UNCHANGED <<cl, sent, inbox, stream, shown, split>>
<1>1. CASE Work(h)
  BY <1>1, WorkCases
<1>2. CASE Start(h) \/ ReadFails(h) \/ yyparse(h) \/ do_analyze(h)
  BY <1>2 DEF Start, ReadFails, yyparse, do_analyze, clientVars
<1>3. CASE Fail(h) \/ AnswerFails(h)
  BY <1>3 DEF Fail, AnswerFails, clientVars
<1> QED
  BY <1>1, <1>2, <1>3 DEF HandlerAny, HandlerStep

(* The clients and their connections keep their types. *)
LEMMA ClientTypesStep ==
  ASSUME SessionTypes, ClientTypes, Connections, Next
  PROVE  ClientTypes'
<1>0. /\ cl \in [Client -> {"on", "wait", "closed"}] /\ sent \in [Client -> Seq(Kind)]
      /\ inbox \in [Client -> Seq(Request)] /\ stream \in [Client -> Seq(Request)]
      /\ shown \in [Client -> Request] /\ split \in [Client -> BOOLEAN]
  BY DEF ClientTypes
<1>1. ASSUME NEW h \in Handler, HandlerAny(h) PROVE ClientTypes'
  <2>1. CASE Receive(h)
    <3>1. /\ inbox' = [inbox EXCEPT ![fd[h]] = Tail(inbox[fd[h]])]
          /\ UNCHANGED <<cl, sent, stream, shown, split>>
      BY <2>1 DEF Receive
    <3>2. fd[h] \in Client /\ Tail(inbox[fd[h]]) \in Seq(Request)
      BY <2>1, ReceiveTypes
    <3>3. inbox' \in [Client -> Seq(Request)]
      BY ONLY <1>0, <3>1, <3>2, Updated
    <3> QED
      BY ONLY <1>0, <3>1, <3>3 DEF ClientTypes
  <2>2. CASE Answer(h)
    <3>1. /\ stream' = stream \/ stream' = [stream EXCEPT ![fd[h]] = Append(stream[fd[h]], got[h])]
          /\ UNCHANGED <<cl, sent, inbox, shown, split>> /\ hpc[h] = "work"
      BY <2>2, AnswerCases
    <3>2. fd[h] \in Client
      BY <3>1 DEF Connections, Serving
    <3>3. stream[fd[h]] \in Seq(Request) /\ got[h] \in Request
      BY <1>0, <3>2 DEF SessionTypes
    <3>4. Append(stream[fd[h]], got[h]) \in Seq(Request)
      BY ONLY <3>3, OneMore
    <3>5. stream' \in [Client -> Seq(Request)]
      <4>1. [stream EXCEPT ![fd[h]] = Append(stream[fd[h]], got[h])] \in [Client -> Seq(Request)]
        BY ONLY <1>0, <3>2, <3>4, Updated
      <4> QED
        BY ONLY <1>0, <3>1, <4>1
    <3> QED
      BY ONLY <1>0, <3>1, <3>5 DEF ClientTypes
  <2> QED
    BY <1>0, <1>1, <2>1, <2>2, HandlerLeavesClients DEF ClientTypes
<1>2. CASE MainAny
  BY <1>0, <1>2, MainLeaves DEF ClientTypes
<1>3. ASSUME NEW c \in Client, ClientStep(c) PROVE ClientTypes'
  <2>1. CASE Send(c)
    <3>1. PICK k \in Kind :
             /\ sent' = [sent EXCEPT ![c] = Append(sent[c], k)]
             /\ inbox' = [inbox EXCEPT ![c] = Append(inbox[c], [of |-> c, no |-> Len(sent[c]) + 1, kind |-> k])]
      BY <2>1 DEF Send
    <3>2. cl' = [cl EXCEPT ![c] = "wait"] /\ UNCHANGED <<stream, shown, split>>
      BY <2>1 DEF Send
    <3>3. sent[c] \in Seq(Kind) /\ inbox[c] \in Seq(Request)
      BY <1>0
    <3>4. [of |-> c, no |-> Len(sent[c]) + 1, kind |-> k] \in Request
      <4>1. Len(sent[c]) + 1 \in Nat
        BY ONLY <3>3
      <4> QED
        BY ONLY <4>1, c \in Client, k \in Kind, SentRequest
    <3>5. Append(sent[c], k) \in Seq(Kind)
      BY ONLY <3>3, k \in Kind
    <3>6. Append(inbox[c], [of |-> c, no |-> Len(sent[c]) + 1, kind |-> k]) \in Seq(Request)
      BY ONLY <3>3, <3>4, OneMore
    <3>7. sent' \in [Client -> Seq(Kind)]
      BY ONLY <1>0, <3>1, <3>5, c \in Client, Updated
    <3>8. inbox' \in [Client -> Seq(Request)]
      BY ONLY <1>0, <3>1, <3>6, c \in Client, Updated
    <3>9. cl' \in [Client -> {"on", "wait", "closed"}]
      BY <1>0, <3>2
    <3> QED
      BY ONLY <1>0, <3>2, <3>7, <3>8, <3>9 DEF ClientTypes
  <2>2. CASE recv(c) \/ recv_part(c)
    <3>1. stream[c] \in Seq(Request) /\ stream[c] # <<>>
      BY <1>0, <2>2 DEF recv, recv_part
    <3>2. Head(stream[c]) \in Request
      BY ONLY <3>1
    <3>3. /\ shown' = [shown EXCEPT ![c] = Head(stream[c])] /\ cl' = [cl EXCEPT ![c] = "on"]
          /\ UNCHANGED <<sent, inbox>>
          /\ split' = split \/ split' = [split EXCEPT ![c] = TRUE]
          /\ \/ stream' = stream
             \/ \E k \in 1 .. Len(stream[c]) : stream' = [stream EXCEPT ![c] = SubSeq(stream[c], k + 1, Len(stream[c]))]
      BY <2>2 DEF recv, recv_part
    <3>4. ASSUME NEW k \in 1 .. Len(stream[c]) PROVE SubSeq(stream[c], k + 1, Len(stream[c])) \in Seq(Request)
      BY ONLY <3>1, k \in 1 .. Len(stream[c])
    <3>5. stream' \in [Client -> Seq(Request)]
      <4>1. ASSUME NEW k \in 1 .. Len(stream[c])
            PROVE  [stream EXCEPT ![c] = SubSeq(stream[c], k + 1, Len(stream[c]))] \in [Client -> Seq(Request)]
        BY ONLY <1>0, <3>4, k \in 1 .. Len(stream[c]), c \in Client, Updated
      <4>2. CASE stream' = stream
        BY <1>0, <4>2
      <4>3. CASE \E k \in 1 .. Len(stream[c]) : stream' = [stream EXCEPT ![c] = SubSeq(stream[c], k + 1, Len(stream[c]))]
        BY ONLY <4>1, <4>3, Zenon
      <4> QED
        BY ONLY <3>3, <4>2, <4>3
    <3>6. shown' \in [Client -> Request] /\ cl' \in [Client -> {"on", "wait", "closed"}] /\ split' \in [Client -> BOOLEAN]
      BY <1>0, <3>2, <3>3
    <3> QED
      BY ONLY <1>0, <3>3, <3>5, <3>6 DEF ClientTypes
  <2>3. CASE Leave(c) \/ ConnectionClosed(c)
    BY <1>0, <2>3 DEF Leave, ConnectionClosed, close_client, ClientTypes
  <2> QED
    BY <1>3, <2>1, <2>2, <2>3 DEF ClientStep
<1> QED
  BY <1>1, <1>2, <1>3 DEF Next, HandlerAny

-----------------------------------------------------------------------------
(* The parse tree and its mutex. *)

(* A step of Work or an answer clears request and answer together, or      *)
(* leaves both.                                                            *)
LEMMA TogetherCleared ==
  ASSUME SessionTypes, NEW h \in Handler, NEW l, NEW t, NEW s, Continue(h, l, t, s),
         \A g \in Handler : got[g] = req[g]
  PROVE  \A g \in Handler : got'[g] = req'[g]
BY DEF Continue, SessionTypes

(* What the steps of a handler may do to the mutex, the tree and its own   *)
(* request keeps trees apart.                                              *)
LEMMA TreesStep ==
  ASSUME MainTypes, ParseTypes, SessionTypes, Connections, Trees, Next
  PROVE  Trees'
<1>0. /\ hpc \in [Handler -> Loc] /\ req \in [Handler -> Request] /\ got \in [Handler -> Request]
      /\ finish_analyze \in [Handler -> BOOLEAN] /\ buffer_mutex \in Handler \cup {0} /\ 0 \notin Handler
  BY Numbered DEF SessionTypes, ParseTypes
<1>1. ASSUME NEW h \in Handler, HandlerAny(h) PROVE Trees'
  <2>0. alive = TRUE
    BY <1>1 DEF HandlerAny, HandlerStep, Up, Trees
  <2>1. CASE Start(h) \/ ReadFails(h)
    BY <1>0, <2>1 DEF Start, ReadFails, Trees, Goto, parseVars, mainVars
  <2>2. CASE Receive(h)
    <3>1. hpc[h] = "read" /\ UNCHANGED <<buffer_mutex, parse_tree>>
      BY <2>2 DEF Receive, parseVars
    <3>2. CASE hpc' = hpc /\ UNCHANGED <<req, got, finish_analyze>>
      BY <1>0, <2>0, <3>1, <3>2 DEF Trees
    <3>3. CASE hpc' = [hpc EXCEPT ![h] = "gone"] /\ UNCHANGED <<req, got, finish_analyze>>
      BY <1>0, <2>0, <3>1, <3>3 DEF Trees
    <3>4. CASE /\ hpc' = [hpc EXCEPT ![h] = "scan"]
               /\ req' = [req EXCEPT ![h] = Head(inbox[fd[h]])] /\ got' = [got EXCEPT ![h] = Head(inbox[fd[h]])]
               /\ finish_analyze' = [finish_analyze EXCEPT ![h] = FALSE]
      BY <1>0, <2>0, <3>1, <3>4 DEF Trees
    <3> QED
      BY <2>2, <3>2, <3>3, <3>4 DEF Receive, Goto, parseVars
  <2>3. CASE yyparse(h)
    <3>1. hpc[h] = "scan" /\ buffer_mutex = 0 /\ buffer_mutex' = h /\ UNCHANGED <<finish_analyze, req, got, alive>>
      BY <2>3 DEF yyparse, mainVars
    <3>2. finish_analyze[h] = FALSE
      BY <3>1 DEF Trees
    <3>3. \A g \in Handler : hpc[g] # "analyze" /\ ~(hpc[g] = "work" /\ finish_analyze[g] = FALSE)
      BY <1>0, <2>0, <3>1 DEF Trees
    <3>4. \/ hpc' = [hpc EXCEPT ![h] = "work"]
          \/ hpc' = [hpc EXCEPT ![h] = "analyze"] /\ parse_tree' = req[h]
      BY <2>3 DEF yyparse, Goto
    <3> QED
      BY <1>0, <3>1, <3>2, <3>3, <3>4 DEF Trees
  <2>4. CASE do_analyze(h)
    <3>1. /\ hpc[h] = "analyze" /\ hpc' = [hpc EXCEPT ![h] = "work"] /\ got' = [got EXCEPT ![h] = parse_tree]
          /\ UNCHANGED <<parse_tree, req, alive>>
      BY <2>4 DEF do_analyze, Goto, mainVars, parseVars
    <3>2. buffer_mutex = h /\ parse_tree = req[h] /\ finish_analyze[h] = FALSE
      BY <2>0, <3>1 DEF Trees
    <3>3. \A g \in Handler : g # h => hpc[g] # "analyze" /\ ~(hpc[g] = "work" /\ finish_analyze[g] = FALSE)
      BY <1>0, <2>0, <3>2 DEF Trees
    <3>4. \/ UNCHANGED <<buffer_mutex, finish_analyze>>
          \/ finish_analyze' = [finish_analyze EXCEPT ![h] = TRUE] /\ buffer_mutex' = 0
      BY <2>4 DEF do_analyze, parseVars
    <3> QED
      BY <1>0, <3>1, <3>2, <3>3, <3>4 DEF Trees
  <2>5. CASE Work(h)
    <3>1. hpc[h] \in {"work", "auto"} /\ UNCHANGED <<buffer_mutex, parse_tree, finish_analyze, alive>>
      BY <2>5, WorkCases
    <3>2. \/ UNCHANGED <<hpc, req, got>>
          \/ Continue(h, hpc[h], Marked(txn[h], Head(todo[h])), Tail(todo[h]))
      BY <2>5, WorkCases
    <3>3. \A g \in Handler : got'[g] = req'[g]
      BY <3>2, TogetherCleared DEF Trees
    <3>4. \/ UNCHANGED <<hpc, req>>
          \/ hpc[h] = "auto" /\ hpc' = [hpc EXCEPT ![h] = "read"] /\ req' = [req EXCEPT ![h] = NoRequest]
          \/ hpc' = [hpc EXCEPT ![h] = hpc[h]] /\ req' = req
      BY <3>2 DEF Continue, Goto
    <3>5. \A g \in Handler : /\ hpc'[g] = hpc[g] \/ (hpc[g] = "auto" /\ hpc'[g] = "read")
                             /\ hpc[g] # "auto" => req'[g] = req[g]
      BY ONLY <1>0, <3>4, h \in Handler
    <3> QED
      BY ONLY <3>1, <3>3, <3>5, Trees DEF Trees
  <2>6. CASE Answer(h)
    <3>1. /\ hpc[h] = "work" /\ Continue(h, "auto", Ending(h), After(h))
          /\ buffer_mutex' = IF finish_analyze[h] THEN buffer_mutex ELSE 0
          /\ UNCHANGED <<parse_tree, finish_analyze, alive>>
      BY <2>6, AnswerCases
    <3>2. \A g \in Handler : got'[g] = req'[g]
      BY <3>1, TogetherCleared DEF Trees
    <3>3. \E l \in {"auto", "read"} : hpc' = [hpc EXCEPT ![h] = l]
      BY <3>1 DEF Continue, Goto
    <3>4. \A g \in Handler : g # h => req'[g] = req[g]
      BY <1>0, <3>1 DEF Continue
    <3>5. finish_analyze[h] = FALSE => buffer_mutex = h
      BY <2>0, <3>1 DEF Trees
    <3>6. finish_analyze[h] = TRUE => buffer_mutex # h
      BY <3>1 DEF Trees
    <3>7. hpc'[h] \in {"auto", "read"} /\ \A g \in Handler : g # h => hpc'[g] = hpc[g]
      BY ONLY <1>0, <3>3, h \in Handler
    <3>8. CASE finish_analyze[h] = TRUE
      <4>1. buffer_mutex' = buffer_mutex /\ buffer_mutex # h
        BY <3>1, <3>6, <3>8
      <4> QED
        BY ONLY <2>0, <3>1, <3>2, <3>4, <3>7, <4>1, Trees DEF Trees
    <3>9. CASE finish_analyze[h] = FALSE
      <4>1. buffer_mutex' = 0 /\ buffer_mutex = h /\ 0 \notin Handler
        BY <1>0, <3>1, <3>5, <3>9
      <4> QED
        BY ONLY <2>0, <3>1, <3>2, <3>4, <3>7, <4>1, Trees DEF Trees
    <3> QED
      BY <1>0, <3>8, <3>9
  <2>7. CASE Fail(h)
    BY <1>0, <2>7 DEF Fail, Trees, parseVars
  <2>8. CASE AnswerFails(h)
    <3>1. /\ hpc[h] = "work" /\ buffer_mutex' = IF finish_analyze[h] THEN buffer_mutex ELSE 0
          /\ UNCHANGED <<parse_tree, finish_analyze, req, got>>
          /\ \/ hpc' = [hpc EXCEPT ![h] = "broken"] /\ alive' = alive
             \/ alive' = FALSE /\ hpc' = hpc
      BY <2>8 DEF AnswerFails, Finish, Goto
    <3>2. finish_analyze[h] = FALSE => buffer_mutex = h
      BY <2>0, <3>1 DEF Trees
    <3>3. finish_analyze[h] = TRUE => buffer_mutex # h
      BY <3>1 DEF Trees
    <3> QED
      BY <1>0, <3>1, <3>2, <3>3 DEF Trees
  <2> QED
    BY <1>1, <2>1, <2>2, <2>3, <2>4, <2>5, <2>6, <2>7, <2>8 DEF HandlerAny, HandlerStep
<1>2. CASE MainAny
  <2>1. UNCHANGED <<buffer_mutex, parse_tree, finish_analyze, req, got>> /\ alive
    BY <1>2, MainLeaves
  <2>2. \A h \in Handler : hpc'[h] = hpc[h] \/ (hpc[h] = "none" /\ hpc'[h] = "new")
    BY <1>2, MainSpawns
  <2>3. alive' = alive \/ alive' = FALSE
    BY <1>2 DEF MainAny, MainStep, LockSockfd, Accept, close_db, AcceptError, CreateFails, sigint_handler
  <2> QED
    BY <1>0, <2>1, <2>2, <2>3 DEF Trees
<1>3. ASSUME NEW c \in Client, ClientStep(c) PROVE Trees'
  BY <1>0, <1>3, ClientLeaves DEF Trees
<1> QED
  BY <1>1, <1>2, <1>3 DEF Next, HandlerAny

-----------------------------------------------------------------------------
(* The ends of transactions. *)

(* Two short sequences, one behind the other. *)
JoinsThree(a, b, c) == <<a>> \o <<b, c>> = <<a, b, c>> /\ <<a, b>> \o <<c>> = <<a, b, c>>
JoinsFour(a, b, c, d) == <<a, b, c>> \o <<d>> = <<a, b, c, d>>

(* Both hold of all operations. *)
LEMMA ShortJoins == \A a, b, c, d \in Op : JoinsThree(a, b, c) /\ JoinsFour(a, b, c, d)
<1> TAKE a, b, c, d \in Op
<1>1. ASSUME NEW s \in Seq(Op), NEW t \in Seq(Op), Len(s) = 3, Len(t) = 3,
             s[1] = t[1], s[2] = t[2], s[3] = t[3]
      PROVE  s = t
  BY <1>1
<1>2. ASSUME NEW s \in Seq(Op), NEW t \in Seq(Op), Len(s) = 4, Len(t) = 4,
             s[1] = t[1], s[2] = t[2], s[3] = t[3], s[4] = t[4]
      PROVE  s = t
  BY <1>2
<1>3. <<a>> \o <<b, c>> = <<a, b, c>>
  <2>1. <<a>> \o <<b, c>> \in Seq(Op) /\ <<a, b, c>> \in Seq(Op) /\ Len(<<a>> \o <<b, c>>) = 3 /\ Len(<<a, b, c>>) = 3
    OBVIOUS
  <2>2. (<<a>> \o <<b, c>>)[1] = <<a, b, c>>[1]
    OBVIOUS
  <2>3. (<<a>> \o <<b, c>>)[2] = <<a, b, c>>[2]
    OBVIOUS
  <2>4. (<<a>> \o <<b, c>>)[3] = <<a, b, c>>[3]
    OBVIOUS
  <2> QED
    BY ONLY <1>1, <2>1, <2>2, <2>3, <2>4, Zenon
<1>4. <<a, b>> \o <<c>> = <<a, b, c>>
  <2>1. <<a, b>> \o <<c>> \in Seq(Op) /\ <<a, b, c>> \in Seq(Op) /\ Len(<<a, b>> \o <<c>>) = 3 /\ Len(<<a, b, c>>) = 3
    OBVIOUS
  <2>2. (<<a, b>> \o <<c>>)[1] = <<a, b, c>>[1]
    OBVIOUS
  <2>3. (<<a, b>> \o <<c>>)[2] = <<a, b, c>>[2]
    OBVIOUS
  <2>4. (<<a, b>> \o <<c>>)[3] = <<a, b, c>>[3]
    OBVIOUS
  <2> QED
    BY ONLY <1>1, <2>1, <2>2, <2>3, <2>4, Zenon
<1>5. <<a, b, c>> \o <<d>> = <<a, b, c, d>>
  <2>1. <<a, b, c>> \o <<d>> \in Seq(Op) /\ <<a, b, c, d>> \in Seq(Op) /\ Len(<<a, b, c>> \o <<d>>) = 4 /\ Len(<<a, b, c, d>>) = 4
    OBVIOUS
  <2>2. (<<a, b, c>> \o <<d>>)[1] = <<a, b, c, d>>[1]
    OBVIOUS
  <2>3. (<<a, b, c>> \o <<d>>)[2] = <<a, b, c, d>>[2]
    OBVIOUS
  <2>4. (<<a, b, c>> \o <<d>>)[3] = <<a, b, c, d>>[3]
    OBVIOUS
  <2>5. (<<a, b, c>> \o <<d>>)[4] = <<a, b, c, d>>[4]
    OBVIOUS
  <2> QED
    BY ONLY <1>2, <2>1, <2>2, <2>3, <2>4, <2>5, Zenon
<1> QED
  BY <1>3, <1>4, <1>5 DEF JoinsThree, JoinsFour

(* What the sequences of commit and abort are. *)
LEMMA Joins ==
  /\ <<"ABORT", "flush">> \o <<"aborted">> = <<"ABORT", "flush", "aborted">>
  /\ <<>> \o <<"aborted">> = <<"aborted">>
  /\ <<>> \o <<"committed">> = <<"committed">>
  /\ <<"BEGIN">> \o <<"COMMIT", "flush">> = <<"BEGIN", "COMMIT", "flush">>
  /\ <<>> \o <<"COMMIT", "flush">> = <<"COMMIT", "flush">>
  /\ <<"BEGIN", "COMMIT", "flush">> \o <<"committed">> = <<"BEGIN", "COMMIT", "flush", "committed">>
  /\ <<"COMMIT", "flush">> \o <<"committed">> = <<"COMMIT", "flush", "committed">>
<1>1. /\ "ABORT" \in Op /\ "flush" \in Op /\ "aborted" \in Op
      /\ "BEGIN" \in Op /\ "COMMIT" \in Op /\ "committed" \in Op
  BY DEF Op, LogOp, RecordType
<1>2. /\ JoinsThree("ABORT", "flush", "aborted") /\ JoinsThree("BEGIN", "COMMIT", "flush")
      /\ JoinsThree("COMMIT", "flush", "committed") /\ JoinsFour("BEGIN", "COMMIT", "flush", "committed")
  BY ONLY <1>1, ShortJoins
<1>3. /\ <<>> \o <<"aborted">> = <<"aborted">> /\ <<>> \o <<"committed">> = <<"committed">>
      /\ <<>> \o <<"COMMIT", "flush">> = <<"COMMIT", "flush">>
  OBVIOUS
<1> QED
  BY ONLY <1>2, <1>3, Zenon DEF JoinsThree, JoinsFour

(* The rest of an abort ends in "aborted". *)
LEMMA AbortOps ==
  /\ \A t : Aborting(abort(t))
  /\ \A s : Aborting(s) => (IF UsesLog(s) THEN Aborting(Tail(s)) ELSE s = <<"aborted">>)
<1>1. ASSUME NEW t PROVE Aborting(abort(t))
  <2>1. CASE t.write_set
    BY <2>1, Joins DEF abort, Aborting
  <2>2. CASE ~t.write_set
    BY <2>2, Joins DEF abort, Aborting
  <2> QED
    BY <2>1, <2>2
<1>2. ASSUME NEW s, Aborting(s) PROVE IF UsesLog(s) THEN Aborting(Tail(s)) ELSE s = <<"aborted">>
  <2>1. CASE s = <<"ABORT", "flush", "aborted">>
    BY <2>1 DEF Aborting, UsesLog, LogOp, RecordType
  <2>2. CASE s = <<"flush", "aborted">>
    BY <2>2 DEF Aborting, UsesLog, LogOp, RecordType
  <2>3. CASE s = <<"aborted">>
    BY <2>3 DEF UsesLog, LogOp, RecordType
  <2> QED
    BY <1>2, <2>1, <2>2, <2>3 DEF Aborting
<1> QED
  BY <1>1, <1>2

(* A commit that the log has a part in goes through its records and its    *)
(* flush to "committed".                                                   *)
LEMMA CommitOps ==
  /\ \A t : IF UsesLog(commit(t)) THEN Committing(commit(t)) ELSE commit(t) = <<"committed">>
  /\ \A s : Committing(s) => /\ UsesLog(s)
                             /\ Head(s) \in RecordType => Committing(Tail(s))
                             /\ Head(s) \notin RecordType => Tail(s) = <<"committed">>
  /\ ~UsesLog(<<"committed">>) /\ ~UsesLog(<<>>)
<1>1. ASSUME NEW t PROVE Committing(commit(t)) \/ commit(t) = <<"committed">>
  <2>1. CASE t.write_set
    <3>1. CASE ensure_txn_logged(t) = <<"BEGIN">>
      BY <2>1, <3>1, Joins DEF commit, Committing
    <3>2. CASE ensure_txn_logged(t) = <<>>
      BY <2>1, <3>2, Joins DEF commit, Committing
    <3> QED
      BY <3>1, <3>2 DEF ensure_txn_logged
  <2>2. CASE ~t.write_set
    BY <2>2, Joins DEF commit
  <2> QED
    BY <2>1, <2>2
<1>2. ASSUME NEW s, Committing(s)
      PROVE  UsesLog(s) /\ (Head(s) \in RecordType => Committing(Tail(s)))
             /\ (Head(s) \notin RecordType => Tail(s) = <<"committed">>)
  <2>1. CASE s = <<"BEGIN", "COMMIT", "flush", "committed">>
    BY <2>1 DEF Committing, UsesLog, LogOp, RecordType
  <2>2. CASE s = <<"COMMIT", "flush", "committed">>
    BY <2>2 DEF Committing, UsesLog, LogOp, RecordType
  <2>3. CASE s = <<"flush", "committed">>
    BY <2>3 DEF Committing, UsesLog, LogOp, RecordType
  <2> QED
    BY <1>2, <2>1, <2>2, <2>3 DEF Committing
<1>3. ~UsesLog(<<"committed">>) /\ ~UsesLog(<<>>)
  BY DEF UsesLog, LogOp, RecordType
<1> QED
  BY <1>1, <1>2, <1>3


(* A handler's step leaves the transactions of the others alone. *)
LEMMA OwnTransaction ==
  ASSUME SessionTypes, TxnTypes, NEW h \in Handler, HandlerAny(h), NEW g \in Handler, g # h
  PROVE  UNCHANGED <<txn[g], todo[g], txn_ok[g], hpc[g]>>
<1>0. /\ txn \in [Handler -> Transaction] /\ todo \in [Handler -> Seq(Op)]
      /\ txn_ok \in [Handler -> BOOLEAN] /\ hpc \in [Handler -> Loc]
  BY DEF TxnTypes, SessionTypes
<1>1. hpc'[g] = hpc[g]
  BY <1>0, HandlerMoves DEF Moves, Start, Goto
<1>2. ASSUME NEW l, NEW t, NEW s, Continue(h, l, t, s) PROVE txn'[g] = txn[g] /\ todo'[g] = todo[g]
  BY <1>0, <1>2 DEF Continue
<1>3. CASE Work(h)
  <2>1. txn_ok' = txn_ok
    BY <1>3, WorkCases
  <2>2. \/ UNCHANGED <<txn, todo>>
        \/ txn' = [txn EXCEPT ![h].prev_lsn = global_lsn] /\ todo' = [todo EXCEPT ![h] = Tail(todo[h])]
        \/ Continue(h, hpc[h], Marked(txn[h], Head(todo[h])), Tail(todo[h]))
    BY <1>3, WorkCases
  <2> QED
    BY <1>0, <1>1, <1>2, <2>1, <2>2
<1>4. CASE Answer(h)
  BY <1>0, <1>1, <1>2, <1>4, AnswerCases
<1>5. CASE Receive(h)
  <2>1. \/ UNCHANGED <<txn, txn_ok>>
        \/ /\ txn' = txn \/ txn' = [txn EXCEPT ![h] = NewTransaction(next_txn_id)]
           /\ txn_ok' = [txn_ok EXCEPT ![h] = TRUE]
    BY <1>5 DEF Receive, SetTransaction
  <2>2. todo' = todo
    BY <1>5 DEF Receive
  <2> QED
    BY ONLY <1>0, <1>1, <2>1, <2>2, g \in Handler, g # h
<1>6. CASE Start(h) \/ ReadFails(h) \/ yyparse(h) \/ AnswerFails(h)
  BY <1>0, <1>1, <1>6 DEF Start, ReadFails, yyparse, AnswerFails, Finish
<1>7. CASE do_analyze(h) \/ Fail(h)
  BY <1>0, <1>1, <1>7 DEF do_analyze, Fail
<1> QED
  BY <1>3, <1>4, <1>5, <1>6, <1>7 DEF HandlerAny, HandlerStep

(* A session that goes back to its client has no open transaction that it  *)
(* did not begin itself.                                                   *)
LEMMA BackInOrder ==
  ASSUME SessionTypes, TxnTypes, NEW h \in Handler, NEW t \in Transaction, NEW s,
         Continue(h, "auto", t, s),
         Committing(s) \/ s = <<"committed">> \/ (s = <<>> /\ Closed(t))
  PROVE  InOrder(hpc'[h], txn'[h], txn_ok'[h], todo'[h])
<1>0. txn \in [Handler -> Transaction] /\ todo \in [Handler -> Seq(Op)] /\ hpc \in [Handler -> Loc]
  BY DEF TxnTypes, SessionTypes
<1>1. CASE Committing(s)
  <2>1. UsesLog(s)
    BY <1>1, CommitOps
  <2>2. hpc' = [hpc EXCEPT ![h] = "auto"] /\ todo' = [todo EXCEPT ![h] = s]
    BY <2>1 DEF Continue, Goto
  <2>3. hpc'[h] = "auto" /\ todo'[h] = s
    BY <1>0, <2>2
  <2> QED
    BY <1>1, <2>3 DEF InOrder
<1>2. CASE s = <<"committed">> \/ (s = <<>> /\ Closed(t))
  <2>1. ~UsesLog(s)
    BY <1>2, CommitOps
  <2>2. hpc' = [hpc EXCEPT ![h] = "read"] /\ txn' = [txn EXCEPT ![h] = Settle(t, s)]
    BY <2>1 DEF Continue, Goto
  <2>3. Closed(Settle(t, s))
    BY <1>2, SettleTypes
  <2>4. hpc'[h] = "read" /\ txn'[h] = Settle(t, s)
    BY <1>0, <2>2
  <2> QED
    BY <2>3, <2>4 DEF InOrder
<1> QED
  BY <1>1, <1>2


(* What Answer leaves to do is a commit or nothing, and nothing only when  *)
(* the transaction is closed.                                              *)
LEMMA AfterInOrder ==
  ASSUME SessionTypes, TxnTypes, Ends, NEW h \in Handler, hpc[h] = "work", ~UsesLog(todo[h])
  PROVE  /\ Ending(h) \in Transaction
         /\ Committing(After(h)) \/ After(h) = <<"committed">> \/ (After(h) = <<>> /\ Closed(Ending(h)))
<1>1. txn[h] \in Transaction /\ txn_ok[h] \in BOOLEAN
  BY DEF TxnTypes, SessionTypes
<1>2. Ending(h) \in Transaction
  BY <1>1, SettleTypes DEF Ending
<1>3. Ending(h).txn_mode \in BOOLEAN
  BY <1>2 DEF Transaction
<1>4. CASE txn_ok[h] /\ ~Ending(h).txn_mode
  <2>1. After(h) = commit(Ending(h))
    BY <1>4 DEF After
  <2> QED
    BY <1>2, <2>1, CommitOps
<1>5. CASE txn_ok[h] = TRUE /\ Ending(h).txn_mode = TRUE
  BY <1>2, <1>5 DEF After, Closed
<1>6. CASE txn_ok[h] = FALSE
  <2>1. Aborting(todo[h])
    BY <1>6 DEF Ends, InOrder
  <2>2. todo[h] = <<"aborted">>
    BY <2>1, AbortOps
  <2>3. Closed(Ending(h))
    BY <1>1, <2>2, SettleTypes DEF Ending
  <2> QED
    BY <1>2, <1>6, <2>3 DEF After
<1> QED
  BY <1>1, <1>3, <1>4, <1>5, <1>6

(* Transactions stay in order. *)
LEMMA EndsStep ==
  ASSUME MainTypes, SessionTypes, TxnTypes, Connections, Ends, Next
  PROVE  Ends'
<1>0. /\ txn \in [Handler -> Transaction] /\ todo \in [Handler -> Seq(Op)]
      /\ txn_ok \in [Handler -> BOOLEAN] /\ hpc \in [Handler -> Loc]
  BY DEF TxnTypes, SessionTypes
<1>1. ASSUME NEW h \in Handler, HandlerAny(h) PROVE Ends'
  <2>0. InOrder(hpc[h], txn[h], txn_ok[h], todo[h])
    BY DEF Ends
  <2>1. SUFFICES InOrder(hpc'[h], txn'[h], txn_ok'[h], todo'[h])
    <3>1. ASSUME NEW g \in Handler, g # h PROVE InOrder(hpc'[g], txn'[g], txn_ok'[g], todo'[g])
      <4>1. UNCHANGED <<txn[g], todo[g], txn_ok[g], hpc[g]>>
        BY <1>1, <3>1, OwnTransaction
      <4> QED
        BY <4>1 DEF Ends
    <3> QED
      BY <2>1, <3>1 DEF Ends
  <2>2. CASE Start(h) \/ ReadFails(h)
    BY <1>0, <2>0, <2>2 DEF Start, ReadFails, Goto, InOrder
  <2>3. CASE Receive(h)
    <3>1. hpc[h] = "read" /\ todo' = todo /\ Closed(txn[h])
      BY <2>0, <2>3 DEF Receive, InOrder
    <3>2. \/ UNCHANGED <<txn, txn_ok>> /\ (hpc' = hpc \/ hpc' = [hpc EXCEPT ![h] = "gone"])
          \/ txn_ok' = [txn_ok EXCEPT ![h] = TRUE] /\ hpc' = [hpc EXCEPT ![h] = "scan"]
      BY <2>3 DEF Receive, Goto
    <3>3. CASE UNCHANGED <<txn, txn_ok>> /\ (hpc' = hpc \/ hpc' = [hpc EXCEPT ![h] = "gone"])
      BY <1>0, <3>1, <3>3 DEF InOrder
    <3>4. CASE txn_ok' = [txn_ok EXCEPT ![h] = TRUE] /\ hpc' = [hpc EXCEPT ![h] = "scan"]
      BY <1>0, <3>4 DEF InOrder
    <3> QED
      BY <3>2, <3>3, <3>4
  <2>4. CASE yyparse(h)
    <3>1. /\ hpc[h] = "scan" /\ UNCHANGED <<txn, txn_ok, todo>>
          /\ hpc' = [hpc EXCEPT ![h] = "work"] \/ hpc' = [hpc EXCEPT ![h] = "analyze"]
      BY <2>4 DEF yyparse, Goto
    <3> QED
      BY <1>0, <2>0, <3>1 DEF InOrder
  <2>5. CASE do_analyze(h)
    <3>1. /\ hpc[h] = "analyze" /\ hpc' = [hpc EXCEPT ![h] = "work"]
          /\ txn_ok' = txn_ok \/ todo' = [todo EXCEPT ![h] = abort(txn[h])]
      BY <2>5 DEF do_analyze, Goto
    <3>2. Aborting(abort(txn[h])) /\ txn_ok[h] = TRUE
      BY <2>0, <3>1, AbortOps DEF InOrder
    <3> QED
      BY <1>0, <3>1, <3>2 DEF InOrder
  <2>6. CASE Work(h)
    <3>0. hpc[h] \in {"work", "auto"} /\ UsesLog(todo[h]) /\ txn_ok' = txn_ok
      BY <2>6, WorkCases
    <3>1. CASE UNCHANGED <<txn, todo, hpc>>
      BY <2>0, <3>0, <3>1
    <3>2. CASE /\ Head(todo[h]) \in RecordType /\ todo' = [todo EXCEPT ![h] = Tail(todo[h])] /\ hpc' = hpc
      <4>1. todo'[h] = Tail(todo[h])
        BY <1>0, <3>2
      <4>2. Aborting(todo[h]) => Aborting(Tail(todo[h]))
        BY <3>0, AbortOps
      <4>3. Committing(todo[h]) => Committing(Tail(todo[h]))
        BY <3>2, CommitOps
      <4> QED
        BY <2>0, <3>0, <3>2, <4>1, <4>2, <4>3 DEF InOrder
    <3>3. CASE /\ Head(todo[h]) \notin RecordType
               /\ Continue(h, hpc[h], Marked(txn[h], Head(todo[h])), Tail(todo[h]))
      <4>1. CASE hpc[h] = "work"
        <5>1. hpc' = [hpc EXCEPT ![h] = "work"] /\ todo' = [todo EXCEPT ![h] = Tail(todo[h])]
          BY <3>3, <4>1 DEF Continue, Goto
        <5>2. hpc'[h] = "work" /\ todo'[h] = Tail(todo[h])
          BY <1>0, <5>1
        <5>3. Aborting(todo[h]) => Aborting(Tail(todo[h]))
          BY <3>0, AbortOps
        <5> QED
          BY <2>0, <3>0, <4>1, <5>2, <5>3 DEF InOrder
      <4>2. CASE hpc[h] = "auto"
        <5>1. Committing(todo[h])
          BY <2>0, <4>2 DEF InOrder
        <5>2. Tail(todo[h]) = <<"committed">>
          BY <3>3, <5>1, CommitOps
        <5>3. txn[h] \in Transaction
          BY <1>0
        <5>4. Marked(txn[h], Head(todo[h])) \in Transaction
          BY <5>3, MarkedTypes
        <5> QED
          BY <3>3, <4>2, <5>2, <5>4, BackInOrder
      <4> QED
        BY <3>0, <4>1, <4>2
    <3> QED
      BY <2>6, <3>1, <3>2, <3>3, WorkCases
  <2>7. CASE Answer(h)
    <3>1. hpc[h] = "work" /\ ~UsesLog(todo[h]) /\ Continue(h, "auto", Ending(h), After(h))
      BY <2>7, AnswerCases
    <3> QED
      BY <3>1, AfterInOrder, BackInOrder
  <2>8. CASE Fail(h)
    <3>1. hpc[h] = "work" /\ hpc' = hpc /\ todo' = [todo EXCEPT ![h] = abort(txn[h])]
      BY <2>8 DEF Fail
    <3>2. Aborting(abort(txn[h]))
      BY AbortOps
    <3> QED
      BY <1>0, <3>1, <3>2 DEF InOrder
  <2>9. CASE AnswerFails(h)
    BY <1>0, <2>0, <2>9 DEF AnswerFails, Finish, Goto, InOrder
  <2> QED
    BY <1>1, <2>2, <2>3, <2>4, <2>5, <2>6, <2>7, <2>8, <2>9 DEF HandlerAny, HandlerStep
<1>2. CASE MainAny
  <2>1. UNCHANGED <<txn, txn_ok, todo>>
    BY <1>2, MainLeaves
  <2>2. \A h \in Handler : hpc'[h] = hpc[h] \/ (hpc[h] = "none" /\ hpc'[h] = "new")
    BY <1>2, MainSpawns
  <2> QED
    BY <2>1, <2>2 DEF Ends, InOrder
<1>3. ASSUME NEW c \in Client, ClientStep(c) PROVE Ends'
  BY <1>3, ClientLeaves DEF Ends
<1> QED
  BY <1>1, <1>2, <1>3 DEF Next, HandlerAny

-----------------------------------------------------------------------------
(* Requests and their answers. *)

(* But for taking a request and answering it, a handler that is busy       *)
(* afterwards was busy with the same request before.                       *)
LEMMA BusyBefore ==
  ASSUME SessionTypes, NEW h \in Handler, HandlerAny(h), ~Receive(h), ~Answer(h),
         NEW g \in Handler, hpc'[g] \in {"scan", "analyze", "work"}
  PROVE  hpc[g] \in {"scan", "analyze", "work"} /\ fd'[g] = fd[g] /\ req'[g] = req[g]
<1>0. /\ hpc \in [Handler -> Loc] /\ req \in [Handler -> Request]
      /\ fd \in [Handler -> Client \cup {NoClient}]
  BY DEF SessionTypes
<1>1. CASE Start(h)
  BY <1>0, <1>1 DEF Start, Goto
<1>2. CASE ReadFails(h)
  BY <1>0, <1>2 DEF ReadFails, Goto
<1>3. CASE yyparse(h)
  BY <1>0, <1>3 DEF yyparse, Goto
<1>4. CASE do_analyze(h)
  BY <1>0, <1>4 DEF do_analyze, Goto
<1>5. CASE Work(h)
  <2>1. hpc[h] \in {"work", "auto"} /\ fd' = fd
    BY <1>5, WorkCases
  <2>2. \/ UNCHANGED <<hpc, req>>
        \/ hpc' = [hpc EXCEPT ![h] = "read"] /\ req' = [req EXCEPT ![h] = NoRequest]
        \/ hpc' = [hpc EXCEPT ![h] = hpc[h]] /\ req' = req
    BY <1>5, WorkCases DEF Continue, Goto
  <2> QED
    BY <1>0, <2>1, <2>2
<1>6. CASE Fail(h)
  BY <1>6 DEF Fail
<1>7. CASE AnswerFails(h)
  BY <1>0, <1>7 DEF AnswerFails, Finish, Goto
<1> QED
  BY <1>1, <1>2, <1>3, <1>4, <1>5, <1>6, <1>7 DEF HandlerAny, HandlerStep

(* When connections and answers stay as they are and no handler becomes    *)
(* busy, there is still at most one request under way.                     *)
LEMMA StillOne ==
  ASSUME NEW c \in Client, OneAsked(c),
         UNCHANGED <<cl[c], sent[c], inbox[c], stream[c], shown[c]>>,
         \A g \in Handler : hpc'[g] \in {"scan", "analyze", "work"} /\ fd'[g] = c =>
             hpc[g] \in {"scan", "analyze", "work"} /\ fd[g] = c /\ req'[g] = req[g]
  PROVE  OneAsked(c)'
<1>1. Busy(c)' \subseteq Busy(c) /\ \A g \in Busy(c)' : req'[g] = req[g]
  BY DEF Busy
<1>3. CASE cl[c] = "on"
  BY <1>1, <1>3 DEF OneAsked, Latest
<1>4. CASE cl[c] = "wait"
  <2>1. inbox[c] # <<>> => Len(inbox[c]) = 1 /\ Latest(c, inbox[c][1]) /\ stream[c] = <<>> /\ Busy(c) = {}
    BY <1>4 DEF OneAsked
  <2>2. stream[c] # <<>> => Len(stream[c]) = 1 /\ Latest(c, stream[c][1]) /\ Busy(c) = {}
    BY <1>4 DEF OneAsked
  <2>3. \A g \in Busy(c) : Latest(c, req[g])
    BY <1>4 DEF OneAsked
  <2> QED
    BY <1>1, <1>4, <2>1, <2>2, <2>3 DEF OneAsked, Latest
<1>5. CASE cl[c] # "on" /\ cl[c] # "wait"
  BY <1>5 DEF OneAsked
<1> QED
  BY <1>3, <1>4, <1>5


(* Taking the request from the connection makes its handler busy with it.  *)
LEMMA ReceiveAsks ==
  ASSUME SessionTypes, ClientTypes, Connections, Asks, NEW h \in Handler, Receive(h)
  PROVE  Asks'
<1>0. /\ hpc \in [Handler -> Loc] /\ req \in [Handler -> Request]
      /\ inbox \in [Client -> Seq(Request)]
  BY DEF SessionTypes, ClientTypes
<1>1. /\ hpc[h] = "read" /\ inbox[fd[h]] # <<>> /\ inbox' = [inbox EXCEPT ![fd[h]] = Tail(inbox[fd[h]])]
      /\ UNCHANGED <<cl, sent, stream, shown, split, fd>>
  BY DEF Receive
<1>2. \/ hpc' = hpc /\ req' = req
      \/ hpc' = [hpc EXCEPT ![h] = "gone"] /\ req' = req
      \/ hpc' = [hpc EXCEPT ![h] = "scan"] /\ req' = [req EXCEPT ![h] = Head(inbox[fd[h]])]
  BY DEF Receive, Goto
<1>3. fd[h] \in Client /\ inbox[fd[h]] \in Seq(Request)
  BY ReceiveTypes
<1> SUFFICES ASSUME NEW c \in Client, split'[c] = FALSE PROVE OneAsked(c)'
  BY DEF Asks
<1>4. OneAsked(c)
  BY <1>1 DEF Asks
<1>5. CASE c # fd[h]
  <2>1. inbox'[c] = inbox[c]
    BY <1>0, <1>1, <1>5
  <2>2. \A g \in Handler : hpc'[g] \in {"scan", "analyze", "work"} /\ fd'[g] = c =>
             hpc[g] \in {"scan", "analyze", "work"} /\ fd[g] = c /\ req'[g] = req[g]
    BY <1>0, <1>1, <1>2, <1>5
  <2> QED
    BY <1>1, <1>4, <2>1, <2>2, StillOne
<1>6. CASE c = fd[h]
  <2>1. \A g \in Handler : fd[g] = c /\ hpc[g] \in {"scan", "analyze", "work"} => g = h
    BY <1>1, <1>6 DEF Connections, Serving
  <2>2. cl[c] # "on"
    BY <1>1, <1>4, <1>6 DEF OneAsked
  <2>3. CASE cl[c] = "wait"
    <3>1. Len(inbox[c]) = 1 /\ Latest(c, inbox[c][1]) /\ stream[c] = <<>>
      BY <1>1, <1>4, <1>6, <2>3 DEF OneAsked
    <3>2. inbox'[c] = Tail(inbox[c])
      BY <1>0, <1>1, <1>6
    <3>3. Tail(inbox[c]) = <<>> /\ Head(inbox[c]) = inbox[c][1]
      <4>1. inbox[c] \in Seq(Request) /\ inbox[c] # <<>>
        BY <1>1, <1>3, <1>6
      <4> QED
        BY ONLY <3>1, <4>1, LastOne
    <3>4. \A g \in Busy(c)' : req'[g] = inbox[c][1]
      BY <1>0, <1>1, <1>2, <1>6, <2>1, <3>3 DEF Busy
    <3>5. \A g \in Busy(c)' : Latest(c, req[g])'
      BY <1>1, <3>1, <3>4 DEF Latest
    <3> QED
      BY <1>1, <2>3, <3>1, <3>2, <3>3, <3>5 DEF OneAsked
  <2> QED
    BY <1>1, <2>2, <2>3 DEF OneAsked
<1> QED
  BY <1>5, <1>6

(* The answer goes to the client that waits for it. *)
LEMMA AnswerAsks ==
  ASSUME SessionTypes, ClientTypes, Connections, Trees, Asks, NEW h \in Handler, Answer(h)
  PROVE  Asks'
<1>0. /\ hpc \in [Handler -> Loc] /\ req \in [Handler -> Request]
      /\ stream \in [Client -> Seq(Request)]
  BY DEF SessionTypes, ClientTypes
<1>1. /\ hpc[h] = "work" /\ UNCHANGED <<cl, sent, inbox, shown, split, fd>>
      /\ stream' = IF cl[fd[h]] = "closed" THEN stream
                   ELSE [stream EXCEPT ![fd[h]] = Append(stream[fd[h]], got[h])]
  BY AnswerCases
<1>2. \/ hpc' = [hpc EXCEPT ![h] = "read"] /\ req' = [req EXCEPT ![h] = NoRequest]
      \/ hpc' = [hpc EXCEPT ![h] = "auto"] /\ req' = req
  BY AnswerCases DEF Continue, Goto
<1>3. fd[h] \in Client /\ stream[fd[h]] \in Seq(Request) /\ got[h] = req[h] /\ got[h] \in Request
  BY <1>0, <1>1 DEF Connections, Serving, Trees
<1> SUFFICES ASSUME NEW c \in Client, split'[c] = FALSE PROVE OneAsked(c)'
  BY DEF Asks
<1>4. OneAsked(c)
  BY <1>1 DEF Asks
<1>5. CASE c # fd[h]
  <2>1. stream'[c] = stream[c]
    BY <1>0, <1>1, <1>5
  <2>2. \A g \in Handler : hpc'[g] \in {"scan", "analyze", "work"} /\ fd'[g] = c =>
             hpc[g] \in {"scan", "analyze", "work"} /\ fd[g] = c /\ req'[g] = req[g]
    BY <1>0, <1>1, <1>2, <1>5
  <2> QED
    BY <1>1, <1>4, <2>1, <2>2, StillOne
<1>6. CASE c = fd[h]
  <2>1. Busy(c)' = {}
    BY <1>0, <1>1, <1>2, <1>6 DEF Connections, Serving, Busy
  <2>2. h \in Busy(c)
    BY <1>1, <1>6 DEF Busy
  <2>3. cl[c] # "on"
    BY <1>4, <2>2 DEF OneAsked
  <2>4. CASE cl[c] = "wait"
    <3>1. inbox[c] = <<>> /\ stream[c] = <<>> /\ Latest(c, req[h])
      BY <1>4, <2>2, <2>4 DEF OneAsked
    <3>2. stream'[c] = Append(stream[c], req[h])
      BY <1>0, <1>1, <1>3, <1>6, <2>4
    <3>3. Len(stream'[c]) = 1 /\ stream'[c][1] = req[h]
      <4>1. stream'[c] = Append(<<>>, req[h])
        BY ONLY <3>1, <3>2, Zenon
      <4> QED
        BY ONLY <4>1, FirstOne, Zenon
    <3> QED
      BY <1>1, <2>1, <2>4, <3>1, <3>3 DEF OneAsked, Latest
  <2> QED
    BY <1>1, <2>3, <2>4 DEF OneAsked
<1> QED
  BY <1>5, <1>6


(* A client asks again when it has printed its answer. *)
LEMMA ClientAsks ==
  ASSUME ClientTypes, Asks, NEW c \in Client, ClientStep(c)
  PROVE  Asks'
<1>0. /\ cl \in [Client -> {"on", "wait", "closed"}] /\ sent \in [Client -> Seq(Kind)]
      /\ inbox \in [Client -> Seq(Request)] /\ stream \in [Client -> Seq(Request)]
      /\ shown \in [Client -> Request] /\ split \in [Client -> BOOLEAN]
  BY DEF ClientTypes
<1>1. UNCHANGED <<hpc, fd, req>>
  BY ClientLeaves
<1>2. \A d \in Client : Busy(d)' = Busy(d)
  BY <1>1 DEF Busy
<1>3. ASSUME NEW d \in Client, d # c, split'[d] = FALSE PROVE OneAsked(d)'
  <2>1. UNCHANGED <<cl[d], sent[d], inbox[d], stream[d], shown[d], split[d]>>
    BY <1>0, <1>3 DEF ClientStep, Send, recv, recv_part, Leave, ConnectionClosed, close_client
  <2>2. OneAsked(d)
    BY <1>3, <2>1 DEF Asks
  <2> QED
    BY <1>1, <2>1, <2>2, StillOne
<1>4. ASSUME split'[c] = FALSE PROVE OneAsked(c)'
  <2>1. CASE Send(c)
    <3>1. PICK k \in Kind :
             /\ sent' = [sent EXCEPT ![c] = Append(sent[c], k)]
             /\ inbox' = [inbox EXCEPT ![c] = Append(inbox[c], [of |-> c, no |-> Len(sent[c]) + 1, kind |-> k])]
      BY <2>1 DEF Send
    <3>2. cl[c] = "on" /\ cl' = [cl EXCEPT ![c] = "wait"] /\ UNCHANGED <<stream, shown, split>>
      BY <2>1 DEF Send
    <3>3. inbox[c] = <<>> /\ stream[c] = <<>> /\ Busy(c) = {}
      BY <1>4, <3>2 DEF Asks, OneAsked
    <3>4. /\ cl'[c] = "wait" /\ sent'[c] = Append(sent[c], k) /\ sent[c] \in Seq(Kind)
          /\ inbox'[c] = Append(<<>>, [of |-> c, no |-> Len(sent[c]) + 1, kind |-> k])
      BY <1>0, <3>1, <3>2, <3>3
    <3>5. Len(sent'[c]) = Len(sent[c]) + 1
      <4>1. Len(Append(sent[c], k)) = Len(sent[c]) + 1
        BY ONLY <3>4, k \in Kind, OneMore, Zenon
      <4> QED
        BY ONLY <3>4, <4>1, Zenon
    <3>6. Len(inbox'[c]) = 1 /\ inbox'[c][1].of = c /\ inbox'[c][1].no = Len(sent[c]) + 1
      <4>1. PICK r : r = [of |-> c, no |-> Len(sent[c]) + 1, kind |-> k]
        OBVIOUS
      <4>2. r.of = c /\ r.no = Len(sent[c]) + 1
        BY ONLY <4>1
      <4>3. Len(inbox'[c]) = 1 /\ inbox'[c][1] = r
        BY ONLY <3>4, <4>1, FirstOne, Zenon
      <4> QED
        BY ONLY <4>2, <4>3
    <3>7. Busy(c)' = {} /\ stream'[c] = <<>>
      BY <1>2, <3>2, <3>3
    <3>8. Latest(c, inbox[c][1])'
      BY <3>5, <3>6 DEF Latest
    <3> QED
      BY <3>4, <3>6, <3>7, <3>8 DEF OneAsked
  <2>2. CASE recv(c)
    <3>1. /\ cl[c] = "wait" /\ stream[c] # <<>> /\ shown' = [shown EXCEPT ![c] = Head(stream[c])]
          /\ cl' = [cl EXCEPT ![c] = "on"] /\ UNCHANGED <<sent, inbox, split>>
      BY <2>2 DEF recv
    <3>2. PICK k \in 1 .. Len(stream[c]) : stream' = [stream EXCEPT ![c] = SubSeq(stream[c], k + 1, Len(stream[c]))]
      BY <2>2 DEF recv
    <3>3. /\ Len(stream[c]) = 1 /\ Latest(c, stream[c][1]) /\ Busy(c) = {} /\ inbox[c] = <<>>
      BY <1>4, <3>1 DEF Asks, OneAsked
    <3>4. stream[c] \in Seq(Request) /\ k = 1
      BY <1>0, <3>2, <3>3
    <3>5. SubSeq(stream[c], 2, 1) = <<>> /\ Head(stream[c]) = stream[c][1]
      BY ONLY <3>3, <3>4, LastOne
    <3>6. cl'[c] = "on" /\ shown'[c] = stream[c][1] /\ stream'[c] = <<>>
      <4>1. cl'[c] = "on"
        BY ONLY <1>0, <3>1, c \in Client
      <4>2. shown'[c] = stream[c][1]
        BY ONLY <1>0, <3>1, <3>5, c \in Client
      <4>3. stream'[c] = SubSeq(stream[c], k + 1, Len(stream[c]))
        BY ONLY <1>0, <3>2, c \in Client
      <4>4. k + 1 = 2
        BY ONLY <3>4
      <4> QED
        BY ONLY <3>3, <3>5, <4>1, <4>2, <4>3, <4>4
    <3>7. Busy(c)' = {} /\ inbox'[c] = <<>> /\ Latest(c, shown[c])'
      BY <1>2, <3>1, <3>3, <3>6 DEF Latest
    <3> QED
      BY <3>6, <3>7 DEF OneAsked
  <2>3. CASE recv_part(c)
    BY <1>0, <1>4, <2>3 DEF recv_part
  <2>4. CASE Leave(c) \/ ConnectionClosed(c)
    <3>1. cl'[c] = "closed"
      BY <1>0, <2>4 DEF Leave, ConnectionClosed, close_client
    <3> QED
      BY <3>1 DEF OneAsked
  <2> QED
    BY <2>1, <2>2, <2>3, <2>4 DEF ClientStep
<1> QED
  BY <1>3, <1>4 DEF Asks

(* At most one request of a client is under way. *)
LEMMA AsksStep ==
  ASSUME ServerInv, Next
  PROVE  Asks'
<1> USE DEF ServerInv, ServerTypes
<1>1. ASSUME NEW h \in Handler, HandlerAny(h), ~Receive(h), ~Answer(h) PROVE Asks'
  <2>1. UNCHANGED <<cl, sent, inbox, stream, shown, split>>
    BY <1>1, HandlerLeavesClients
  <2>2. \A g \in Handler : hpc'[g] \in {"scan", "analyze", "work"} =>
             hpc[g] \in {"scan", "analyze", "work"} /\ fd'[g] = fd[g] /\ req'[g] = req[g]
    BY <1>1, BusyBefore
  <2>3. ASSUME NEW c \in Client, split'[c] = FALSE PROVE OneAsked(c)'
    <3>1. OneAsked(c)
      BY <2>1, <2>3 DEF Asks
    <3> QED
      BY ONLY <2>1, <2>2, <3>1, c \in Client, StillOne
  <2> QED
    BY <2>3 DEF Asks
<1>2. CASE MainAny
  <2>1. UNCHANGED <<cl, sent, inbox, stream, shown, split, fd, req>>
    BY <1>2, MainLeaves
  <2>2. \A h \in Handler : hpc'[h] = hpc[h] \/ hpc'[h] = "new"
    BY <1>2, MainSpawns
  <2>3. ASSUME NEW c \in Client, split'[c] = FALSE PROVE OneAsked(c)'
    <3>1. OneAsked(c)
      BY <2>1, <2>3 DEF Asks
    <3>2. \A g \in Handler : hpc'[g] \in {"scan", "analyze", "work"} /\ fd'[g] = c =>
             hpc[g] \in {"scan", "analyze", "work"} /\ fd[g] = c /\ req'[g] = req[g]
      BY <2>1, <2>2
    <3> QED
      BY ONLY <2>1, <3>1, <3>2, c \in Client, StillOne
  <2> QED
    BY <2>3 DEF Asks
<1> QED
  BY <1>1, <1>2, ReceiveAsks, AnswerAsks, ClientAsks DEF Next, HandlerAny

-----------------------------------------------------------------------------
(* The theorems. *)

(* The invariant holds when the server starts. *)
LEMMA ServerStarts == Init => ServerInv
<1> SUFFICES ASSUME Init PROVE ServerInv
  OBVIOUS
<1>1. PICK n \in Nat : Client = 1 .. n
  BY ServerAssumption
<1>2. backlog = [c \in 1 .. n |-> c] /\ backlog \in Seq(Client) /\ Len(backlog) = n
  <2>1. backlog = [c \in 1 .. n |-> c]
    BY <1>1 DEF Init
  <2>2. \A c \in 1 .. n : c \in Client
    BY <1>1
  <2>3. backlog \in Seq(Client)
    BY ONLY <2>1, <2>2, n \in Nat
  <2>4. Len(backlog) = n
    BY ONLY <2>1, <2>3, n \in Nat
  <2> QED
    BY <2>1, <2>3, <2>4
<1>3. NoRequest \in Request
  BY DEF NoRequest, Request, Kind
<1>4. MainTypes
  BY <1>2 DEF Init, MainTypes
<1>5. ParseTypes
  BY <1>3 DEF Init, ParseTypes
<1>6. SessionTypes
  BY <1>3 DEF Init, SessionTypes, Loc
<1>7. TxnTypes
  <2>1. [NewTransaction(-1) EXCEPT !.state = "COMMITTED"] \in Transaction
    <3>0. -1 \in Int
      OBVIOUS
    <3>1. NewTransaction(-1) \in Transaction
      BY ONLY <3>0 DEF NewTransaction, Transaction, INVALID_LSN
    <3>2. \A t \in Transaction : [t EXCEPT !.state = "COMMITTED"] \in Transaction
      BY DEF Transaction
    <3> QED
      BY <3>1, <3>2
  <2>2. <<>> \in Seq(Op)
    OBVIOUS
  <2>3. txn \in [Handler -> Transaction]
    BY <2>1 DEF Init
  <2>4. todo \in [Handler -> Seq(Op)]
    BY <2>2 DEF Init
  <2> QED
    BY <2>3, <2>4 DEF Init, LogInit, TxnTypes
<1>8. ClientTypes
  <2>1. cl \in [Client -> {"on", "wait", "closed"}] /\ split \in [Client -> BOOLEAN] /\ shown \in [Client -> Request]
    BY <1>3 DEF Init
  <2>2. <<>> \in Seq(Kind) /\ <<>> \in Seq(Request)
    OBVIOUS
  <2>3. sent \in [Client -> Seq(Kind)]
    BY <2>2 DEF Init
  <2>4. inbox \in [Client -> Seq(Request)] /\ stream \in [Client -> Seq(Request)]
    BY <2>2 DEF Init
  <2> QED
    BY <2>1, <2>3, <2>4 DEF ClientTypes
<1>9. \A h \in Handler : hpc[h] = "none"
  BY DEF Init
<1>10. Connections
  <2>1. Serving = {}
    BY <1>9 DEF Serving
  <2>2. \A i, j \in 1 .. Len(backlog) : backlog[i] = backlog[j] => i = j
    BY <1>2
  <2>3. main = "lock"
    BY DEF Init
  <2> QED
    BY <1>9, <2>1, <2>2, <2>3 DEF Connections
<1>11. Trees
  BY <1>9, Numbered DEF Init, Trees
<1>12. Ends
  <2>1. Closed([NewTransaction(-1) EXCEPT !.state = "COMMITTED"])
    BY DEF Closed, NewTransaction
  <2> QED
    BY <1>9, <2>1 DEF Init, Ends, InOrder
<1>13. Asks
  BY <1>9 DEF Init, Asks, OneAsked, Busy
<1> QED
  BY <1>4, <1>5, <1>6, <1>7, <1>8, <1>10, <1>11, <1>12, <1>13 DEF ServerInv, ServerTypes

(* It is inductive. *)
LEMMA ServerSteps == ServerInv /\ [Next]_vars => ServerInv'
<1> SUFFICES ASSUME ServerInv, [Next]_vars PROVE ServerInv'
  OBVIOUS
<1>1. CASE Next
  BY <1>1, MainTypesStep, SessionTypesStep, TxnTypesStep, ClientTypesStep, ConnectionsStep, TreesStep,
     EndsStep, AsksStep DEF ServerInv, ServerTypes
<1>2. CASE UNCHANGED vars
  <2>1. UNCHANGED <<logVars, mainVars, parseVars, handlerVars, clientVars>>
    BY <1>2 DEF vars
  <2>2. MainTypes' /\ ParseTypes' /\ SessionTypes' /\ TxnTypes' /\ ClientTypes'
    BY <2>1 DEF ServerInv, ServerTypes, MainTypes, ParseTypes, SessionTypes, TxnTypes, ClientTypes,
                logVars, mainVars, parseVars, handlerVars, clientVars
  <2>3. UNCHANGED <<main, sockfd_mutex, sockfd, backlog, spawned, hpc, fd, alive>>
    BY <2>1 DEF mainVars, handlerVars
  <2>4. UNCHANGED <<req, got, buffer_mutex, parse_tree, finish_analyze, txn, txn_ok, todo>>
    BY <2>1 DEF parseVars, handlerVars
  <2>5. UNCHANGED <<cl, sent, inbox, stream, shown, split>>
    BY <2>1 DEF clientVars
  <2>6. Connections'
    BY ONLY <2>3, Connections, ServerInv DEF ServerInv, Connections, Serving
  <2>7. Trees'
    BY ONLY <2>3, <2>4, ServerInv DEF ServerInv, Trees
  <2>8. Ends'
    BY ONLY <2>3, <2>4, ServerInv DEF ServerInv, Ends
  <2>9. Asks'
    <3>1. ASSUME NEW c \in Client, split'[c] = FALSE PROVE OneAsked(c)'
      <4>1. OneAsked(c)
        BY <2>5, <3>1 DEF ServerInv, Asks
      <4> QED
        BY ONLY <2>3, <2>4, <2>5, <4>1, c \in Client, StillOne
    <3> QED
      BY <3>1 DEF Asks
  <2> QED
    BY <2>2, <2>6, <2>7, <2>8, <2>9 DEF ServerInv, ServerTypes
<1> QED
  BY <1>1, <1>2

(* It implies what sessions are promised. *)
LEMMA ServerPromises == ServerInv => OwnAnswer /\ TransactionsEnd
<1> SUFFICES ASSUME ServerInv PROVE OwnAnswer /\ TransactionsEnd
  OBVIOUS
<1>1. \A g, h \in Serving : fd[g] = fd[h] => g = h
  BY DEF ServerInv, Connections
<1>2. \A h \in Serving : got[h] = req[h]
  BY DEF ServerInv, Trees, Serving
<1>3. ASSUME NEW c \in Client, cl[c] = "on", sent[c] # <<>>, ~split[c]
      PROVE  shown[c].of = c /\ shown[c].no = Len(sent[c])
  <2>1. split[c] = FALSE
    BY <1>3 DEF ServerInv, ServerTypes, ClientTypes
  <2> QED
    BY <1>3, <2>1 DEF ServerInv, Asks, OneAsked, Latest
<1>4. ASSUME NEW h \in Handler
      PROVE  hpc[h] \in {"read", "gone"} => txn[h].state # "GROWING" \/ txn[h].txn_mode
  BY DEF ServerInv, Ends, InOrder, Closed
<1>5. ASSUME NEW h \in Handler PROVE buffer_mutex = h => hpc[h] \in {"analyze", "work"}
  BY DEF ServerInv, Trees
<1> QED
  BY <1>1, <1>2, <1>3, <1>4, <1>5 DEF OwnAnswer, TransactionsEnd

(* Each handler serves its own connection and executes its own parse tree, *)
(* although all parse into one global, and each client prints the answer   *)
(* to its last request, for any number of clients, sessions and faults.    *)
THEOREM SessionsGetTheirAnswers == Spec => []OwnAnswer
BY ServerStarts, ServerSteps, ServerPromises, PTL DEF Spec

(* No handler waits for its client, or ends, with buffer_mutex or with an  *)
(* open transaction that its client did not begin.                         *)
THEOREM SessionsEndTransactions == Spec => []TransactionsEnd
BY ServerStarts, ServerSteps, ServerPromises, PTL DEF Spec

=============================================================================
