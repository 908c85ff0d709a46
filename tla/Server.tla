------------------------------- MODULE Server -------------------------------
(***************************************************************************)
(* The server process (rmdb.cpp): the accept loop, one handler thread per  *)
(* connection, the transaction of each session with the records it writes  *)
(* to the log (transaction_manager.cpp, executor_utils.h, the executors),  *)
(* and the clients (rmdb_client/main.cpp), which have connected and wait   *)
(* to be accepted.  The log is module LogManager.                          *)
(* A request is reduced to what decides its path through client_handler;   *)
(* what statements do to tables is in Statements and Executors.            *)
(***************************************************************************)
EXTENDS LogManager

CONSTANTS
  Client,            \* the programs that connect, numbered in the order they do
  Session,           \* bound: the kinds of requests each client sends, in order
  MaxFaults          \* bound: failures from outside, in one run

Handler == Client    \* one thread for each

Kind == {"begin", "commit", "abort", "write", "read", "bad", "wrong", "crash", "exit"}

ASSUME ServerAssumption ==
  /\ Cardinality(Client) \in Nat /\ Client = 1 .. Cardinality(Client) /\ Thread = Handler
  /\ \A c \in Client : \A s \in Session[c] : s \in Seq(Kind)
  /\ MaxFaults \in Nat

VARIABLES
  alive,            \* the process has not ended
  main,             \* where the accept loop is
  sockfd_mutex, sockfd,
  backlog,          \* connections not accepted yet
  faults,           \* failures from outside so far
  spawned,          \* threads created so far
  buffer_mutex,     \* the handler that holds it, or 0
  parse_tree,       \* ast::parse_tree: the request it was made from
  next_txn_id,
  hpc,              \* where each handler is
  fd, req,          \* its connection and the request it serves
  got,              \* the request its answer is about
  finish_analyze, txn_ok,
  txn,              \* its transaction
  todo,             \* what is left of the statement or of its end
  cl,               \* of each client: on, wait (for an answer), closed
  sent,             \* the kinds of requests it has sent
  inbox, stream,    \* its connection, in each direction
  shown,            \* the answer it printed last
  split             \* an answer reached it in two pieces

mainVars == <<alive, main, sockfd_mutex, sockfd, backlog, faults, spawned>>
parseVars == <<buffer_mutex, parse_tree, finish_analyze>>
handlerVars == <<hpc, fd, req, got, txn_ok, txn, next_txn_id, todo>>
clientVars == <<cl, sent, inbox, stream, shown, split>>
vars == <<logVars, mainVars, parseVars, handlerVars, clientVars>>

NoClient == -1       \* a failed accept's result
NoRequest == [of |-> NoClient, no |-> 0, kind |-> "read"]
INVALID_LSN == -1

NewTransaction(id) ==
  [id |-> id, state |-> "GROWING", txn_mode |-> FALSE, prev_lsn |-> INVALID_LSN, write_set |-> FALSE]

Init ==
  /\ LogInit
  /\ alive = TRUE /\ main = "lock" /\ sockfd_mutex = FALSE /\ sockfd = NoClient
  /\ backlog = [c \in Client |-> c] /\ faults = 0 /\ spawned = 0
  /\ buffer_mutex = 0 /\ parse_tree = NoRequest /\ next_txn_id = 0
  /\ hpc = [h \in Handler |-> "none"]
  /\ fd = [h \in Handler |-> NoClient]
  /\ req = [h \in Handler |-> NoRequest] /\ got = req
  /\ finish_analyze = [h \in Handler |-> FALSE] /\ txn_ok = [h \in Handler |-> TRUE]
  \* no transaction yet: the first request starts one, as after a commit
  /\ txn = [h \in Handler |-> [NewTransaction(-1) EXCEPT !.state = "COMMITTED"]]
  /\ todo = [h \in Handler |-> <<>>]
  /\ cl = [c \in Client |-> "on"] /\ sent = [c \in Client |-> <<>>]
  /\ inbox = [c \in Client |-> <<>>] /\ stream = [c \in Client |-> <<>>]
  /\ shown = [c \in Client |-> NoRequest] /\ split = [c \in Client |-> FALSE]

Up == alive /\ ~overrun

(* What other programs, the network and the system do to the server. *)
Fault == faults < MaxFaults /\ faults' = faults + 1

-----------------------------------------------------------------------------
(* The accept loop.  sockfd_mutex is taken before accept and released by   *)
(* the new thread once it has copied the descriptor.                       *)

LockSockfd ==
  /\ main = "lock" /\ ~sockfd_mutex
  /\ sockfd_mutex' = TRUE /\ main' = "accept"
  /\ UNCHANGED <<alive, sockfd, backlog, faults, spawned, logVars, hpc>>

(* accept and pthread_create, which fails or starts the handler. *)
Accept ==
  /\ main = "accept" /\ backlog # <<>>
  /\ sockfd' = Head(backlog) /\ backlog' = Tail(backlog)
  /\ spawned' = spawned + 1 /\ hpc' = [hpc EXCEPT ![spawned + 1] = "new"] /\ main' = "lock"
  /\ UNCHANGED <<alive, sockfd_mutex, faults, logVars>>

CreateFails ==
  /\ main = "accept" /\ backlog # <<>> /\ Fault
  /\ sockfd' = Head(backlog) /\ backlog' = Tail(backlog)
  /\ main' = "closing"
  /\ UNCHANGED <<alive, sockfd_mutex, spawned, logVars, hpc>>

(* The loop goes on without releasing the mutex. *)
AcceptError ==
  /\ main = "accept" /\ Fault
  /\ sockfd' = NoClient /\ main' = "lock"
  /\ UNCHANGED <<alive, sockfd_mutex, backlog, spawned, logVars, hpc>>

sigint_handler ==
  /\ main # "closing" /\ Fault /\ main' = "closing"
  /\ flush_log_to_disk
  /\ UNCHANGED <<alive, sockfd_mutex, sockfd, backlog, spawned, hpc>>

close_db ==
  /\ main = "closing" /\ alive' = FALSE
  /\ UNCHANGED <<main, sockfd_mutex, sockfd, backlog, faults, spawned, logVars, hpc>>

MainStep == LockSockfd \/ Accept \/ close_db

MainAny ==
  /\ Up /\ (MainStep \/ AcceptError \/ CreateFails \/ sigint_handler)
  /\ UNCHANGED <<parseVars, fd, req, got, txn_ok, txn, next_txn_id, todo, clientVars>>

-----------------------------------------------------------------------------
(* What a statement, a commit and an abort do, step by step: records for   *)
(* the log, flushes, and at the end a change of the transaction.  A write  *)
(* adds to write_set and then calls persist_wal ("persist").               *)

RecordType == {"BEGIN", "DATA", "COMMIT", "ABORT"}
LogOp == RecordType \cup {"flush", "persist"}

ensure_txn_logged_Always(t) == <<"BEGIN">>

ensure_txn_logged(t) == IF t.prev_lsn = INVALID_LSN THEN <<"BEGIN">> ELSE <<>>

commit(t) ==
  (IF t.write_set THEN ensure_txn_logged(t) \o <<"COMMIT", "flush">> ELSE <<>>) \o <<"committed">>

abort(t) == (IF t.write_set THEN <<"ABORT", "flush">> ELSE <<>>) \o <<"aborted">>

run(k, t) ==
  CASE k = "begin"  -> ensure_txn_logged(t) \o <<"explicit">>
    [] k = "commit" -> commit(t)
    [] k = "abort"  -> abort(t)
    [] k = "write"  -> ensure_txn_logged(t) \o <<"DATA", "persist">>
    [] OTHER        -> <<>>

Settle(t, ops) ==
  CASE ops = <<"explicit">>  -> [t EXCEPT !.txn_mode = TRUE]
    [] ops = <<"committed">> -> [t EXCEPT !.state = "COMMITTED", !.write_set = FALSE]
    [] ops = <<"aborted">>   -> [t EXCEPT !.state = "ABORTED", !.write_set = FALSE]
    [] OTHER                 -> t

-----------------------------------------------------------------------------
(* A handler thread. *)

Goto(h, l) == hpc' = [hpc EXCEPT ![h] = l]

(* The descriptor is copied, and then the accept loop may use it again. *)
Start(h) ==
  /\ hpc[h] = "new"
  /\ fd' = [fd EXCEPT ![h] = sockfd] /\ sockfd_mutex' = FALSE /\ Goto(h, "read")
  /\ UNCHANGED <<logVars, alive, main, sockfd, backlog, faults, spawned, parseVars,
                 req, got, txn_ok, txn, next_txn_id, todo, clientVars>>

SetTransaction(h) ==
  IF txn[h].state \in {"COMMITTED", "ABORTED"}
  THEN txn' = [txn EXCEPT ![h] = NewTransaction(next_txn_id)] /\ next_txn_id' = next_txn_id + 1
  ELSE UNCHANGED <<txn, next_txn_id>>

Receive(h) ==
  /\ hpc[h] = "read" /\ inbox[fd[h]] # <<>>
  /\ LET r == Head(inbox[fd[h]])
     IN /\ inbox' = [inbox EXCEPT ![fd[h]] = Tail(@)]
        /\ CASE r.kind = "exit"  -> /\ Goto(h, "gone")
                                    /\ UNCHANGED <<logVars, alive, parseVars, req, got, txn_ok, txn, next_txn_id>>
             [] r.kind = "crash" -> /\ flush_log_to_disk /\ alive' = FALSE
                                    /\ UNCHANGED <<hpc, parseVars, req, got, txn_ok, txn, next_txn_id>>
             [] OTHER -> /\ req' = [req EXCEPT ![h] = r] /\ got' = [got EXCEPT ![h] = r]
                         /\ SetTransaction(h)
                         /\ finish_analyze' = [finish_analyze EXCEPT ![h] = FALSE]
                         /\ txn_ok' = [txn_ok EXCEPT ![h] = TRUE]
                         /\ Goto(h, "scan")
                         /\ UNCHANGED <<logVars, alive, buffer_mutex, parse_tree>>
  /\ UNCHANGED <<main, sockfd_mutex, sockfd, backlog, faults, spawned, fd, todo,
                 cl, sent, stream, shown, split>>

(* read returns 0, or -1 when the peer is gone. *)
ReadFails(h) ==
  /\ hpc[h] = "read" /\ cl[fd[h]] = "closed"
  /\ Goto(h, "gone")
  /\ UNCHANGED <<logVars, mainVars, parseVars, fd, req, got, txn_ok, txn, next_txn_id, todo, clientVars>>

yyparse_Unlock(h) ==
  /\ hpc[h] = "scan" /\ buffer_mutex = 0
  /\ buffer_mutex' = 0
  /\ IF req[h].kind = "bad"
     THEN Goto(h, "work") /\ UNCHANGED parse_tree
     ELSE Goto(h, "analyze") /\ parse_tree' = req[h]
  /\ UNCHANGED <<logVars, mainVars, finish_analyze, fd, req, got, txn_ok, txn, next_txn_id,
                 todo, clientVars>>

(* A syntax error leaves ast::parse_tree as it was. *)
yyparse(h) ==
  /\ hpc[h] = "scan" /\ buffer_mutex = 0
  /\ buffer_mutex' = h
  /\ IF req[h].kind = "bad"
     THEN Goto(h, "work") /\ UNCHANGED parse_tree
     ELSE Goto(h, "analyze") /\ parse_tree' = req[h]
  /\ UNCHANGED <<logVars, mainVars, finish_analyze, fd, req, got, txn_ok, txn, next_txn_id,
                 todo, clientVars>>

(* An error is caught with the mutex still held. *)
do_analyze(h) ==
  /\ hpc[h] = "analyze"
  /\ got' = [got EXCEPT ![h] = parse_tree] /\ Goto(h, "work")
  /\ IF parse_tree.kind = "wrong"
     THEN /\ txn_ok' = [txn_ok EXCEPT ![h] = FALSE]
          /\ todo' = [todo EXCEPT ![h] = abort(txn[h])]
          /\ UNCHANGED parseVars
     ELSE /\ finish_analyze' = [finish_analyze EXCEPT ![h] = TRUE] /\ buffer_mutex' = 0
          /\ todo' = [todo EXCEPT ![h] = run(parse_tree.kind, txn[h])]
          /\ UNCHANGED <<txn_ok, parse_tree>>
  /\ UNCHANGED <<logVars, mainVars, fd, req, txn, next_txn_id, clientVars>>

UsesLog(ops) == ops # <<>> /\ Head(ops) \in LogOp

(* The handler has done a step and t is its transaction.  With nothing     *)
(* more for the log behind the answer, it reads the next request.          *)
Continue(h, l, t, ops) ==
  IF l = "auto" /\ ~UsesLog(ops)
  THEN /\ txn' = [txn EXCEPT ![h] = Settle(t, ops)] /\ todo' = [todo EXCEPT ![h] = <<>>] /\ Goto(h, "read")
       /\ req' = [req EXCEPT ![h] = NoRequest] /\ got' = [got EXCEPT ![h] = NoRequest]
  ELSE /\ txn' = [txn EXCEPT ![h] = t] /\ todo' = [todo EXCEPT ![h] = ops] /\ Goto(h, l)
       /\ UNCHANGED <<req, got>>

(* The lsn is known when the record is in the buffer. *)
WriteRecord(h) ==
  /\ \/ add_log_to_buffer(h, [txn |-> txn[h].id, type |-> Head(todo[h]), prev_lsn |-> txn[h].prev_lsn])
     \/ FlushFull(h) \/ AddFlushed(h)
  /\ IF global_lsn' = global_lsn
     THEN UNCHANGED <<txn, todo, hpc, req, got>>
     ELSE /\ txn' = [txn EXCEPT ![h].prev_lsn = global_lsn] /\ todo' = [todo EXCEPT ![h] = Tail(@)]
          /\ UNCHANGED <<hpc, req, got>>

Work(h) ==
  /\ hpc[h] \in {"work", "auto"} /\ UsesLog(todo[h])
  /\ IF Head(todo[h]) \in RecordType
     THEN WriteRecord(h)
     ELSE /\ flush_log_to_disk
          /\ Continue(h, hpc[h], [txn[h] EXCEPT !.write_set = @ \/ Head(todo[h]) = "persist"], Tail(todo[h]))
  /\ UNCHANGED <<mainVars, parseVars, fd, txn_ok, next_txn_id, clientVars>>

Fail_NoAbort(h) ==
  /\ hpc[h] = "work" /\ txn_ok[h] /\ lpc[h] = "out" /\ Fault
  /\ \/ got[h].kind = "read"
     \/ got[h].kind = "write" /\ todo[h] # <<>>
  /\ txn_ok' = [txn_ok EXCEPT ![h] = FALSE]
  /\ todo' = [todo EXCEPT ![h] = <<>>]
  /\ UNCHANGED <<logVars, alive, main, sockfd_mutex, sockfd, backlog, spawned, parseVars, hpc, fd,
                 req, got, txn, next_txn_id, clientVars>>

(* A lock that is not granted, a value or a key that is refused: in a read *)
(* or, of a write, before the first record, between BEGIN and the row's    *)
(* record or behind that (a deleted row is logged before it is locked).    *)
Fail(h) ==
  /\ hpc[h] = "work" /\ txn_ok[h] /\ lpc[h] = "out" /\ Fault
  /\ \/ got[h].kind = "read"
     \/ got[h].kind = "write" /\ todo[h] # <<>>
  /\ txn_ok' = [txn_ok EXCEPT ![h] = FALSE]
  /\ todo' = [todo EXCEPT ![h] = abort(txn[h])]
  /\ UNCHANGED <<logVars, alive, main, sockfd_mutex, sockfd, backlog, spawned, parseVars, hpc, fd,
                 req, got, txn, next_txn_id, clientVars>>

Finish_NoUnlock(h) ==
  /\ hpc[h] = "work" /\ ~UsesLog(todo[h])
  /\ UNCHANGED buffer_mutex
  /\ UNCHANGED <<logVars, parse_tree, finish_analyze, fd, txn_ok, next_txn_id>>

(* The end of a statement: buffer_mutex is released unless it has been,    *)
(* and the answer is written.                                              *)
Finish(h) ==
  /\ hpc[h] = "work" /\ ~UsesLog(todo[h])
  /\ buffer_mutex' = IF finish_analyze[h] THEN buffer_mutex ELSE 0
  /\ UNCHANGED <<logVars, parse_tree, finish_analyze, fd, txn_ok, next_txn_id>>

(* A statement outside a transaction commits behind its answer. *)
Answer(h) ==
  LET t == Settle(txn[h], todo[h])
  IN /\ Finish(h)
     /\ stream' = IF cl[fd[h]] = "closed" THEN stream ELSE [stream EXCEPT ![fd[h]] = Append(@, got[h])]
     /\ Continue(h, "auto", t, IF txn_ok[h] /\ ~t.txn_mode THEN commit(t) ELSE <<>>)
     /\ UNCHANGED <<mainVars, cl, sent, inbox, shown, split>>

(* The peer is gone: write returns -1, or SIGPIPE ends the process. *)
AnswerFails(h) ==
  /\ Finish(h) /\ cl[fd[h]] = "closed"
  /\ \/ Goto(h, "broken") /\ UNCHANGED alive
     \/ alive' = FALSE /\ UNCHANGED hpc
  /\ UNCHANGED <<main, sockfd_mutex, sockfd, backlog, faults, spawned, req, got, txn, todo, clientVars>>

HandlerStep(h) ==
  Up /\ (\/ Start(h) \/ Receive(h) \/ ReadFails(h) \/ yyparse(h) \/ do_analyze(h)
         \/ Work(h) \/ Answer(h))

-----------------------------------------------------------------------------
(* The clients. *)

Send(c) ==
  /\ cl[c] = "on"
  /\ \E k \in Kind :
       /\ \E s \in Session[c] : Len(s) > Len(sent[c]) /\ SubSeq(s, 1, Len(sent[c]) + 1) = Append(sent[c], k)
       /\ sent' = [sent EXCEPT ![c] = Append(@, k)]
       /\ inbox' = [inbox EXCEPT ![c] = Append(@, [of |-> c, no |-> Len(sent[c]) + 1, kind |-> k])]
  /\ cl' = [cl EXCEPT ![c] = "wait"]
  /\ UNCHANGED <<faults, stream, shown, split>>

(* One recv returns some of what has arrived; what is printed ends at the  *)
(* first zero, and the rest of the buffer is cleared.                      *)
recv(c) ==
  /\ cl[c] = "wait" /\ stream[c] # <<>>
  /\ shown' = [shown EXCEPT ![c] = Head(stream[c])] /\ cl' = [cl EXCEPT ![c] = "on"]
  /\ \E k \in 1 .. Len(stream[c]) : stream' = [stream EXCEPT ![c] = SubSeq(@, k + 1, Len(@))]
  /\ UNCHANGED <<faults, sent, inbox, split>>

(* Only the head of the first answer: its end is printed next time. *)
recv_part(c) ==
  /\ cl[c] = "wait" /\ stream[c] # <<>> /\ Fault
  /\ shown' = [shown EXCEPT ![c] = Head(stream[c])] /\ cl' = [cl EXCEPT ![c] = "on"]
  /\ split' = [split EXCEPT ![c] = TRUE]
  /\ UNCHANGED <<sent, inbox, stream>>

close_client(c) ==
  /\ cl' = [cl EXCEPT ![c] = "closed"]
  /\ UNCHANGED <<sent, inbox, stream, shown, split>>

(* The user leaves, the client is killed, or the connection breaks. *)
Leave(c) == cl[c] \in {"on", "wait"} /\ Fault /\ close_client(c)

(* recv returns 0. *)
ConnectionClosed(c) ==
  /\ cl[c] = "wait" /\ \E h \in Handler : fd[h] = c /\ hpc[h] = "gone"
  /\ close_client(c) /\ UNCHANGED faults

ClientStep(c) ==
  /\ Up /\ (Send(c) \/ recv(c) \/ recv_part(c) \/ Leave(c) \/ ConnectionClosed(c))
  /\ UNCHANGED <<logVars, alive, main, sockfd_mutex, sockfd, backlog, spawned, parseVars, handlerVars>>

ClientReads(c) ==
  /\ Up /\ (recv(c) \/ ConnectionClosed(c))
  /\ UNCHANGED <<logVars, alive, main, sockfd_mutex, sockfd, backlog, spawned, parseVars, handlerVars>>

Next ==
  \/ MainAny
  \/ \E h \in Handler : HandlerStep(h) \/ (Up /\ (Fail(h) \/ AnswerFails(h)))
  \/ \E c \in Client : ClientStep(c)

(* The threads run, and a client reads what has arrived. *)
Fairness ==
  /\ WF_vars(Up /\ MainStep /\ UNCHANGED <<parseVars, fd, req, got, txn_ok, txn, next_txn_id, todo, clientVars>>)
  /\ \A h \in Handler : WF_vars(HandlerStep(h))
  /\ \A c \in Client : WF_vars(ClientReads(c))

Spec == Init /\ [][Next]_vars /\ Fairness

-----------------------------------------------------------------------------
(* Properties. *)

Records == log_file \o buffer
RecordsOf(i) == SelectSeq(Records, LAMBDA e : e.rec.txn = i)

(* A transaction's records form a chain from BEGIN, ended at most once. *)
Chained(s) ==
  /\ s # <<>> => s[1].rec.type = "BEGIN"
  /\ \A i \in 1 .. Len(s) : s[i].rec.prev_lsn = IF i = 1 THEN INVALID_LSN ELSE s[i - 1].lsn
  /\ \A i \in 1 .. Len(s) : s[i].rec.type = "BEGIN" => i = 1
  /\ \A i \in 1 .. Len(s) : s[i].rec.type \in {"COMMIT", "ABORT"} => i = Len(s)

(* Every record of the transaction is in the file, but for these types. *)
OnDiskBut(i, types) == \A j \in 1 .. Len(buffer) : buffer[j].rec.txn = i => buffer[j].rec.type \in types

(* Property: in the log that threads share, each transaction's records are *)
(* chained by prev_lsn from one BEGIN and nothing follows its end.  When a *)
(* write, a commit or an abort is answered its records are on disk, and    *)
(* when a transaction has committed and changed a row, so is its COMMIT.   *)
TxnLogSound ==
  /\ \A i \in 0 .. next_txn_id - 1 : Chained(RecordsOf(i))
  /\ \A h \in Handler :
       /\ hpc[h] = "work" /\ ~UsesLog(todo[h]) /\ txn_ok[h] =>
            /\ got[h].kind = "write" => OnDiskBut(txn[h].id, {})
            /\ got[h].kind \in {"commit", "abort"} => OnDiskBut(txn[h].id, {"BEGIN"})
       /\ LET s == RecordsOf(txn[h].id)
          IN txn[h].state = "COMMITTED" /\ Len(s) > 1 => s[Len(s)].rec.type = "COMMIT" /\ OnDiskBut(txn[h].id, {})

Serving == {h \in Handler : hpc[h] \notin {"none", "new"}}

(* Property: each handler serves its own connection, executes the tree of  *)
(* its own request although all of them parse into one global, and what    *)
(* the client prints is the answer to the request it sent last, unless an  *)
(* earlier answer reached it in pieces.                                    *)
OwnAnswer ==
  /\ \A g, h \in Serving : fd[g] = fd[h] => g = h
  /\ \A h \in Serving : got[h] = req[h]
  /\ \A c \in Client :
       cl[c] = "on" /\ sent[c] # <<>> /\ ~split[c] => shown[c].of = c /\ shown[c].no = Len(sent[c])

(* Property: between requests a session has an open transaction only after *)
(* begin; a thread that ends leaves one open, with its locks, only then or *)
(* when the answer could not be written; and none leaves or waits for its  *)
(* client with buffer_mutex.                                               *)
TransactionsEnd ==
  \A h \in Handler :
    /\ hpc[h] \in {"read", "gone"} => txn[h].state # "GROWING" \/ txn[h].txn_mode
    /\ buffer_mutex = h => hpc[h] \in {"analyze", "work"}

(* The mutex was not released after a failed accept. *)
AcceptStuck == main = "lock" /\ sockfd_mutex /\ sockfd = NoClient

(* Property: a client that waits for an answer gets one, or its connection *)
(* is closed, unless the process ends, the log buffer is overrun, or a     *)
(* failed accept left the loop waiting for its own mutex before the client *)
(* was accepted.                                                           *)
SessionsProgress ==
  \A c \in Client : (cl[c] = "wait") ~> (cl[c] # "wait" \/ ~Up \/ (AcceptStuck /\ ~\E h \in Handler : fd[h] = c))
=============================================================================
