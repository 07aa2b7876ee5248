----------------------------- MODULE BrokerConn -----------------------------
(***************************************************************************)
(* One broker thread (hs_rdkafka_broker.c, hs_rdkafka_buf.c,               *)
(* hs_rdkafka_transport.c): the state of its connection, the requests that *)
(* wait to be sent, to be answered and to be retried, and the ops other    *)
(* threads send to it.                                                     *)
(*                                                                         *)
(* A request is made by the main thread, whose handler runs there when the *)
(* answer or the error comes back (Main), or by the broker thread itself.  *)
(* A handler retries a retriable request on an error that allows it        *)
(* (rd_kafka_err_action). AV is the ApiVersion request a connection begins *)
(* with. Time is not modelled: what expires may do so at any moment.       *)
(***************************************************************************)
EXTENDS Integers, Sequences, FiniteSets, SequencesExt

CONSTANTS
    Reqs,           \* the requests
    AV,             \* the ApiVersion request, not one of them
    Main,           \* the ones that are answered on the main thread
    Blocking,       \* Fetch, JoinGroup, SyncGroup: held back by the broker
    High,           \* Metadata: of a higher priority
    Retriable,      \* the ones whose handlers retry
    MaxRetries,     \* rkbuf_max_retries
    MaxInflight,    \* max.in.flight.requests.per.connection
    Configs         \* sparse: enable.sparse.connections; fails:
                    \* socket.max.fails, 0 or 1; unsupported: requests the
                    \* broker has no version of; faults: bound on timeouts,
                    \* disconnects, failures, node updates

None == "none" \* no request

(* What the configuration allows. *)
ASSUME BrokerAssumption ==
    /\ AV \notin Reqs /\ None \notin Reqs \cup {AV} /\ MaxRetries \in Nat /\ MaxInflight \in Nat \ {0}
    /\ \A c \in Configs :
         /\ c.sparse \in BOOLEAN /\ c.fails \in {0, 1}
         /\ c.unsupported \subseteq Reqs /\ c.faults \in Nat

VARIABLES
    b,      \* the broker: cf (configuration), st, trans, out, wait, retry, conn, infl, blk, ...
    rq,     \* the requests: corr, conn, part, sent, tries, ver
    ops,    \* rkb_ops
    mainq,  \* answers that wait for the main thread
    net,    \* the requests the broker received on this connection
    bterm,  \* no, flag (rk_terminate), op (TERMINATE was sent)
    ghost,  \* handlers that have ended, receptions, AV answered, a failed assertion
    faults

bvars == <<b, rq, ops, mainq, net, bterm, ghost, faults>>

Sparse == b.cf.sparse
All == Reqs \cup {AV}
Prio(r) == IF r = AV THEN 2 ELSE IF r \in High THEN 1 ELSE 0
IsUp(st) == st \in {"UP", "UPDATE", "APIVERSION_QUERY"} \* state >= UP

(* The broker thread works on w = [b, rq, mainq, net, ghost].              *)
W == [b |-> b, rq |-> rq, mainq |-> mainq, net |-> net, ghost |-> ghost]
Becomes(w) == /\ b' = w.b /\ rq' = w.rq /\ mainq' = w.mainq
              /\ net' = w.net /\ ghost' = w.ghost
Require(w, p) == IF p THEN w ELSE [w EXCEPT !.ghost.bad = TRUE]

SetState(w, st) == [w EXCEPT !.b.st = st]

-----------------------------------------------------------------------------
(* Requests: queueing, retrying, calling their handlers.                   *)

Fresh == [corr |-> 0, conn |-> 0, part |-> FALSE, sent |-> FALSE,
          tries |-> 0, ver |-> 0]

(* Mutant: a high priority goes before whatever has a lower one. *)
PlaceFirst(w, r) ==
    LET before == {i \in 1..Len(w.b.out) : Prio(w.b.out[i]) < Prio(r)}
        n == IF before = {} \/ Prio(r) = 0 THEN Len(w.b.out) + 1
             ELSE CHOOSE i \in before : \A j \in before : i <= j
    IN  InsertAt(w.b.out, n, r)

(* Where rd_kafka_broker_buf_enq0() puts r: at the end, or before the      *)
(* first one of a lower priority that has no correlation id yet.           *)
QueuePlace(w, r) ==
    LET before == {i \in 1..Len(w.b.out) :
                     Prio(w.b.out[i]) < Prio(r) /\ w.rq[w.b.out[i]].corr = 0}
        n == IF before = {} \/ Prio(r) = 0 THEN Len(w.b.out) + 1
             ELSE CHOOSE i \in before : \A j \in before : i <= j
    IN  InsertAt(w.b.out, n, r)

BufEnq(w, r) ==
    [w EXCEPT !.b.st = IF Sparse /\ @ = "INIT" THEN "TRY_CONNECT" ELSE @,
              !.rq[r].sent = FALSE, !.b.out = QueuePlace(w, r)]

(* rd_kafka_buf_retry(), up to the queueing.                               *)
RetryErrors == {"TRANSPORT", "TIMED_OUT", "TIMED_OUT_QUEUE"}

Tries(w, r) == w.rq[r].tries + (IF w.rq[r].sent THEN 1 ELSE 0)

MayRetry(w, r, err) == /\ err \in RetryErrors /\ r \in Retriable
                       /\ bterm = "no" /\ Tries(w, r) <= MaxRetries
CountTry(w, r) == [w EXCEPT !.rq[r].tries = Tries(w, r)]

(* rd_kafka_broker_buf_retry() in the broker thread.                       *)
BufRetry(w, r) == [w EXCEPT !.rq[r].part = FALSE, !.rq[r].corr = 0,
                            !.b.retry = Append(@, r)]

Ends(w, r) == [w EXCEPT !.ghost.ended[r] = @ + 1]

(* rd_kafka_buf_callback(): to the main thread, or the handler at once. An *)
(* ApiVersion request that fails when the connection is down ends here.    *)
Callback(w, r, err) ==
    IF r = AV THEN [w EXCEPT !.rq[AV] = Fresh]
    ELSE IF r \in Main /\ err # "DESTROY"
    THEN [w EXCEPT !.mainq = Append(@, [r |-> r, err |-> err])]
    ELSE IF MayRetry(w, r, err) THEN BufRetry(CountTry(w, r), r)
    ELSE Ends(w, r)

(* One after the other. *)
CallAll(w, rs, err) ==
    LET v[n \in 0..Len(rs)] == IF n = 0 THEN w
                               ELSE Callback(v[n - 1], rs[n], err)
    IN  v[Len(rs)]

-----------------------------------------------------------------------------
(* rd_kafka_broker_fail(): what was sent fails with err, what was not with *)
(* a timeout in the queue if err is a timeout. What is to be retried stays.*)

Fail(w, err) ==
    LET v == [w EXCEPT !.b.trans = FALSE, !.b.st = "DOWN", !.b.out = <<>>,
                       !.b.apiv = @ /\ w.b.st # "APIVERSION_QUERY",
                       !.b.wait = <<>>, !.b.blk = 0, !.net = <<>>,
                       !.ghost.wire = None]
        later == IF err = "TIMED_OUT" THEN "TIMED_OUT_QUEUE" ELSE err
    IN  CallAll(CallAll(v, w.b.wait, err), w.b.out, later)

-----------------------------------------------------------------------------
(* Setting up the connection.                                              *)

Alive == ghost.thread = "runs"
Fault == faults < b.cf.faults /\ faults' = faults + 1
Thread(w) == Alive /\ Becomes(w) /\ UNCHANGED <<ops, bterm>>

(* Mutant: requests that wait do not count. *)
NeedsConnectionIdle == b.st = "INIT" /\ bterm = "no" /\ (~Sparse \/ b.coord)

(* rd_kafka_broker_needs_connection().                                     *)
NeedsConnection == /\ b.st = "INIT" /\ bterm = "no"
                   /\ ~Sparse \/ b.out # <<>> \/ b.coord

(* rd_kafka_broker_thread_main(): steps that need nothing from outside.    *)
Redo ==
    /\ \/ /\ NeedsConnection /\ Thread(SetState(W, "TRY_CONNECT"))
       \/ /\ b.st = "DOWN"
          /\ Thread(SetState(W, IF Sparse THEN "INIT" ELSE "TRY_CONNECT"))
       \/ /\ b.st = "UPDATE" /\ Thread(SetState(W, "UP"))
    /\ UNCHANGED faults

Connect ==
    /\ b.st = "TRY_CONNECT"
    /\ LET w == SetState([W EXCEPT !.b.epoch = b.nodename], "CONNECT")
       IN  \/ /\ Thread(Require([w EXCEPT !.b.trans = TRUE], ~b.trans))
              /\ UNCHANGED faults
           \/ Fault /\ Thread(Fail(w, "TRANSPORT"))

(* rd_kafka_broker_connect_done(): ask for the versions, one request in    *)
(* flight; or take those of the configuration.                             *)
ConnectDone(w, query) ==
    LET v == [w EXCEPT !.b.conn = @ + 1, !.b.infl = 1, !.ghost.av = FALSE]
    IN  IF query
        THEN BufEnq([SetState(v, "APIVERSION_QUERY") EXCEPT
                       !.rq[AV] = [Fresh EXCEPT !.ver = 3]], AV)
        ELSE [SetState(v, "UP") EXCEPT !.b.infl = MaxInflight,
                                       !.ghost.av = TRUE]

(* The feature is enabled again after a while.                             *)
Connected ==
    /\ b.st = "CONNECT"
    /\ \/ /\ \E q \in {b.apiv, TRUE} :
                Thread(ConnectDone([W EXCEPT !.b.apiv = q], q))
          /\ UNCHANGED faults
       \/ Fault /\ Thread(Fail(W, "TRANSPORT"))

SetupTimeout == /\ b.st \in {"CONNECT", "APIVERSION_QUERY"} /\ Fault
                /\ Thread(Fail(W, "TRANSPORT"))

-----------------------------------------------------------------------------
(* Sending and receiving.                                                  *)

MaySend == IsUp(b.st) /\ Len(b.wait) < b.infl /\ b.out # <<>>

(* A new correlation id on a new connection.                               *)
Numbered(w, r) ==
    IF w.rq[r].corr = 0 \/ w.rq[r].conn # w.b.conn
    THEN Require([w EXCEPT !.rq[r].corr = w.b.corr + 1, !.b.corr = @ + 1,
                          !.rq[r].conn = w.b.conn], ~w.rq[r].part)
    ELSE w

(* Bytes of r follow what was written last on this connection.             *)
OnWire(w, r) == [w EXCEPT !.ghost.mixed = @ \/ w.ghost.wire \notin {r, None}]

Sent(w, r) ==
    [w EXCEPT !.rq[r] = [w.rq[r] EXCEPT !.sent = TRUE, !.part = FALSE],
              !.b = [w.b EXCEPT !.out = Tail(@), !.wait = Append(@, r),
                                !.blk = IF r \in Blocking THEN @ + 1 ELSE @],
              !.net = Append(w.net, [r |-> r, corr |-> w.rq[r].corr]),
              !.ghost = [OnWire(w, r).ghost EXCEPT
                           !.wire = None, !.got[r] = @ + 1,
                           !.early = @ \/ (r # AV /\ ~w.ghost.av)]]

(* rd_kafka_send(): all of the first request, a part of it, or none.       *)
Send ==
    /\ MaySend
    /\ LET r == Head(b.out)
           w == Require(Numbered(W, r), b.trans)
       IN  IF r \in b.cf.unsupported
           THEN /\ Thread(Callback([W EXCEPT !.b.out = Tail(@)], r,
                                   "UNSUPPORTED_FEATURE"))
                /\ UNCHANGED faults
           ELSE \/ Thread(Sent(w, r)) /\ UNCHANGED faults
                \/ /\ ~rq[r].part /\ Fault
                   /\ Thread([OnWire(w, r) EXCEPT !.rq[r].part = TRUE,
                                                  !.ghost.wire = r])
                \/ Fault /\ Thread(Fail(w, "TRANSPORT"))

(* rd_kafka_broker_handle_ApiVersion(): up, or another version, or down.   *)
HandleApiVersion(w, err) ==
    IF err = "OK"
    THEN [SetState(w, "UP") EXCEPT !.b.infl = MaxInflight, !.ghost.av = TRUE,
                                   !.rq[AV] = Fresh]
    ELSE IF err = "UNSUPPORTED_VERSION" /\ w.rq[AV].ver > 0
    THEN BufEnq([w EXCEPT !.rq[AV] = Fresh], AV)
    ELSE Fail([w EXCEPT !.rq[AV] = Fresh], "TRANSPORT")

(* The requests of a queue that are in S, in order, and the others.        *)
Those(q, S) ==
    LET f[n \in 0..Len(q)] == IF n = 0 THEN <<>>
                              ELSE IF q[n] \in S THEN Append(f[n - 1], q[n])
                              ELSE f[n - 1]
    IN  f[Len(q)]
Drop(q, S) == Those(q, ToSet(q) \ S)

(* rd_kafka_recv(), rd_kafka_req_response(): the request with that id, or  *)
(* the response is dropped.                                                *)
Recv ==
    /\ b.trans /\ IsUp(b.st) /\ net # <<>>
    /\ LET m == Head(net)
           hits == {i \in 1..Len(b.wait) : rq[b.wait[i]].corr = m.corr}
           w == [W EXCEPT !.net = Tail(@)]
       IN  IF hits = {} THEN Thread(w) /\ UNCHANGED faults
           ELSE LET r == b.wait[Min(hits)]
                    v == [w EXCEPT !.b.wait = Drop(@, {r}),
                                   !.b.blk = IF r \in Blocking THEN @ - 1
                                             ELSE @,
                                   !.ghost.bad = @ \/ r # m.r]
                IN  \/ /\ r = AV /\ UNCHANGED faults
                       /\ Thread(HandleApiVersion(v, "OK"))
                    \/ /\ r = AV /\ Fault
                       /\ \E e \in {"UNSUPPORTED_VERSION", "OTHER"} :
                            Thread(HandleApiVersion(v, e))
                    \/ /\ r # AV /\ UNCHANGED faults
                       /\ Thread(Callback(v, r, "OK"))

(* The peer closes, or the connection has been idle for too long.          *)
Disconnect == b.trans /\ Fault /\ Thread(Fail(W, "TRANSPORT"))

(* Mutant: what has expired in the retry queue stays there. *)
ScanTwice(w, S) ==
    LET inflight == Those(w.b.wait, S)
        queued == Those(w.b.out, S)
        partial == \E r \in S : w.rq[r].part
        v == [w EXCEPT !.b.wait = Drop(@, S),
                       !.b.out = Drop(@, S),
                       !.b.blk = @ - Cardinality(ToSet(inflight) \cap Blocking)]
        u == CallAll(CallAll(CallAll(v, inflight, "TIMED_OUT"),
                             Those(w.b.retry, S), "TIMED_OUT_QUEUE"),
                     queued, "TIMED_OUT_QUEUE")
        counts == w.b.cf.fails > 0 /\ inflight \o queued # <<>> /\ IsUp(w.b.st)
    IN  IF AV \in S THEN Fail(u, "TRANSPORT")
        ELSE IF partial \/ counts THEN Fail(u, "TIMED_OUT")
        ELSE u

Scan(w, S) ==
    LET inflight == Those(w.b.wait, S)
        queued == Those(w.b.out, S)
        partial == \E r \in S : w.rq[r].part
        v == [w EXCEPT !.b.wait = Drop(@, S), !.b.retry = Drop(@, S),
                       !.b.out = Drop(@, S),
                       !.b.blk = @ - Cardinality(ToSet(inflight) \cap Blocking)]
        u == CallAll(CallAll(CallAll(v, inflight, "TIMED_OUT"),
                             Those(w.b.retry, S), "TIMED_OUT_QUEUE"),
                     queued, "TIMED_OUT_QUEUE")
        counts == w.b.cf.fails > 0 /\ inflight \o queued # <<>> /\ IsUp(w.b.st)
    IN  IF AV \in S THEN Fail(u, "TRANSPORT")
        ELSE IF partial \/ counts THEN Fail(u, "TIMED_OUT")
        ELSE u

TimeoutScan ==
    \E S \in SUBSET (ToSet(b.wait) \cup ToSet(b.retry) \cup ToSet(b.out)) :
        S # {} /\ Fault /\ Thread(Scan(W, S))

(* rd_kafka_broker_retry_bufs_move(): after the backoff.                   *)
RetryMove ==
    /\ b.retry # <<>> /\ UNCHANGED faults
    /\ Thread(BufEnq([W EXCEPT !.b.retry = Tail(@)], Head(b.retry)))

-----------------------------------------------------------------------------
(* rd_kafka_broker_op_serve().                                             *)

OpServe ==
    /\ Alive /\ ops # <<>> /\ ops' = Tail(ops) /\ UNCHANGED <<bterm, faults>>
    /\ LET o == Head(ops)
       IN  \/ o.op = "XMIT_BUF" /\ Becomes(BufEnq(W, o.r))
           \/ o.op = "XMIT_RETRY" /\ Becomes(BufRetry(W, o.r))
           \/ /\ o.op = "CONNECT"
              /\ Becomes(IF b.st = "INIT" THEN SetState(W, "TRY_CONNECT")
                         ELSE IF b.st # "DOWN" /\ b.epoch # b.nodename
                         THEN Fail(W, "TRANSPORT") ELSE W)
           \/ /\ o.op = "NODE_NAME"
              /\ Becomes(Fail([W EXCEPT !.b.nodename = @ + 1], "TRANSPORT"))
           \/ /\ o.op = "NODE_ID"
              /\ Becomes(IF b.st = "UP" THEN SetState(W, "UPDATE") ELSE W)
           \/ o.op = "TERMINATE" /\ Becomes(Fail(W, "DESTROY"))

(* When the client terminates, what is not sent ends after each round.     *)
TermPurge ==
    /\ bterm # "no" /\ b.out \o b.retry # <<>> /\ UNCHANGED faults
    /\ Thread(CallAll([W EXCEPT !.b.out = <<>>, !.b.retry = <<>>],
                      b.out \o b.retry, "DESTROY"))

(* References to the broker: its thread, the client until TERMINATE, and   *)
(* every request.                                                          *)
Carriers == {i \in 1..Len(ops) : ops[i].op \in {"XMIT_BUF", "XMIT_RETRY"}}
Refs == 1 + (IF bterm = "op" THEN 0 ELSE 1)
        + Len(b.out) + Len(b.wait) + Len(b.retry) + Len(mainq)
        + Cardinality(Carriers)

ThreadEnds ==
    /\ Alive /\ Refs <= 1 /\ UNCHANGED <<rq, mainq, net, bterm, faults>>
    /\ ops' = <<>> /\ b' = [b EXCEPT !.st = "DOWN", !.trans = FALSE]
    /\ ghost' = [ghost EXCEPT !.thread = "ended",
                              !.bad = @ \/ b.out \o b.wait \o b.retry # <<>>]

-----------------------------------------------------------------------------
(* Other threads, and requests the broker thread makes.                    *)

Issue(r) ==
    /\ r \notin ghost.issued /\ bterm = "no" /\ Alive
    /\ IF r \in Main
       THEN /\ ops' = Append(ops, [op |-> "XMIT_BUF", r |-> r])
            /\ ghost' = [ghost EXCEPT !.issued = @ \cup {r}]
            /\ UNCHANGED <<b, rq, mainq, net>>
       ELSE /\ Becomes(BufEnq([W EXCEPT !.ghost.issued = @ \cup {r}], r))
            /\ UNCHANGED ops
    /\ UNCHANGED <<bterm, faults>>

(* rd_kafka_buf_handle_op(): a handler on the main thread.                 *)
MainServe ==
    /\ mainq # <<>>
    /\ LET m == Head(mainq)
           w == [W EXCEPT !.mainq = Tail(@)]
       IN  IF MayRetry(W, m.r, m.err)
           THEN /\ Becomes(CountTry(w, m.r))
                /\ ops' = Append(ops, [op |-> "XMIT_RETRY", r |-> m.r])
           ELSE Becomes(Ends(w, m.r)) /\ UNCHANGED ops
    /\ UNCHANGED <<bterm, faults>>

(* rd_kafka_broker_persistent_connection_add() and _del(): a coordinator.  *)
PersistAdd ==
    /\ ~b.coord /\ bterm = "no" /\ Fault
    /\ b' = [b EXCEPT !.coord = TRUE]
    /\ ops' = <<[op |-> "CONNECT"]>> \o ops
    /\ UNCHANGED <<rq, mainq, net, bterm, ghost>>
PersistDel ==
    /\ b.coord /\ b' = [b EXCEPT !.coord = FALSE] /\ Fault
    /\ UNCHANGED <<rq, ops, mainq, net, bterm, ghost>>

(* rd_kafka_broker_update(): metadata with another address or id.          *)
Update(kind) ==
    /\ bterm = "no" /\ Fault
    /\ ops' = Append(ops, [op |-> kind])
    /\ UNCHANGED <<b, rq, mainq, net, bterm, ghost>>

Destroying ==
    /\ \/ bterm = "no" /\ bterm' = "flag" /\ UNCHANGED ops
       \/ /\ bterm = "flag" /\ bterm' = "op"
          /\ ops' = Append(ops, [op |-> "TERMINATE"])
    /\ UNCHANGED <<b, rq, mainq, net, ghost, faults>>

(* There is something to do for the broker thread, the main thread or a    *)
(* destroy() that has begun.                                               *)
Busy ==
    \/ /\ Alive
       /\ \/ b.st \in {"DOWN", "UPDATE", "TRY_CONNECT", "CONNECT"}
          \/ NeedsConnection \/ MaySend \/ Refs <= 1
          \/ b.retry # <<>> \/ ops # <<>> \/ (bterm # "no" /\ b.out # <<>>)
          \/ b.trans /\ IsUp(b.st) /\ net # <<>>
    \/ mainq # <<>> \/ bterm = "flag"

(* The threads sleep, or have ended.                                       *)
Over == ~Busy /\ UNCHANGED bvars

-----------------------------------------------------------------------------
ConnInit ==
    /\ \E c \in Configs :
         b = [cf |-> c, st |-> "INIT", trans |-> FALSE, out |-> <<>>, wait |-> <<>>,
            retry |-> <<>>, conn |-> 0, corr |-> 0, infl |-> 1, blk |-> 0,
            apiv |-> TRUE, coord |-> FALSE, nodename |-> 1, epoch |-> 0]
    /\ rq = [r \in All |-> Fresh]
    /\ ops = <<>> /\ mainq = <<>> /\ net = <<>> /\ bterm = "no" /\ faults = 0
    /\ ghost = [ended |-> [r \in Reqs |-> 0], got |-> [r \in All |-> 0],
                issued |-> {}, wire |-> None, mixed |-> FALSE,
                av |-> FALSE, early |-> FALSE, bad |-> FALSE,
                thread |-> "runs"]

ConnNext ==
    \/ Redo \/ Connect \/ Connected \/ SetupTimeout
    \/ Send \/ Recv \/ Disconnect \/ TimeoutScan \/ RetryMove
    \/ OpServe \/ TermPurge \/ ThreadEnds
    \/ (\E r \in Reqs : Issue(r)) \/ MainServe
    \/ PersistAdd \/ PersistDel \/ Update("NODE_NAME") \/ Update("NODE_ID")
    \/ Destroying \/ Over
ConnSpec == ConnInit /\ [][ConnNext]_bvars

(* The thread serves its queues and the connection, the main thread serves *)
(* its queue, destroying the client goes on once begun: while there is     *)
(* something to do something is done. What may fail does not have to.      *)
Step ==
    \/ Redo \/ Connect \/ Connected \/ Send \/ Recv \/ RetryMove
    \/ OpServe \/ TermPurge \/ ThreadEnds \/ MainServe
    \/ bterm = "flag" /\ Destroying

(* WF_bvars(Step): Busy is ENABLED Step.                                      *)
ConnFairness == []<>~Busy \/ []<><<Step>>_bvars

ConnLive == ConnSpec /\ ConnFairness

ConnTypeOK ==
    /\ b.st \in {"INIT", "DOWN", "TRY_CONNECT", "CONNECT",
                 "APIVERSION_QUERY", "UP", "UPDATE"}
    /\ \A r \in All : rq[r].tries \in 0..MaxRetries
    /\ bterm \in {"no", "flag", "op"} /\ faults \in 0..b.cf.faults

(* The assertions of the code hold: a request that was begun on another    *)
(* connection starts over (broker.c:2461), there is no transport when one  *)
(* is made (2060), a thread that ends leaves no request (5281-5283); a     *)
(* response meets the request it answers; the count of blocking requests   *)
(* is that of the ones in flight (2532, 831, 1732).                        *)
AssertsHold ==
    /\ ~ghost.bad
    /\ b.blk = Cardinality({i \in 1..Len(b.wait) : b.wait[i] \in Blocking})

(* A request is never lost nor in two places: it waits in one queue, once, *)
(* or its handler has ended, once. No timeout, disconnect, retry or        *)
(* termination, in any order, breaks that.                                 *)
Times(q, r) == Cardinality({i \in 1..Len(q) : q[i] = r})
Places(r) ==
    Times(b.out, r) + Times(b.wait, r) + Times(b.retry, r)
    + Cardinality({i \in Carriers : ops[i].r = r})
    + Cardinality({i \in 1..Len(mainq) : mainq[i].r = r}) + ghost.ended[r]
OnePlace == \A r \in Reqs : Places(r) = IF r \in ghost.issued THEN 1 ELSE 0

(* What is written on a connection is whole requests, one after the other: *)
(* a request written in part stays first until the rest has gone or the    *)
(* connection is closed, whatever is queued, expires or is retried. (When  *)
(* the client terminates it is dropped, broker.c:5211.)                    *)
FramesWhole == bterm = "no" => ~ghost.mixed

(* No request goes out on a connection before the broker has said which    *)
(* versions it supports (unless the question was dropped by a termination).*)
VersionsFirst == bterm = "no" => ~ghost.early

(* A request reaches the broker once, and once more for each retry allowed *)
(* it: a retry that was never sent is not counted.                         *)
BoundedSends == \A r \in Reqs : ghost.got[r] <= 1 + MaxRetries

(* Every request is answered, in the end, with a response or an error.     *)
Answered == \A r \in Reqs : r \in ghost.issued ~> ghost.ended[r] = 1

(* Once told to terminate the thread ends.                                 *)
Terminates == (bterm = "op") ~> ~Alive

(* No request is lost, handled twice or sent more often than it may be     *)
(* (rd_kafka_broker_fail(), rd_kafka_broker_bufq_timeout_scan()).          *)
RequestsKept == AssertsHold /\ OnePlace /\ BoundedSends

(* What the broker reads from a connection makes sense to it: whole        *)
(* requests, of versions it knows (rd_kafka_send()).                       *)
StreamSound == FramesWhole /\ VersionsFirst

(* Requests are answered and the thread ends (rd_kafka_broker_serve()).    *)
RequestsEnd == Answered /\ Terminates
=============================================================================
