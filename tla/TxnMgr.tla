------------------------------- MODULE TxnMgr -------------------------------
(***************************************************************************)
(* The transaction manager of a transactional producer                     *)
(* (hs_rdkafka_txnmgr.c) with the part of hs_rdkafka_idempotence.c it      *)
(* drives: one application thread that calls the transactional API, the    *)
(* main thread that serves its operations, timers and the responses of     *)
(* the transaction coordinator, the broker thread that sends messages, and *)
(* - external - the coordinator, the leaders and the group coordinator.    *)
(*                                                                         *)
(* One message per partition and transaction; a message is known by its    *)
(* transaction and its partition.  Offsets sent to the transaction are the *)
(* message of the pseudo partition "off".                                  *)
(***************************************************************************)
EXTENDS Naturals, Sequences, FiniteSets

CONSTANTS
    Parts,       \* the partitions the application produces to
    MaxTxn,      \* the number of transactions begun
    Faults,      \* what may go wrong (see FaultKinds)
    MaxFaults,   \* and how often altogether
    MaxReqs,     \* bound on txn_req_cnt at which offsets are no longer sent
    Started,     \* start after init_transactions() has succeeded
    ApiTimeouts  \* the API calls whose timer (txn_curr_api.tmr) may fire

FaultKinds == {"disconnect", "qtimeout", "notcoord", "retriable", "perm",
               "fence", "lostack", "rejected", "unknownpid", "msgtimeout",
               "flush", "findcoord"}
Calls == {"init", "begin", "offsets", "commit", "abort"}

ASSUME TxnAssumption == /\ MaxTxn \in Nat /\ MaxFaults \in Nat /\ MaxReqs \in Nat
                        /\ Faults \subseteq FaultKinds
                        /\ ApiTimeouts \subseteq Calls /\ Started \in BOOLEAN
                        /\ "off" \notin Parts

VARIABLES
    tx,     \* rk_eos: state, error, counters, partition lists
    cc,     \* the coordinator connection and the timers around it
    conn,   \* requests on that connection, oldest first, with their outcome
    api,    \* the API call of the application thread and its reply
    msg,    \* the message of each partition in the current transaction
    pid,    \* the broker thread's copy of the producer epoch, 0: do not send
    offs,   \* the TxnOffsetCommit on its way to the group coordinator
    co,     \* the coordinator and the logs
    told,   \* what each transaction's API calls returned
    acc,    \* messages and offsets the API accepted, <<transaction, partition>>
    txn,    \* number of the current transaction
    faults

vars == <<tx, cc, conn, api, msg, pid, offs, co, told, acc, txn, faults>>

Fault(k) == k \in Faults /\ faults < MaxFaults /\ faults' = faults + 1
NoFault == UNCHANGED faults

-----------------------------------------------------------------------------
(* The transaction state machine: rd_kafka_txn_set_state() and the errors. *)

ValidTransition(cur, new) ==
    CASE new = "INIT" -> FALSE
      [] new = "WAIT_PID" -> cur = "INIT"
      [] new = "READY_NOT_ACKED" -> cur = "WAIT_PID"
      [] new = "READY" ->
            cur \in {"READY_NOT_ACKED", "COMMIT_NOT_ACKED", "ABORT_NOT_ACKED"}
      [] new = "IN_TXN" -> cur = "READY"
      [] new = "BEGIN_COMMIT" -> cur = "IN_TXN"
      [] new = "COMMITTING" -> cur = "BEGIN_COMMIT"
      [] new = "COMMIT_NOT_ACKED" -> cur \in {"BEGIN_COMMIT", "COMMITTING"}
      [] new = "ABORTING" -> cur \in {"IN_TXN", "ABORTABLE"}
      [] new = "ABORT_NOT_ACKED" -> cur = "ABORTING"
      [] new = "ABORTABLE" -> cur \in {"IN_TXN", "BEGIN_COMMIT", "COMMITTING"}
      [] new = "FATAL" -> TRUE

\* An abortable error is ignored while aborting and after a fatal one.
Ignored(cur, new) == new = "ABORTABLE" /\ cur \in {"ABORTING", "FATAL"}

\* An invalid transition fails an assertion: ok remembers it.
SetState(x, s) ==
    IF x.state = s \/ Ignored(x.state, s) THEN x
    ELSE IF ValidTransition(x.state, s) THEN [x EXCEPT !.state = s]
    ELSE [x EXCEPT !.ok = FALSE]

Assert(x, p) == [x EXCEPT !.ok = @ /\ p]

\* txn_may_enq: set on entering IN_TRANSACTION, cleared on leaving it.
MayEnq(x) == x.state = "IN_TXN" /\ ~x.fatal

\* A reply to a queue whose call has returned is dropped.
Reply(x, live, r) == IF live /\ x.reply = "" THEN [x EXCEPT !.reply = r] ELSE x

\* txn_init_rkq, when some call waits on it.
ReplyInit(x, r) == [Reply(x, x.initq, r) EXCEPT !.initq = FALSE]

SetFatal(x) == SetState(ReplyInit([x EXCEPT !.fatal = TRUE, !.err = TRUE],
                                  "fatal"), "FATAL")

\* The purge of the queued messages is an op for the broker thread.
SetAbortable(x, bump) ==
    IF x.fatal THEN x
    ELSE LET y == [x EXCEPT !.bump = @ \/ bump]
         IN  IF y.err THEN y
             ELSE [SetState([y EXCEPT !.err = TRUE], "ABORTABLE")
                     EXCEPT !.purge = TRUE]

-----------------------------------------------------------------------------
(* The producer id: rd_kafka_idemp_set_state() and the drain.              *)

IdempSet(x, s) ==
    LET t == IF x.fatal /\ s \notin {"FATAL", "DRAIN_BUMP", "DRAIN_RESET"}
             THEN "FATAL" ELSE s
        y == [x EXCEPT !.idemp = t]
    IN  IF x.idemp = t THEN x
        ELSE IF t = "ASSIGNED" /\ x.state = "WAIT_PID"
             THEN ReplyInit(SetState(y, "READY_NOT_ACKED"), "ok")
        ELSE IF t = "ASSIGNED" /\ x.state = "ABORTING"
             THEN ReplyInit(SetState(y, "ABORT_NOT_ACKED"), "ok")
        ELSE IF t = "FATAL" /\ x.state # "FATAL"
             THEN ReplyInit(SetState(y, "FATAL"), "fatal")
        ELSE y

InFlight(m) == \E p \in Parts : m[p].st \in {"sent", "stored", "fenced"}

\* No request in flight: ask for a new producer id or epoch.
DrainDone(x, m) ==
    IF x.idemp \in {"DRAIN_RESET", "DRAIN_BUMP"} /\ ~InFlight(m)
    THEN [IdempSet(x, "REQ_PID") EXCEPT !.pidTmr = TRUE]
    ELSE x

DrainBump(x, m) ==
    DrainDone(SetAbortable(IdempSet(x, "DRAIN_BUMP"), TRUE), m)

DrainReset(x, m) == DrainDone(IdempSet(x, "DRAIN_RESET"), m)

ValidPid(x) == IF x.idemp = "ASSIGNED" THEN x.epoch ELSE 0

-----------------------------------------------------------------------------
(* The coordinator connection.                                             *)

Request(k, arg) == [kind |-> k, arg |-> arg, epoch |-> tx.epoch,
                    live |-> TRUE, res |-> "", got |-> 0]

\* rd_kafka_txn_coord_set(NULL): the timer asks for the coordinator again.
CoordReset(c) == [c EXCEPT !.known = FALSE, !.tmr = TRUE]

\* rd_kafka_txn_coord_query(): one FindCoordinator at a time.
CoordQuery(c) == [c EXCEPT !.wait = TRUE]

\* rd_kafka_idemp_pid_fsm(), run with the connection c: the next tx, cc, conn.
PidFsm(x, c) ==
    \/ /\ x.fatal \/ x.idemp \notin {"REQ_PID", "WAIT_TRANSPORT"}
       /\ tx' = x /\ cc' = c /\ UNCHANGED conn
    \/ /\ ~x.fatal /\ x.idemp = "REQ_PID" /\ ~c.known
       /\ tx' = x /\ cc' = CoordQuery(c) /\ UNCHANGED conn
    \/ /\ ~x.fatal /\ x.idemp = "WAIT_TRANSPORT" /\ ~c.known
       /\ tx' = Assert(x, FALSE) /\ cc' = c /\ UNCHANGED conn
    \/ /\ ~x.fatal /\ x.idemp \in {"REQ_PID", "WAIT_TRANSPORT"} /\ c.known
       /\ cc' = c
       /\ IF c.up
          THEN /\ tx' = [x EXCEPT !.idemp = "WAIT_PID"]
               /\ conn' = Append(conn, Request("InitPid", {}))
          ELSE /\ tx' = [x EXCEPT !.idemp = "WAIT_TRANSPORT", !.pidTmr = TRUE]
               /\ UNCHANGED conn

PidTimer ==
    /\ tx.pidTmr
    /\ PidFsm([tx EXCEPT !.pidTmr = FALSE], cc)
    /\ NoFault /\ UNCHANGED <<api, msg, pid, offs, co, told, acc, txn>>

CoordTimer ==
    /\ cc.tmr
    /\ cc' = CoordQuery([cc EXCEPT !.tmr = FALSE])
    /\ NoFault /\ UNCHANGED <<tx, conn, api, msg, pid, offs, co, told, acc, txn>>

\* The answer names the coordinator, or none can be found.
HandleFindCoordinator ==
    /\ cc.wait
    /\ \/ /\ IF cc.known
             THEN /\ cc' = [cc EXCEPT !.wait = FALSE] /\ UNCHANGED <<tx, conn>>
             ELSE PidFsm(tx, [cc EXCEPT !.wait = FALSE, !.known = TRUE])
          /\ NoFault
       \/ /\ Fault("findcoord")
          /\ cc' = CoordReset([cc EXCEPT !.wait = FALSE])
          /\ UNCHANGED <<tx, conn>>
    /\ UNCHANGED <<api, msg, pid, offs, co, told, acc, txn>>

\* The connection comes up or goes down: outstanding requests fail, in order,
\* from the first whose response has not been read.
ConnUp ==
    /\ cc.known /\ ~cc.up
    /\ cc' = [cc EXCEPT !.up = TRUE, !.mon = TRUE]
    /\ NoFault /\ UNCHANGED <<tx, conn, api, msg, pid, offs, co, told, acc, txn>>

ConnDown ==
    /\ cc.up
    /\ IF cc.known THEN Fault("disconnect") ELSE NoFault
    /\ cc' = [cc EXCEPT !.up = FALSE, !.mon = TRUE]
    /\ \E k \in 0..Len(conn) :
          /\ \A i \in 1..k : conn[i].res # ""
          /\ conn' = [i \in DOMAIN conn |->
                        IF i <= k THEN conn[i]
                        ELSE [conn[i] EXCEPT !.res = "transport"]]
    /\ UNCHANGED <<tx, api, msg, pid, offs, co, told, acc, txn>>

\* Requests that wait for a connection too long are failed unsent.
QueueTimeout ==
    /\ ~cc.up /\ \E i \in DOMAIN conn : conn[i].res = ""
    /\ Fault("qtimeout")
    /\ conn' = [i \in DOMAIN conn |-> IF conn[i].res = ""
                                      THEN [conn[i] EXCEPT !.res = "qtimeout"]
                                      ELSE conn[i]]
    /\ UNCHANGED <<tx, cc, api, msg, pid, offs, co, told, acc, txn>>

CoordMonitorForgets ==
    /\ cc.mon
    /\ LET c == [cc EXCEPT !.mon = FALSE]
       IN  IF ~cc.up
           THEN cc' = [c EXCEPT !.tmr = TRUE] /\ UNCHANGED <<tx, conn>>
           ELSE PidFsm(tx, c)
    /\ NoFault /\ UNCHANGED <<api, msg, pid, offs, co, told, acc, txn>>

\* rd_kafka_txn_coord_monitor_cb() on the main thread.
CoordMonitor ==
    /\ cc.mon
    /\ LET c == [cc EXCEPT !.mon = FALSE]
       IN  IF ~cc.up
           THEN cc' = [c EXCEPT !.tmr = TRUE] /\ UNCHANGED <<tx, conn>>
           ELSE IF tx.idemp \in {"REQ_PID", "WAIT_TRANSPORT", "WAIT_PID"}
           THEN PidFsm(tx, c)
           ELSE /\ tx' = [tx EXCEPT !.regTmr = @ \/ tx.idemp = "ASSIGNED"]
                /\ cc' = c /\ UNCHANGED conn
    /\ NoFault /\ UNCHANGED <<api, msg, pid, offs, co, told, acc, txn>>

-----------------------------------------------------------------------------
(* The coordinator (external): requests of an older epoch are fenced.      *)

Decide(c, commit) ==
    LET mine == {m \in c.open : m[2] \in c.parts}
    IN  [c EXCEPT !.open = @ \ mine, !.parts = {},
                  !.last = IF commit THEN "commit" ELSE "abort",
                  !.committed = IF commit THEN @ \cup mine ELSE @,
                  !.aborted = IF commit THEN @ ELSE @ \cup mine]

Executed(r) ==
    CASE r.kind = "AddParts" -> [co EXCEPT !.parts = @ \cup r.arg]
      [] r.kind = "AddOffs" -> [co EXCEPT !.parts = @ \cup {"off"}]
      [] r.kind = "EndTxn" -> IF co.parts = {} THEN co
                              ELSE Decide(co, r.arg = {"commit"})
      [] r.kind = "InitPid" ->
            IF co.epoch = r.epoch \/ r.epoch = 0
            THEN [(IF co.parts = {} THEN co ELSE Decide(co, FALSE))
                    EXCEPT !.epoch = @ + 1, !.prev = co.epoch, !.last = "none"]
            ELSE co

\* A bump that was executed already is answered again.
Fenced(r) == /\ r.epoch < co.epoch
             /\ ~(r.kind = "InitPid" /\ (r.epoch = 0 \/ r.epoch = co.prev))

BadState(r) == /\ r.kind = "EndTxn" /\ co.parts = {}
               /\ r.arg # {co.last}

Coordinator ==
    /\ cc.up
    /\ \E i \in DOMAIN conn :
          LET r == conn[i]
              Answer(a) == conn' = [conn EXCEPT ![i].res = a,
                                                ![i].got = co'.epoch]
          IN  /\ r.res = "" /\ \A j \in 1..(i - 1) : conn[j].res # ""
              /\ \/ /\ Fenced(r) /\ UNCHANGED co
                    /\ Answer("fatal") /\ NoFault
                 \/ /\ ~Fenced(r) /\ BadState(r) /\ UNCHANGED co
                    /\ Answer("fatal") /\ NoFault
                 \/ /\ ~Fenced(r) /\ ~BadState(r) /\ co' = Executed(r)
                    /\ Answer("ok") /\ NoFault
                 \/ /\ ~Fenced(r) /\ Fault("retriable") /\ UNCHANGED co
                    /\ Answer("retriable")
                 \/ /\ ~Fenced(r) /\ Fault("notcoord") /\ UNCHANGED co
                    /\ Answer("notcoord")
                 \/ /\ ~Fenced(r) /\ r.kind \in {"AddParts", "AddOffs"}
                    /\ Fault("perm") /\ UNCHANGED co /\ Answer("perm")
    /\ UNCHANGED <<tx, cc, api, msg, pid, offs, told, acc, txn>>

\* The coordinator times the transaction out, or a newer producer takes over.
Fence ==
    /\ co.epoch > 0 /\ Fault("fence")
    /\ co' = [(IF co.parts = {} THEN co ELSE Decide(co, FALSE))
                EXCEPT !.epoch = @ + 1, !.last = "none", !.prev = 0]
    /\ UNCHANGED <<tx, cc, conn, api, msg, pid, offs, told, acc, txn>>

-----------------------------------------------------------------------------
(* Partitions of the transaction: produce, register, and the response.     *)

\* rd_kafka_produce() on the application thread: enqueue, then
\* rd_kafka_txn_add_partition().
Produce(p) ==
    /\ api.call = "none" /\ MayEnq(tx) /\ msg[p].st = "none"
    /\ msg' = [msg EXCEPT ![p] = [st |-> "queued", ep |-> 0, t |-> txn]]
    /\ tx' = IF p \in tx.pend \cup tx.wait \cup tx.reg THEN tx
             ELSE [tx EXCEPT !.pend = @ \cup {p},
                             !.regTmr = @ \/ tx.pend = {}]
    /\ acc' = acc \cup {<<txn, p>>}
    /\ NoFault /\ UNCHANGED <<cc, conn, api, pid, offs, co, told, txn>>

\* rd_kafka_txn_register_partitions(), on its timer.
RegisterPartitions ==
    /\ tx.regTmr
    /\ LET x == [tx EXCEPT !.regTmr = FALSE]
       IN  IF /\ tx.state \in {"IN_TXN", "BEGIN_COMMIT"} /\ cc.up
              /\ tx.pend # {} /\ tx.wait = {} /\ ValidPid(tx) > 0
           THEN /\ conn' = Append(conn, Request("AddParts", tx.pend))
                /\ tx' = [x EXCEPT !.wait = tx.pend, !.pend = {},
                                   !.reqCnt = @ + 1]
           ELSE tx' = x /\ UNCHANGED conn
    /\ NoFault /\ UNCHANGED <<cc, api, msg, pid, offs, co, told, acc, txn>>

\* What a response asks for: the errors that concern the whole transaction are
\* fatal, those of the topic or group permanent, those of the coordinator and
\* of the connection retried.
Action(res) == CASE res = "ok" -> "none"
                 [] res = "fatal" -> "FATAL"
                 [] res = "perm" -> "PERMANENT"
                 [] OTHER -> "RETRY"

WaitToPending(x) == [x EXCEPT !.pend = @ \cup x.wait, !.wait = {}]

HandleAddPartitionsToTxn(r) ==
    LET current == tx.state \in {"IN_TXN", "BEGIN_COMMIT"}
        lost == r.res \in {"transport", "qtimeout"}
        x == Assert(tx, lost \/ tx.state # "COMMITTING")
    IN  /\ cc' = IF r.res = "notcoord" /\ current THEN CoordReset(cc) ELSE cc
        /\ tx' = IF ~lost /\ ~current
                 THEN [Assert(x, x.reqCnt > 0)
                         EXCEPT !.reqCnt = IF @ > 0 THEN @ - 1 ELSE @]
                 ELSE CASE Action(r.res) = "none" ->
                            LET mine == r.arg \cap x.wait
                            IN  [Assert(x, r.arg \cap x.pend = {})
                                   EXCEPT !.reg = @ \cup mine,
                                          !.pend = @ \cup (x.wait \ mine),
                                          !.wait = {}, !.regTmr = TRUE]
                        [] Action(r.res) = "FATAL" ->
                            SetFatal(WaitToPending(Assert(x, x.reqCnt > 0)))
                        [] Action(r.res) = "PERMANENT" ->
                            SetAbortable(WaitToPending(
                                Assert(x, x.reqCnt > 0)), FALSE)
                        [] OTHER ->
                            [WaitToPending(Assert(x, x.reqCnt > 0))
                                EXCEPT !.regTmr = TRUE]
        /\ conn' = Tail(conn)
        /\ UNCHANGED offs

\* rd_kafka_handle_InitProducerId(): pid_update() and request_pid_failed().
HandleInitProducerId(r) ==
    /\ conn' = Tail(conn)
    /\ tx' = CASE r.res = "ok" ->
                    IF tx.idemp = "WAIT_PID"
                    THEN IdempSet([tx EXCEPT !.epoch = r.got], "ASSIGNED")
                    ELSE tx
               [] r.res = "fatal" -> IdempSet(SetFatal(tx), "FATAL")
               [] OTHER ->
                    [IdempSet(tx, "REQ_PID") EXCEPT !.pidTmr = TRUE]
    /\ cc' = IF r.res = "notcoord" THEN CoordReset(cc) ELSE cc
    /\ UNCHANGED offs

-----------------------------------------------------------------------------
(* Offsets: AddOffsetsToTxn to the coordinator, TxnOffsetCommit to the     *)
(* group's.                                                                *)

HandleAddOffsetsToTxn(r) ==
    LET err == IF ~r.live THEN "outdated" ELSE r.res
        x == IF err = "ok" THEN tx
             ELSE [Assert(tx, tx.reqCnt > 0)
                     EXCEPT !.reqCnt = IF @ > 0 THEN @ - 1 ELSE @]
        retry == r.live /\ Action(err) = "RETRY"
    IN  /\ tx' = CASE err = "ok" -> x
                   [] retry -> [x EXCEPT !.reqCnt =
                                  @ + (IF err = "transport" THEN 2 ELSE 1)]
                   [] err = "fatal" -> Reply(SetFatal(x), r.live, "fatal")
                   [] err = "perm" ->
                        Reply(SetAbortable(x, FALSE), r.live, "abort")
                   [] err = "outdated" -> x
        /\ cc' = IF err \in {"transport", "qtimeout", "notcoord"}
                 THEN [cc EXCEPT !.tmr = TRUE] ELSE cc
        /\ conn' = IF retry
                   THEN Append(Tail(conn), [r EXCEPT !.res = "", !.got = 0])
                   ELSE Tail(conn)
        /\ offs' = IF err = "ok"
                   THEN [st |-> "req", t |-> txn, ep |-> 0, live |-> TRUE]
                   ELSE offs

\* The group coordinator is known: rd_kafka_txn_send_TxnOffsetCommitRequest().
SendTxnOffsetCommit ==
    /\ offs.st = "req"
    /\ IF tx.state = "IN_TXN" /\ ValidPid(tx) > 0
       THEN /\ offs' = [offs EXCEPT !.st = "sent", !.ep = tx.epoch]
            /\ UNCHANGED tx
       ELSE /\ offs' = [offs EXCEPT !.st = "none"]
            /\ tx' = IF offs.live
                     THEN Reply(SetAbortable(tx, FALSE), TRUE, "abort") ELSE tx
    /\ NoFault /\ UNCHANGED <<cc, conn, api, msg, pid, co, told, acc, txn>>

\* The group coordinator (external) stores the offsets, pending the outcome.
GroupCoordinator ==
    /\ offs.st = "sent"
    /\ IF offs.ep < co.epoch
       THEN offs' = [offs EXCEPT !.st = "fenced"] /\ UNCHANGED co
       ELSE /\ offs' = [offs EXCEPT !.st = "stored"]
            /\ co' = [co EXCEPT !.open = @ \cup {<<offs.t, "off">>}]
    /\ NoFault /\ UNCHANGED <<tx, cc, conn, api, msg, pid, told, acc, txn>>

HandleTxnOffsetCommitForgives ==
    /\ \/ /\ offs.st = "stored" /\ NoFault
          /\ tx' = Reply(tx, offs.live, "ok")
       \/ /\ offs.st \in {"sent", "stored"} /\ Fault("lostack")
          /\ tx' = Reply(tx, offs.live, "ok")
    /\ offs' = [offs EXCEPT !.st = "none"]
    /\ UNCHANGED <<cc, conn, api, msg, pid, co, told, acc, txn>>

HandleTxnOffsetCommit ==
    /\ \/ /\ offs.st = "stored" /\ NoFault
          /\ tx' = Reply(tx, offs.live, "ok")
          /\ offs' = [offs EXCEPT !.st = "none"]
       \/ /\ offs.st = "fenced" /\ NoFault
          /\ tx' = IF offs.live THEN Reply(SetFatal(tx), TRUE, "fatal") ELSE tx
          /\ offs' = [offs EXCEPT !.st = "none"]
       \/ /\ offs.st \in {"sent", "stored"} /\ Fault("lostack")
          /\ offs' = [offs EXCEPT !.st = IF offs.live THEN "req" ELSE "none"]
          /\ UNCHANGED tx
    /\ UNCHANGED <<cc, conn, api, msg, pid, co, told, acc, txn>>

-----------------------------------------------------------------------------
(* The broker thread: what it may send, and the results.                   *)

\* Once per round of rd_kafka_broker_producer_serve(): the producer id, if the
\* transaction's state allows sending; stale until the next round.
ProducerServe ==
    /\ pid' = IF tx.state \in {"IN_TXN", "BEGIN_COMMIT"} THEN ValidPid(tx) ELSE 0
    /\ pid' # pid
    /\ NoFault /\ UNCHANGED <<tx, cc, conn, api, msg, offs, co, told, acc, txn>>

SendUnregistered(p) ==
    /\ pid > 0 /\ ~tx.fatal /\ msg[p].st = "queued"
    /\ msg' = [msg EXCEPT ![p].st = "sent", ![p].ep = pid]
    /\ NoFault /\ UNCHANGED <<tx, cc, conn, api, pid, offs, co, told, acc, txn>>

Send(p) ==
    /\ pid > 0 /\ ~tx.fatal /\ p \in tx.reg /\ msg[p].st = "queued"
    /\ msg' = [msg EXCEPT ![p].st = "sent", ![p].ep = pid]
    /\ NoFault /\ UNCHANGED <<tx, cc, conn, api, pid, offs, co, told, acc, txn>>

\* The partition leader (external) knows the epoch from the coordinator.
Leader(p) ==
    /\ msg[p].st = "sent"
    /\ IF msg[p].ep < co.epoch
       THEN msg' = [msg EXCEPT ![p].st = "fenced"] /\ UNCHANGED co
       ELSE /\ msg' = [msg EXCEPT ![p].st = "stored"]
            /\ co' = [co EXCEPT !.open = @ \cup {<<msg[p].t, p>>}]
    /\ NoFault /\ UNCHANGED <<tx, cc, conn, api, pid, offs, told, acc, txn>>

DrFail(x) == [x EXCEPT !.drFails = @ + 1]

HandleProduce(p) ==
    LET Done(s) == msg' = [msg EXCEPT ![p].st = s]
    IN  /\ \/ /\ msg[p].st = "stored" /\ NoFault /\ Done("ok")
              /\ tx' = DrainDone(tx, msg')
           \/ /\ msg[p].st \in {"sent", "stored"} /\ Fault("lostack")
              /\ Done("queued") /\ tx' = DrainDone(tx, msg')
           \/ /\ msg[p].st = "sent" /\ Fault("rejected") /\ Done("failed")
              /\ tx' = DrainDone(DrFail(SetAbortable(tx, FALSE)), msg')
           \/ /\ msg[p].st = "sent" /\ Fault("unknownpid") /\ Done("failed")
              /\ tx' = DrFail(DrainBump(tx, msg'))
           \/ /\ msg[p].st = "fenced" /\ NoFault /\ Done("failed")
              /\ tx' = DrFail(DrainReset(SetFatal(tx), msg'))
        /\ UNCHANGED <<cc, conn, api, pid, offs, co, told, acc, txn>>

\* message.timeout.ms: the bad luck of a message that could be sent, the
\* certain end of one that cannot.
MsgTimeout(p) ==
    /\ msg[p].st = "queued"
    /\ \/ Fault("msgtimeout")
       \/ (tx.fatal \/ tx.state \notin {"IN_TXN", "BEGIN_COMMIT"}) /\ NoFault
    /\ msg' = [msg EXCEPT ![p].st = "failed"]
    /\ tx' = DrFail(IF pid > 0 THEN DrainBump(tx, msg') ELSE tx)
    /\ UNCHANGED <<cc, conn, api, pid, offs, co, told, acc, txn>>

Queued == {p \in Parts : msg[p].st = "queued"}

PurgeMsgs == [p \in Parts |-> IF p \in Queued
                              THEN [msg[p] EXCEPT !.st = "failed"] ELSE msg[p]]
Purged(x) == [x EXCEPT !.purge = FALSE, !.drFails = @ + Cardinality(Queued)]

PurgeOp ==
    /\ tx.purge
    /\ msg' = PurgeMsgs /\ tx' = Purged(tx)
    /\ NoFault /\ UNCHANGED <<cc, conn, api, pid, offs, co, told, acc, txn>>

-----------------------------------------------------------------------------
(* API calls: each is one or more operations for the main thread, with a   *)
(* flush() between them (rd_kafka_txn_curr_api_req()).                     *)

First == [init |-> "init", begin |-> "begin", offsets |-> "offsets",
          commit |-> "cbegin", abort |-> "abegin"]
Next1 == [init |-> "iack", begin |-> "", offsets |-> "", iack |-> "",
          cbegin |-> "cflush", cflush |-> "commit", commit |-> "cack",
          cack |-> "", abegin |-> "aflush", aflush |-> "abort",
          abort |-> "aack", aack |-> ""]
ForReuse == {"init", "cbegin", "commit", "abegin", "abort"}
Reuse    == {"iack", "commit", "cack", "abort", "aack"}

Idle(curr, last) == [call |-> "none", step |-> "", ph |-> "", tmr |-> FALSE,
                     curr |-> curr, last |-> last]

\* Enter a step: refused when another call holds txn_curr_api.
Enter(call, step) ==
    api' = IF step \in {"cflush", "aflush"}
           THEN [api EXCEPT !.step = step, !.ph = "flush"]
           ELSE IF step = "begin"
           THEN [api EXCEPT !.call = call, !.step = step, !.ph = "op"]
           ELSE IF api.curr = "held" \/ (api.curr = "reuse") # (step \in Reuse)
           THEN Idle(api.curr, "conflict")
           ELSE [call |-> call, step |-> step, ph |-> "op", tmr |-> TRUE,
                 curr |-> IF step \in ForReuse THEN "reuse" ELSE "held",
                 last |-> ""]

\* The reply queue of a step is gone once the step has returned.
Orphan ==
    /\ conn' = [i \in DOMAIN conn |-> [conn[i] EXCEPT !.live = FALSE]]
    /\ offs' = [offs EXCEPT !.live = FALSE]

\* A call refused in every state it meets changes nothing and is left out.
Serves == [init |-> {"INIT", "WAIT_PID", "READY_NOT_ACKED"},
           begin |-> {"READY"}, offsets |-> {"IN_TXN"},
           commit |-> {"IN_TXN", "BEGIN_COMMIT", "COMMIT_NOT_ACKED"},
           abort |-> {"IN_TXN", "ABORTING", "ABORTABLE", "ABORT_NOT_ACKED"}]

Call(c) ==
    /\ api.call = "none" /\ tx.state \in Serves[c]
    /\ c = "begin" => txn < MaxTxn
    /\ c = "offsets" => tx.reqCnt < MaxReqs
    /\ Enter(c, First[c])
    /\ NoFault /\ UNCHANGED <<tx, cc, conn, msg, pid, offs, co, told, acc, txn>>

\* The application thread gets its reply: the next step, or back to the caller.
\* curr_api_reset() stops the timer; abort_transaction() purges before flush().
Return ==
    /\ api.call # "none" /\ tx.reply # ""
    /\ Orphan
    /\ LET r == tx.reply
           x == [tx EXCEPT !.reply = "", !.initq = FALSE]
           more == r = "ok" /\ Next1[api.step] # ""
           purge == more /\ api.step = "abegin"
       IN  /\ IF more THEN Enter(api.call, Next1[api.step])
              ELSE api' = Idle(IF api.step = "begin" THEN api.curr ELSE "free", "")
           /\ tx' = IF purge THEN Purged(x) ELSE x
           /\ msg' = IF purge THEN PurgeMsgs ELSE msg
           /\ told' = IF r = "ok" /\ api.step \in {"cack", "aack"}
                      THEN [told EXCEPT ![txn] = api.call] ELSE told
           /\ acc' = IF r = "ok" /\ api.step = "offsets"
                     THEN acc \cup {<<txn, "off">>} ELSE acc
    /\ NoFault /\ UNCHANGED <<cc, pid, co, txn>>

\* flush() returns when every message has its report, or on its timeout.
Flush ==
    /\ api.ph = "flush"
    /\ IF Queued = {} /\ ~InFlight(msg)
       THEN Enter(api.call, Next1[api.step]) /\ NoFault
       ELSE Fault("flush") /\ api' = Idle("free", "")
    /\ UNCHANGED <<tx, cc, conn, msg, pid, offs, co, told, acc, txn>>

\* The timer of the call: commit fails the transaction, the others may retry.
ApiTimeout ==
    /\ api.tmr /\ api.call \in ApiTimeouts
    /\ faults < MaxFaults /\ faults' = faults + 1
    /\ api' = [api EXCEPT !.tmr = FALSE]
    /\ tx' = IF api.call = "commit"
             THEN Reply(SetAbortable(tx, FALSE), TRUE, "abort")
             ELSE Reply(tx, TRUE, IF api.step = "aack" THEN "err" ELSE "retry")
    /\ UNCHANGED <<cc, conn, msg, pid, offs, co, told, acc, txn>>

\* txn_complete(): the transaction is over.
Complete(x) == SetState([x EXCEPT !.pend = {}, !.wait = {}, !.reg = {},
                                  !.bump = FALSE, !.reqCnt = 0], "READY")

Ok(x) == Reply(x, TRUE, "ok")
Refused(x) == Reply(x, TRUE, "err")

\* An operation is served in the states it requires, and refused in others.
Op(step, states) == /\ api.ph = "op" /\ api.step = step
                    /\ api' = [api EXCEPT !.ph = "wait"]
                    /\ (tx.state \notin states => tx' = Refused(tx))
                    /\ NoFault

OpInit ==
    LET states == {"INIT", "WAIT_PID", "READY_NOT_ACKED"} IN
    /\ Op("init", states)
    /\ tx.state \in states =>
          tx' = IF tx.state = "READY_NOT_ACKED" THEN Ok(tx)
                ELSE [IdempSet([SetState(tx, "WAIT_PID") EXCEPT !.initq = TRUE],
                               "REQ_PID") EXCEPT !.pidTmr = TRUE]
    /\ UNCHANGED <<cc, conn, msg, pid, offs, co, told, acc, txn>>

OpInitAck ==
    /\ Op("iack", {"READY_NOT_ACKED"})
    /\ tx.state = "READY_NOT_ACKED" => tx' = Ok(SetState(tx, "READY"))
    /\ UNCHANGED <<cc, conn, msg, pid, offs, co, told, acc, txn>>

OpBegin ==
    /\ Op("begin", {"READY"})
    /\ IF tx.state = "READY"
       THEN /\ tx' = LET x == Assert(tx, tx.reg = {} /\ tx.reqCnt = 0)
                     IN  Ok(SetState([x EXCEPT !.drFails = 0, !.err = FALSE],
                                     "IN_TXN"))
            /\ txn' = txn + 1
            /\ msg' = [p \in Parts |->
                         IF msg[p].st \in {"ok", "failed"}
                         THEN [msg[p] EXCEPT !.st = "none"] ELSE msg[p]]
       ELSE UNCHANGED <<txn, msg>>
    /\ UNCHANGED <<cc, conn, pid, offs, co, told, acc>>

OpSendOffsets ==
    /\ Op("offsets", {"IN_TXN"})
    /\ IF tx.state = "IN_TXN" /\ ValidPid(tx) > 0
       THEN /\ conn' = Append(conn, Request("AddOffs", {}))
            /\ tx' = [tx EXCEPT !.reqCnt = @ + 1]
       ELSE /\ tx.state = "IN_TXN" => tx' = Reply(tx, TRUE, "retry")
            /\ UNCHANGED conn
    /\ UNCHANGED <<cc, msg, pid, offs, co, told, acc, txn>>

OpBeginCommit ==
    LET states == {"IN_TXN", "BEGIN_COMMIT", "COMMIT_NOT_ACKED"} IN
    /\ Op("cbegin", states)
    /\ tx.state \in states =>
          tx' = Ok(IF tx.state = "COMMIT_NOT_ACKED" THEN tx
                   ELSE SetState(tx, "BEGIN_COMMIT"))
    /\ UNCHANGED <<cc, conn, msg, pid, offs, co, told, acc, txn>>

\* Failed deliveries: abort.  No request sent: nothing to commit.
OpCommit ==
    LET states == {"BEGIN_COMMIT", "COMMIT_NOT_ACKED"}
        end == /\ tx.state = "BEGIN_COMMIT" /\ tx.drFails = 0
               /\ tx.reqCnt > 0 /\ ValidPid(tx) > 0
    IN
    /\ Op("commit", states)
    /\ conn' = IF end THEN Append(conn, Request("EndTxn", {"commit"})) ELSE conn
    /\ tx.state \in states =>
          tx' = IF tx.state = "COMMIT_NOT_ACKED" THEN Ok(tx)
                ELSE IF tx.drFails > 0
                     THEN Reply(SetAbortable(tx, FALSE), TRUE, "abort")
                ELSE IF tx.reqCnt = 0 THEN Ok(SetState(tx, "COMMIT_NOT_ACKED"))
                ELSE IF end THEN SetState(tx, "COMMITTING")
                ELSE Reply(tx, TRUE, "retry")
    /\ UNCHANGED <<cc, msg, pid, offs, co, told, acc, txn>>

OpCommitAck ==
    /\ Op("cack", {"COMMIT_NOT_ACKED"})
    /\ tx.state = "COMMIT_NOT_ACKED" => tx' = Ok(Complete(tx))
    /\ UNCHANGED <<cc, conn, msg, pid, offs, co, told, acc, txn>>

OpBeginAbort ==
    LET states == {"IN_TXN", "ABORTING", "ABORTABLE", "ABORT_NOT_ACKED"} IN
    /\ Op("abegin", states)
    /\ tx.state \in states =>
          tx' = Ok(IF tx.state = "ABORT_NOT_ACKED" THEN tx
                   ELSE [SetState(tx, "ABORTING")
                           EXCEPT !.pend = {}, !.wait = {}])
    /\ UNCHANGED <<cc, conn, msg, pid, offs, co, told, acc, txn>>

\* A new epoch aborts the transaction by itself; otherwise EndTxn, if any
\* request was sent.
OpAbort ==
    LET states == {"ABORTING", "ABORT_NOT_ACKED"}
        bump == tx.bump \/ tx.idemp # "ASSIGNED"
        end == tx.state = "ABORTING" /\ ~bump /\ tx.reqCnt > 0
    IN
    /\ Op("abort", states)
    /\ conn' = IF end THEN Append(conn, Request("EndTxn", {"abort"})) ELSE conn
    /\ tx.state \in states =>
          tx' = IF tx.state = "ABORT_NOT_ACKED" THEN Ok(tx)
                ELSE IF end THEN tx
                ELSE IF bump /\ tx.idemp # "ASSIGNED"
                     THEN [tx EXCEPT !.initq = TRUE]
                ELSE Ok(SetState(tx, "ABORT_NOT_ACKED"))
    /\ UNCHANGED <<cc, msg, pid, offs, co, told, acc, txn>>

OpAbortAck ==
    /\ Op("aack", {"ABORT_NOT_ACKED"})
    /\ tx.state = "ABORT_NOT_ACKED" => tx' = Ok(Complete(tx))
    /\ UNCHANGED <<cc, conn, msg, pid, offs, co, told, acc, txn>>

\* A request that waited too long unsent fails the transaction.
EndTxnAction(err) == CASE err \in {"ok", "outdated"} -> "none"
                       [] err = "fatal" -> "FATAL"
                       [] err = "qtimeout" -> "PERMANENT"
                       [] OTHER -> "RETRY"

HandleEndTxn(r) ==
    LET commit == r.arg = {"commit"}
        ending == tx.state \in {"COMMITTING", "ABORTING"}
        err == IF r.res = "ok" /\ ~ending THEN "outdated" ELSE r.res
        again == ending /\ EndTxnAction(err) = "RETRY"
        failed == tx.state = "ABORTABLE"
    IN  /\ tx' = IF failed
                 THEN Reply(tx, r.live, IF r.res = "ok" /\ commit
                                        THEN "fatal" ELSE "abort")
                 ELSE CASE err = "ok" ->
                            Reply(SetState(tx, IF commit THEN "COMMIT_NOT_ACKED"
                                               ELSE "ABORT_NOT_ACKED"),
                                  r.live, "ok")
                        [] err = "outdated" -> Reply(tx, r.live, "err")
                        [] EndTxnAction(err) = "FATAL" ->
                            Reply(SetFatal(tx), r.live, "fatal")
                        [] EndTxnAction(err) = "PERMANENT" ->
                            Reply(SetAbortable(tx, FALSE), r.live, "abort")
                        [] OTHER -> IF again THEN tx ELSE Reply(tx, r.live, "retry")
        /\ cc' = IF failed THEN cc
                 ELSE CASE err = "transport" -> [cc EXCEPT !.tmr = TRUE]
                        [] err = "notcoord" -> CoordReset(cc)
                        [] OTHER -> cc
        /\ conn' = IF again /\ ~failed
                   THEN Append(Tail(conn), [r EXCEPT !.res = "", !.got = 0])
                   ELSE Tail(conn)
        /\ UNCHANGED offs

\* The main thread serves the responses in the order of the requests.
Response ==
    /\ conn # <<>> /\ Head(conn).res # ""
    /\ LET r == Head(conn)
       IN  \/ r.kind = "AddParts" /\ HandleAddPartitionsToTxn(r)
           \/ r.kind = "AddOffs" /\ HandleAddOffsetsToTxn(r)
           \/ r.kind = "EndTxn" /\ HandleEndTxn(r)
           \/ r.kind = "InitPid" /\ HandleInitProducerId(r)
    /\ NoFault /\ UNCHANGED <<api, msg, pid, co, told, acc, txn>>

Init ==
    /\ tx = [state |-> IF Started THEN "READY" ELSE "INIT",
             err |-> FALSE, fatal |-> FALSE, bump |-> FALSE, reqCnt |-> 0,
             drFails |-> 0, idemp |-> IF Started THEN "ASSIGNED" ELSE "INIT",
             epoch |-> IF Started THEN 1 ELSE 0,
             pend |-> {}, wait |-> {}, reg |-> {}, initq |-> FALSE,
             regTmr |-> FALSE, pidTmr |-> FALSE, purge |-> FALSE,
             reply |-> "", ok |-> TRUE]
    /\ cc = [known |-> Started, up |-> Started, wait |-> FALSE, tmr |-> FALSE,
             mon |-> FALSE]
    /\ conn = <<>> /\ api = Idle("free", "")
    /\ msg = [p \in Parts |-> [st |-> "none", ep |-> 0, t |-> 0]]
    /\ pid = 0 /\ offs = [st |-> "none", t |-> 0, ep |-> 0, live |-> FALSE]
    /\ co = [epoch |-> IF Started THEN 1 ELSE 0, prev |-> 0, parts |-> {}, last |-> "none",
             open |-> {}, committed |-> {}, aborted |-> {}]
    /\ told = [t \in 1..MaxTxn |-> "none"] /\ acc = {}
    /\ txn = 0 /\ faults = 0

Ops == OpInit \/ OpInitAck \/ OpBegin \/ OpSendOffsets \/ OpBeginCommit
       \/ OpCommit \/ OpCommitAck \/ OpBeginAbort \/ OpAbort \/ OpAbortAck
Main == Ops \/ Response \/ PidTimer \/ CoordTimer \/ HandleFindCoordinator
        \/ CoordMonitor \/ RegisterPartitions \/ ApiTimeout
        \/ SendTxnOffsetCommit \/ HandleTxnOffsetCommit
App == Return \/ Flush \/ (\E c \in Calls : Call(c))
       \/ (\E p \in Parts : Produce(p))
BrokerThread == ProducerServe \/ PurgeOp \/ ConnUp \/ ConnDown \/ QueueTimeout
                \/ \E p \in Parts : Send(p) \/ HandleProduce(p) \/ MsgTimeout(p)
Cluster == Coordinator \/ Fence \/ GroupCoordinator \/ \E p \in Parts : Leader(p)

\* A failed assertion ends the process.
Next == tx.ok /\ (Main \/ App \/ BrokerThread \/ Cluster)

Spec == Init /\ [][Next]_vars

\* Threads keep running, a coordinator is found and answers; what must come
\* to an end for a call to return is listed, faults excluded.
Fairness ==
    /\ WF_vars(Ops) /\ WF_vars(Response) /\ WF_vars(PidTimer)
    /\ WF_vars(CoordTimer) /\ WF_vars(HandleFindCoordinator)
    /\ WF_vars(CoordMonitor) /\ WF_vars(RegisterPartitions)
    /\ WF_vars(SendTxnOffsetCommit) /\ WF_vars(HandleTxnOffsetCommit)
    /\ WF_vars(Return) /\ WF_vars(Flush) /\ WF_vars(ProducerServe)
    /\ WF_vars(PurgeOp) /\ WF_vars(ConnUp) /\ WF_vars(~cc.known /\ ConnDown)
    /\ WF_vars(Coordinator) /\ WF_vars(GroupCoordinator)
    /\ \A p \in Parts :
          /\ WF_vars(Send(p)) /\ WF_vars(Leader(p))
          /\ WF_vars(HandleProduce(p))
          /\ WF_vars((tx.fatal \/ tx.state \notin {"IN_TXN", "BEGIN_COMMIT"})
                     /\ MsgTimeout(p))

LiveSpec == Spec /\ Fairness

-----------------------------------------------------------------------------
(* Properties.                                                             *)

\* The manager's own assertions hold: no invalid state transition
\* (set_state), no request counted off twice (txn_req_cnt > 0 in the response
\* handlers), nothing left of the last transaction when one begins, no
\* partition registered while committing, a coordinator when one is needed.
AssertsHold == tx.ok

\* Every stored, undecided message lies on a partition (or group) that the
\* coordinator knows to be part of the transaction: none is left hanging.
NoHanging == \A m \in co.open : m[2] \in co.parts

\* A single-threaded application never meets "Conflicting call already in
\* progress": every way out of an API call releases txn_curr_api.
NoConflict == api.last # "conflict"

\* Every API call returns, whatever the coordinator answered and however the
\* connection failed meanwhile.
CallsReturn == (api.call # "none") ~> (api.call = "none" \/ ~tx.ok)

\* All-or-nothing, and the application is told what happened.
Outcome == INSTANCE TxnOutcome
    WITH Txns <- 1..MaxTxn, Places <- Parts \cup {"off"}, accepted <- acc,
         open <- co.open, committed <- co.committed, aborted <- co.aborted
Atomic == Outcome!Spec

\* The manager's state machine is sound: no assertion fails, no message is
\* left undecided, no call is refused as conflicting (rd_kafka_txn_set_state(),
\* rd_kafka_txn_register_partitions(), rd_kafka_txn_curr_api_reply()).
TxnSound == AssertsHold /\ NoHanging /\ NoConflict
=============================================================================
