--------------------------- MODULE PartitionProducer ---------------------------
(***************************************************************************)
(* The idempotent (not transactional) producer on one partition: the       *)
(* queues rktp_msgq and rktp_xmit_msgq, the broker thread that makes       *)
(* ProduceRequests of them, its connection, and what the responses do to   *)
(* the sequence state rktp_eos and to the producer id's epoch, which all   *)
(* partitions share.  acks=all, as idempotence demands.                    *)
(*                                                                         *)
(* The leader is external: it appends, rejects and de-duplicates batches   *)
(* as a Kafka broker does, and its log is what the guarantees are about.   *)
(* Other partitions appear only where they matter here, in the count of    *)
(* partitions with requests in flight and in the epoch bumps they cause.   *)
(***************************************************************************)
EXTENDS Integers, FiniteSets, Sequences

CONSTANTS
    MaxMsgs,      \* bound: messages the application produces
    BatchMax,     \* batch.num.messages
    MaxInflight,  \* RD_KAFKA_IDEMP_MAX_INFLIGHT, and the leader's batch cache
    MaxRetries,   \* message.send.max.retries
    Gapless,      \* enable.gapless.guarantee
    SeqMod,       \* sequence numbers wrap here: 2^31
    EpochMod,     \* epochs wrap here: 2^15
    Faults,       \* what may go wrong in this instance
    MaxFaults     \* bound: how often

FaultKinds == {"disconnect", "notleader", "notenough", "afterappend", "denied",
               "forget", "timeout", "bump"}

ASSUME PartitionAssumption ==
    /\ MaxMsgs \in Nat /\ BatchMax \in Nat \ {0} /\ MaxInflight \in Nat \ {0}
    /\ MaxRetries \in Nat \ {0}
    /\ Gapless \in BOOLEAN
    /\ SeqMod \in Nat \ {0} /\ EpochMod \in Nat \ {0}
    /\ Faults \subseteq FaultKinds /\ MaxFaults \in Nat

Ids   == 1..MaxMsgs
NoPid == -1

VARIABLES
    p,        \* the producer's state: see Init
    thread,   \* the broker thread: idle, serving with a pid, or failing requests
    outbufs,  \* rkb_outbufs: requests not yet written to the socket
    waitresp, \* rkb_waitresps: requests written and not answered
    tmpq,     \* broker_fail's requests still to be failed, with their was_sent flag
    up,       \* the connection is up
    net,      \* requests the leader has not handled, and lost connections' ones
    replies,  \* error codes on their way back
    brk,      \* the leader's log, producer epoch, next sequence and batch cache
    faults    \* faults so far

conn == <<waitresp, tmpq, up, net, replies>>
vars == <<p, thread, outbufs, conn, brk, faults>>

(* Queues are kept sorted by msgid (msg_order_cmp), so a set stands for    *)
(* one; so does a batch.                                                   *)
First(ms) == CHOOSE m \in ms : \A n \in ms : m <= n
Last(ms)  == CHOOSE m \in ms : \A n \in ms : m >= n

Wrap(n) == n % SeqMod

Queued(s)  == s.msgq \cup s.xmit
Unqueue(s, ms) == [s EXCEPT !.msgq = @ \ ms, !.xmit = @ \ ms]

(* rd_kafka_dr_msgq: a report carries no error, or one and the message's   *)
(* persistence status.                                                     *)
DrMsgq(s, ms, ok) ==
    [s EXCEPT !.dr = [m \in Ids |-> IF m \notin ms THEN @[m]
                                    ELSE IF ok THEN "delivered" ELSE s.status[m]]]

(* Mutant: the status of the last attempt replaces an earlier one.         *)
SetStatusLast(s, ms, st) ==
    [s EXCEPT !.status = [m \in Ids |-> IF m \in ms THEN st ELSE @[m]]]

(* A status is never taken back to NOT_PERSISTED.                          *)
SetStatus(s, ms, st) ==
    [s EXCEPT !.status = [m \in Ids |-> IF m \in ms /\ st # "no" THEN st ELSE @[m]]]

-----------------------------------------------------------------------------
(* Client-wide state: fatal error, idempotence state and epoch.            *)

(* Only the first fatal error is kept; it has the main thread purge the    *)
(* queues.                                                                 *)
SetFatal(s, why) ==
    IF s.fatal = "none" THEN [s EXCEPT !.fatal = why, !.purge = "main"] ELSE s

SetState(s, new) ==
    [s EXCEPT !.state = IF s.fatal # "none" /\ new \in {"assigned", "req_pid"}
                        THEN "fatal_error" ELSE new]

DrainDone(s) ==
    CASE s.state = "drain_reset" -> SetState(s, "req_pid")
      [] s.state = "drain_bump" ->
            SetState([s EXCEPT !.epoch = (@ + 1) % EpochMod], "assigned")
      [] OTHER -> s

(* inflight_toppar_cnt counts this partition (own) and the others.         *)
CheckDrainDone(s, own) == IF own \/ s.busy THEN s ELSE DrainDone(s)

DrainEpochBump(s, own) == CheckDrainDone(SetState(s, "drain_bump"), own)
DrainReset(s, own)     == CheckDrainDone(SetState(s, "drain_reset"), own)

-----------------------------------------------------------------------------
(* The result of a ProduceRequest r: its pid, first sequence and messages. *)

(* What rd_kafka_err_action makes of an error that idempotence does not    *)
(* handle specially.  A timed out request counts as "transport".           *)
ErrAction(err) ==
    CASE err \in {"transport", "afterappend"} -> [act |-> "retry", incr |-> 1, status |-> "maybe"]
      [] err \in {"retry", "notenough"}       -> [act |-> "retry", incr |-> 1, status |-> "no"]
      [] err = "notleader"                    -> [act |-> "retry", incr |-> 0, status |-> "no"]
      [] err = "outoforder"                   -> [act |-> "permanent", incr |-> 1, status |-> "maybe"]
      [] OTHER                                -> [act |-> "permanent", incr |-> 1, status |-> "no"]

Retryable == [act |-> "retry", incr |-> 0, status |-> "no"]
Permanent == [act |-> "permanent", incr |-> 1, status |-> "maybe"]

Duplicate == [act |-> "ack", incr |-> 1, status |-> "yes"]

(* Mutant: an unknown producer id is taken for a duplicate.                *)
UnknownPidAcked(s, r) == <<s, Duplicate>>

(* The leader has forgotten the producer: the messages are new to it if    *)
(* none was sent before and all earlier ones were answered.                *)
UnknownPid(s, r) ==
    IF s.retries[First(r.msgs)] = 0 /\ s.nextErr = r.seq
    THEN <<DrainEpochBump(s, TRUE), Retryable>>
    ELSE <<SetFatal(s, "unknown_pid"), Permanent>>

(* rd_kafka_handle_idempotent_Produce_error: the producer's state and what *)
(* to do with the messages.                                                *)
IdempError(s, r, err) ==
    LET ahead == r.seq - s.nextAck
    IN  IF r.pid # s.pid THEN <<s, Permanent>>
        ELSE CASE err = "outoforder" /\ ahead = 0 -> <<SetFatal(s, "desync"), Permanent>>
               [] err = "outoforder" /\ ahead > 0 -> <<DrainEpochBump(s, TRUE), Retryable>>
               [] err = "outoforder" /\ ahead < 0 -> <<SetFatal(s, "below"), Permanent>>
               [] err = "duplicate"   -> <<s, Duplicate>>
               [] err = "unknown_pid" -> UnknownPid(s, r)
               [] OTHER -> <<s, ErrAction(err)>>

NextSeq(r) == Wrap(r.seq + Cardinality(r.msgs))

(* Mutant: a message gives up one attempt early.                           *)
AgainOnceLess(s, ms, incr) == {m \in ms : s.retries[m] + incr < MaxRetries}

(* rd_kafka_retry_msgq: the messages that have retries left.               *)
Again(s, ms, incr) == {m \in ms : s.retries[m] + incr <= MaxRetries}

Requeue(s, ms, incr) ==
    [s EXCEPT !.msgq    = @ \cup ms,
              !.retries = [m \in Ids |-> IF m \in ms THEN @[m] + incr ELSE @[m]]]

(* The leader may have the messages: then it expects the next ones.        *)
RetrySeqs(s, r, st) ==
    [s EXCEPT !.nextAck = IF st = "maybe" THEN NextSeq(r) ELSE @, !.nextErr = NextSeq(r)]

(* The messages that may be retried go back to rktp_msgq, the others are   *)
(* reported.  Nothing more is sent until all requests have returned.       *)
RetryMsgq(s, r, incr, st) ==
    LET again == Again(s, r.msgs, incr)
        s1 == [RetrySeqs(Requeue(s, again, incr), r, st) EXCEPT !.drain = TRUE]
    IN  DrMsgq(SetStatus(s1, r.msgs, st), r.msgs \ again, FALSE)

FailMsgq(s, r, st) ==
    LET s1 == IF Gapless THEN DrainReset(SetFatal(s, "gapless"), TRUE)
                         ELSE DrainEpochBump(s, TRUE)
        s2 == [s1 EXCEPT !.nextErr = NextSeq(r)]
    IN  DrMsgq(SetStatus(s2, r.msgs, st), r.msgs, FALSE)

(* rd_kafka_handle_Produce_error.  The first message of the batch keeps    *)
(* its extent, for the batch to be sent again as it was.                   *)
ProduceError(s, r, err, sent) ==
    LET s0 == [s EXCEPT !.last[First(r.msgs)] = Last(r.msgs)]
        Act(ie, e, incr) ==
           CASE e.act = "retry" ->
                   RetryMsgq(ie, r, incr, IF incr = 0 THEN "no" ELSE e.status)
             [] e.act = "permanent" -> FailMsgq(ie, r, e.status)
             [] e.act = "ack" ->
                   DrMsgq([ie EXCEPT !.nextAck = NextSeq(r), !.nextErr = NextSeq(r)],
                          r.msgs, TRUE)
        Decided(ie) == Act(ie[1], ie[2], IF sent THEN ie[2].incr ELSE 0)
    IN  Decided(IdempError(s0, r, err))

(* rd_kafka_handle_idempotent_Produce_success: a batch whose predecessors  *)
(* were not acknowledged acknowledges them, if they are queued for retry.  *)
ImplicitAck(s, upto) ==
    LET acked == {m \in Queued(s) : m <= upto}
    IN  DrMsgq(Unqueue(s, acked), acked, TRUE)

ProduceSuccess(s, r) ==
    LET gap == s.acked < First(r.msgs) - 1
        unexpected == ~gap /\ r.seq # s.nextAck /\ r.seq = s.nextErr
        s1 == IF gap THEN ImplicitAck(s, Last(r.msgs)) ELSE s
        s2 == IF unexpected
              THEN SetFatal([s1 EXCEPT !.nextErr = NextSeq(r)], "unexpected")
              ELSE [s1 EXCEPT !.nextErr = IF @ = s1.nextAck THEN NextSeq(r) ELSE @,
                              !.nextAck = NextSeq(r)]
        s3 == [s2 EXCEPT !.acked = IF Last(r.msgs) > @ THEN Last(r.msgs) ELSE @]
    IN  DrMsgq(s3, r.msgs, TRUE)

(* rd_kafka_msgbatch_handle_Produce_result: the last request in flight may *)
(* end a drain.                                                            *)
HandleResult(s, r, err, sent) ==
    LET s1 == [s EXCEPT !.inflight = @ - Cardinality(r.msgs)]
        s2 == IF err = "ok" THEN ProduceSuccess(s1, r) ELSE ProduceError(s1, r, err, sent)
    IN  CheckDrainDone(s2, s1.inflight > 0)

-----------------------------------------------------------------------------
(* The broker thread's round over its partitions.                          *)

(* rd_kafka_broker_bufq_purge_by_toppar on rkb_outbufs.  Idempotence sets  *)
(* queue.buffering.backpressure.threshold to 1: there is at most one.      *)
PurgeOutbufs(s, err) == IF outbufs = <<>> THEN s ELSE HandleResult(s, Head(outbufs), err, FALSE)

(* rd_kafka_msgset_writer_write_msgq: n messages, as far as batch.size and *)
(* the backoff of retried messages let it; or those of the batch the first *)
(* one started before, which have the same size and backoff again.         *)
Batch(s, n) ==
    LET retried == s.last[First(s.xmit)]
        limit   == IF retried = 0 THEN n ELSE BatchMax
    IN  {m \in s.xmit : /\ retried # 0 => m <= retried
                        /\ Cardinality({k \in s.xmit : k < m}) < limit}

Consistent(s, b) == s.last[First(b)] \in {0, Last(b)}

PidChange(s, pid) ==
    [s EXCEPT !.pid = pid, !.base = First(s.xmit), !.nextAck = 0, !.nextErr = 0]

(* Mutant: a retried batch gets the next sequence, not that of its msgid.  *)
RequestRenumbered(s, b) == [pid |-> s.pid, seq |-> s.nextAck, msgs |-> b]

Request(s, b) == [pid |-> s.pid, seq |-> Wrap(First(b) - s.base), msgs |-> b]

MoveToXmit(s) == [s EXCEPT !.xmit = @ \cup s.msgq, !.msgq = {}]

(* rd_kafka_toppar_producer_serve up to the point of sending.  Room in     *)
(* rkb_outbufs is looked at before anything is purged from it.             *)
Room == outbufs = <<>> /\ p.fatal = "none"

Loaded      == IF Room THEN MoveToXmit(p) ELSE p
Purged(pid) == pid # p.pid \/ (p.drain /\ p.inflight > 0)

(* Mutant: the partition is never taken off the drain.                     *)
DrainedNever(s, pid) ==
    IF s.drain /\ s.inflight > 0 /\ pid = s.pid THEN PurgeOutbufs(s, "retry") ELSE s

(* wait_drain: purge, unless that was done for a new pid, or go on.        *)
Drained(s, pid) ==
    CASE ~s.drain -> s
      [] s.drain /\ s.inflight > 0 -> IF pid = s.pid THEN PurgeOutbufs(s, "retry") ELSE s
      [] s.drain /\ s.inflight = 0 -> [s EXCEPT !.drain = FALSE]

Served(pid) ==
    LET Ready(s) == IF ~s.drain /\ Room /\ s.inflight < MaxInflight /\ s.xmit # {}
                       /\ pid # s.pid /\ s.inflight = 0
                    THEN PidChange(s, pid) ELSE s
    IN  Ready(Drained(IF pid # p.pid THEN PurgeOutbufs(Loaded, "retry") ELSE Loaded,
                      pid))

MaySend(s, pid) ==
    ~s.drain /\ Room /\ s.inflight < MaxInflight /\ s.xmit # {} /\ pid = s.pid /\ up

Idle == [at |-> "idle"]
At(x) == thread.at = x

Fault(kind) == kind \in Faults /\ faults < MaxFaults /\ faults' = faults + 1

-----------------------------------------------------------------------------
Init ==
    /\ p = [msgid |-> 0, msgq |-> {}, xmit |-> {},          \* rktp, its queues
            retries |-> [m \in Ids |-> 0],                  \* of each message:
            status  |-> [m \in Ids |-> "no"],               \*   rkm_status
            last    |-> [m \in Ids |-> 0],                  \*   last_msgid
            dr      |-> [m \in Ids |-> "none"],             \*   its report
            inflight |-> 0,                                 \* rktp_msgs_inflight
            pid |-> NoPid, base |-> 0, acked |-> 0,         \* rktp_eos
            nextAck |-> 0, nextErr |-> 0, drain |-> FALSE,
            state |-> "wait_pid", epoch |-> NoPid,          \* rk_eos
            busy |-> FALSE,                                 \* other partitions in flight
            fatal |-> "none", purge |-> "no"]               \* rk_fatal and its OP_PURGE
    /\ thread = Idle
    /\ outbufs = <<>> /\ waitresp = <<>> /\ tmpq = <<>>
    /\ up = TRUE
    /\ net = [cur |-> <<>>, old |-> <<>>] /\ replies = <<>>
    /\ brk = [log |-> <<>>, epoch |-> NoPid, next |-> 0, cache |-> <<>>]
    /\ faults = 0

(* rd_kafka_toppar_enq_msg, for an application thread.                     *)
EnqMsg ==
    /\ p.msgid < MaxMsgs /\ p.fatal = "none"
    /\ p' = [p EXCEPT !.msgid = @ + 1, !.msgq = @ \cup {p.msgid + 1}]
    /\ UNCHANGED <<thread, outbufs, conn, brk, faults>>

(* The pid of the round is read once, before any partition is served.      *)
ProduceToppars ==
    /\ At("idle") /\ p.state = "assigned"
    /\ thread' = [at |-> "serve", pid |-> p.epoch]
    /\ UNCHANGED <<p, outbufs, conn, brk, faults>>

(* Nothing to send, or linger.ms or the retry backoff has not passed.      *)
Serve ==
    /\ At("serve")
    /\ p' = Served(thread.pid)
    /\ outbufs' = IF Purged(thread.pid) THEN <<>> ELSE outbufs
    /\ thread' = Idle
    /\ UNCHANGED <<conn, brk, faults>>

ProduceRequest(n) ==
    /\ At("serve")
    /\ LET SendBatch(s, b) ==
              /\ MaySend(s, thread.pid)
              /\ IF Consistent(s, b)
                 THEN /\ p' = [s EXCEPT !.xmit = @ \ b, !.inflight = @ + Cardinality(b)]
                      /\ outbufs' = <<Request(s, b)>>
                 ELSE /\ p' = SetFatal(s, "inconsistent")
                      /\ UNCHANGED outbufs
           From(s) == SendBatch(s, Batch(s, n))
       IN  From(Served(thread.pid))
    /\ thread' = Idle
    /\ UNCHANGED <<conn, brk, faults>>

(* message.timeout.ms: the oldest messages of both queues are reported.    *)
Expired(t) == {m \in Queued(p) : m <= t}

MsgqScan(t) ==
    /\ Expired(t) # {}
    /\ Fault("timeout") \/ (p.fatal # "none" /\ UNCHANGED faults)
    /\ \/ /\ At("serve")
          /\ p' = DrainEpochBump(DrMsgq(Unqueue(p, Expired(t)), Expired(t), FALSE), p.inflight > 0)
          /\ thread' = Idle
       \/ /\ At("idle") /\ p.state # "assigned"
          /\ p' = DrMsgq(Unqueue(p, Expired(t)), Expired(t), FALSE)
          /\ UNCHANGED thread
    /\ UNCHANGED <<outbufs, conn, brk>>

-----------------------------------------------------------------------------
(* The connection.                                                         *)

Send ==
    /\ At("idle") /\ up /\ outbufs # <<>> /\ Len(waitresp) < MaxInflight
    /\ waitresp' = Append(waitresp, Head(outbufs))
    /\ net' = [net EXCEPT !.cur = Append(@, Head(outbufs))]
    /\ outbufs' = Tail(outbufs)
    /\ UNCHANGED <<p, thread, tmpq, up, replies, brk, faults>>

HandleProduce ==
    /\ At("idle") /\ up /\ replies # <<>>
    /\ p' = HandleResult(p, Head(waitresp), Head(replies), TRUE)
    /\ waitresp' = Tail(waitresp) /\ replies' = Tail(replies)
    /\ UNCHANGED <<thread, outbufs, tmpq, up, net, brk, faults>>

(* rd_kafka_broker_fail, on a socket error or (socket.max.fails) a request *)
(* timeout.  The leader may yet handle some of the requests.               *)
BrokerFail ==
    /\ At("idle") /\ up /\ Fault("disconnect")
    /\ thread' = [at |-> "fail"]
    /\ up' = FALSE
    /\ tmpq' = [i \in 1..Len(waitresp) |-> [req |-> waitresp[i], sent |-> TRUE]]
               \o [i \in 1..Len(outbufs) |-> [req |-> outbufs[i], sent |-> FALSE]]
    /\ waitresp' = <<>> /\ outbufs' = <<>> /\ replies' = <<>>
    /\ \E k \in 0..Len(net.cur) :
         net' = [cur |-> <<>>, old |-> net.old \o SubSeq(net.cur, 1, k)]
    /\ UNCHANGED <<p, brk>>

BufqPurge ==
    /\ At("fail")
    /\ IF tmpq = <<>>
       THEN /\ thread' = Idle
            /\ UNCHANGED <<p, tmpq>>
       ELSE /\ p' = HandleResult(p, Head(tmpq).req, "transport", Head(tmpq).sent)
            /\ tmpq' = Tail(tmpq)
            /\ UNCHANGED thread
    /\ UNCHANGED <<outbufs, waitresp, up, net, replies, brk, faults>>

Connect ==
    /\ At("idle") /\ ~up /\ up' = TRUE
    /\ UNCHANGED <<p, thread, outbufs, waitresp, tmpq, net, replies, brk, faults>>

-----------------------------------------------------------------------------
(* Other threads: the main thread and those of other partitions' leaders.  *)

PidUpdate ==
    /\ p.state = "wait_pid"
    /\ p' = SetState([p EXCEPT !.epoch = 0], "assigned")
    /\ UNCHANGED <<thread, outbufs, conn, brk, faults>>

PurgeToppars ==
    /\ p.purge = "main"
    /\ p' = [DrMsgq(p, p.msgq, FALSE) EXCEPT !.msgq = {}, !.purge = "broker"]
    /\ UNCHANGED <<thread, outbufs, conn, brk, faults>>

(* rd_kafka_broker_handle_purge_queues, on the broker thread.              *)
HandlePurgeQueues ==
    /\ At("idle") /\ p.purge = "broker"
    /\ LET Empty(s) == DrMsgq(Unqueue(s, Queued(s)), Queued(s), FALSE)
       IN  p' = [Empty(PurgeOutbufs(p, "purge")) EXCEPT !.purge = "done"]
    /\ outbufs' = <<>>
    /\ UNCHANGED <<thread, conn, brk, faults>>

(* Another partition: its first request, its last response, and an error   *)
(* or timeout of it that bumps the epoch for all.                          *)
OtherInflight ==
    /\ ~p.busy /\ p.state = "assigned"
    /\ p' = [p EXCEPT !.busy = TRUE]
    /\ UNCHANGED <<thread, outbufs, conn, brk, faults>>

OtherDrained ==
    /\ p.busy
    /\ p' = CheckDrainDone([p EXCEPT !.busy = FALSE], p.inflight > 0)
    /\ UNCHANGED <<thread, outbufs, conn, brk, faults>>

OtherBump ==
    /\ p.busy \/ p.state = "assigned"
    /\ Fault("bump")
    /\ p' = DrainEpochBump(p, p.inflight > 0)
    /\ UNCHANGED <<thread, outbufs, conn, brk>>

-----------------------------------------------------------------------------
(* The partition's leader.  Per producer it keeps the epoch, the next      *)
(* sequence and its last batches.                                          *)

Known(r) == brk.epoch = r.pid
Cached(r) == \E i \in 1..Len(brk.cache) : brk.cache[i] = <<r.seq, Cardinality(r.msgs)>>

Verdict(r) ==
    CASE brk.epoch > r.pid -> "invalid_epoch"
      [] Known(r)          -> IF Cached(r) THEN "ok"
                              ELSE IF r.seq = brk.next THEN "append" ELSE "outoforder"
      [] brk.epoch < r.pid -> IF r.seq = 0 THEN "append"
                              ELSE IF brk.epoch = NoPid THEN "unknown_pid" ELSE "outoforder"

SortedSeq(ms) ==
    [i \in 1..Cardinality(ms) |-> CHOOSE m \in ms : Cardinality({k \in ms : k <= m}) = i]

Append1(r) ==
    LET new == SortedSeq(r.msgs)
        old == IF Known(r) THEN brk.cache ELSE <<>>
        all == Append(old, <<r.seq, Cardinality(r.msgs)>>)
    IN  [log   |-> brk.log \o [i \in 1..Len(new) |-> [id |-> new[i], epoch |-> r.pid, seq |-> r.seq]],
         epoch |-> r.pid,
         next  |-> NextSeq(r),
         cache |-> IF Len(all) > MaxInflight THEN Tail(all) ELSE all]

Handle(r) == brk' = IF Verdict(r) = "append" THEN Append1(r) ELSE brk
Code(r) == IF Verdict(r) = "append" THEN "ok" ELSE Verdict(r)

LeaderHandles ==
    /\ net.cur # <<>>
    /\ net' = [net EXCEPT !.cur = Tail(@)]
    /\ LET r == Head(net.cur)
       IN  \/ Handle(r) /\ replies' = Append(replies, Code(r)) /\ UNCHANGED faults
           \/ \E e \in {"notleader", "notenough", "denied"} :
                Fault(e) /\ replies' = Append(replies, e) /\ UNCHANGED brk
           \/ /\ Code(r) = "ok" /\ Fault("afterappend")
              /\ Handle(r) /\ replies' = Append(replies, "afterappend")
    /\ UNCHANGED <<p, thread, outbufs, waitresp, tmpq, up>>

(* A request of a connection that is gone.                                 *)
LeaderHandlesOld ==
    /\ net.old # <<>>
    /\ net' = [net EXCEPT !.old = Tail(@)]
    /\ Handle(Head(net.old))
    /\ UNCHANGED <<p, thread, outbufs, waitresp, tmpq, up, replies, faults>>

(* Retention has removed the producer's last batch, and its state with it. *)
LeaderForgets ==
    /\ brk.epoch # NoPid /\ Fault("forget")
    /\ brk' = [brk EXCEPT !.epoch = NoPid, !.next = 0, !.cache = <<>>]
    /\ UNCHANGED <<p, thread, outbufs, conn>>

-----------------------------------------------------------------------------
SendRequest == \E n \in 1..BatchMax : ProduceRequest(n)
ScanTimeouts == \E t \in Ids : MsgqScan(t)

BrokerThread ==
    \/ ProduceToppars \/ Serve \/ SendRequest \/ ScanTimeouts
    \/ Send \/ HandleProduce \/ BrokerFail \/ BufqPurge \/ Connect
    \/ HandlePurgeQueues
OtherThreads ==
    EnqMsg \/ PidUpdate \/ PurgeToppars \/ OtherInflight \/ OtherDrained \/ OtherBump
Leader == LeaderHandles \/ LeaderHandlesOld \/ LeaderForgets

Next == BrokerThread \/ OtherThreads \/ Leader

Spec == Init /\ [][Next]_vars

(* The broker thread's loop comes to each of its duties in turn, and       *)
(* linger.ms and retry.backoff.ms pass, so that a request is made sooner   *)
(* or later; messages left after a fatal error reach message.timeout.ms;   *)
(* the other threads, the other partitions and the leader go on.           *)
Fairness ==
    /\ WF_vars(ProduceToppars) /\ WF_vars(Serve \/ SendRequest) /\ WF_vars(BufqPurge)
    /\ SF_vars(SendRequest) /\ SF_vars(Send) /\ SF_vars(HandleProduce) /\ SF_vars(Connect)
    /\ SF_vars(HandlePurgeQueues) /\ SF_vars(ScanTimeouts /\ p.fatal # "none")
    /\ WF_vars(PidUpdate) /\ WF_vars(PurgeToppars) /\ WF_vars(OtherDrained)
    /\ WF_vars(LeaderHandles)

FairSpec == Spec /\ Fairness

-----------------------------------------------------------------------------
Logged(m) == \E i \in 1..Len(brk.log) : brk.log[i].id = m
Reported == {m \in Ids : p.dr[m] # "none"}
Requests == {outbufs[i] : i \in 1..Len(outbufs)} \cup {waitresp[i] : i \in 1..Len(waitresp)}
              \cup {tmpq[i].req : i \in 1..Len(tmpq)}
InRequest == UNION {r.msgs : r \in Requests}

RequestType == [pid : 0..(EpochMod - 1), seq : 0..(SeqMod - 1), msgs : SUBSET Ids \ {{}}]

TypeOK ==
    /\ p.msgid \in 0..MaxMsgs /\ p.msgq \subseteq Ids /\ p.xmit \subseteq Ids
    /\ p.retries \in [Ids -> 0..MaxRetries] /\ p.last \in [Ids -> 0..MaxMsgs]
    /\ p.status \in [Ids -> {"no", "maybe"}]
    /\ p.dr \in [Ids -> {"none", "delivered", "maybe", "no"}]
    /\ p.inflight \in 0..MaxMsgs
    /\ p.pid \in NoPid..(EpochMod - 1) /\ p.base \in 0..MaxMsgs /\ p.acked \in 0..MaxMsgs
    /\ p.nextAck \in 0..(SeqMod - 1) /\ p.nextErr \in 0..(SeqMod - 1)
    /\ p.state \in {"wait_pid", "assigned", "drain_bump", "drain_reset", "req_pid", "fatal_error"}
    /\ p.epoch \in NoPid..(EpochMod - 1)
    /\ Requests \subseteq RequestType
    /\ faults \in 0..MaxFaults

(* A message the application produced is in exactly one place - the        *)
(* partition queue, the transmit queue, one request, or reported - and     *)
(* rktp_msgs_inflight counts the messages in requests, across retries,     *)
(* purges, disconnects and implicit acks.                                  *)
Conserved ==
    /\ 1..p.msgid = p.msgq \cup p.xmit \cup InRequest \cup Reported
    /\ p.msgid = Cardinality(p.msgq) + Cardinality(p.xmit) + p.inflight + Cardinality(Reported)
    /\ p.inflight = Cardinality(InRequest)

(* A message reported as delivered is in the partition's log, also when it *)
(* was acknowledged implicitly by the success of a later batch.            *)
AckedPersisted == \A m \in Ids : p.dr[m] = "delivered" => Logged(m)

(* rd_kafka_message_status: a message reported as NOT_PERSISTED is not in  *)
(* the log, so that producing it again makes no duplicate.                 *)
NotPersistedHonest == \A m \in Ids : p.dr[m] = "no" => ~Logged(m)

(* Within one epoch the log has every message at most once and in produce  *)
(* order, whatever is lost, retried or handled late.                       *)
OrderedInEpoch ==
    \A i, j \in 1..Len(brk.log) :
        i < j /\ brk.log[i].epoch = brk.log[j].epoch => brk.log[i].id < brk.log[j].id

Stored(r, m) ==
    \E i \in 1..Len(brk.log) : brk.log[i] = [id |-> m, epoch |-> r.pid, seq |-> r.seq]

(* The de-duplication window: a request the client may still send or wait  *)
(* for, and that is in the log as it is, is among the batches its leader   *)
(* remembers.  Hence RD_KAFKA_IDEMP_MAX_INFLIGHT.                          *)
Remembered ==
    \A r \in Requests :
        brk.epoch = r.pid /\ (\A m \in r.msgs : Stored(r, m)) => Cached(r)

(* A batch that is sent again has exactly its original messages:           *)
(* rd_kafka_msgset_writer_write_msgq raises no inconsistency.              *)
Reconstructible == p.fatal # "inconsistent"

(* The client and the leader agree on the sequence of the oldest request   *)
(* in flight: the head of line is never refused as out of order, no        *)
(* request is refused below the next expected acknowledgement, and no      *)
(* batch succeeds that was bound to fail.                                  *)
InSync == p.fatal \notin {"desync", "unexpected", "below"}

(* enable.idempotence: exactly once and in produce order, over the whole   *)
(* log.                                                                    *)
ExactlyOnceInOrder ==
    \A i, j \in 1..Len(brk.log) : i < j => brk.log[i].id < brk.log[j].id

(* enable.gapless.guarantee: the log has no message without those produced *)
(* before it (messages that time out in the queue are not covered).        *)
NoGap == \A m, k \in Ids : Logged(m) /\ k < m => Logged(k)

(* Every message is reported, even though nothing but a fatal error makes  *)
(* it time out: drains end and retries do not go on for ever.              *)
EventuallyReported == \A m \in Ids : p.msgid >= m ~> p.dr[m] # "none"

(* An epoch bump that was asked for takes place once the partitions have   *)
(* drained; the producer does not stay without a usable pid.               *)
DrainEnds == p.state \in {"drain_bump", "drain_reset"} ~> p.state \in {"assigned", "fatal_error"}

(* Every message is somewhere, once, and one that is reported as not       *)
(* persisted may be produced again (rd_kafka_dr_msgq(),                    *)
(* rd_kafka_msgq_set_metadata()).                                          *)
HonestReports == Conserved /\ NotPersistedHonest

(* Messages are reported and drains end (rd_kafka_idemp_drain_done()).     *)
Progress == EventuallyReported /\ DrainEnds
=============================================================================
