------------------------------ MODULE Producer ------------------------------
(***************************************************************************)
(* The producing half of the library, end to end: the Haskell call         *)
(* Rdkafka.Client.Producer.bytes with the StablePtr that anchors a pinned  *)
(* payload, the client-wide accounting of rd_kafka_curr_msgs_add/_sub and  *)
(* its condition variable, the life of a message between the partition     *)
(* queue and the delivery report, rd_kafka_poll and the application's      *)
(* delivery callback, rd_kafka_flush and rd_kafka_destroy.                 *)
(*                                                                         *)
(* What the broker answers is left open here (PartitionProducer models     *)
(* it); this module is about who owns a message, its payload and its       *)
(* headers, while application threads, pollers, broker threads and the     *)
(* termination of the client interleave.                                   *)
(***************************************************************************)
EXTENDS Integers, FiniteSets

CONSTANTS
    Threads,     \* Haskell threads calling `bytes'
    Pollers,     \* threads in `poll', or in `flush', which polls
    Msgs,        \* the messages the application will produce
    Size,        \* payload length of each message
    Pinned,      \* messages whose payload is a pinned byte array
    WithHdrs,    \* messages produced with non-null headers
    TooLarge,    \* messages whose wire size exceeds message.max.bytes
    MaxCnt,      \* queue.buffering.max.messages
    MaxSize,     \* queue.buffering.max.kbytes, in the unit of Size
    Dissolve,    \* what the callback calls on the opaque: see DrMsgCb
    DrErrOnly,   \* delivery.report.only.error
    Nobody       \* the owner of the places no single thread owns

ASSUME ProducerAssumption ==
    /\ IsFiniteSet(Msgs)
    /\ Size \in [Msgs -> Nat]
    /\ MaxCnt \in Nat \ {0}
    /\ MaxSize \in Nat
    /\ Pinned \subseteq Msgs /\ WithHdrs \subseteq Msgs /\ TooLarge \subseteq Msgs
    /\ Dissolve \in {"destroyMessageOpaque_", "destroyMessageOpaque"}
    /\ DrErrOnly \in BOOLEAN
    /\ Nobody \notin Threads \cup Pollers \cup Msgs

(* Where an rd_kafka_msg_t can be: with the thread that is producing it,   *)
(* on a partition's rktp_msgq or rktp_xmit_msgq, in a ProduceRequest, in a *)
(* delivery report on rk_rep, on the local queue of a thread in            *)
(* rd_kafka_q_serve, or past that thread's callback and about to be freed. *)
New(t)   == <<"new", t>>
Msgq     == <<"msgq", Nobody>>
Xmit     == <<"xmit", Nobody>>
Inflight == <<"inflight", Nobody>>
Rep      == <<"rep", Nobody>>
Local(p) == <<"local", p>>
Called(p) == <<"called", p>>

Places == {Msgq, Xmit, Inflight, Rep}
            \cup {New(t) : t \in Threads}
            \cup {Local(p) : p \in Pollers} \cup {Called(p) : p \in Pollers}

VARIABLES
    at,        \* the messages in each place
    cnt, size, \* rk_curr_msgs.cnt and .size
    fatal,     \* rk_fatal.err is set
    term,      \* progress of rd_kafka_destroy
    repOpen,   \* rk_rep accepts ops (RD_KAFKA_Q_F_READY)
    pc, cur,   \* where each Haskell thread is in `bytes', and with which message
    again,     \* the thread is in produceBytesBlocking, its second attempt
    anchored,  \* messages whose StablePtr is live
    opaque,    \* messages whose rkm_opaque is that StablePtr
    noncopy,   \* messages whose rkm_payload points into the Haskell heap
    rkmHdrs,   \* messages whose rkm_headers is set
    hdrs,      \* the headers the application made: null, live or freed
    bad,       \* undefined behaviour met so far
    todo,      \* messages not produced yet
    accepted,  \* messages whose produce call returned NoError
    reported,  \* messages passed to the delivery callback
    flush      \* rd_kafka_flush: its step, qlen, and what was pending at its call

curr    == <<cnt, size>>
hsVars  == <<pc, cur, again, anchored>>
rkmVars == <<opaque, noncopy, rkmHdrs>>
vars == <<at, curr, fatal, term, repOpen, hsVars, rkmVars, hdrs, bad,
          todo, accepted, reported, flush>>

Live == UNION {at[x] : x \in Places}

FlushIdle == [at |-> "idle", qlen |-> FALSE, pending |-> {}, by |-> Nobody]

Init ==
    /\ at = [x \in Places |-> {}]
    /\ cnt = 0 /\ size = 0
    /\ fatal = FALSE
    /\ term = "up" /\ repOpen = TRUE
    /\ pc = [t \in Threads |-> "idle"]
    /\ cur = [t \in Threads |-> Nobody]
    /\ again = [t \in Threads |-> FALSE]
    /\ anchored = {} /\ opaque = {} /\ noncopy = {} /\ rkmHdrs = {}
    /\ hdrs = [m \in Msgs |-> IF m \in WithHdrs THEN "live" ELSE "null"]
    /\ bad = {}
    /\ todo = Msgs /\ accepted = {} /\ reported = {}
    /\ flush = FlushIdle

-----------------------------------------------------------------------------
(* An operator defined before the one it resembles, with a suffix in its   *)
(* name, is a mutation of it: a plausible bug the properties must catch.   *)
(*                                                                         *)
(* Moving and freeing messages.                                            *)

Move(m, x, y) ==
    /\ m \in at[x]
    /\ at' = [at EXCEPT ![x] = @ \ {m}, ![y] = @ \cup {m}]

Fits(m) == cnt + 1 <= MaxCnt /\ size + Size[m] <= MaxSize

(* The condition under which rd_kafka_curr_msgs_sub signals the waiters.   *)
Broadcasts(m) ==
    \/ cnt - 1 = 0
    \/ cnt >= MaxCnt /\ cnt - 1 < MaxCnt
    \/ size >= MaxSize /\ size - Size[m] < MaxSize

(* The threads after that broadcast.                                       *)
Woken(f, m) ==
    [t \in Threads |-> IF f[t] = "wait" /\ Broadcasts(m) THEN "add" ELSE f[t]]

CurrMsgsSub(m) == cnt' = cnt - 1 /\ size' = size - Size[m]

(* rd_kafka_headers_destroy() dereferences its argument before freeing it. *)
HeadersDestroy(m) ==
    /\ hdrs' = [hdrs EXCEPT ![m] = IF @ = "live" THEN "freed" ELSE @]
    /\ bad' = bad \cup (CASE hdrs[m] = "live"  -> {}
                          [] hdrs[m] = "null"  -> {"null_headers"}
                          [] hdrs[m] = "freed" -> {"headers_freed_twice"})

(* rd_kafka_msg_destroy() of a message that is in place x.                 *)
MsgDestroy(m, x) ==
    /\ m \in at[x]
    /\ at' = [at EXCEPT ![x] = @ \ {m}]
    /\ CurrMsgsSub(m) /\ pc' = Woken(pc, m)
    /\ IF m \in rkmHdrs THEN HeadersDestroy(m) ELSE UNCHANGED <<hdrs, bad>>

(* rd_kafka_dr_msgq(): a delivery report for a message in place x, or only *)
(* its destruction when no report is due for this outcome, or when rk_rep  *)
(* is disabled and destroys the op it is given.                            *)
DrMsgq(m, x, err) ==
    IF (~DrErrOnly \/ err) /\ repOpen
    THEN Move(m, x, Rep) /\ UNCHANGED <<curr, pc, hdrs, bad>>
    ELSE MsgDestroy(m, x)

-----------------------------------------------------------------------------
(* The Haskell thread: Rdkafka.Client.Producer.bytes, through the C of     *)
(* rd_kafka_producev.                                                      *)

(* produceBytes: a pinned payload is anchored by a StablePtr before the    *)
(* non-blocking push, an unpinned one will be copied and has no opaque.    *)
Bytes(t, m) ==
    /\ term = "up" /\ pc[t] = "idle" /\ m \in todo
    /\ pc' = [pc EXCEPT ![t] = "check"]
    /\ cur' = [cur EXCEPT ![t] = m]
    /\ again' = [again EXCEPT ![t] = FALSE]
    /\ todo' = todo \ {m}
    /\ anchored' = IF m \in Pinned THEN anchored \cup {m} ELSE anchored
    /\ UNCHANGED <<at, curr, fatal, term, repOpen, rkmVars, hdrs, bad,
                   accepted, reported, flush>>

(* rd_kafka_check_produce(), and the size check of rd_kafka_msg_new0().    *)
CheckProduce(t) ==
    /\ pc[t] = "check"
    /\ pc' = [pc EXCEPT ![t] = IF fatal \/ cur[t] \in TooLarge
                               THEN "error" ELSE "add"]
    /\ UNCHANGED <<at, curr, fatal, term, repOpen, cur, again, anchored,
                   rkmVars, hdrs, bad, todo, accepted, reported, flush>>

(* rd_kafka_curr_msgs_add(), first branch: there is room, so the rest of   *)
(* rd_kafka_msg_new0() makes the message and gives it the headers.         *)
MsgNew(t) ==
    LET m == cur[t]
        stable == m \in Pinned \/ again[t]
    IN
    /\ pc[t] = "add" /\ Fits(m)
    /\ cnt' = cnt + 1 /\ size' = size + Size[m]
    /\ at' = [at EXCEPT ![New(t)] = @ \cup {m}]
    /\ opaque'  = IF stable THEN opaque \cup {m} ELSE opaque
    /\ noncopy' = IF stable THEN noncopy \cup {m} ELSE noncopy
    /\ rkmHdrs' = IF m \in WithHdrs THEN rkmHdrs \cup {m} ELSE rkmHdrs
    /\ pc' = [pc EXCEPT ![t] = "partition"]
    /\ UNCHANGED <<fatal, term, repOpen, cur, again, anchored, hdrs, bad,
                   todo, accepted, reported, flush>>

(* rd_kafka_curr_msgs_add(), full: the first attempt of `bytes' gets       *)
(* QUEUE_FULL, the second, with RD_KAFKA_MSG_F_BLOCK, waits.               *)
CurrMsgsFull(t) ==
    /\ pc[t] = "add" /\ ~Fits(cur[t])
    /\ pc' = [pc EXCEPT ![t] = IF again[t] THEN "wait" ELSE "full"]
    /\ UNCHANGED <<at, curr, fatal, term, repOpen, cur, again, anchored,
                   rkmVars, hdrs, bad, todo, accepted, reported, flush>>

(* A condition variable may wake a waiter for no reason.                   *)
SpuriousWakeup(t) ==
    /\ pc[t] = "wait"
    /\ pc' = [pc EXCEPT ![t] = "add"]
    /\ UNCHANGED <<at, curr, fatal, term, repOpen, cur, again, anchored,
                   rkmVars, hdrs, bad, todo, accepted, reported, flush>>

(* rd_kafka_msg_partitioner() puts the message on a partition's queue,     *)
(* from where any other thread may take it before this one returns.        *)
Partition(t) ==
    /\ pc[t] = "partition"
    /\ Move(cur[t], New(t), Msgq)
    /\ pc' = [pc EXCEPT ![t] = "ok"]
    /\ UNCHANGED <<curr, fatal, term, repOpen, cur, again, anchored,
                   rkmVars, hdrs, bad, todo, accepted, reported, flush>>

PartitionFailsUnaccounted(t) ==
    LET m == cur[t] IN
    /\ pc[t] = "partition"
    /\ m \in at[New(t)]
    /\ at' = [at EXCEPT ![New(t)] = @ \ {m}]
    /\ pc' = [pc EXCEPT ![t] = "error"]
    /\ rkmHdrs' = rkmHdrs \ {m}
    /\ opaque' = opaque \ {m} /\ noncopy' = noncopy \ {m}
    /\ UNCHANGED <<curr, fatal, term, repOpen, cur, again, anchored, hdrs, bad,
                   todo, accepted, reported, flush>>

PartitionFailsKeepsHdrs(t) ==
    LET m == cur[t] IN
    /\ pc[t] = "partition"
    /\ m \in at[New(t)]
    /\ at' = [at EXCEPT ![New(t)] = @ \ {m}]
    /\ CurrMsgsSub(m) /\ pc' = Woken([pc EXCEPT ![t] = "error"], m)
    /\ HeadersDestroy(m)
    /\ UNCHANGED <<fatal, term, repOpen, cur, again, anchored, rkmVars,
                   todo, accepted, reported, flush>>

(* The topic does not exist or is in error: the headers are taken back     *)
(* from the message, which is destroyed.                                   *)
PartitionFails(t) ==
    LET m == cur[t] IN
    /\ pc[t] = "partition"
    /\ m \in at[New(t)]
    /\ at' = [at EXCEPT ![New(t)] = @ \ {m}]
    /\ CurrMsgsSub(m) /\ pc' = Woken([pc EXCEPT ![t] = "error"], m)
    /\ rkmHdrs' = rkmHdrs \ {m}
    /\ opaque' = opaque \ {m} /\ noncopy' = noncopy \ {m}
    /\ UNCHANGED <<fatal, term, repOpen, cur, again, anchored, hdrs, bad,
                   todo, accepted, reported, flush>>

ReturnOkFreesAnchor(t) ==
    /\ pc[t] = "ok"
    /\ pc' = [pc EXCEPT ![t] = "idle"]
    /\ cur' = [cur EXCEPT ![t] = Nobody]
    /\ accepted' = accepted \cup {cur[t]}
    /\ anchored' = anchored \ {cur[t]}
    /\ UNCHANGED <<at, curr, fatal, term, repOpen, again, rkmVars,
                   hdrs, bad, todo, reported, flush>>

ReturnOk(t) ==
    /\ pc[t] = "ok"
    /\ pc' = [pc EXCEPT ![t] = "idle"]
    /\ cur' = [cur EXCEPT ![t] = Nobody]
    /\ accepted' = accepted \cup {cur[t]}
    /\ UNCHANGED <<at, curr, fatal, term, repOpen, again, anchored, rkmVars,
                   hdrs, bad, todo, reported, flush>>

(* The first attempt met QUEUE_FULL: its StablePtr is freed, and           *)
(* produceBytesBlocking pins the payload and makes another.                *)
ProduceBytesBlocking(t) ==
    /\ pc[t] = "full"
    /\ pc' = [pc EXCEPT ![t] = "check"]
    /\ again' = [again EXCEPT ![t] = TRUE]
    /\ anchored' = anchored \cup {cur[t]}
    /\ UNCHANGED <<at, curr, fatal, term, repOpen, cur, rkmVars, hdrs, bad,
                   todo, accepted, reported, flush>>

FinishWithErrorKeepsAnchor(t) ==
    /\ pc[t] = "error"
    /\ pc' = [pc EXCEPT ![t] = "idle"]
    /\ cur' = [cur EXCEPT ![t] = Nobody]
    /\ HeadersDestroy(cur[t])
    /\ UNCHANGED <<at, curr, fatal, term, repOpen, again, anchored, rkmVars, todo,
                   accepted, reported, flush>>

FinishWithErrorKeepsHdrs(t) ==
    /\ pc[t] = "error"
    /\ pc' = [pc EXCEPT ![t] = "idle"]
    /\ cur' = [cur EXCEPT ![t] = Nobody]
    /\ anchored' = anchored \ {cur[t]}
    /\ UNCHANGED <<at, curr, fatal, term, repOpen, again, rkmVars, hdrs, bad,
                   todo, accepted, reported, flush>>

(* Any other error: the StablePtr is freed, and finishWithError destroys   *)
(* the headers, which are the caller's again.                              *)
FinishWithError(t) ==
    /\ pc[t] = "error"
    /\ pc' = [pc EXCEPT ![t] = "idle"]
    /\ cur' = [cur EXCEPT ![t] = Nobody]
    /\ anchored' = anchored \ {cur[t]}
    /\ HeadersDestroy(cur[t])
    /\ UNCHANGED <<at, curr, fatal, term, repOpen, again, rkmVars, todo,
                   accepted, reported, flush>>

-----------------------------------------------------------------------------
(* The broker thread.  Its batches are runs of these one-message steps.    *)

hsUnchanged == UNCHANGED <<cur, again, anchored, rkmVars, todo, accepted>>

Serve(m) ==
    /\ Move(m, Msgq, Xmit)
    /\ UNCHANGED <<curr, fatal, term, repOpen, pc, hdrs, bad, reported, flush>>
    /\ hsUnchanged

ProduceRequest(m) ==
    /\ Move(m, Xmit, Inflight)
    /\ UNCHANGED <<curr, fatal, term, repOpen, pc, hdrs, bad, reported, flush>>
    /\ hsUnchanged

(* rd_kafka_handle_Produce: acknowledged, or failed for good; a request    *)
(* purged by termination fails with __DESTROY.                             *)
HandleProduce(m, err) ==
    /\ DrMsgq(m, Inflight, err)
    /\ UNCHANGED <<fatal, term, repOpen, reported, flush>>
    /\ hsUnchanged

RetryKeepsRequest(m) ==
    /\ m \in at[Inflight]
    /\ at' = [at EXCEPT ![Msgq] = @ \cup {m}]
    /\ UNCHANGED <<curr, fatal, term, repOpen, pc, hdrs, bad, reported, flush>>
    /\ hsUnchanged

(* A retriable error: rd_kafka_toppar_retry_msgq puts it on the queue.     *)
Retry(m) ==
    /\ Move(m, Inflight, Msgq)
    /\ UNCHANGED <<curr, fatal, term, repOpen, pc, hdrs, bad, reported, flush>>
    /\ hsUnchanged

(* message.timeout.ms expired on either of the partition's queues.         *)
MsgqScan(m) ==
    /\ \E x \in {Msgq, Xmit} : DrMsgq(m, x, TRUE)
    /\ UNCHANGED <<fatal, term, repOpen, reported, flush>>
    /\ hsUnchanged

(* PARTITION_LEAVE without a next broker, which is how every partition     *)
(* leaves when the client terminates: both queues are failed.              *)
PartitionLeave(m) ==
    /\ term # "up"
    /\ \E x \in {Msgq, Xmit} : DrMsgq(m, x, TRUE)
    /\ UNCHANGED <<fatal, term, repOpen, reported, flush>>
    /\ hsUnchanged

(* rd_kafka_set_fatal_error0 also sends OP_PURGE to the main thread, which *)
(* purges rktp_msgq and has each broker thread purge its rktp_xmit_msgq.   *)
Purge(m) ==
    /\ fatal
    /\ \E x \in {Msgq, Xmit} : DrMsgq(m, x, TRUE)
    /\ UNCHANGED <<fatal, term, repOpen, reported, flush>>
    /\ hsUnchanged

SetFatal ==
    /\ ~fatal /\ term = "up"
    /\ fatal' = TRUE
    /\ UNCHANGED <<at, curr, term, repOpen, pc, hdrs, bad, reported, flush>>
    /\ hsUnchanged

-----------------------------------------------------------------------------
(* rd_kafka_poll: the whole of rk_rep is moved to a local queue, then each *)
(* report is passed to the application's callback and destroyed.           *)

PollerIdle(p) == at[Local(p)] = {} /\ at[Called(p)] = {} /\ flush.by # p

QServe(p) == at' = [at EXCEPT ![Rep] = {}, ![Local(p)] = @ \cup at[Rep]]

Poll(p) ==
    /\ term = "up" /\ PollerIdle(p) /\ at[Rep] # {}
    /\ QServe(p)
    /\ UNCHANGED <<curr, fatal, term, repOpen, pc, hdrs, bad, reported, flush>>
    /\ hsUnchanged

(* dr_msg_cb, with the callback the documentation asks for: it hands the   *)
(* message's opaque to destroyMessageOpaque_ (which frees the StablePtr)   *)
(* or to destroyMessageOpaque (which only dereferences it).                *)
DrMsgCb(p, m) ==
    /\ at[Called(p)] = {}
    /\ Move(m, Local(p), Called(p))
    /\ reported' = reported \cup {m}
    /\ anchored' = IF m \in opaque /\ Dissolve = "destroyMessageOpaque_"
                   THEN anchored \ {m} ELSE anchored
    /\ bad' = IF m \in opaque \ anchored THEN bad \cup {"stale_stableptr"} ELSE bad
    /\ UNCHANGED <<curr, fatal, term, repOpen, pc, cur, again, rkmVars, hdrs,
                   todo, accepted, flush>>

DrDestroyRequeues(p, m) ==
    /\ Move(m, Called(p), Rep)
    /\ UNCHANGED <<curr, fatal, term, repOpen, pc, hdrs, bad, reported, flush>>
    /\ hsUnchanged

DrDestroy(p, m) ==
    /\ MsgDestroy(m, Called(p))
    /\ UNCHANGED <<fatal, term, repOpen, reported, flush>>
    /\ hsUnchanged

-----------------------------------------------------------------------------
(* rd_kafka_flush in callback mode: poll, read the length of rk_rep, then  *)
(* read the message count, each under its own lock, until both are zero or *)
(* the timeout strikes.                                                    *)

FlushCall(p) ==
    /\ term = "up" /\ flush.at = "idle" /\ PollerIdle(p)
    /\ flush' = [at |-> "poll", qlen |-> FALSE, pending |-> accepted, by |-> p]
    /\ UNCHANGED <<at, curr, fatal, term, repOpen, pc, hdrs, bad, reported>>
    /\ hsUnchanged

FlushPoll(p) ==
    /\ flush.at = "poll" /\ flush.by = p
    /\ QServe(p)
    /\ flush' = [flush EXCEPT !.at = "serve"]
    /\ UNCHANGED <<curr, fatal, term, repOpen, pc, hdrs, bad, reported>>
    /\ hsUnchanged

FlushQlen ==
    /\ flush.at = "serve"
    /\ at[Local(flush.by)] = {} /\ at[Called(flush.by)] = {}
    /\ flush' = [flush EXCEPT !.at = "cnt", !.qlen = at[Rep] # {}]
    /\ UNCHANGED <<at, curr, fatal, term, repOpen, pc, hdrs, bad, reported>>
    /\ hsUnchanged

FlushCntQueueOnly ==
    /\ flush.at = "cnt"
    /\ \E next \in IF ~flush.qlen THEN {"ok"} ELSE {"poll", "timed_out"} :
          flush' = [flush EXCEPT !.at = next]
    /\ UNCHANGED <<at, curr, fatal, term, repOpen, pc, hdrs, bad, reported>>
    /\ hsUnchanged

FlushCnt ==
    /\ flush.at = "cnt"
    /\ \E next \in IF ~flush.qlen /\ cnt = 0 THEN {"ok"} ELSE {"poll", "timed_out"} :
          flush' = [flush EXCEPT !.at = next]
    /\ UNCHANGED <<at, curr, fatal, term, repOpen, pc, hdrs, bad, reported>>
    /\ hsUnchanged

FlushReturn ==
    /\ flush.at \in {"ok", "timed_out"}
    /\ flush' = FlushIdle
    /\ UNCHANGED <<at, curr, fatal, term, repOpen, pc, hdrs, bad, reported>>
    /\ hsUnchanged

-----------------------------------------------------------------------------
(* rd_kafka_destroy, called when no application thread is in the client.   *)

Close ==
    /\ term = "up"
    /\ \A t \in Threads : pc[t] = "idle"
    /\ \A p \in Pollers : PollerIdle(p)
    /\ term' = "remove_topics"
    /\ UNCHANGED <<at, curr, fatal, repOpen, pc, hdrs, bad, reported, flush>>
    /\ hsUnchanged

(* rd_kafka_topic_partitions_remove purges rktp_msgq without reports.      *)
PartitionsRemove(m) ==
    /\ term = "remove_topics"
    /\ MsgDestroy(m, Msgq)
    /\ UNCHANGED <<fatal, term, repOpen, reported, flush>>
    /\ hsUnchanged

DisableRepForgotten ==
    /\ term = "remove_topics" /\ at[Msgq] = {}
    /\ term' = "purge_rep"
    /\ UNCHANGED <<at, curr, fatal, repOpen, pc, hdrs, bad, reported, flush>>
    /\ hsUnchanged

(* Then rk_rep is disabled, and purged of its reports.                     *)
DisableRep ==
    /\ term = "remove_topics" /\ at[Msgq] = {}
    /\ term' = "purge_rep" /\ repOpen' = FALSE
    /\ UNCHANGED <<at, curr, fatal, pc, hdrs, bad, reported, flush>>
    /\ hsUnchanged

PurgeRep(m) ==
    /\ term = "purge_rep"
    /\ MsgDestroy(m, Rep)
    /\ UNCHANGED <<fatal, term, repOpen, reported, flush>>
    /\ hsUnchanged

JoinBrokers ==
    /\ term = "purge_rep" /\ at[Rep] = {}
    /\ term' = "join_brokers"
    /\ UNCHANGED <<at, curr, fatal, repOpen, pc, hdrs, bad, reported, flush>>
    /\ hsUnchanged

(* A broker thread ends when it holds no request and no partition.         *)
Destroyed ==
    /\ term = "join_brokers"
    /\ at[Inflight] = {} /\ at[Msgq] = {} /\ at[Xmit] = {}
    /\ term' = "closed"
    /\ UNCHANGED <<at, curr, fatal, repOpen, pc, hdrs, bad, reported, flush>>
    /\ hsUnchanged

-----------------------------------------------------------------------------
BytesStep(t) ==
    \/ \E m \in Msgs : Bytes(t, m)
    \/ CheckProduce(t) \/ MsgNew(t) \/ CurrMsgsFull(t) \/ SpuriousWakeup(t)
    \/ Partition(t) \/ PartitionFails(t)
    \/ ReturnOk(t) \/ ProduceBytesBlocking(t) \/ FinishWithError(t)

BrokerStep(m) ==
    \/ Serve(m) \/ ProduceRequest(m) \/ Retry(m)
    \/ \E err \in BOOLEAN : HandleProduce(m, err)
    \/ MsgqScan(m) \/ PartitionLeave(m) \/ Purge(m)

PollStep(p) ==
    \/ Poll(p)
    \/ \E m \in Msgs : DrMsgCb(p, m) \/ DrDestroy(p, m)

FlushStep == (\E p \in Pollers : FlushPoll(p)) \/ FlushQlen \/ FlushCnt \/ FlushReturn

CloseStep ==
    \/ Close \/ DisableRep \/ JoinBrokers \/ Destroyed
    \/ \E m \in Msgs : PartitionsRemove(m) \/ PurgeRep(m)

Next ==
    \/ \E t \in Threads : BytesStep(t)
    \/ \E m \in Msgs : BrokerStep(m)
    \/ \E p \in Pollers : PollStep(p) \/ FlushCall(p)
    \/ FlushStep \/ CloseStep \/ SetFatal

Spec == Init /\ [][Next]_vars

(* Fairness: the OS runs every thread (a Haskell thread inside `bytes', a  *)
(* broker thread, the main thread in rd_kafka_destroy); the application    *)
(* keeps polling, as librdkafka requires; a request is answered or timed   *)
(* out; message.timeout.ms ends the cycle of retries, so a message that is *)
(* again and again on a queue is eventually timed out.                     *)
Fairness ==
    /\ \A t \in Threads :
          WF_vars(\/ CheckProduce(t) \/ MsgNew(t) \/ CurrMsgsFull(t)
                  \/ Partition(t) \/ PartitionFails(t) \/ ReturnOk(t)
                  \/ ProduceBytesBlocking(t) \/ FinishWithError(t))
    /\ \A m \in Msgs :
          /\ WF_vars(Serve(m)) /\ WF_vars(ProduceRequest(m))
          /\ WF_vars(Retry(m) \/ \E err \in BOOLEAN : HandleProduce(m, err))
          /\ SF_vars(MsgqScan(m))
          /\ WF_vars(PartitionLeave(m))
    /\ \A p \in Pollers : WF_vars(PollStep(p))
    /\ WF_vars(FlushStep)
    /\ WF_vars(DisableRep \/ JoinBrokers \/ Destroyed
                 \/ \E m \in Msgs : PartitionsRemove(m) \/ PurgeRep(m))

FairSpec == Spec /\ Fairness

-----------------------------------------------------------------------------
Shapes ==
    /\ at \in [Places -> SUBSET Msgs]
    /\ cnt \in Int /\ size \in Int
    /\ fatal \in BOOLEAN /\ repOpen \in BOOLEAN
    /\ term \in {"up", "remove_topics", "purge_rep", "join_brokers", "closed"}
    /\ pc \in [Threads -> {"idle", "check", "add", "wait", "partition", "ok",
                           "full", "error"}]
    /\ cur \in [Threads -> Msgs \cup {Nobody}]
    /\ again \in [Threads -> BOOLEAN]
    /\ anchored \subseteq Msgs /\ opaque \subseteq Msgs
    /\ noncopy \subseteq Msgs /\ rkmHdrs \subseteq Msgs
    /\ hdrs \in [Msgs -> {"null", "live", "freed"}]
    /\ bad \subseteq {"null_headers", "headers_freed_twice", "stale_stableptr"}
    /\ todo \subseteq Msgs /\ accepted \subseteq Msgs /\ reported \subseteq Msgs
    /\ flush \in [at : {"idle", "poll", "serve", "cnt", "ok", "timed_out"},
                  qlen : BOOLEAN, pending : SUBSET Msgs,
                  by : Pollers \cup {Nobody}]

(* The variables' types; that cnt is a natural number is the assertion of  *)
(* rd_kafka_curr_msgs_sub, that no more is given back than was taken.      *)
TypeOK == Shapes /\ cnt \in Nat

(* A message is in one place at a time: no queue, request, report or local *)
(* queue shares an rd_kafka_msg_t with another, so none is freed twice.    *)
Exclusive == \A x, y \in Places : x # y => at[x] \cap at[y] = {}

(* rk_curr_msgs.cnt is the number of messages that exist, at every moment  *)
(* of every path that makes, fails, reports, purges or drops one, and      *)
(* never exceeds queue.buffering.max.messages: rd_kafka_curr_msgs_sub's    *)
(* assertion cannot fail and a blocked producer's space is never lost.     *)
CountExact == cnt = Cardinality(Live) /\ cnt <= MaxCnt

(* A payload librdkafka may still read, because it did not copy it, is     *)
(* kept from the garbage collector by a live StablePtr, from before the    *)
(* push until the delivery callback has the message.                       *)
PayloadAnchored ==
    \A m \in noncopy, x \in Places :
        (m \in at[x] /\ x \notin {Called(p) : p \in Pollers}) => m \in anchored

(* No StablePtr is dereferenced or freed after it was freed, and no        *)
(* headers are destroyed twice: bytes and librdkafka never both believe    *)
(* they own them.                                                          *)
NoDoubleFree == bad \cap {"headers_freed_twice", "stale_stableptr"} = {}

(* A message that no thread holds and that is not in librdkafka.           *)
Finished(m) == m \notin todo /\ m \notin Live /\ \A t \in Threads : cur[t] # m

(* "This always frees the headers regardless of whether production is      *)
(* successful or unsuccessful" (bytes): once a message is finished with,   *)
(* its headers are freed, also when the client was closed under it.        *)
HeadersFreed == \A m \in WithHdrs : Finished(m) => hdrs[m] = "freed"

(* Until the client is closed, a finished message leaves no StablePtr      *)
(* behind: every attempt's anchor is freed by the error path or by the     *)
(* delivery callback, the second attempt's too.                            *)
NoAnchorLeak == term = "up" => \A m \in Msgs : Finished(m) => m \notin anchored

(* A delivery report is made for a message whose produce call succeeds,    *)
(* never for one whose call fails, and a reported message is never queued, *)
(* sent or reported again.                                                 *)
ReportOnce ==
    /\ \A m \in reported :
          \A x \in Places : m \in at[x] => x \in {Called(p) : p \in Pollers}
    /\ \A m \in reported : m \in accepted \/ \E t \in Threads :
                                               cur[t] = m /\ pc[t] = "ok"

(* When rd_kafka_flush returns NO_ERROR, every message whose produce call  *)
(* had returned before flush was called has been passed to the delivery    *)
(* callback, and by then destroyed, whichever poller took it from rk_rep.  *)
FlushDelivers ==
    flush.at = "ok" => flush.pending \subseteq reported /\ flush.pending \cap Live = {}

(* When rd_kafka_destroy returns, nothing is left: no message, no          *)
(* accounted space, and no report stranded on the disabled rk_rep.         *)
ClosedClean == term = "closed" => Live = {} /\ cnt = 0 /\ size = 0

(* A thread asleep in rd_kafka_curr_msgs_add is one whose message does not *)
(* fit: "the function either blocks until enough space is available".      *)
SleeperDoesNotFit == \A t \in Threads : pc[t] = "wait" => ~Fits(cur[t])

(* "Blocks until any in-flight messages have had callbacks called" (close). *)
CloseReports == term = "closed" => accepted \subseteq reported

(* No headers are freed that were never allocated: "it is common to set    *)
(* ... headers to nullPtr" (bytes).                                        *)
NullHeadersAllowed == "null_headers" \notin bad

(* A producer blocked on a full queue returns from `bytes'.                *)
BlockedReturns == \A t \in Threads : (pc[t] = "wait") ~> (pc[t] = "idle")

(* Every accepted message is reported, unless the client is closed first.  *)
AcceptedReported ==
    \A m \in Msgs : (m \in accepted) ~> (m \in reported \/ term # "up")

(* A close completes.                                                      *)
CloseCompletes == (term # "up") ~> (term = "closed")

(* Nobody waits for ever: blocked producers return, accepted messages are  *)
(* reported and a close ends (rd_kafka_curr_msgs_sub(), rd_kafka_poll(),   *)
(* rd_kafka_destroy()).                                                    *)
Progress == BlockedReturns /\ AcceptedReported /\ CloseCompletes
=============================================================================
