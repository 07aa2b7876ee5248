------------------------------ MODULE Fetcher -------------------------------
(***************************************************************************)
(* The consumer's side of one partition: starting, stopping, seeking and   *)
(* pausing it (hs_rdkafka_partition.c, hs_rdkafka_offset.c), looking up    *)
(* logical offsets, fetching by the broker thread (hs_rdkafka_broker.c,    *)
(* hs_rdkafka_msgset_reader.c) and the application's poll                  *)
(* (hs_rdkafka.c, hs_rdkafka_queue.c, hs_rdkafka_op.c).                    *)
(*                                                                         *)
(* Three parties work on the partition: the application and the group      *)
(* (API calls take a version and enqueue an op), the main thread (ops),    *)
(* and the threads of the brokers (fetching). External: the log.           *)
(***************************************************************************)
EXTENDS MsgSetReader, TLC

CONSTANTS
    Brokers,    \* the broker threads, set of model values
    None,       \* no broker, no request, no op: a model value
    Logs,       \* the logs to consume
    AutoReset,  \* auto.offset.reset: BEGINNING, END or INVALID (error)
    Starts,     \* offsets to start at, logical ones included
    Seeks,      \* offsets to seek to
    Calls,      \* the API calls made besides the start (see CallKinds)
    Flags,      \* who pauses: the application ("app"), the group ("lib")
    QueuedMin,  \* queued.min.messages
    MaxLookups, \* bound on the lookups outstanding at once
    Faults,     \* what may go wrong (see FaultKinds)
    MaxEvents   \* bound on calls and faults altogether

BEGINNING == -2
END == -1
INVALID == -1001
TAIL_BASE == -2000

CallKinds == {"stop", "seek", "pause", "resume"}
FaultKinds == {"migrate", "disconnect", "error", "lookup", "retention"}
IsLogical(o) == o < 0

ASSUME FetcherAssumption ==
    /\ None \notin Brokers /\ Brokers # {}
    /\ AutoReset \in {BEGINNING, END, INVALID}
    /\ Starts \cup Seeks \subseteq Int /\ Calls \subseteq CallKinds
    /\ {QueuedMin, MaxLookups, MaxEvents} \subseteq Nat
    /\ Faults \subseteq FaultKinds /\ Flags \subseteq {"app", "lib"}

VARIABLES
    t,      \* the toppar: its fields, queues and outstanding lookups
    reqs,   \* the outstanding FetchRequest of each broker
    popped, \* a message out of the queue and not yet with the application
    started,\* what the group believes: started, or its stop unanswered
    log,    \* the log: its batches, first offset and end
    due,    \* where the application may expect to continue (ghost)
    last,   \* the last message delivered, and what was due (ghost)
    events

vars == <<t, reqs, popped, started, log, due, last, events>>

Event == events < MaxEvents /\ events' = events + 1
Fault(k) == k \in Faults /\ Event

-----------------------------------------------------------------------------
(* Queues. An op without a version (0) is never outdated; a barrier does   *)
(* not name the partition.                                                 *)

Msg(ver, o) == [type |-> "msg", ver |-> ver, off |-> o.off, ctrl |-> o.ctrl]
Barrier(ver) == [type |-> "barrier", ver |-> ver, off |-> 0, ctrl |-> FALSE]
Err == [type |-> "err", ver |-> 0, off |-> 0, ctrl |-> FALSE]

Outdated(ver, now) == ver # 0 /\ ver < now

(* rktp_fetchq is forwarded to the application's queue while started.      *)
Enq(x, ops) == IF x.fwd THEN [x EXCEPT !.q = @ \o ops]
               ELSE [x EXCEPT !.own = @ \o ops]

HeadRun(q, ver) ==
    CHOOSE n \in 0..Len(q) :
       /\ \A i \in 1..n : q[i].type # "barrier" /\ q[i].ver < ver
       /\ n < Len(q) => ~(q[n + 1].type # "barrier" /\ q[n + 1].ver < ver)

PurgeVersion(x, ver) ==
    IF x.fwd THEN [x EXCEPT !.q = SubSeq(@, HeadRun(@, ver) + 1, Len(@))]
    ELSE [x EXCEPT !.own = SubSeq(@, HeadRun(@, ver) + 1, Len(@))]

OpVersionBump(x, ver) == Enq([x EXCEPT !.op_version = ver], <<Barrier(ver)>>)

-----------------------------------------------------------------------------
(* Where to fetch from.                                                    *)

OffsetRetry(x) == [x EXCEPT !.state = "OFFSET_QUERY", !.timer = TRUE]

OffsetRequest(x, backoff) ==
    IF backoff \/ x.broker = None THEN OffsetRetry(x)
    ELSE [x EXCEPT !.timer = FALSE, !.state = "OFFSET_WAIT",
                   !.lookups = Append(@, [ver |-> x.op_version,
                                          query |-> x.query,
                                          broker |-> x.broker])]

(* rd_kafka_toppar_next_offset_handle() of an absolute offset.             *)
NextOffsetAbs(x, o) ==
    LET tail == TAIL_BASE - x.query
        off == IF x.query > TAIL_BASE THEN o
               ELSE IF tail > o THEN 0 ELSE o - tail
    IN  [x EXCEPT !.next = off, !.state = "ACTIVE"]

OffsetReset(x, errOffset, err) ==
    LET o == IF errOffset = INVALID \/ err THEN AutoReset ELSE errOffset
    IN  CASE o = INVALID -> [Enq(x, <<Err>>) EXCEPT !.state = "NONE"]
          [] o = BEGINNING /\ x.lo >= 0 -> NextOffsetAbs(x, x.lo)
          [] OTHER -> OffsetRequest([x EXCEPT !.query = o], err)

NextOffsetHandle(x, o) ==
    IF IsLogical(o) THEN OffsetReset([x EXCEPT !.next = o], o, FALSE)
    ELSE NextOffsetAbs(x, o)

(* rd_kafka_toppar_handle_Offset().                                        *)
(* Mutant: an outdated answer is just dropped. *)
HandleOffsetDrops(x, op) ==
    CASE x.broker # op.broker \/ Outdated(op.ver, x.op_version) -> x
      [] OTHER -> IF op.err = "none" THEN NextOffsetHandle(x, op.off)
                  ELSE OffsetRetry(x)

HandleOffset(x, op) ==
    CASE x.broker # op.broker \/ Outdated(op.ver, x.op_version)
             -> OffsetRetry(x)
      [] op.err = "permanent"
             -> Enq(OffsetReset(x, x.query, TRUE), <<Err>>)
      [] op.err = "retry" -> OffsetRetry(x)
      [] OTHER -> NextOffsetHandle(x, op.off)

-----------------------------------------------------------------------------
(* The ops of rktp_ops.                                                    *)

FetchStart(x, op) ==
    LET y == [OpVersionBump(x, op.ver) EXCEPT !.cgrp = TRUE,
                                              !.assert = @ /\ ~x.cgrp]
    IN  CASE op.off = INVALID -> OffsetReset(y, op.off, TRUE)
          [] IsLogical(op.off) /\ op.off # INVALID
                 -> NextOffsetHandle(y, op.off)
          [] OTHER -> [y EXCEPT !.next = op.off, !.state = "ACTIVE"]

FetchStopped(x) ==
    [x EXCEPT !.state = "STOPPED", !.app = INVALID, !.cgrp = FALSE]

FetchStop(x, op) ==
    LET y == OpVersionBump(x, op.ver)
    IN  FetchStopped([y EXCEPT !.timer = @ /\ x.state # "OFFSET_QUERY",
                               !.fwd = FALSE])

IsStarted(x) == x.state \in {"OFFSET_QUERY", "OFFSET_WAIT", "ACTIVE"}

Seek(x, op) ==
    IF ~IsStarted(x) THEN x
    ELSE LET y == [OpVersionBump(x, op.ver) EXCEPT
                     !.app = INVALID, !.timer = @ /\ x.state # "OFFSET_QUERY"]
         IN  IF IsLogical(op.off) THEN NextOffsetHandle(y, op.off)
             ELSE [y EXCEPT !.next = op.off, !.state = "ACTIVE"]

(* Mutant: the position of the application is not saved. *)
PauseForgets(x, op) ==
    PurgeVersion([OpVersionBump(x, op.ver) EXCEPT !.paused = @ \cup {op.flag}],
                 op.ver)

Pause(x, op) ==
    LET y == OpVersionBump(x, op.ver)
    IN  PurgeVersion([y EXCEPT !.paused = @ \cup {op.flag},
                               !.next = IF x.app # INVALID THEN x.app ELSE @],
                     op.ver)

Resume(x, op) ==
    LET y == OpVersionBump(x, op.ver)
        z == [y EXCEPT !.paused = @ \ {op.flag}]
    IN  CASE op.flag \notin x.paused -> y
          [] /\ op.flag \in x.paused /\ z.paused = {} /\ z.next = INVALID
             /\ z.state \in {"ACTIVE", "OFFSET_WAIT"}
                 -> NextOffsetHandle(z, INVALID)
          [] OTHER -> z

(* rd_kafka_toppar_op_serve(): an outdated op is answered and dropped. The *)
(* answer to a lookup checks its version itself, a reset has none.         *)
OpServe(x, op) ==
    CASE op.type = "offset" -> HandleOffset(x, op)
      [] op.type = "reset" -> OffsetReset(x, op.off, TRUE)
      [] op.type \notin {"offset", "reset"} /\ Outdated(op.ver, x.op_version)
             -> x
      [] OTHER ->
           CASE op.type = "start" -> FetchStart(x, op)
             [] op.type = "stop" -> FetchStop(x, op)
             [] op.type = "seek" -> Seek(x, op)
             [] op.type = "pause" -> Pause(x, op)
             [] op.type = "resume" -> Resume(x, op)

-----------------------------------------------------------------------------
(* Where a consumer may continue after a start or a seek to o (ghost). A   *)
(* call, a timer or an answer that overtakes another one leaves that open: *)
(* Anywhere. Before a start and after a stop nothing is due.                    *)

Stable(l) == LastStable(l.recs, l.end)
From(o, l) ==
    CASE o >= 0 -> {o}
      [] o = BEGINNING -> {l.start} \cup ({t.lo} \cap Nat)
      [] o = END -> Stable(l)..Len(l.recs)
      [] o = INVALID -> {}
      [] OTHER -> {IF e > TAIL_BASE - o THEN e - (TAIL_BASE - o) ELSE 0 :
                     e \in Stable(l)..Len(l.recs)}
Reset(S, l) == IF S \subseteq l.start..l.end THEN S
               ELSE S \cup From(AutoReset, l) \cup {l.start}
DueAt(o) == Reset(From(IF o = INVALID THEN AutoReset ELSE o, log), log)
Anywhere == IF due = {} THEN {} ELSE {-1}

NextVisible(o) ==
    LET S == {p \in o..(Len(log.recs) - 1) : Committed(log.recs, p)}
    IN  IF S = {} THEN Len(log.recs) ELSE Min(S)

(* Nothing of the partition is under way in another thread.                *)
Quiet == t.ops = <<>> /\ t.lookups = <<>> /\ ~t.timer /\ popped = <<>>
Unless(calm) == due' = IF calm THEN due ELSE Anywhere

-----------------------------------------------------------------------------
(* The application's and the group's calls: take a version, enqueue an op. *)

Op(type, off, flag) ==
    [type |-> type, ver |-> 0, off |-> off, flag |-> flag, broker |-> None,
     err |-> "none"]

EnqOp(x, op) == [x EXCEPT !.ops = Append(@, op)]
VersionNew(x) == [x EXCEPT !.version = @ + 1]
Call(x, op) == EnqOp(VersionNew(x), [op EXCEPT !.ver = x.version + 1])

May(k) == /\ k \in Calls /\ Event
          /\ Unless(Quiet) /\ UNCHANGED <<reqs, popped, log, last>>

Make(ops) == t' = FoldLeft(Call, t, ops)

(* The group starts and stops the partition by turns; a stop also lifts    *)
(* the library's pause.                                                    *)
OpFetchStart ==
    /\ started = "no" /\ Event
    /\ started' = "yes"
    /\ \E o \in Starts :
         LET x == Call(t, Op("resume", 0, "lib"))
             y == [x EXCEPT !.fwd = TRUE, !.q = @ \o t.own, !.own = <<>>]
         IN  t' = Call(y, Op("start", o, ""))
    /\ UNCHANGED <<reqs, popped, log, due, last>>

OpFetchStop ==
    /\ started = "yes" /\ May("stop")
    /\ started' = "stopping"
    /\ Make(<<Op("stop", 0, ""), Op("resume", 0, "lib")>>)

OpSeek ==
    /\ May("seek")
    /\ \E o \in Seeks : Make(<<Op("seek", o, "")>>)
    /\ UNCHANGED started

(* By the application, or by rd_kafka_assignment_pause() and _resume() of  *)
(* a started partition.                                                    *)
OpPause ==
    /\ May("pause")
    /\ \E f \in Flags : /\ f = "lib" => started = "yes" /\ f \notin t.paused
                       /\ Make(<<Op("pause", 0, f)>>)
    /\ UNCHANGED started

OpResume ==
    /\ May("resume")
    /\ \E f \in Flags : /\ f = "lib" => started = "yes" /\ f \in t.paused
                       /\ Make(<<Op("resume", 0, f)>>)
    /\ UNCHANGED started

-----------------------------------------------------------------------------
(* The main thread.                                                        *)

Applies(op) ==
    /\ op.type \in {"start", "seek"} /\ ~Outdated(op.ver, t.op_version)
    /\ op.type = "seek" => IsStarted(t)

(* A resume of what is not paused fetches again from the last start, seek  *)
(* or pause; an offset leaves the timer that will look it up again.        *)
Disturbs(op) ==
    \/ op.type = "offset" /\ t.timer
    \/ op.type = "resume" /\ op.flag \notin t.paused

ServeOp ==
    /\ t.ops # <<>>
    /\ LET op == Head(t.ops)
           calm == /\ Len(t.ops) = 1 /\ t.lookups = <<>> /\ popped = <<>>
                   /\ Applies(op) => ~t.timer
       IN  /\ t' = OpServe([t EXCEPT !.ops = Tail(@)], op)
           /\ started' = IF op.type = "stop" THEN "no" ELSE started
           /\ due' = CASE Applies(op) -> IF calm THEN DueAt(op.off)
                                        ELSE {-1}
                       [] op.type = "stop" /\ popped = <<>> -> {}
                       [] ~Applies(op) /\ op.type # "stop" /\ calm
                            /\ ~Disturbs(op) -> due
                       [] OTHER -> Anywhere
    /\ UNCHANGED <<reqs, popped, log, last, events>>

(* rd_kafka_offset_query_tmr_cb().                                         *)
QueryTimer ==
    /\ t.timer /\ Len(t.lookups) < MaxLookups
    /\ t' = OffsetRequest([t EXCEPT !.timer = FALSE], FALSE)
    /\ Unless(t.lookups = <<>>)
    /\ UNCHANGED <<reqs, popped, started, log, last, events>>

(* A metadata response moves the partition to another broker.              *)
BrokerMigrate(x, b) ==
    [IF x.next_broker = None /\ x.state = "OFFSET_WAIT" THEN OffsetRetry(x)
     ELSE x EXCEPT !.next_broker = b]
Migrate ==
    /\ Fault("migrate")
    /\ \E b \in Brokers \ {t.broker} : t' = BrokerMigrate(t, b)
    /\ UNCHANGED <<reqs, popped, started, log, due, last>>

-----------------------------------------------------------------------------
(* The broker threads.                                                     *)

Leave ==
    /\ t.next_broker # None /\ t.broker # None
    /\ t' = [t EXCEPT !.broker = None, !.fetching = FALSE]
    /\ UNCHANGED <<reqs, popped, started, log, due, last, events>>

Join ==
    /\ t.next_broker # None /\ t.broker = None
    /\ t' = [t EXCEPT !.broker = t.next_broker, !.next_broker = None]
    /\ UNCHANGED <<reqs, popped, started, log, due, last, events>>

(* rd_kafka_toppar_fetch_decide().                                         *)
UpdateFetchPos(x) ==
    IF \/ x.op_version > x.fetch_version \/ x.next # x.last_next
       \/ x.fetch = INVALID
    THEN PurgeVersion([x EXCEPT !.fetch = x.next, !.last_next = x.next,
                                !.fetch_version = x.op_version], x.op_version)
    ELSE x

FetchDecide(x) ==
    IF x.state # "ACTIVE" THEN [x EXCEPT !.fetching = FALSE]
    ELSE LET y == UpdateFetchPos(x)
         IN  [y EXCEPT !.fetching =
                /\ y.paused = {} /\ ~IsLogical(y.next) /\ ~y.backoff
                /\ Len(IF y.fwd THEN y.q ELSE y.own) < QueuedMin]

(* rd_kafka_broker_consumer_serve(): decide, then send a request.          *)
FetchToppars(x) == [off |-> x.fetch, ver |-> x.fetch_version]
ConsumerServe(b) ==
    /\ t.broker = b
    /\ LET x == FetchDecide(t)
       IN  /\ t' = x
           /\ reqs' = IF x.fetching /\ reqs[b] = None
                      THEN [reqs EXCEPT ![b] = FetchToppars(x)] ELSE reqs
    /\ <<t, reqs>>' # <<t, reqs>>
    /\ UNCHANGED <<popped, started, log, due, last, events>>

(* A message set of up to two records; its first batch may begin before    *)
(* the offset that was asked for.                                          *)
Parse(x, r, from) ==
    LET to == Min({from + 2, Stable(log)})
        m == Read(log.recs, log.end, r.off, from, to, x.fetch)
    IN  [Enq(x, [i \in 1..Len(m.ops) |-> Msg(r.ver, m.ops[i])])
            EXCEPT !.fetch = NextFetch(m, x.fetch)]

OffsetOutOfRange(x) ==
    EnqOp([x EXCEPT !.fetch = INVALID, !.lo = -1, !.backoff = TRUE],
          Op("reset", x.fetch, ""))

(* rd_kafka_fetch_reply_handle().                                          *)
Stale(b, r) == t.broker # b \/ r.ver < t.fetch_version
FetchReply(b) ==
    /\ reqs[b] # None
    /\ LET r == reqs[b]
           ok == r.off \in log.start..log.end
       IN  /\ r.off < Stable(log) \/ ~ok
           /\ CASE Stale(b, r) -> t' = [t EXCEPT !.lo = IF ok THEN log.start
                                                        ELSE -1]
                [] ~Stale(b, r) /\ ~ok -> t' = OffsetOutOfRange(t)
                [] OTHER -> \E from \in {r.off, r.off - 1} \cap
                                        (log.start..log.end) :
                              t' = [Parse(t, r, from) EXCEPT !.lo = log.start]
           (* a reset has no version: it overrides a call under way *)
           /\ Unless(Stale(b, r) \/ ok \/ r.ver = t.version)
    /\ reqs' = [reqs EXCEPT ![b] = None]
    /\ UNCHANGED <<popped, started, log, last, events>>

(* The request waits at the broker for more data.                          *)
FetchWait(b) ==
    /\ reqs[b] # None /\ reqs[b].off \in log.start..log.end
    /\ reqs[b].off >= Stable(log)
    /\ reqs' = [reqs EXCEPT ![b] = None]
    /\ t' = [t EXCEPT !.lo = log.start]
    /\ UNCHANGED <<popped, started, log, due, last, events>>

(* The connection fails, or the reply is an error other than an offset     *)
(* out of range: the request is sent again later.                          *)
FetchFails(b) ==
    /\ (Fault("disconnect") \/ Fault("error"))
    /\ reqs[b] # None /\ reqs' = [reqs EXCEPT ![b] = None]
    /\ t' = [t EXCEPT !.backoff = ~Stale(b, reqs[b])]
    /\ UNCHANGED <<popped, started, log, due, last>>

(* fetch.error.backoff.ms, long enough for the reset to be served.         *)
BackoffExpires ==
    /\ t.backoff /\ ~\E i \in 1..Len(t.ops) : t.ops[i].type = "reset"
    /\ t' = [t EXCEPT !.backoff = FALSE]
    /\ UNCHANGED <<reqs, popped, started, log, due, last, events>>

(* A ListOffsets response, or its failure, reaches rktp_ops.               *)
LookupReply ==
    /\ \E i \in 1..Len(t.lookups) :
         LET l == t.lookups[i]
             off == IF l.query = BEGINNING THEN log.start ELSE Stable(log)
         IN  \E e \in {"none", "retry", "permanent"} :
               /\ \/ e = "none" /\ UNCHANGED events
                  \/ e = "retry" /\ (Fault("lookup") \/ Fault("disconnect"))
                  \/ e = "permanent" /\ Fault("lookup")
               /\ t' = EnqOp([t EXCEPT !.lookups = RemoveAt(@, i)],
                             [type |-> "offset", ver |-> l.ver, off |-> off,
                              flag |-> "", broker |-> l.broker, err |-> e])
               /\ due' = IF e = "permanent" THEN due \cup From(AutoReset, log)
                         ELSE due
    /\ UNCHANGED <<reqs, popped, started, log, last>>

-----------------------------------------------------------------------------
(* The application polls.                                                  *)

AppPrepare(x, m) == [x EXCEPT !.app = m.off + 1]

Deliver(m) ==
    /\ last' = [off |-> m.off, due |-> due]
    /\ due' = IF -1 \in due \/ Outdated(m.ver, t.version) THEN Anywhere
               ELSE {m.off + 1}

(* rd_kafka_consume0() takes the first message that is not outdated; it    *)
(* serves control messages itself.                                         *)
Valid(m) == m.type = "msg" /\ ~Outdated(m.ver, t.version)
Consume ==
    /\ popped = <<>> /\ t.q # <<>>
    /\ LET n == SelectInSeq(t.q, Valid)
           x == [t EXCEPT !.q = IF n = 0 THEN <<>>
                                ELSE SubSeq(@, n + 1, Len(@))]
       IN  /\ t' = IF n # 0 /\ t.q[n].ctrl THEN AppPrepare(x, t.q[n]) ELSE x
           /\ popped' = IF n # 0 /\ ~t.q[n].ctrl THEN <<t.q[n]>> ELSE <<>>
    /\ UNCHANGED <<reqs, started, log, due, last, events>>

(* ... and then stores its offset and returns it.                          *)
Prepared ==
    /\ popped # <<>> /\ popped' = <<>>
    /\ t' = AppPrepare(t, Head(popped)) /\ Deliver(Head(popped))
    /\ UNCHANGED <<reqs, started, log, events>>

-----------------------------------------------------------------------------
(* The log.                                                                *)

Produce ==
    /\ log.end < Len(log.recs) /\ log' = [log EXCEPT !.end = @ + 1]
    /\ UNCHANGED <<t, reqs, popped, started, due, last, events>>

Retention ==
    /\ Fault("retention") /\ log.start < Stable(log)
    /\ log' = [log EXCEPT !.start = @ + 1]
    /\ due' = Reset(due, log')
    /\ UNCHANGED <<t, reqs, popped, started, last>>

Toppar(b) ==
    [version |-> 1, op_version |-> 1, fetch_version |-> 0, state |-> "NONE",
     next |-> INVALID, last_next |-> INVALID, app |-> INVALID,
     fetch |-> INVALID, query |-> INVALID, lo |-> INVALID, paused |-> {},
     cgrp |-> FALSE, assert |-> TRUE, broker |-> b, next_broker |-> None,
     fetching |-> FALSE, fwd |-> FALSE, q |-> <<>>, own |-> <<>>, ops |-> <<>>,
     timer |-> FALSE, lookups |-> <<>>, backoff |-> FALSE]

Init ==
    /\ t = Toppar(CHOOSE b \in Brokers : TRUE)
    /\ \E l \in Logs : \E e \in {Len(l) - 1, Len(l)} :
         log = [recs |-> l, start |-> 0, end |-> e]
    /\ reqs = [b \in Brokers |-> None] /\ popped = <<>>
    /\ started = "no" /\ due = {} /\ last = [off |-> -1, due |-> {}]
    /\ events = 0

Next ==
    \/ OpFetchStart \/ OpFetchStop \/ OpSeek \/ OpPause \/ OpResume
    \/ ServeOp \/ QueryTimer \/ Migrate \/ Leave \/ Join
    \/ \E b \in Brokers : \/ ConsumerServe(b) \/ FetchReply(b)
                          \/ FetchWait(b) \/ FetchFails(b)
    \/ BackoffExpires \/ LookupReply \/ Consume \/ Prepared
    \/ Produce \/ Retention

Spec == Init /\ [][Next]_vars

(* The main thread, the broker threads and the timers run, brokers answer, *)
(* and the application polls; nobody has to call or to produce. Weak       *)
(* fairness, with the enabling condition of each action written out.       *)
Serves(b) ==
    LET x == FetchDecide(t)
    IN  t.broker = b /\ (x # t \/ (x.fetching /\ reqs[b] = None))
Fairness ==
    /\ []<>(t.ops = <<>>) \/ []<><<ServeOp>>_vars
    /\ []<>~(t.timer /\ Len(t.lookups) < MaxLookups)
         \/ []<><<QueryTimer>>_vars
    /\ []<>(t.lookups = <<>>) \/ []<><<LookupReply>>_vars
    /\ []<>(t.next_broker = None) \/ []<><<Leave \/ Join>>_vars
    /\ []<>~t.backoff \/ []<><<BackoffExpires>>_vars
    /\ \A b \in Brokers :
         /\ []<>~Serves(b) \/ []<><<ConsumerServe(b)>>_vars
         /\ []<>(reqs[b] = None) \/ []<><<FetchReply(b) \/ FetchWait(b)>>_vars
    /\ []<>(t.q = <<>> \/ popped # <<>>) \/ []<><<Consume>>_vars
    /\ []<>(popped = <<>>) \/ []<><<Prepared>>_vars
LiveSpec == Spec /\ Fairness

-----------------------------------------------------------------------------
(* Properties.                                                             *)

(* What the application gets is committed, and it is the next visible      *)
(* record after the one before, or after where it started or sought: none  *)
(* twice, none missed, none out of order, none after a stop, across        *)
(* pauses, migrations, errors, late and outdated responses and retention.  *)
(* Excepted are messages after a call, or a lookup, that met another one   *)
(* under way (`due` holds -1), until the next start or seek.               *)
InOrder ==
    last.off >= 0 =>
      /\ Committed(log.recs, last.off)
      /\ \E d \in last.due : d = -1 \/ last.off = NextVisible(d)

(* assert(!rktp->rktp_cgrp) in rd_kafka_toppar_fetch_start(): the group    *)
(* never starts a partition that is not fully stopped.                     *)
AssertsHold == t.assert

(* queued.min.messages: a partition's queue exceeds it by what its         *)
(* outstanding requests bring in at most.                                  *)
QueueBounded ==
    Len(SelectSeq(t.q \o t.own, LAMBDA m : m.type = "msg"))
      <= QueuedMin - 1 + 2 * Cardinality(Brokers)

(* A partition that stays started and unpaused is consumed to the end of   *)
(* what the broker lets it read, whatever happened before: no lookup, no   *)
(* backoff and no outdated response leaves it without a fetch.             *)
Running == started = "yes" /\ t.paused = {} /\ t.state # "NONE"
Drained ==
    /\ t.state = "ACTIVE" /\ t.fetch >= Stable(log) /\ popped = <<>>
    /\ ~\E i \in 1..Len(t.q) : Valid(t.q[i])
Consumes == []<>~Running \/ <>[]Drained

(* What is delivered is in order, complete and committed, no more of it    *)
(* waits than may, and a partition starts when it is stopped               *)
(* (rd_kafka_toppar_fetch_start(), rd_kafka_toppar_fetch_decide()).        *)
Delivered == InOrder /\ AssertsHold /\ QueueBounded
=============================================================================
