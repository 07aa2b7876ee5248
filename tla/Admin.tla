------------------------------- MODULE Admin -------------------------------
(***************************************************************************)
(* Admin requests (hs_rdkafka_admin.c) and the enqueue-once object they    *)
(* are built on (rd_kafka_enq_once_t).  A call makes a request op, or a    *)
(* fan-out op with a request op for each part.  The main thread works on a *)
(* request: it starts its timeout, waits for its broker or coordinator,    *)
(* sends it and parses the response.  Timer, broker state changes,         *)
(* metadata changes, responses and coordinator requests are sources that   *)
(* each hold a reference to the eonce; the first that triggers enqueues    *)
(* the op.  Request 0 stands for the query for partition leaders that      *)
(* DeleteRecords begins with.                                              *)
(***************************************************************************)
EXTENDS Integers, Sequences, FiniteSets, FiniteSetsExt, SequencesExt

CONSTANTS
    Parts,       \* bound: requests of one call, 1..Parts
    AdminCases,  \* the calls: [api, n, valid, wait, flaps, errs, md, late, term, replies]
    MaxQueried   \* bound: queries for partition leaders

VARIABLES
    a,    \* the client: ops, requests, eonces, fan-out, results
    w,    \* the world: the broker's state, cached metadata, time, termination
    call  \* the call, one of AdminCases, with what is left of its bounds

vars == <<a, w, call>>

Names == <<"a", "b">>
Rs == 1..Parts
Fanned == call.api \in {"DeleteGroups", "DeleteRecords"}
ToCoord == call.api \in {"DeleteGroups", "DeleteConsumerGroupOffsets"}

-----------------------------------------------------------------------------
(* Responses.  A reply is a sequence of [name, err]; args are the names    *)
(* that were asked for; a parser gives an error or a list of results.      *)
Failed == [err |-> "bad_msg", list |-> <<>>]
Parsed(list) == [err |-> "ok", list |-> list]
PosOf(args, x) == {i \in DOMAIN args : args[i] = x.name}
Missing == [name |-> "none", err |-> "none"]

(* Results at the position of their name in the request (rd_list_set)      *)
AtPositions(args, reply) ==
    [i \in 1..Max({0} \cup UNION {PosOf(args, reply[j]) : j \in DOMAIN reply}) |->
        LET js == {j \in DOMAIN reply : i \in PosOf(args, reply[j])}
        IN IF js = {} THEN Missing ELSE reply[CHOOSE j \in js : TRUE]]
Named(args, reply) == \A j \in DOMAIN reply : PosOf(args, reply[j]) # {}
Repeated(reply) == \E i, j \in DOMAIN reply : i # j /\ reply[i].name = reply[j].name

(* A topic operation that the broker goes on with after the operation      *)
(* timeout is no error when the caller asked not to wait.                  *)
Masked(reply, wait) ==
    [j \in DOMAIN reply |->
        IF reply[j].err = "timed_out" /\ ~wait THEN [reply[j] EXCEPT !.err = "ok"]
        ELSE reply[j]]
Positional(args, reply) ==
    IF Len(reply) > Len(args) \/ ~Named(args, reply) \/ Repeated(reply) THEN Failed
    ELSE Parsed(AtPositions(args, reply))
CreateTopicsParse(args, reply, wait) == Positional(args, Masked(reply, wait))
DeleteTopicsParse(args, reply, wait) == Positional(args, Masked(reply, wait))
CreatePartitionsParse(args, reply, wait) == Positional(args, Masked(reply, wait))
(* A resource of an unknown type is skipped, not matched. *)
Known(reply) == SelectSeq(reply, LAMBDA x : x.name # "unknown_type")
AlterConfigsParse(args, reply) ==
    IF Len(reply) > Len(args) THEN Failed ELSE Positional(args, Known(reply))
DescribeConfigsParse(args, reply) ==
    IF Len(reply) > Len(args) THEN Failed ELSE Positional(args, Known(reply))
(* The ACL parsers return err, which nothing sets, when they fail, so that *)
(* a failure looks like a success without a result.                        *)
NoResult == [err |-> "none", list |-> <<>>]
CreateAclsParse(args, reply) ==
    IF Len(reply) # Len(args) THEN NoResult ELSE Parsed(reply)
(* Values beyond the known ones are given as UNKNOWN. *)
Unknowns(reply) == [j \in DOMAIN reply |->
    IF reply[j].name = "unknown_type" THEN [reply[j] EXCEPT !.name = "UNKNOWN"] ELSE reply[j]]
DescribeAclsParse(args, reply) == Parsed(Unknowns(reply))
DeleteAclsParse(args, reply) == Parsed(Unknowns(reply))
DeleteGroupsParse(args, reply) == IF Len(reply) > Len(args) THEN Failed ELSE Parsed(reply)
OffsetDeleteParse(args, reply) ==
    IF reply # <<>> /\ reply[1].err # "ok" THEN [err |-> reply[1].err, list |-> <<>>]
    ELSE Parsed(<<[name |-> args[1], err |-> "ok"]>>)
DeleteRecordsParse(args, reply) == Parsed(reply)

Parse(api, wait, args, reply) ==
    CASE api = "CreateTopics" -> CreateTopicsParse(args, reply, wait)
      [] api = "DeleteTopics" -> DeleteTopicsParse(args, reply, wait)
      [] api = "CreatePartitions" -> CreatePartitionsParse(args, reply, wait)
      [] api = "AlterConfigs" -> AlterConfigsParse(args, reply)
      [] api = "DescribeConfigs" -> DescribeConfigsParse(args, reply)
      [] api = "CreateAcls" -> CreateAclsParse(args, reply)
      [] api = "DescribeAcls" -> DescribeAclsParse(args, reply)
      [] api = "DeleteAcls" -> DeleteAclsParse(args, reply)
      [] api = "DeleteGroups" -> DeleteGroupsParse(args, reply)
      [] api = "DeleteConsumerGroupOffsets" -> OffsetDeleteParse(args, reply)
      [] api = "DeleteRecords" -> DeleteRecordsParse(args, reply)
(* What request r asks about: a part of a fan-out has one name. *)
ArgsOf(api, n, r) ==
    IF api \in {"DeleteGroups", "DeleteRecords", "DeleteConsumerGroupOffsets"}
    THEN <<Names[r]>> ELSE Names

-----------------------------------------------------------------------------
(* The enqueue-once object. *)
Enq(s, op) == [s EXCEPT !.ops = Append(@, op)]
Flag(s, why) == [s EXCEPT !.bad = @ \cup {why}]
Op(k, r, err, reply) == [k |-> k, r |-> r, err |-> err, reply |-> reply]
WorkOp(r, err) == Op(IF r = 0 THEN "leaders" ELSE "work", r, err, <<>>)

EonceNew(s, r) == [s EXCEPT !.e[r] = [ref |-> 1, rko |-> TRUE]]
Reenable(s, r) == [s EXCEPT !.e[r].rko = TRUE]
AddSource(s, r) == [s EXCEPT !.e[r].ref = @ + 1]
(* The last reference frees the eonce, which must not hold the op then. *)
Unref(s, r) ==
    CASE s.e[r].ref = 0 -> Flag(s, <<"freed", r>>)
      [] s.e[r].ref = 1 /\ s.e[r].rko -> Flag([s EXCEPT !.e[r].ref = 0], <<"held", r>>)
      [] OTHER -> [s EXCEPT !.e[r].ref = @ - 1]
DelSource(s, r) == Unref(s, r)
DelSourceReturn(s, r) == Unref(s, r)
Disable(s, r) == Unref([s EXCEPT !.e[r].rko = FALSE], r)
EonceDestroy(s, r) == Unref([s EXCEPT !.e[r].rko = FALSE], r)
Trigger(s, r, err) ==
    LET less == Unref([s EXCEPT !.e[r].rko = FALSE], r)
    IN IF s.e[r].rko THEN Enq(less, WorkOp(r, err)) ELSE less

-----------------------------------------------------------------------------
(* Results.  rd_kafka_replyq_enq takes the reply queue from the request,   *)
(* so that a second result finds none; the result of a part goes to the    *)
(* main thread with the reference to the fan-out.                          *)
ResultEnq(s, r, res) ==
    LET gone == [s EXCEPT !.req[r].reply = FALSE, !.req[r].parent = FALSE]
    IN IF s.req[r].parent THEN Enq(gone, Op("part", r, res.err, res.list))
       ELSE [gone EXCEPT !.out = Append(@, res)]
ResultFail(s, r, err) ==
    IF ~s.req[r].reply THEN s ELSE ResultEnq(s, r, [err |-> err, list |-> <<>>])
FanResult(s, res) == [s EXCEPT !.out = Append(@, res)]

(* rd_kafka_admin_common_worker_destroy stops the timer, whose reference   *)
(* it drops only if the timer was running, and gives up its own reference. *)
WorkerDestroy(s, r) ==
    LET stopped == [s EXCEPT !.tmr = @ \ {r}]
        dropped == IF r \in s.tmr THEN DelSource(stopped, r) ELSE stopped
    IN IF ~s.req[r].own THEN stopped
       ELSE [EonceDestroy(dropped, r) EXCEPT !.req[r].own = FALSE]
(* rd_kafka_op_destroy calls the worker once more, with an error, when the *)
(* callback is still set.                                                  *)
OpFree(s, r) ==
    IF s.req[r].parent \/ s.req[r].st = "freed" THEN Flag(s, <<"op", r>>)
    ELSE [s EXCEPT !.req[r].st = "freed"]
OpDestroy(s, r) == OpFree(WorkerDestroy(ResultFail(s, r, "destroy"), r), r)

-----------------------------------------------------------------------------
(* rd_kafka_admin_worker, for request r, with the error and the reply that *)
(* are attached to its op.                                                 *)
ResponseParse(s, r, reply) ==
    LET res == Parse(call.api, call.wait, ArgsOf(call.api, call.n, r), reply)
    IN CASE res.err = "ok" -> ResultEnq(s, r, res)
         [] res = NoResult -> Flag(s, <<"acls", r>>)
         [] OTHER -> ResultFail(s, r, res.err)
StartTimer(s, r) == [AddSource(s, r) EXCEPT !.tmr = @ \cup {r}]
AskCoord(s, r) == [AddSource(s, r) EXCEPT !.creq = @ \cup {r}, !.req[r].st = "response"]
(* The main thread begins to look for the broker: it enables the eonce and *)
(* reads the version of the brokers' states.                               *)
LookUp(s, r) == [Reenable(s, r) EXCEPT !.req[r].st = "lookup",
                                       !.look = <<[r |-> r, ver |-> w.ver, read |-> FALSE]>>]
Ended(s, r, err) == WorkerDestroy(ResultFail(s, r, err), r)
Worker(s, r, err, reply) ==
    IF w.term THEN Ended(s, r, "destroy")
    ELSE IF err # "ok" THEN Ended(s, r, err)
    ELSE IF w.exp THEN Ended(s, r, "timeout")
    ELSE CASE s.req[r].st = "init" /\ ToCoord -> AskCoord(StartTimer(s, r), r)
           [] s.req[r].st = "init" /\ ~ToCoord -> LookUp(StartTimer(s, r), r)
           [] s.req[r].st = "lookup" -> LookUp(s, r)
           [] s.req[r].st = "response" -> WorkerDestroy(ResponseParse(s, r, reply), r)
(* An op is freed when the worker has given up its eonce. *)
Served(s, r) == IF s.req[r].own THEN s ELSE OpFree(s, r)

(* rd_kafka_admin_handle_response *)
HandleResponse(s, r, err, reply) ==
    LET off == Disable(s, r)
    IN IF ~s.e[r].rko THEN off ELSE OpDestroy(Worker(off, r, err, reply), r)

(* rd_kafka_admin_coord_request, called when the coordinator is up, and    *)
(* rd_kafka_admin_coord_response_parse, called when it cannot be asked.    *)
(* When the former returns an error the coordinator request fails too, and *)
(* the latter is called with an eonce whose reference is gone.             *)
CoordFails(s, r, k) == Enq(s, Op(k, r, "request", <<>>))
CoordRequest(s, r, refused) ==
    LET off == DelSourceReturn(s, r)
    IN IF ~s.e[r].rko THEN CoordFails(off, r, "late")
       ELSE IF refused THEN CoordFails(OpDestroy(Ended(off, r, "request"), r), r, "late")
       ELSE [AddSource(off, r) EXCEPT !.net = @ \cup {r}]
CoordResponse(s, r, err) ==
    LET off == DelSourceReturn(s, r)
    IN IF ~s.e[r].rko \/ s.e[r].ref = 0 THEN off
       ELSE OpDestroy(Ended(off, r, err), r)

-----------------------------------------------------------------------------
(* Fan-out.  A part's result is merged at its position. *)
Merged(fan, r, err, list) ==
    [fan EXCEPT !.out = @ - 1,
                !.got[r] = IF err # "ok" \/ list = <<>> THEN err ELSE list[1].err]
FanoutWorker(s, r, err, list) ==
    LET e == IF w.term /\ err = "ok" THEN "destroy" ELSE err
        fan == Merged(s.fan, r, e, list)
        t == [s EXCEPT !.fan = fan]
    IN IF s.fan.st # "live" \/ s.fan.out = 0 \/ s.fan.got[r] # "none"
       THEN Flag(s, <<"fan", r>>)
       ELSE IF fan.out > 0 THEN t
       ELSE FanResult([t EXCEPT !.fan.st = "freed"], [err |-> "ok", list |-> fan.got])

NewRequest(s, r) ==
    Enq(EonceNew([s EXCEPT !.req[r] = [st |-> "init", reply |-> TRUE, own |-> TRUE,
                                       parent |-> Fanned]], r), WorkOp(r, "ok"))
FanNew(s, n) == [s EXCEPT !.fan.st = "live", !.fan.out = n]

(* The query for leaders: known metadata answers it; an error answers it   *)
(* with no leaders; otherwise it asks for metadata and waits.              *)
(* Mutant: the query timer is stopped, its reference is not dropped. *)
StopQueryLeaks(s) ==
    LET t == IF 0 \in s.tmr THEN DelSource([s EXCEPT !.tmr = @ \ {0}], 0) ELSE s
    IN [Disable([t EXCEPT !.qtm = FALSE], 0) EXCEPT !.lead = "done"]
StopQuery(s) ==
    LET q == IF s.qtm THEN DelSource([s EXCEPT !.qtm = FALSE], 0) ELSE s
        t == IF 0 \in s.tmr THEN DelSource([q EXCEPT !.tmr = @ \ {0}], 0) ELSE q
    IN [Disable(t, 0) EXCEPT !.lead = "done"]
LeadersReply(s, err) == Enq(StopQuery(s), Op("queried", 0, err, <<>>))
GetLeaders(s) ==
    IF w.md = "known" THEN Reenable(s, 0)
    ELSE [AddSource(Reenable(s, 0), 0) EXCEPT !.obs = @ + 1]
AskLeaders(s, md) ==
    CASE md = "known" -> LeadersReply(s, "ok")
      [] md = "error" -> LeadersReply(s, "noent")
      [] md = "unknown" /\ s.qtm -> s
      [] md = "unknown" /\ ~s.qtm -> [AddSource(s, 0) EXCEPT !.qtm = TRUE, !.queried = @ + 1]
LeadersWorker(s, err) ==
    IF err # "ok" THEN LeadersReply(s, err) ELSE AskLeaders(GetLeaders(s), w.md)
(* rd_kafka_DeleteRecords_leaders_queried_cb *)
LeadersQueried(s, err) ==
    IF err # "ok"
    THEN FanResult([s EXCEPT !.fan.st = "freed"], [err |-> err, list |-> <<>>])
    ELSE FoldLeft(LAMBDA t, r : NewRequest(t, r), FanNew(s, call.n), [r \in 1..call.n |-> r])

-----------------------------------------------------------------------------
(* The application's call. *)
Call ==
    /\ a.app = "idle"
    /\ a' = CASE ~call.valid -> [FanResult(a, [err |-> "invalid", list |-> <<>>])
                                    EXCEPT !.app = "called"]
              [] call.valid /\ call.api = "DeleteGroups" ->
                    [FanNew(a, call.n) EXCEPT !.app = "parts"]
              [] call.valid /\ call.api = "DeleteRecords" ->
                    [GetLeaders(StartTimer(EonceNew(FanNew(a, 0), 0), 0))
                        EXCEPT !.app = "half", !.lead = "live", !.saw = w.md]
              [] OTHER -> [NewRequest(a, 1) EXCEPT !.app = "called"]
    /\ UNCHANGED <<w, call>>
(* DeleteGroups enqueues its parts one by one. *)
EnqPart ==
    /\ a.app = "parts"
    /\ LET r == Cardinality({x \in Rs : a.req[x].st # "none"}) + 1
       IN a' = [NewRequest(a, r) EXCEPT !.app = IF r = call.n THEN "called" ELSE "parts"]
    /\ UNCHANGED <<w, call>>
(* DeleteRecords goes on with the query that another thread may have       *)
(* triggered, and finished, since it was enabled.                          *)
QueryOn ==
    /\ a.app = "half"
    /\ a' = [IF a.e[0].rko THEN AskLeaders(a, a.saw) ELSE Flag(a, <<"leaders", 0>>)
                EXCEPT !.app = "called"]
    /\ UNCHANGED <<w, call>>

(* The main thread serves the next op. *)
Idle == a.look = <<>> /\ a.bad = {}
Serve ==
    /\ Idle /\ a.ops # <<>>
    /\ LET op == Head(a.ops)
           s == [a EXCEPT !.ops = Tail(@)]
       IN a' = CASE op.k = "work" -> Served(Worker(s, op.r, op.err, op.reply), op.r)
                 [] op.k = "response" -> HandleResponse(s, op.r, op.err, op.reply)
                 [] op.k \in {"coord", "late"} -> CoordResponse(s, op.r, op.err)
                 [] op.k = "part" -> FanoutWorker(s, op.r, op.err, op.reply)
                 [] op.k = "leaders" -> LeadersWorker(s, IF w.term THEN "destroy" ELSE op.err)
                 [] op.k = "queried" -> LeadersQueried(s, op.err)
    /\ UNCHANGED <<w, call>>

(* rd_kafka_broker_get_async and rd_kafka_broker_controller_async: find    *)
(* the broker, else register for state changes, unless the version is      *)
(* another than the one read first; then try again.                        *)
FindBroker ==
    /\ a.look # <<>> /\ ~a.look[1].read
    /\ LET r == a.look[1].r
           t == [a EXCEPT !.look = <<>>]
       IN IF w.up
          THEN \E refused \in BOOLEAN :
                 /\ refused => call.errs > 0
                 /\ a' = IF refused THEN Served(Ended(DelSource(AddSource(t, r), r), r, "request"), r)
                         ELSE [AddSource(t, r) EXCEPT !.net = @ \cup {r},
                                                      !.req[r].st = "response"]
                 /\ call' = [call EXCEPT !.errs = @ - (IF refused THEN 1 ELSE 0)]
          ELSE a' = [a EXCEPT !.look[1].read = TRUE] /\ UNCHANGED call
    /\ UNCHANGED w
Register ==
    /\ a.look # <<>> /\ a.look[1].read
    /\ LET r == a.look[1].r
       IN a' = IF a.look[1].ver = w.ver
               THEN [AddSource(a, r) EXCEPT !.wait = @ \cup {r}, !.look = <<>>]
               ELSE [a EXCEPT !.look[1].ver = w.ver, !.look[1].read = FALSE]
    /\ UNCHANGED <<w, call>>

(* Timers run on the main thread, once the time is up and not at all when  *)
(* the handle terminates.                                                  *)
TimerFires == /\ Idle /\ w.exp /\ ~w.term
              /\ \E r \in a.tmr :
                   a' = Trigger([a EXCEPT !.tmr = @ \ {r},
                                          !.missed = @ \/ (r = 0 /\ ~a.e[0].rko)], r, "timeout")
              /\ UNCHANGED <<w, call>>
QueryTimerFires == /\ Idle /\ a.qtm /\ a.queried < MaxQueried /\ ~w.term
                   /\ a' = Trigger([a EXCEPT !.qtm = FALSE], 0, "ok")
                   /\ UNCHANGED <<w, call>>

(* The coordinator request ends on the main thread (module Coord). *)
CoordSent ==
    /\ Idle
    /\ \E r \in a.creq, refused \in BOOLEAN :
         /\ refused => call.errs > 0
         /\ a' = CoordRequest([a EXCEPT !.creq = @ \ {r}], r, refused)
         /\ call' = [call EXCEPT !.errs = @ - (IF refused THEN 1 ELSE 0)]
    /\ ~w.term
    /\ UNCHANGED w
CoordFailed ==
    /\ Idle
    /\ \E r \in a.creq : a' = CoordFails([a EXCEPT !.creq = @ \ {r}], r, "coord")
    /\ \/ w.term /\ UNCHANGED call
       \/ ~w.term /\ call.errs > 0 /\ call' = [call EXCEPT !.errs = @ - 1]
    /\ UNCHANGED w

-----------------------------------------------------------------------------
(* Other threads and the cluster. *)
Responds ==
    /\ \E r \in a.net : \E reply \in call.replies :
         \E err \in {"ok"} \cup (IF call.errs > 0 THEN {"request"} ELSE {}) :
           /\ a' = Enq([a EXCEPT !.net = @ \ {r}],
                       Op("response", r, err, IF err = "ok" THEN reply ELSE <<>>))
           /\ call' = [call EXCEPT !.errs = @ - (IF err = "ok" THEN 0 ELSE 1)]
    /\ UNCHANGED w
(* A broker changes its state, then tells those who wait. *)
Flips == /\ call.flaps > 0 /\ w' = [w EXCEPT !.up = ~@, !.owe = @ + 1]
         /\ call' = [call EXCEPT !.flaps = @ - 1] /\ UNCHANGED a
TriggerAll(s, rs, err) == FoldLeft(LAMBDA t, r : Trigger(t, r, err), s, SetToSeq(rs))
Broadcast ==
    /\ w.owe > 0 /\ w' = [w EXCEPT !.owe = @ - 1, !.ver = @ + 1]
    /\ a' = TriggerAll([a EXCEPT !.wait = {}], a.wait, "ok")
    /\ UNCHANGED call
(* Metadata arrives: it triggers the observers of the cache. *)
Observed(s, err) ==
    FoldLeft(LAMBDA t, i : Trigger(t, 0, err), [s EXCEPT !.obs = 0], [i \in 1..s.obs |-> i])
MetadataChanges ==
    /\ w.md = "unknown"
    /\ \E m \in call.md : w' = [w EXCEPT !.md = m]
    /\ a' = Observed(a, "ok")
    /\ UNCHANGED call
Expires == /\ call.late /\ ~w.exp /\ a.app # "idle" /\ w' = [w EXCEPT !.exp = TRUE]
           /\ UNCHANGED <<a, call>>
(* The handle is destroyed: what waits for brokers and metadata is         *)
(* triggered with an error.                                                *)
Terminates == /\ call.term /\ ~w.term /\ a.app = "called"
              /\ w' = [w EXCEPT !.term = TRUE] /\ UNCHANGED <<a, call>>
Purges ==
    /\ w.term /\ Idle /\ a.wait \cup {x \in {0} : a.obs > 0} # {}
    /\ a' = Observed(TriggerAll([a EXCEPT !.wait = {}], a.wait, "destroy"), "destroy")
    /\ UNCHANGED <<w, call>>

-----------------------------------------------------------------------------
NoReq == [st |-> "none", reply |-> FALSE, own |-> FALSE, parent |-> FALSE]
Init == /\ call \in AdminCases
        /\ a = [ops |-> <<>>, req |-> [r \in Rs |-> NoReq],
                e |-> [r \in {0} \cup Rs |-> [ref |-> 0, rko |-> FALSE]],
                tmr |-> {}, qtm |-> FALSE, queried |-> 0, lead |-> "none", saw |-> "none",
                wait |-> {}, obs |-> 0, net |-> {}, creq |-> {}, look |-> <<>>,
                fan |-> [st |-> "none", out |-> 0, got |-> [r \in 1..call.n |-> "none"]],
                out |-> <<>>, missed |-> FALSE, app |-> "idle", bad |-> {}]
        /\ w = [up |-> FALSE, owe |-> 0, ver |-> 0, md |-> "unknown", exp |-> FALSE,
                term |-> FALSE]
Next == \/ Call \/ EnqPart \/ QueryOn \/ Serve \/ FindBroker \/ Register
        \/ TimerFires \/ QueryTimerFires \/ CoordSent \/ CoordFailed
        \/ Responds \/ Flips \/ Broadcast \/ MetadataChanges \/ Expires
        \/ Terminates \/ Purges

(* The threads go on, brokers tell of their state changes, time passes.    *)
Fairness ==
    /\ []<>~(Idle /\ a.ops # <<>>) \/ []<><<Serve>>_vars
    /\ WF_vars(FindBroker) /\ WF_vars(Register)
    /\ []<>~(Idle /\ w.exp /\ ~w.term /\ a.tmr # {}) \/ []<><<TimerFires>>_vars
    /\ WF_vars(Expires)
    /\ []<>(a.app # "half") \/ []<><<QueryOn>>_vars
    /\ []<>(a.app # "parts") \/ []<><<EnqPart>>_vars
    /\ WF_vars(Purges) /\ WF_vars(Responds) /\ WF_vars(CoordFailed)
Spec == Init /\ [][Next]_vars /\ Fairness

-----------------------------------------------------------------------------
Sources(r) ==
    (IF r \in Rs THEN IF a.req[r].own THEN 1 ELSE 0 ELSE IF a.lead = "live" THEN 1 ELSE 0)
    + Cardinality({x \in a.tmr : x = r}) + Cardinality({x \in a.wait : x = r})
    + Cardinality({x \in a.net : x = r}) + Cardinality({x \in a.creq : x = r})
    + Cardinality({i \in DOMAIN a.ops : a.ops[i].r = r /\ a.ops[i].k \in {"response", "coord"}})
    + (IF r = 0 THEN a.obs + (IF a.qtm THEN 1 ELSE 0) ELSE 0)

(* What the code is known to get wrong, see the README: the eonce of a     *)
(* coordinator request that failed is used again, an ACL parser fails      *)
(* without an error, a query for leaders is triggered while the caller     *)
(* still works on it.                                                      *)
Crashed == a.bad # {}
Excused(b) == \/ b[1] \in {"acls", "leaders"}
              \/ b[1] = "freed" /\ ToCoord /\ a.req[b[2]].st = "freed"
(* No assertion of the eonce, the op or the fan-out fails: an eonce is not *)
(* used when it is freed nor freed while it holds the op, an op is freed   *)
(* once and not before its fan-out has its result, a fan-out gets one      *)
(* result of each part.                                                    *)
AssertsHold == \A b \in a.bad : Excused(b)

(* An eonce is referred to by its owner and by every source that will      *)
(* still trigger or drop it, and by nothing else.                          *)
EonceExact == Crashed \/ \A r \in {0} \cup Rs :
    a.e[r].ref = Sources(r)

(* A request that is registered for state changes of brokers has a         *)
(* broadcast coming when its broker is up.                                 *)
NoLostWakeup == a.wait # {} /\ w.up => w.owe > 0

(* A call has at most one result; the result of a fan-out comes after all  *)
(* of its parts and has a result of each at its position.                  *)
OneResult ==
    /\ Len(a.out) <= 1
    /\ a.fan.st = "freed" /\ a.out[1].err = "ok" =>
         /\ \A r \in 1..call.n : a.req[r].st = "freed" /\ a.out[1].list[r] # "none"
         /\ \A i \in DOMAIN a.ops : a.ops[i].k # "part"

(* A result without an error has each of the broker's answers at the       *)
(* position of its name in the request, and no name twice.                 *)
ResultsPlaced ==
    a.out # <<>> /\ a.out[1].err = "ok" /\ call.api \in
        {"CreateTopics", "DeleteTopics", "CreatePartitions", "AlterConfigs", "DescribeConfigs"} =>
      \A i \in DOMAIN a.out[1].list : a.out[1].list[i].name \in {Names[i], "none"}

(* Every call has a result in the end, its timeout if nothing else (where  *)
(* the bounds let it pass), but for a query for leaders whose timeout      *)
(* comes while its op waits to be served: the worker does not look at the  *)
(* time (a.missed).                                                        *)
Answers == (a.app # "idle" /\ call.late) ~> (a.out # <<>> \/ Crashed \/ a.missed)

(* A call has one result, at its place, and its eonce is used as long as   *)
(* it exists (rd_kafka_admin_result_enq(), rd_kafka_enq_once_trigger()).   *)
ResultsExact == AssertsHold /\ EonceExact /\ NoLostWakeup /\ OneResult /\ ResultsPlaced
============================================================================
