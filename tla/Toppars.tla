------------------------------ MODULE Toppars -------------------------------
(***************************************************************************)
(* A topic and its partition objects (hs_rdkafka_topic.c, the objects of   *)
(* hs_rdkafka_partition.c, PARTITION_JOIN and PARTITION_LEAVE of           *)
(* hs_rdkafka_broker.c): metadata makes partitions appear, disappear and   *)
(* change leader; an object is handed from one broker thread to the next   *)
(* by ops that the threads serve in their own time; messages wait in the   *)
(* unassigned queue until the partitions are known.                        *)
(*                                                                         *)
(* The client is one record, s. An operator on w : client is what one      *)
(* function does; locks make each action atomic.                           *)
(***************************************************************************)
EXTENDS Integers, Sequences, FiniteSets, SequencesExt

CONSTANTS
    Brokers,     \* node ids; 0 is the internal broker
    Wanted,      \* the partitions messages are produced to (-1: any)
    MsgCount,    \* bound on the messages
    MaxObjs,     \* bound on the partition objects at a time
    Cases        \* the settings to be explored, one of them in a behaviour:
                 \*   kind      "producer" or "consumer"
                 \*   clusters  what the topic may be: an error, or a leader
                 \*             per partition
                 \*   boot      the brokers whose node id is not known yet
                 \*   and bounds on the changes of the topic (change), expired
                 \*   cache entries and denied requests (expire), calls that
                 \*   desire a partition or move it to a replica (calls) and
                 \*   messages (msgs)

VARIABLES
    s,      \* the client
    cl,     \* the topic in the cluster: [err, lead]
    left    \* what remains of the bounds

vars == <<s, cl, left>>

Internal == 0
Null == -1
UA == -1
Parts == 0..1
Hosts == Brokers \cup {Internal}
Ids == 1..MaxObjs
Terminating(w) == w.term # "no"

-----------------------------------------------------------------------------
(* Partition objects.                                                      *)

(* rd_kafka_toppar_new().                                                  *)
TopparNew(part) ==
    [part |-> part, unk |-> TRUE, rem |-> FALSE, des |-> FALSE, app |-> FALSE,
     rkb |-> FALSE, br |-> Null, nx |-> Null, lid |-> Null, bid |-> Null,
     mid |-> 0, pid |-> FALSE, q |-> <<>>, xq |-> <<>>, dead |-> FALSE]

Dead == [TopparNew(0) EXCEPT !.dead = TRUE]
Objs(w) == {o \in Ids : ~w.tp[o].dead}
Fresh(w) == CHOOSE o \in Ids : w.tp[o].dead
                /\ \A x \in Ids : w.tp[x].dead => o <= x
New(w, part) == [w EXCEPT !.tp[Fresh(w)] = TopparNew(part)]
OnDesp(w, o) == \E i \in 1..Len(w.desp) : w.desp[i] = o
OpsOf(w, b, o) == SelectSeq(w.ops[b], LAMBDA x : x.o = o)

(* What holds a reference to an object.                                    *)
Held(w, o) ==
    \/ w.tp[o].app \/ w.tp[o].rkb \/ OnDesp(w, o)
    \/ \E i \in 1..Len(w.p) : w.p[i] = o
    \/ \E b \in Hosts : OpsOf(w, b, o) # <<>>

Fails(w, ms) == [w EXCEPT !.failed = @ \cup {ms[i] : i \in 1..Len(ms)}]

(* rd_kafka_toppar_destroy_final(), by whoever drops the last reference.   *)
DestroyFinal(w, o) ==
    [Fails(w, w.tp[o].q) EXCEPT
        !.tp[o] = Dead,
        !.bad = @ \/ w.tp[o].xq # <<>>]
Collect(w) ==
    FoldLeft(LAMBDA v, o : IF Held(v, o) THEN v ELSE DestroyFinal(v, o),
             w, SetToSeq(Objs(w)))

Enq(w, b, op, o) ==
    [w EXCEPT !.ops[b] = Append(@, [op |-> op, o |-> o])]

-----------------------------------------------------------------------------
(* Delegation to a broker.                                                 *)

(* rd_kafka_toppar_broker_migrate(): the op of a migration under way will  *)
(* find the new destination.                                               *)
Migrate(w, o, new) ==
    LET t == w.tp[o]
        v == [w EXCEPT !.tp[o].nx = new]
    IN  IF t.nx # Null THEN v
        ELSE IF t.br # Null THEN Enq(v, t.br, "LEAVE", o)
        ELSE Enq(v, new, "JOIN", o)

(* rd_kafka_toppar_broker_delegate().                                      *)
Delegate(w, o, b) ==
    LET to == IF b = Null /\ ~Terminating(w) THEN Internal ELSE b
        t  == w.tp[o]
    IN  IF (t.br = to /\ t.nx = Null) \/ (t.br = Null /\ to = Null) THEN w
        ELSE Migrate(w, o, to)

(* rd_kafka_toppar_broker_leave_for_remove().                              *)
LeaveForRemove(w, o) ==
    LET t == w.tp[o]
        v == [w EXCEPT !.tp[o].rem = TRUE]
    IN  IF t.nx # Null THEN Enq(v, t.nx, "LEAVE", o)
        ELSE IF t.br # Null THEN Enq(v, t.br, "LEAVE", o)
        ELSE v

(* rd_kafka_toppar_broker_update(): to the broker the object is on, or     *)
(* still on, nothing is done. Returns the client and what changed.         *)
BrokerUpdate(w, o, id, b) ==
    LET t == w.tp[o]
        v == [w EXCEPT !.tp[o].bid = id]
    IN  IF b = Null THEN [w |-> Delegate(v, o, Null),
                          r |-> IF t.br # Null THEN -1 ELSE 0]
        ELSE IF t.br = b
        THEN [w |-> [v EXCEPT !.back = IF t.nx \notin {Null, b} THEN @ \cup {o} ELSE @],
              r |-> 0]
        ELSE [w |-> Delegate(v, o, b), r |-> 1]

(* Mutant: a partition that is on a broker stays there. *)
LeaderUpdateOnce(w, part, id) ==
    LET o == w.p[part + 1]
        t == w.tp[o]
        leader == IF id \in w.known THEN id ELSE Null
    IN  IF part >= Len(w.p) THEN [w |-> w, r |-> -1]
        ELSE IF t.br \notin {Null, Internal} THEN [w |-> w, r |-> 0]
        ELSE BrokerUpdate([w EXCEPT !.tp[o].lid = id,
                                    !.back = @ \ {o}], o, id, leader)

(* rd_kafka_toppar_leader_update(): a partition on a broker that is not    *)
(* its leader stays there until the leader changes.                        *)
LeaderUpdate(w, part, id) ==
    LET o == w.p[part + 1]
        t == w.tp[o]
        leader == IF id \in w.known THEN id ELSE Null
        follower == leader # Null /\ t.br \notin {Null, Internal, leader}
    IN  IF part >= Len(w.p) THEN [w |-> w, r |-> -1]
        ELSE IF follower /\ t.lid = id THEN [w |-> w, r |-> 0]
        ELSE BrokerUpdate([w EXCEPT !.tp[o].lid = id,
                                    !.back = @ \ {o}], o, id, leader)

-----------------------------------------------------------------------------
(* Desired partitions.                                                     *)

DesiredLink(w, o) ==
    IF OnDesp(w, o) THEN w ELSE [w EXCEPT !.desp = Append(@, o)]
DesiredUnlink(w, o) ==
    [w EXCEPT !.desp = SelectSeq(@, LAMBDA x : x # o)]

(* rd_kafka_toppar_get() and rd_kafka_toppar_desired_get(): 0 is none.     *)
Get(w, part) == IF part >= 0 /\ part < Len(w.p) THEN w.p[part + 1] ELSE 0
DesiredGet(w, part) ==
    LET i == SelectInSeq(w.desp, LAMBDA o : w.tp[o].part = part)
    IN  IF i = 0 THEN 0 ELSE w.desp[i]

DesiredAdd0(w, o) ==
    IF w.tp[o].des THEN w
    ELSE LET v == [w EXCEPT !.tp[o].rem = FALSE, !.tp[o].des = TRUE]
         IN  IF w.tp[o].unk THEN DesiredLink(v, o) ELSE v

DesiredAdd(w, part) ==
    LET o == Get(w, part)
        d == DesiredGet(w, part)
        n == IF o # 0 THEN o ELSE IF d # 0 THEN d ELSE Fresh(w)
        v == DesiredAdd0(IF o = 0 /\ d = 0 THEN New(w, part) ELSE w, n)
    IN  [v EXCEPT !.tp[n].app = TRUE]

DesiredDel(w, o) ==
    IF ~w.tp[o].des THEN w
    ELSE LET v == DesiredUnlink([w EXCEPT !.tp[o].des = FALSE], o)
         IN  IF w.tp[o].unk THEN LeaveForRemove(v, o) ELSE v

-----------------------------------------------------------------------------
(* The partitions of the topic.                                            *)

(* Mutant: the numbering starts over. *)
RestoreNot(w, v, part, o) == v

(* rd_kafka_toppar_idemp_msgid_restore().                                  *)
Restore(w, v, part, o) ==
    IF w.saved[part] = Null THEN v
    ELSE [v EXCEPT !.tp[o].mid = w.saved[part], !.tp[o].pid = TRUE,
                   !.saved[part] = Null]

(* rd_kafka_toppar_idemp_msgid_save(), once something was sent.            *)
Save(w, part, o) ==
    IF w.tp[o].pid THEN [w EXCEPT !.saved[part] = w.tp[o].mid]
    ELSE [w EXCEPT !.early = IF w.tp[o].q # <<>> THEN @ \cup {part} ELSE @]

(* A partition that appears is the desired object that waited for it, or a *)
(* new one, and goes on numbering messages where it had stopped.           *)
Appear(w, part) ==
    LET d == DesiredGet(w, part)
        o == IF d # 0 THEN d ELSE Fresh(w)
        v == IF d # 0 THEN DesiredUnlink(w, o) ELSE New(w, part)
    IN  [Restore(w, v, part, o) EXCEPT !.p = Append(@, o), !.tp[o].unk = FALSE, !.tp[o].rem = FALSE]

(* One that disappears waits, if it is desired, with the internal broker;  *)
(* otherwise its broker is told to leave it.                               *)
Vanish(w, part) ==
    LET o == w.p[part + 1]
        u == [Save(w, part, o) EXCEPT !.tp[o].unk = TRUE]
    IN  IF w.tp[o].des THEN Delegate(DesiredLink(u, o), o, Null)
        ELSE LeaveForRemove(u, o)

(* rd_kafka_topic_partition_cnt_update().                                  *)
CntUpdate(w, cnt) ==
    LET n == Len(w.p)
        a == FoldLeft(Appear, w, [i \in 1..(cnt - n) |-> n + i - 1])
        b == FoldLeft(Vanish, a, [i \in 1..(n - cnt) |-> cnt + i - 1])
    IN  [b EXCEPT !.p = SubSeq(@, 1, cnt)]

-----------------------------------------------------------------------------
(* Messages.                                                               *)

(* A partitioner: the key of a message and the number of partitions.       *)
Partitioner(m, cnt) == m % cnt

(* rd_kafka_toppar_enq_msg().                                              *)
EnqMsg(w, m, o) ==
    LET id == IF w.mid[m] = 0 THEN w.tp[o].mid + 1 ELSE w.mid[m]
    IN  [w EXCEPT !.mid[m] = id, !.tp[o].q = Append(@, m),
                  !.tp[o].mid = IF w.mid[m] = 0 THEN id ELSE @]

(* rd_kafka_msg_partitioner(): the message is queued, or refused.          *)
MsgPartitioner(w, m) ==
    LET cnt  == Len(w.p)
        part == IF w.part[m] = UA THEN Partitioner(m, cnt) ELSE w.part[m]
        keep == [w EXCEPT !.ua = Append(@, m)]
    IN  IF w.st = "UNKNOWN" THEN keep
        ELSE IF w.st \in {"NOTEXISTS", "ERROR"} THEN Fails(w, <<m>>)
        ELSE IF cnt = 0 THEN keep
        ELSE IF part >= cnt THEN Fails(w, <<m>>)
        ELSE EnqMsg([w EXCEPT !.part[m] = part], m, w.p[part + 1])

(* rd_kafka_topic_assign_uas().                                            *)
AssignUas(w) ==
    IF w.kind # "producer" THEN w
    ELSE LET v == [w EXCEPT !.ua = <<>>]
         IN  IF w.st \in {"ERROR", "NOTEXISTS"} THEN Fails(v, w.ua)
             ELSE FoldLeft(LAMBDA x, m :
                    IF /\ x.part[m] # UA /\ x.part[m] >= Len(x.p)
                       /\ x.st # "UNKNOWN"
                    THEN Fails(x, <<m>>) ELSE MsgPartitioner(x, m),
                  v, w.ua)

-----------------------------------------------------------------------------
(* Metadata.                                                               *)

(* rd_kafka_topic_set_notexists(): a topic not seen yet may be on its way. *)
SetNotexists(w) ==
    IF Terminating(w) \/ (w.st = "UNKNOWN" /\ w.young) THEN w
    ELSE AssignUas(CntUpdate([w EXCEPT !.st = "NOTEXISTS"], 0))

(* rd_kafka_topic_set_error().                                             *)
SetError(w) ==
    IF Terminating(w) \/ w.st = "ERROR" THEN w
    ELSE AssignUas(CntUpdate([w EXCEPT !.st = "ERROR"], 0))

(* The messages that wait are to be looked at.                             *)
Changed(w, mdt) ==
    mdt.err = "ok" /\ (Len(w.p) # Len(mdt.lead) \/ w.st = "UNKNOWN")

(* rd_kafka_topic_metadata_update().                                       *)
MetadataUpdate(w, mdt) ==
    LET cnt == Len(mdt.lead)
        a == CASE mdt.err = "unknown" -> SetNotexists(w)
               [] mdt.err = "ok" -> CntUpdate([w EXCEPT !.st = "EXISTS"], cnt)
               [] OTHER -> SetError(w)
        Lead(x, part) == LET y == LeaderUpdate(x.w, part, mdt.lead[part + 1])
                         IN  [w |-> y.w, upd |-> x.upd \/ y.r # 0]
        b == FoldLeft(Lead, [w |-> a, upd |-> Changed(w, mdt)],
                      [i \in 1..cnt |-> i - 1])
        c == IF mdt.err = "ok" THEN b.w
             ELSE FoldLeft(LAMBDA x, o : Delegate(x, o, Null), b.w, b.w.p)
    IN  IF b.upd THEN AssignUas(c) ELSE c

(* The main thread gets the metadata of the topic.                         *)
Refresh ==
    /\ ~Terminating(s)
    /\ s' = Collect(MetadataUpdate(s, cl)) /\ UNCHANGED <<cl, left>>

(* rd_kafka_topic_scan_all(): the cache entry of the topic has expired.    *)
ScanAll ==
    /\ s.st # "UNKNOWN" /\ left.expire > 0 /\ ~Terminating(s)
    /\ s' = [s EXCEPT !.st = "UNKNOWN"]
    /\ left' = [left EXCEPT !.expire = @ - 1] /\ UNCHANGED cl

(* topic.metadata.propagation.max.ms have passed.                          *)
Age == s.young /\ s' = [s EXCEPT !.young = FALSE] /\ UNCHANGED <<cl, left>>

(* A ProduceRequest was answered TOPIC_AUTHORIZATION_FAILED.               *)
Denied ==
    /\ s.kind = "producer" /\ left.expire > 0
    /\ s' = Collect(SetError(s))
    /\ left' = [left EXCEPT !.expire = @ - 1] /\ UNCHANGED cl

(* NODE_UPDATE: a bootstrap broker learns its node id; the partitions it   *)
(* leads, unless they are being migrated, move to it.                      *)
MapPartitions(w, b) ==
    FoldLeft(LAMBDA v, o :
        IF v.tp[o].lid = b /\ (v.tp[o].br = Null \/ v.tp[o].nx = Null)
        THEN BrokerUpdate(v, o, b, b).w ELSE v, w, w.p)
NodeUpdate(b) ==
    /\ b \notin s.known /\ ~Terminating(s)
    /\ s' = MapPartitions([s EXCEPT !.known = @ \cup {b}], b)
    /\ UNCHANGED <<cl, left>>

-----------------------------------------------------------------------------
(* Broker threads.                                                         *)

(* PARTITION_JOIN: dropped, passed on, or served.                          *)
Join(w, b, o) ==
    LET t == w.tp[o]
    IN  IF t.nx = Null THEN [w EXCEPT !.bad = TRUE]
        ELSE IF Terminating(w) \/ t.rem THEN [w EXCEPT !.tp[o].nx = Null]
        ELSE IF t.nx # b THEN Enq(w, t.nx, "JOIN", o)
        ELSE [w EXCEPT !.bad = @ \/ t.rkb,
                       !.tp[o] = [@ EXCEPT !.rkb = TRUE, !.br = b, !.nx = Null]]

(* The order of a partition's messages.                                    *)
Merge(w, q1, q2) ==
    SortSeq(q1 \o q2, LAMBDA a, b : w.mid[a] < w.mid[b])

Returned(w, t) == Merge(w, t.q, t.xq)

(* PARTITION_LEAVE: out of date if the object is elsewhere; messages that  *)
(* were being sent go back in their order; without a next broker they all  *)
(* fail.                                                                   *)
Leave(w, b, o) ==
    LET t == w.tp[o]
        v == [w EXCEPT !.bad = @ \/ (t.br = b /\ ~t.rkb),
                       !.tp[o] = [@ EXCEPT !.q = Returned(w, t),
                                  !.xq = <<>>, !.br = Null, !.rkb = FALSE]]
    IN  IF t.br # b THEN w
        ELSE IF t.nx # Null THEN Enq(v, t.nx, "JOIN", o)
        ELSE [Fails(v, v.tp[o].q) EXCEPT !.tp[o].q = <<>>]

Serve(b) ==
    /\ s.ops[b] # <<>> /\ UNCHANGED <<cl, left>>
    /\ LET x == Head(s.ops[b])
           w == [s EXCEPT !.ops[b] = Tail(@)]
       IN  s' = Collect(IF x.op = "JOIN" THEN Join(w, b, x.o)
                        ELSE Leave(w, b, x.o))

(* A thread takes messages of its partitions (rd_kafka_toppar_producer_    *)
(* serve()) ...                                                            *)
Take(o) ==
    /\ s.tp[o].rkb /\ s.tp[o].br # Internal /\ s.tp[o].q # <<>>
    /\ s' = [s EXCEPT !.tp[o].q = Tail(@), !.tp[o].pid = TRUE,
                      !.tp[o].xq = Append(@, Head(s.tp[o].q))]
    /\ UNCHANGED <<cl, left>>

(* ... and the leader takes them; another broker refuses them.             *)
Deliver(o) ==
    /\ s.tp[o].xq # <<>> /\ UNCHANGED <<cl, left>>
    /\ LET t == s.tp[o]
           lead == IF t.part < Len(cl.lead) THEN cl.lead[t.part + 1] ELSE Null
       IN  IF t.br = lead
           THEN s' = [s EXCEPT !.tp[o].xq = Tail(@),
                               !.sent[t.part] = Append(@, Head(t.xq))]
           ELSE s' = [s EXCEPT !.tp[o].xq = <<>>,
                               !.tp[o].q = Merge(s, @, t.xq)]

(* A consumer is sent to a replica (rd_kafka_fetch_preferred_replica_      *)
(* handle()), and back when its lease expires (rd_kafka_toppar_fetch_      *)
(* decide()); the lock is released in between.                             *)
Prefer(o, b) ==
    /\ s.kind = "consumer" /\ s.tp[o].rkb /\ b \in s.known /\ left.calls > 0
    /\ s.tp[o].br = s.tp[o].lid /\ b # s.tp[o].br /\ ~s.tp[o].unk
    /\ s' = BrokerUpdate(s, o, b, b).w
    /\ left' = [left EXCEPT !.calls = @ - 1] /\ UNCHANGED cl
LeaseExpires(o) ==
    /\ s.tp[o].rkb /\ s.tp[o].lid # s.tp[o].bid /\ s.lease = 0
    /\ s' = [s EXCEPT !.lease = o] /\ UNCHANGED <<cl, left>>
DelegateToLeader ==
    /\ s.lease # 0 /\ UNCHANGED <<cl, left>>
    /\ LET t == s.tp[s.lease]
           w == [s EXCEPT !.lease = 0]
       IN  s' = IF t.lid = t.bid THEN [w EXCEPT !.raced = TRUE]
                ELSE BrokerUpdate(w, s.lease, t.lid,
                        IF t.lid \in s.known THEN t.lid ELSE Null).w

-----------------------------------------------------------------------------
(* The application, and the cluster.                                       *)

Produce(part) ==
    /\ s.kind = "producer" /\ left.msgs > 0 /\ ~Terminating(s)
    /\ s' = MsgPartitioner([s EXCEPT !.next = @ + 1, !.part[s.next] = part], s.next)
    /\ left' = [left EXCEPT !.msgs = @ - 1] /\ UNCHANGED cl

Desire(part) ==
    /\ s.kind = "consumer" /\ left.calls > 0 /\ ~Terminating(s)
    /\ ~\E o \in Objs(s) : s.tp[o].app /\ s.tp[o].part = part
    /\ s' = DesiredAdd(s, part)
    /\ left' = [left EXCEPT !.calls = @ - 1] /\ UNCHANGED cl
Release(o) ==
    /\ s.tp[o].app
    /\ s' = Collect([DesiredDel(s, o) EXCEPT !.tp[o].app = FALSE])
    /\ UNCHANGED <<cl, left>>

(* rd_kafka_destroy(): the flag, then rd_kafka_topic_partitions_remove().  *)
Destroy ==
    /\ s.term = "no" /\ s.lease = 0
    /\ s' = [s EXCEPT !.term = "flag"] /\ UNCHANGED <<cl, left>>
MayRemove == s.term = "flag" /\ s.lease = 0 /\ \A o \in Objs(s) : ~s.tp[o].app
PartitionsRemove ==
    /\ MayRemove
    /\ LET all == s.p \o s.desp
           a == FoldLeft(LAMBDA w, o : [Fails(w, w.tp[o].q) EXCEPT !.tp[o].q = <<>>],
                         [Fails(s, s.ua) EXCEPT !.ua = <<>>], all)
           b == CntUpdate(a, 0)
           c == FoldLeft(DesiredDel, b, Reverse(b.desp))
       IN  s' = Collect([c EXCEPT !.term = "removed"])
    /\ UNCHANGED <<cl, left>>

Change ==
    /\ left.change > 0 /\ cl' \in left.clusters \ {cl}
    /\ left' = [left EXCEPT !.change = @ - 1] /\ UNCHANGED s

Over == s.term = "removed" /\ Objs(s) = {} /\ UNCHANGED vars

-----------------------------------------------------------------------------
Init ==
    /\ left \in Cases /\ cl \in left.clusters
    /\ s = [kind |-> left.kind, tp |-> [o \in Ids |-> Dead], p |-> <<>>, desp |-> <<>>,
             st |-> "UNKNOWN", young |-> TRUE, saved |-> [x \in Parts |-> Null],
             ua |-> <<>>, ops |-> [b \in Hosts |-> <<>>],
             known |-> Brokers \ left.boot, term |-> "no", lease |-> 0,
             next |-> 1, part |-> [m \in 1..MsgCount |-> UA],
             mid |-> [m \in 1..MsgCount |-> 0],
             sent |-> [x \in Parts |-> <<>>], failed |-> {},
             bad |-> FALSE, raced |-> FALSE, back |-> {}, early |-> {}]

ObjStep(o) == o \in Objs(s) /\ (Take(o) \/ Deliver(o) \/ LeaseExpires(o))
Next ==
    \/ Refresh \/ ScanAll \/ Age \/ Denied \/ (\E b \in Brokers : NodeUpdate(b))
    \/ (\E b \in Hosts : Serve(b)) \/ (\E o \in Ids : ObjStep(o))
    \/ DelegateToLeader
    \/ (\E o \in Objs(s), b \in Brokers : Prefer(o, b))
    \/ (\E part \in Wanted : Produce(part))
    \/ (\E part \in Parts : Desire(part)) \/ (\E o \in Objs(s) : Release(o))
    \/ Destroy \/ PartitionsRemove \/ Change \/ Over

Spec == Init /\ [][Next]_vars

(* The threads serve their ops, the metadata is refreshed every            *)
(* topic.metadata.refresh.interval.ms, a bootstrap broker is told its id,  *)
(* a lease expires, and a destroy() that has begun goes on.                *)
(* Weak fairness, with ENABLED spelled out.                                *)
UpToDate == Terminating(s) \/ Collect(MetadataUpdate(s, cl)) = s
Busy(o) ==
    /\ ~s.tp[o].dead
    /\ \/ s.tp[o].rkb /\ s.tp[o].br # Internal /\ s.tp[o].q # <<>>
       \/ s.tp[o].xq # <<>>
       \/ s.tp[o].rkb /\ s.tp[o].lid # s.tp[o].bid /\ s.lease = 0
Fairness ==
    /\ \A b \in Hosts : []<>(s.ops[b] = <<>>) \/ []<><<Serve(b)>>_vars
    /\ \A o \in Ids : []<>~Busy(o) \/ []<><<ObjStep(o)>>_vars
    /\ \A b \in Brokers : []<>(b \in s.known \/ Terminating(s))
                          \/ []<><<NodeUpdate(b)>>_vars
    /\ []<>UpToDate \/ []<><<Refresh>>_vars
    /\ []<>(s.lease = 0) \/ []<><<DelegateToLeader>>_vars
    /\ []<>~MayRemove \/ []<><<PartitionsRemove>>_vars
LiveSpec == Spec /\ Fairness

-----------------------------------------------------------------------------
(* The assertions hold: an object joins a broker when it is on none, with  *)
(* a destination (broker.c:2939, 2963, 2979), leaves the broker it is on   *)
(* (3090), and is freed with nothing being sent (partition.c:320).         *)
AssertsHold == ~s.bad

(* No message is lost or in two places while partitions appear, vanish and *)
(* move: it waits unassigned, in one partition, was sent, or has failed.   *)
Count(ms, m) == Len(SelectSeq(ms, LAMBDA x : x = m))
Places(m) ==
    Count(s.ua, m) + Count(s.sent[0] \o s.sent[1], m)
    + Cardinality({o \in Objs(s) : Count(s.tp[o].q \o s.tp[o].xq, m) > 0})
    + (IF m \in s.failed THEN 1 ELSE 0)
Conserved == \A m \in 1..MsgCount : Places(m) = IF m < s.next THEN 1 ELSE 0

(* Messages do not stay unassigned when the partitions are known.          *)
NoStranded ==
    s.st = "EXISTS" /\ s.p # <<>> /\ s.term = "no" => s.ua = <<>>

(* An object is the one of a known partition, or a desired one that waits  *)
(* for its partition, or is on its way out: a partition has one object     *)
(* that a lookup finds.                                                    *)
Found ==
    /\ \A o \in Objs(s) :
        /\ ~s.tp[o].unk <=> Get(s, s.tp[o].part) = o
        /\ OnDesp(s, o) <=> s.tp[o].unk /\ s.tp[o].des
        /\ s.tp[o].rem => s.tp[o].unk /\ ~s.tp[o].des
    /\ \A i, j \in 1..Len(s.desp) :
        s.tp[s.desp[i]].part = s.tp[s.desp[j]].part => i = j

(* A migration under way has the op that completes it in some queue.       *)
NoLostMigration ==
    \A o \in Objs(s) :
        /\ s.tp[o].rkb <=> s.tp[o].br # Null
        /\ s.tp[o].nx # Null =>
             \E b \in Hosts : \E i \in 1..Len(s.ops[b]) :
                /\ s.ops[b][i].o = o
                /\ IF s.tp[o].br = Null THEN s.ops[b][i].op = "JOIN"
                   ELSE s.ops[b][i].op = "LEAVE" /\ b = s.tp[o].br

(* A message number is used once in a partition, whose messages the broker *)
(* would otherwise take for duplicates, also when the partition vanishes   *)
(* and comes back (unless it vanished with messages and none was sent yet).*)
MsgidOnce ==
    \A x \in Parts \ s.early : \A i, j \in 1..Len(s.sent[x]) :
        s.mid[s.sent[x][i]] = s.mid[s.sent[x][j]] => i = j

(* Once the topic stays as it is every partition is with its leader, or    *)
(* with the replica it was sent to, or with the internal broker while the  *)
(* leader is not known; what was produced has been sent or has failed; and *)
(* what was removed is gone. (Except a partition that was handed back to   *)
(* its leader before the leader's thread had let go of it: back.)          *)
Settled(o) ==
    LET t == s.tp[o]
        lead == cl.lead[t.part + 1]
    IN  o \in s.back \/
        /\ t.nx = Null /\ t.lid = lead
        /\ t.br = IF lead \in s.known THEN t.bid ELSE Internal
        /\ lead \in s.known => t.q \o t.xq = <<>>
Settles ==
    <>[](s.term = "no" =>
        /\ cl.err = "ok" => /\ Len(s.p) = Len(cl.lead) /\ s.ua = <<>>
                            /\ \A i \in 1..Len(s.p) : Settled(s.p[i])
        /\ \A o \in Objs(s) : s.tp[o].rem => s.tp[o].app)

(* A client that is destroyed frees every object.                          *)
Frees == s.term = "removed" ~> Objs(s) = {}

(* No message is lost, doubled, forgotten or numbered as another one is    *)
(* (rd_kafka_topic_assign_uas(), rd_kafka_toppar_enq_msg()).               *)
MessagesKept == Conserved /\ NoStranded /\ MsgidOnce

(* A partition's object is found, and is with one broker or on its way to  *)
(* one (rd_kafka_toppar_desired_get(), rd_kafka_toppar_broker_migrate()).  *)
PartitionsFound == AssertsHold /\ Found /\ NoLostMigration
=============================================================================
