-------------------------------- MODULE Conf --------------------------------
(***************************************************************************)
(* Configuration objects and the client made from one                      *)
(* (hs_rdkafka_conf.c, rd_kafka_new() in hs_rdkafka.c,                     *)
(* rd_kafka_topic_new0() in hs_rdkafka_topic.c).  An object holds a value  *)
(* for each property and which of them were set; rd_kafka_conf_finalize()  *)
(* refuses what conflicts and adjusts what was not set.  The properties    *)
(* are the ones that it relates to each other, and one of each type.       *)
(***************************************************************************)
EXTENDS Integers, Sequences, SequencesExt

CONSTANTS
    Menus,    \* sets of the <<name, value>> pairs that an application sets
    MaxSets,  \* bound: properties set
    MaxNews   \* bound: attempts to make a client

VARIABLES
    menu,    \* what this application may set
    obj,     \* its configuration objects: a first, a copy, the library's own
    rk,      \* the client made from one of them
    topic,   \* a topic of that client
    left     \* what is left of the bounds

cvars == <<menu, obj, rk, topic, left>>

Objs == {"conf", "copy", "own"}
Types == {"producer", "consumer"}
INT_MAX == 2147483647
Least(x, y) == IF x < y THEN x ELSE y
Most(x, y) == IF x < y THEN y ELSE x

(* f @@ g of the module TLC, which is not defined for the prover.          *)
Merged(f, g) == [x \in DOMAIN f \cup DOMAIN g |-> IF x \in DOMAIN f THEN f[x] ELSE g[x]]

-----------------------------------------------------------------------------
(* rd_kafka_properties: the type, range and default of a property.  A word *)
(* stands for its place from zero, or for -1 where that is allowed; flags  *)
(* are bits; a string is 0 when unset, 1 when good; queue.buffering.max.ms *)
(* is in tenths of a millisecond.                                          *)
Row(type, min, max, def, words) ==
    [type |-> type, min |-> min, max |-> max, def |-> def, words |-> words]
IntRow(min, max, def) == Row("int", min, max, def, <<>>)
BoolRow == Row("bool", 0, 1, 0, <<"false", "true">>)
TextRow(def) == Row("str", 0, 2, def, <<>>)
ClientRows ==
    [max_msg_size |-> IntRow(1000, 1000000000, 1000000),
     recv_max_msg_size |-> IntRow(1000, INT_MAX, 100000000),
     max_inflight |-> IntRow(1, 1000000, 1000000),
     metadata_refresh_interval_ms |-> IntRow(-1, 3600000, 300000),
     metadata_max_age_ms |-> IntRow(1, 86400000, 900000),
     topic_blacklist |-> Row("patlist", 0, 1, 0, <<>>),
     debug |-> Row("s2f", 0, 3, 0, <<"broker", "topic">>),
     socket_timeout_ms |-> IntRow(10, 300000, 60000)]
BackoffRows ==
    [reconnect_backoff_ms |-> IntRow(0, 3600000, 100),
     reconnect_backoff_max_ms |-> IntRow(0, 3600000, 10000)]
GroupRows ==
    [partition_assignment_strategy |-> TextRow(1),
     group_session_timeout_ms |-> IntRow(1, 3600000, 45000),
     max_poll_interval_ms |-> IntRow(1, 86400000, 300000),
     queued_max_msg_kbytes |-> IntRow(1, INT_MAX \div 1024, 65536),
     fetch_max_bytes |-> IntRow(0, INT_MAX - 512, 52428800)]
ProducerRows ==
    [allow_auto_create_topics |-> BoolRow,
     transactional_id |-> TextRow(0),
     transaction_timeout_ms |-> IntRow(1000, INT_MAX, 60000),
     idempotence |-> BoolRow, gapless |-> BoolRow,
     buffering_max_ms |-> Row("dbl", 0, 9000000, 50, <<>>),
     max_retries |-> IntRow(0, INT_MAX, INT_MAX),
     queue_backpressure_thres |-> IntRow(1, 1000000, 1),
     sticky_partition_linger_ms |-> IntRow(0, 900000, 10)]
Global == Merged(Merged(ClientRows, BackoffRows), Merged(GroupRows, ProducerRows))
Topic ==
    [required_acks |-> Row("int", -1, 1000, -1, <<"all">>),
     message_timeout_ms |-> IntRow(0, INT_MAX, 300000),
     queuing_strategy |-> Row("s2i", 0, 1, 0, <<"fifo", "lifo">>)]

(* rd_kafka_conf_new, rd_kafka_topic_conf_new: nothing counts as set.      *)
Defaults(table) == [p \in DOMAIN table |-> table[p].def]
NoTopicConf == [val |-> <<>>, mod |-> {}]
TopicConfNew == [val |-> Defaults(Topic), mod |-> {}]
ConfNew == [val |-> Defaults(Global), mod |-> {}, topic_conf |-> NoTopicConf]
HasTopicConf(c) == c.topic_conf # NoTopicConf

-----------------------------------------------------------------------------
(* A value is nothing, a number, a word, signed flags, or some text: 1 is  *)
(* good for the property, 2 is not.                                        *)
IsValue(v) == v.kind \in {"number", "text"} => v.n \in Int
ASSUME ConfAssumption == \A m \in Menus : \A i \in m : IsValue(i[2])

Found(c) == [res |-> "ok", conf |-> c]
Invalid(c) == [res |-> "invalid", conf |-> c]
Unknown(c) == [res |-> "unknown", conf |-> c]
Put(c, p, n) == Found([c EXCEPT !.val[p] = n, !.mod = @ \cup {p}])
WordAt(row, w) == {i \in DOMAIN row.words : row.words[i] = w}
InRange(row, n) == row.min <= n /\ n <= row.max

(* The number that a word of an integer property stands for.               *)
Meaning(row, i) == IF row.min = -1 THEN -1 ELSE i - 1

(* rd_kafka_anyconf_set_prop: each flag of a list is added or taken away   *)
(* as it is met, so that those before an unknown one stay, and of two that *)
(* disagree the later counts.                                              *)
Bit(i) == IF i = 1 THEN 1 ELSE 2
HasBit(n, i) == (n \div Bit(i)) % 2 = 1
Met(row, flags) ==
    {i \in DOMAIN flags : \A j \in 1..i : WordAt(row, flags[j].word) # {}}
FlagAfter(n, i, row, flags) ==
    LET at == {j \in Met(row, flags) : i \in WordAt(row, flags[j].word)}
        on == IF at = {} THEN HasBit(n, i)
              ELSE flags[CHOOSE j \in at : \A k \in at : k <= j].sign = "+"
    IN IF on THEN Bit(i) ELSE 0
SetFlags(c, p, row, flags) ==
    LET n == FlagAfter(c.val[p], 1, row, flags) + FlagAfter(c.val[p], 2, row, flags)
        set == IF Met(row, flags) = {} THEN Found(c) ELSE Put(c, p, n)
    IN IF Met(row, flags) = DOMAIN flags THEN set ELSE Invalid(set.conf)

SetNumber(c, p, row, n) == IF InRange(row, n) THEN Put(c, p, n) ELSE Invalid(c)
SetWord(c, p, row, w) ==
    IF WordAt(row, w) = {} THEN Invalid(c)
    ELSE Put(c, p, Meaning(row, CHOOSE i \in WordAt(row, w) : TRUE))

(* An unset string takes its default.  A bad pattern is found after the    *)
(* old ones are destroyed.                                                 *)
SetText(c, p, row, value) ==
    CASE value.kind = "none" -> Put(c, p, row.def)
      [] value.kind = "text" /\ InRange(row, value.n) -> Put(c, p, value.n)
      [] OTHER -> Invalid([c EXCEPT !.val[p] = 0])

SetProp(c, p, row, value) ==
    CASE row.type \in {"str", "patlist"} -> SetText(c, p, row, value)
      [] row.type = "s2f" /\ value.kind = "flags" -> SetFlags(c, p, row, value.flags)
      [] row.type \in {"int", "bool", "s2i"} /\ value.kind = "word" ->
           SetWord(c, p, row, value.word)
      [] row.type \in {"int", "bool", "dbl"} /\ value.kind = "number" ->
           SetNumber(c, p, row, value.n)
      [] OTHER -> Invalid(c)

(* rd_kafka_conf_set: a name that is no global property is set on the      *)
(* default topic configuration, which is made for it though the name be    *)
(* unknown there too.                                                      *)
AnyconfSet(c, table, p, value) ==
    IF p \in DOMAIN table THEN SetProp(c, p, table[p], value) ELSE Unknown(c)
ConfSet(c, p, value) ==
    LET r == AnyconfSet(c, Global, p, value)
        with == IF HasTopicConf(c) THEN c ELSE [c EXCEPT !.topic_conf = TopicConfNew]
        t == AnyconfSet(with.topic_conf, Topic, p, value)
    IN IF r.res # "unknown" THEN r
       ELSE [res |-> t.res, conf |-> [with EXCEPT !.topic_conf = t.conf]]

(* rd_kafka_conf_set_default_topic_conf: the new one replaces the old.     *)
SetDefaultTopicConf(c, t) == [c EXCEPT !.topic_conf = t]

(* rd_kafka_anyconf_copy: only what was set is copied, by way of its text; *)
(* "%g" keeps six digits of linger.ms.                                     *)
RoundsUp(n) == n % 10 > 5 \/ (n % 10 = 5 /\ (n \div 10) % 2 = 1)
Printed(p, n) ==
    IF p # "buffering_max_ms" \/ n < 1000000 THEN n
    ELSE ((n \div 10) + (IF RoundsUp(n) THEN 1 ELSE 0)) * 10
CopyOf(c, new) ==
    [new EXCEPT !.val = [p \in DOMAIN @ |-> IF p \in c.mod THEN Printed(p, c.val[p]) ELSE @[p]],
                !.mod = c.mod]
TopicConfDup(t) == CopyOf(t, TopicConfNew)
ConfDup(c) ==
    [CopyOf(c, ConfNew) EXCEPT
        !.topic_conf = IF HasTopicConf(c) THEN TopicConfDup(c.topic_conf) ELSE NoTopicConf]

-----------------------------------------------------------------------------
(* rd_kafka_conf_finalize, in stages.  A stage that refuses ends it, and   *)
(* what the earlier ones changed stays changed; no change counts as set.   *)
IsSet(c, p) == p \in c.mod
With(c, p, n) == [c EXCEPT !.val[p] = n]
Check(c, ok) == IF ok THEN Found(c) ELSE Invalid(c)
Then(r, next) == IF r.res = "ok" THEN next ELSE r

FetchSize(c) ==
    LET v == c.val
        room == Most(Least(v.fetch_max_bytes, v.queued_max_msg_kbytes * 1024), v.max_msg_size)
    IN IF IsSet(c, "fetch_max_bytes") THEN Check(c, v.fetch_max_bytes >= v.max_msg_size)
       ELSE Found(With(c, "fetch_max_bytes", room))
ReceiveSize(c) ==
    LET need == c.val.fetch_max_bytes + 512 IN
    IF IsSet(c, "recv_max_msg_size") THEN Check(c, need <= c.val.recv_max_msg_size)
    ELSE Found(With(c, "recv_max_msg_size", Most(c.val.recv_max_msg_size, need)))
PollInterval(c) ==
    IF c.val.max_poll_interval_ms < c.val.group_session_timeout_ms THEN Invalid(c)
    ELSE Found(With(c, "idempotence", 0))
FinalizeConsumer(c) ==
    LET fetch == FetchSize(c)
        receive == Then(fetch, ReceiveSize(fetch.conf))
    IN Then(receive, PollInterval(receive.conf))

(* The sum overflows when transaction.timeout.ms is within 100 ms of       *)
(* INT_MAX, which no menu holds.                                           *)
Transactional(c) == c.val.transactional_id # 0
TransactionIdempotence(c) ==
    IF Transactional(c) /\ c.val.idempotence = 0
    THEN IF IsSet(c, "idempotence") THEN Invalid(c) ELSE Found(With(c, "idempotence", 1))
    ELSE Found(c)
TransactionTimeout(c) ==
    LET t == c.val.transaction_timeout_ms IN
    IF ~Transactional(c) THEN Found(c)
    ELSE IF IsSet(c, "socket_timeout_ms") THEN Check(c, t + 100 >= c.val.socket_timeout_ms)
    ELSE Found(With(c, "socket_timeout_ms", Most(t - 100, 900)))

IDEMP_MAX_INFLIGHT == 5
(* Mutant: what the application set is not looked at.                      *)
InFlightAny(c) == Found(c)
InFlight(c) ==
    IF IsSet(c, "max_inflight") THEN Check(c, c.val.max_inflight <= IDEMP_MAX_INFLIGHT)
    ELSE Found(With(c, "max_inflight", Least(c.val.max_inflight, IDEMP_MAX_INFLIGHT)))
Retries(c) ==
    IF IsSet(c, "max_retries") THEN Check(c, c.val.max_retries >= 1)
    ELSE Found(With(c, "max_retries", INT_MAX))
Backpressure(c) ==
    IF IsSet(c, "queue_backpressure_thres") /\ c.val.queue_backpressure_thres > 1 THEN Invalid(c)
    ELSE Found(With(c, "queue_backpressure_thres", 1))
Idempotence(c) ==
    LET flight == InFlight(c)
        retries == Then(flight, Retries(flight.conf))
    IN IF c.val.idempotence = 1 THEN Then(retries, Backpressure(retries.conf))
       ELSE Check(c, ~(c.val.gapless = 1 /\ IsSet(c, "gapless")))
StickyLinger(c) ==
    Found(IF IsSet(c, "sticky_partition_linger_ms") THEN c
          ELSE With(c, "sticky_partition_linger_ms",
                    Least(900000, (2 * c.val.buffering_max_ms) \div 10)))
FinalizeProducer(c) ==
    LET txn == TransactionIdempotence(c)
        timeout == Then(txn, TransactionTimeout(txn.conf))
        idemp == Then(timeout, Idempotence(timeout.conf))
    IN Then(idemp, StickyLinger(idemp.conf))

MetadataAge(c) ==
    Found(IF ~IsSet(c, "metadata_max_age_ms") /\ c.val.metadata_refresh_interval_ms > 0
          THEN With(c, "metadata_max_age_ms", c.val.metadata_refresh_interval_ms * 3) ELSE c)
Backoff(c) == Check(c, c.val.reconnect_backoff_max_ms >= c.val.reconnect_backoff_ms)
AutoCreate(type, c) ==
    Found(IF IsSet(c, "allow_auto_create_topics") THEN c
          ELSE With(c, "allow_auto_create_topics", IF type = "producer" THEN 1 ELSE 0))

(* rd_kafka_topic_conf_finalize *)
TopicIdempotence(c, t) ==
    LET acks == IF IsSet(t, "required_acks") THEN t ELSE With(t, "required_acks", -1)
        fifo == IF IsSet(t, "queuing_strategy") THEN acks ELSE With(acks, "queuing_strategy", 0)
    IN IF c.val.idempotence = 0 THEN Found(t)
       ELSE IF acks.val.required_acks # -1 THEN Invalid(t)
       ELSE Check(fifo, fifo.val.queuing_strategy = 0)
TopicTransaction(c, t) ==
    LET limit == c.val.transaction_timeout_ms IN
    IF c.val.idempotence = 0 \/ ~Transactional(c) THEN Found(t)
    ELSE IF ~IsSet(t, "message_timeout_ms") THEN Found(With(t, "message_timeout_ms", limit))
    ELSE Check(t, t.val.message_timeout_ms <= limit)
LingersTooLong(c, t) ==
    /\ t.val.message_timeout_ms # 0
    /\ t.val.message_timeout_ms * 10 <= c.val.buffering_max_ms
TopicLinger(c, t) == Check(t, ~(LingersTooLong(c, t) /\ IsSet(c, "buffering_max_ms")))
TopicConfFinalize(type, c, t) ==
    IF type # "producer" THEN Found(t)
    ELSE LET idemp == TopicIdempotence(c, t)
             txn == Then(idemp, TopicTransaction(c, idemp.conf))
         IN Then(txn, TopicLinger(c, txn.conf))

(* Of the default topic configuration linger.ms is lowered first.          *)
DefaultTopicConf(type, c) ==
    LET adjust == type = "producer" /\ LingersTooLong(c, c.topic_conf)
        lowered == IF adjust THEN With(c, "buffering_max_ms",
                                       c.topic_conf.val.message_timeout_ms * 10 - 1)
                   ELSE c
        t == TopicConfFinalize(type, lowered, c.topic_conf)
    IN IF ~HasTopicConf(c) THEN Found(c)
       ELSE IF adjust /\ IsSet(c, "buffering_max_ms") THEN Invalid(c)
       ELSE [res |-> t.res, conf |-> [lowered EXCEPT !.topic_conf = t.conf]]
ConfFinalize(type, c) ==
    LET typed == IF type = "consumer" THEN FinalizeConsumer(c) ELSE FinalizeProducer(c)
        age == Then(typed, MetadataAge(typed.conf))
        backoff == Then(age, Backoff(age.conf))
        create == Then(backoff, AutoCreate(type, backoff.conf))
    IN Then(create, DefaultTopicConf(type, create.conf))

-----------------------------------------------------------------------------
(* An object: whether its struct and the memory its fields point to are    *)
(* there, how often each was freed, and what the application set to what.  *)
NoObject == [st |-> "none", conf |-> <<>>, given |-> <<>>, tries |-> 0, freed |-> <<0, 0>>]
NoClient == [st |-> "none"]
NoTopic == [st |-> "none"]
Usable(o) == obj[o].st = "live"
Up == rk.st = "up"
FreeBase(x) == [x EXCEPT !.st = "gone", !.freed[1] = @ + 1]
FreeFields(x) == [x EXCEPT !.freed[2] = @ + 1]
Spend(f) == left[f] > 0 /\ left' = [left EXCEPT ![f] = @ - 1]

(* rd_kafka_conf_new.  An application makes an object, or passes none.     *)
Make ==
    /\ obj["conf"].st = "none" /\ obj["own"].st = "none"
    /\ obj' = [obj EXCEPT !["conf"] = [@ EXCEPT !.st = "live", !.conf = ConfNew]]
    /\ UNCHANGED <<menu, rk, topic, left>>

(* rd_kafka_conf_set *)
Noted(given, p, n) == Merged([q \in {p} |-> n], given)
Set(o, p, value) ==
    /\ Usable(o) /\ Spend("sets")
    /\ LET r == ConfSet(obj[o].conf, p, value)
       IN obj' = [obj EXCEPT ![o].conf = r.conf,
                             ![o].given = IF p \in r.conf.mod THEN Noted(@, p, r.conf.val[p])
                                          ELSE @]
    /\ UNCHANGED <<menu, rk, topic>>

(* rd_kafka_topic_conf_set, then rd_kafka_conf_set_default_topic_conf.     *)
SetTopic(o, p, value) ==
    /\ Usable(o) /\ Spend("sets")
    /\ LET t == AnyconfSet(TopicConfNew, Topic, p, value)
       IN t.res = "ok" /\ obj' = [obj EXCEPT ![o].conf = SetDefaultTopicConf(@, t.conf)]
    /\ UNCHANGED <<menu, rk, topic>>

(* rd_kafka_conf_dup, of the configuration of the client or, to bound the  *)
(* copies, of an object that is set no more.                               *)
Dup ==
    /\ obj["copy"].st = "none"
    /\ \E c \in {obj[o].conf : o \in {x \in {"conf"} : Usable(x) /\ left.sets = 0}}
             \cup (IF Up THEN {rk.conf} ELSE {}) :
          obj' = [obj EXCEPT !["copy"] =
                    [@ EXCEPT !.st = "live", !.conf = ConfDup(c),
                              !.given = [p \in c.mod |-> Printed(p, c.val[p])]]]
    /\ UNCHANGED <<menu, rk, topic, left>>

(* rd_kafka_conf_destroy *)
Destroy(o) ==
    /\ Usable(o) /\ o # "own"
    /\ obj' = [obj EXCEPT ![o] = FreeBase(FreeFields(@))]
    /\ UNCHANGED <<menu, rk, topic, left>>

(* rd_kafka_new: the object is finalized in place.  The client's conf is   *)
(* a copy of the struct, so that the fields belong to one of the two: to   *)
(* the client once it is made, and to the application, which keeps its     *)
(* object, when it is not; an object of the library's own is freed then.   *)
(* rd_kafka_assignors_init refuses a strategy, and a thread may fail to    *)
(* start.  The wait for the threads to start is taken to end.              *)
Given(o) == o # "own"
ConfOf(o) == IF obj[o].st = "none" THEN ConfNew ELSE obj[o].conf
Finalized(o, type) == ConfFinalize(type, ConfOf(o))
Tried(o, type) == [obj[o] EXCEPT !.conf = Finalized(o, type).conf, !.tries = @ + 1]
NewRefused(o, type) ==
    /\ Finalized(o, type).res # "ok"
    /\ obj' = [obj EXCEPT ![o] = IF Given(o) THEN Tried(o, type)
                                 ELSE FreeBase(FreeFields(Tried(o, type)))]
    /\ UNCHANGED rk
NewFails(o, type) ==
    /\ Finalized(o, type).res = "ok"
    /\ obj' = [obj EXCEPT ![o] = IF Given(o) THEN Tried(o, type)
                                 ELSE FreeFields(FreeBase(Tried(o, type)))]
    /\ UNCHANGED rk
NewWorks(o, type) ==
    /\ Finalized(o, type).res = "ok"
    /\ ConfOf(o).val.partition_assignment_strategy = 1
    /\ obj' = [obj EXCEPT ![o] = FreeBase(Tried(o, type))]
    /\ rk' = [st |-> "up", type |-> type, from |-> o, conf |-> Finalized(o, type).conf]
NewClient(o, type) ==
    /\ rk.st = "none" /\ Spend("news")
    /\ Usable(o) \/ (o = "own" /\ \A x \in Objs : obj[x].st = "none")
    /\ NewRefused(o, type) \/ NewFails(o, type) \/ NewWorks(o, type)
    /\ UNCHANGED <<menu, topic>>

(* rd_kafka_topic_new0: with a configuration of the topic's own, or with   *)
(* a copy of the client's default one.                                     *)
TopicNew(own, p, value) ==
    /\ Up /\ topic.st = "none"
    /\ LET base == IF HasTopicConf(rk.conf) THEN TopicConfDup(rk.conf.topic_conf) ELSE TopicConfNew
           set == AnyconfSet(TopicConfNew, Topic, p, value)
           r == TopicConfFinalize(rk.type, rk.conf, IF own THEN set.conf ELSE base)
       IN /\ own => set.res = "ok"
          /\ topic' = [st |-> IF r.res = "ok" THEN "made" ELSE "refused", own |-> own, conf |-> r.conf]
    /\ UNCHANGED <<menu, obj, rk, left>>

(* rd_kafka_destroy: the fields of the client's copy are freed.            *)
DestroyClient ==
    /\ Up
    /\ obj' = [obj EXCEPT ![rk.from] = FreeFields(@)]
    /\ rk' = [st |-> "gone"] /\ topic' = NoTopic
    /\ UNCHANGED <<menu, left>>

-----------------------------------------------------------------------------
ConfInit ==
    /\ menu \in Menus
    /\ obj = [o \in Objs |-> NoObject]
    /\ rk = NoClient /\ topic = NoTopic
    /\ left = [sets |-> MaxSets, news |-> MaxNews]

ConfNext ==
    \/ Make \/ Dup \/ DestroyClient \/ (\E o \in Objs : Destroy(o))
    \/ \E i \in menu : Set("conf", i[1], i[2]) \/ SetTopic("conf", i[1], i[2])
    \/ \E o \in Objs, type \in Types : NewClient(o, type)
    \/ \E i \in menu, own \in BOOLEAN : TopicNew(own, i[1], i[2])

ConfSpec == ConfInit /\ [][ConfNext]_cvars

-----------------------------------------------------------------------------
(* What an idempotent or transactional producer and its broker rely on     *)
(* holds of the client, and of each of its topics.                         *)
ProducerSound(v) ==
    /\ v.transactional_id # 0 => v.idempotence = 1
                                 /\ v.socket_timeout_ms <= v.transaction_timeout_ms + 100
    /\ v.idempotence = 1 => /\ v.max_inflight <= 5 /\ v.max_retries >= 1
                            /\ v.queue_backpressure_thres = 1
TopicSound(c, t) ==
    /\ c.val.idempotence = 1 => t.val.required_acks = -1 /\ t.val.queuing_strategy = 0
    /\ c.val.transactional_id # 0 => t.val.message_timeout_ms <= c.val.transaction_timeout_ms
    /\ IsSet(c, "buffering_max_ms") => ~LingersTooLong(c, t)
ConsumerSound(v) ==
    /\ v.fetch_max_bytes >= v.max_msg_size
    /\ v.recv_max_msg_size >= v.fetch_max_bytes + 512
    /\ v.max_poll_interval_ms >= v.group_session_timeout_ms
    /\ v.idempotence = 0
ClientSound ==
    /\ Up /\ rk.type = "producer" =>
          /\ ProducerSound(rk.conf.val)
          /\ HasTopicConf(rk.conf) => TopicSound(rk.conf, rk.conf.topic_conf)
                                      /\ ~LingersTooLong(rk.conf, rk.conf.topic_conf)
          /\ topic.st = "made" => TopicSound(rk.conf, topic.conf)
    /\ Up /\ rk.type = "consumer" => ConsumerSound(rk.conf.val)

(* What the application set is refused or kept, by any number of attempts. *)
(* (A consumer turns idempotence off.)                                     *)
SettingsKept ==
    \A o \in Objs : \A p \in DOMAIN obj[o].given \ {"idempotence"} :
        obj[o].conf.val[p] = obj[o].given[p]

(* A copy of a client's configuration makes the same client, and a topic   *)
(* has the client's defaults, though what was adjusted is not copied: it   *)
(* is derived again.  It takes an object that was not finalized before,    *)
(* and a linger.ms that survives printing.                                 *)
Repeats == Up /\ obj[rk.from].tries = 1 /\ rk.conf.val.buffering_max_ms < 1000000
CopySame ==
    Repeats => /\ ConfFinalize(rk.type, ConfDup(rk.conf)) = Found(rk.conf)
               /\ topic.st # "none" /\ ~topic.own /\ HasTopicConf(rk.conf) =>
                     topic.st = "made" /\ topic.conf = rk.conf.topic_conf

(* The struct and the fields of an object are freed once, the fields not   *)
(* before the client that uses them is gone, and none is left.             *)
FreedOnce ==
    \A o \in Objs :
        LET used == Up /\ rk.from = o
            x == obj[o]
        IN /\ x.freed[1] = (IF x.st = "gone" THEN 1 ELSE 0)
           /\ x.freed[2] = (IF x.st = "gone" /\ ~used THEN 1 ELSE 0)

(* A client is made of settings that agree, what the application set is    *)
(* kept or refused, a copy makes the same client, and nothing is freed     *)
(* twice (rd_kafka_conf_finalize(), rd_kafka_conf_dup(), rd_kafka_new()).  *)
ConfSound == ClientSound /\ SettingsKept /\ CopySame /\ FreedOnce
=============================================================================
