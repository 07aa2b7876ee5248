----------------------------- MODULE ConfProofs -----------------------------
(***************************************************************************)
(* Configurations, for every application and whatever it sets: the memory  *)
(* of an object is freed once, a client is made of settings that agree,    *)
(* what the application set is kept, and a copy makes the same client.     *)
(***************************************************************************)
EXTENDS Conf, TLAPS

-----------------------------------------------------------------------------
(* Who frees an object.                                                    *)

Fields == {"st", "conf", "given", "tries", "freed"}
IsObject(x) == /\ x = [f \in Fields |-> x[f]] /\ DOMAIN x = Fields
               /\ x.freed \in [1..2 -> Int]

(* The objects are records, and the client is made of one whose struct is  *)
(* gone: rd_kafka_new() has taken its fields over.                         *)
Owned == /\ DOMAIN obj = Objs /\ \A o \in Objs : IsObject(obj[o])
         /\ obj = [o \in Objs |-> obj[o]]
         /\ Up => rk.from \in Objs /\ obj[rk.from].st = "gone"

(* What freeing a struct does to an object, and what freeing its fields.   *)
LEMMA FreeBaseIs ==
    ASSUME NEW x, IsObject(x)
    PROVE  /\ IsObject(FreeBase(x)) /\ FreeBase(x).st = "gone"
           /\ FreeBase(x).freed[1] = x.freed[1] + 1 /\ FreeBase(x).freed[2] = x.freed[2]
<1> DEFINE v == [x EXCEPT !.st = "gone"]
           n == [x.freed EXCEPT ![1] = @ + 1]
<1>1. FreeBase(x) = [v EXCEPT !.freed = n]
  <2>1. v.freed = x.freed
    BY DEF IsObject, Fields
  <2>2. FreeBase(x) = [v EXCEPT !.freed[1] = @ + 1]
    BY DEF FreeBase
  <2> QED BY <2>1, <2>2
<1>2. n \in [1..2 -> Int] /\ n[1] = x.freed[1] + 1 /\ n[2] = x.freed[2]
  BY DEF IsObject
<1>3. v = [f \in Fields |-> v[f]] /\ DOMAIN v = Fields /\ v.st = "gone"
  BY DEF IsObject, Fields
<1> HIDE DEF v, n
<1> QED BY <1>1, <1>2, <1>3 DEF IsObject, Fields

(* rd_kafka_anyconf_destroy(): one more free of the fields, nothing else.  *)
LEMMA FreeFieldsIs ==
    ASSUME NEW x, IsObject(x)
    PROVE  /\ IsObject(FreeFields(x)) /\ FreeFields(x).st = x.st
           /\ FreeFields(x).freed[1] = x.freed[1] /\ FreeFields(x).freed[2] = x.freed[2] + 1
BY DEF IsObject, Fields, FreeFields

(* An attempt at a client changes no more than the values of the object.   *)
LEMMA TriedIs ==
    ASSUME NEW o, NEW type, IsObject(obj[o])
    PROVE  /\ IsObject(Tried(o, type)) /\ Tried(o, type).st = obj[o].st
           /\ Tried(o, type).freed = obj[o].freed
<1> DEFINE c == Finalized(o, type).conf
<1> HIDE DEF c
<1>1. Tried(o, type) = [obj[o] EXCEPT !.conf = c, !.tries = @ + 1]
  BY DEF Tried, c
<1> QED BY <1>1 DEF IsObject, Fields

(* An object replaced by another.                                          *)
LEMMA Replaced ==
    ASSUME Owned, NEW o \in Objs, NEW y, IsObject(y), obj' = [obj EXCEPT ![o] = y]
    PROVE  /\ DOMAIN obj' = Objs /\ obj' = [x \in Objs |-> obj'[x]]
           /\ obj'[o] = y /\ \A x \in Objs \ {o} : obj'[x] = obj[x]
           /\ \A x \in Objs : IsObject(obj'[x])
BY DEF Owned

Freed == Owned /\ FreedOnce
Gone(x) == IF x.st = "gone" THEN 1 ELSE 0

(* Nothing has been freed initially.                                       *)
LEMMA FreedInit == ConfInit => Freed
<1> SUFFICES ASSUME ConfInit PROVE Freed
  OBVIOUS
<1>1. IsObject(NoObject) /\ NoObject.st = "none" /\ NoObject.freed = <<0, 0>>
  BY DEF NoObject, IsObject, Fields
<1>2. ~Up
  BY DEF ConfInit, Up, NoClient
<1> QED BY <1>1, <1>2 DEF ConfInit, Freed, Owned, FreedOnce

(* Every call frees the struct and the fields of an object as often as it  *)
(* should.                                                                 *)
LEMMA FreedStep == Freed /\ [ConfNext]_cvars => Freed'
<1> SUFFICES ASSUME Freed, [ConfNext]_cvars PROVE Freed'
  OBVIOUS
<1> USE DEF Freed
<1>0. \A o \in Objs : IsObject(obj[o]) /\ obj[o].freed \in [1..2 -> Int]
  BY DEF Owned, IsObject
(* A step that changes the values of one object only.                      *)
<1>a. ASSUME NEW o \in Objs, NEW y, IsObject(y), obj' = [obj EXCEPT ![o] = y], UNCHANGED rk,
             y.freed = obj[o].freed, (y.st = "gone") <=> (obj[o].st = "gone")
      PROVE  Freed'
  <2>1. Owned'
    BY <1>a, Replaced DEF Owned, Up
  <2>2. FreedOnce'
    BY <1>a, Replaced DEF FreedOnce, Up
  <2> QED BY <2>1, <2>2
(* An object that nobody uses is freed.                                    *)
<1>b. ASSUME NEW o \in Objs, NEW y, IsObject(y), obj' = [obj EXCEPT ![o] = y], UNCHANGED rk,
             obj[o].st # "gone", y.st = "gone", y.freed[1] = obj[o].freed[1] + 1,
             y.freed[2] = obj[o].freed[2] + 1
      PROVE  Freed'
  <2>1. Owned'
    BY <1>b, Replaced DEF Owned, Up
  <2>2. FreedOnce'
    BY <1>0, <1>b, Replaced DEF FreedOnce, Up, Owned
  <2> QED BY <2>1, <2>2
<1>1. CASE Make
  <2> DEFINE c == ConfNew
             y == [obj["conf"] EXCEPT !.st = "live", !.conf = c]
  <2>1. obj' = [obj EXCEPT !["conf"] = y] /\ UNCHANGED rk /\ "conf" \in Objs
    BY <1>1 DEF Make, Objs
  <2> HIDE DEF c
  <2>2. IsObject(y) /\ y.freed = obj["conf"].freed /\ y.st = "live" /\ obj["conf"].st = "none"
    BY <1>0, <1>1 DEF Make, IsObject, Fields, Objs
  <2> QED BY <2>1, <2>2, <1>a
<1>2. CASE Dup
  <2>1. PICK c : obj' = [obj EXCEPT !["copy"] =
                    [@ EXCEPT !.st = "live", !.conf = ConfDup(c),
                              !.given = [p \in c.mod |-> Printed(p, c.val[p])]]]
    BY <1>2 DEF Dup
  <2> DEFINE d == ConfDup(c)
             g == [p \in c.mod |-> Printed(p, c.val[p])]
             y == [obj["copy"] EXCEPT !.st = "live", !.conf = d, !.given = g]
  <2>2. obj' = [obj EXCEPT !["copy"] = y] /\ UNCHANGED rk /\ "copy" \in Objs
    BY <1>2, <2>1 DEF Dup, Objs
  <2> HIDE DEF d, g
  <2>3. IsObject(y) /\ y.freed = obj["copy"].freed /\ y.st = "live" /\ obj["copy"].st = "none"
    BY <1>0, <1>2 DEF Dup, IsObject, Fields, Objs
  <2> QED BY <2>2, <2>3, <1>a
<1>3. ASSUME NEW o \in Objs, Destroy(o) PROVE Freed'
  <2> DEFINE y == FreeBase(FreeFields(obj[o]))
  <2>1. obj' = [obj EXCEPT ![o] = y] /\ UNCHANGED rk /\ obj[o].st # "gone"
    BY <1>3 DEF Destroy, Usable
  <2>2. IsObject(y) /\ y.st = "gone" /\ y.freed[1] = obj[o].freed[1] + 1
        /\ y.freed[2] = obj[o].freed[2] + 1
    BY <1>0, FreeBaseIs, FreeFieldsIs
  <2> QED BY <2>1, <2>2, <1>b
<1>4. ASSUME NEW p, NEW value, Set("conf", p, value) PROVE Freed'
  <2> DEFINE r == ConfSet(obj["conf"].conf, p, value)
             g == IF p \in r.conf.mod THEN Noted(obj["conf"].given, p, r.conf.val[p])
                  ELSE obj["conf"].given
             c == r.conf
             y == [obj["conf"] EXCEPT !.conf = c, !.given = g]
  <2>1. obj' = [obj EXCEPT !["conf"].conf = c, !["conf"].given = g] /\ UNCHANGED rk
    BY <1>4 DEF Set
  <2> HIDE DEF c, g
  <2>2. obj' = [obj EXCEPT !["conf"] = y] /\ UNCHANGED rk /\ "conf" \in Objs
    BY <2>1 DEF Objs, Owned
  <2>3. IsObject(y) /\ y.freed = obj["conf"].freed /\ y.st = obj["conf"].st
    BY <1>0 DEF IsObject, Fields, Objs
  <2> QED BY <2>2, <2>3, <1>a
<1>5. ASSUME NEW p, NEW value, SetTopic("conf", p, value) PROVE Freed'
  <2> DEFINE c == SetDefaultTopicConf(obj["conf"].conf, AnyconfSet(TopicConfNew, Topic, p, value).conf)
             y == [obj["conf"] EXCEPT !.conf = c]
  <2>1. obj' = [obj EXCEPT !["conf"].conf = c] /\ UNCHANGED rk
    BY <1>5 DEF SetTopic
  <2> HIDE DEF c
  <2>2. obj' = [obj EXCEPT !["conf"] = y] /\ UNCHANGED rk /\ "conf" \in Objs
    BY <2>1 DEF Objs, Owned
  <2>3. IsObject(y) /\ y.freed = obj["conf"].freed /\ y.st = obj["conf"].st
    BY <1>0 DEF IsObject, Fields, Objs
  <2> QED BY <2>2, <2>3, <1>a
<1>6. ASSUME NEW o \in Objs, NEW type \in Types, NewClient(o, type) PROVE Freed'
  <2> DEFINE t == Tried(o, type)
  <2>1. IsObject(t) /\ t.st = obj[o].st /\ t.freed = obj[o].freed
    BY <1>0, TriedIs
  <2> HIDE DEF t
  <2>2. obj[o].st # "gone" /\ ~Up
    BY <1>6 DEF NewClient, Usable, Up, Objs
  <2>3. /\ IsObject(FreeBase(FreeFields(t))) /\ FreeBase(FreeFields(t)).st = "gone"
        /\ FreeBase(FreeFields(t)).freed[1] = t.freed[1] + 1
        /\ FreeBase(FreeFields(t)).freed[2] = t.freed[2] + 1
    BY <2>1, FreeBaseIs, FreeFieldsIs
  <2>4. /\ IsObject(FreeFields(FreeBase(t))) /\ FreeFields(FreeBase(t)).st = "gone"
        /\ FreeFields(FreeBase(t)).freed[1] = t.freed[1] + 1
        /\ FreeFields(FreeBase(t)).freed[2] = t.freed[2] + 1
    BY <2>1, FreeBaseIs, FreeFieldsIs
  <2>5. CASE NewRefused(o, type)
    <3>1. CASE Given(o)
      <4>1. obj' = [obj EXCEPT ![o] = t] /\ UNCHANGED rk
        BY <2>5, <3>1 DEF NewRefused, t
      <4> QED BY <4>1, <2>1, <1>a
    <3>2. CASE ~Given(o)
      <4>1. obj' = [obj EXCEPT ![o] = FreeBase(FreeFields(t))] /\ UNCHANGED rk
        BY <2>5, <3>2 DEF NewRefused, t
      <4> QED BY <4>1, <2>1, <2>2, <2>3, <1>b
    <3> QED BY <3>1, <3>2
  <2>6. CASE NewFails(o, type)
    <3>1. CASE Given(o)
      <4>1. obj' = [obj EXCEPT ![o] = t] /\ UNCHANGED rk
        BY <2>6, <3>1 DEF NewFails, t
      <4> QED BY <4>1, <2>1, <1>a
    <3>2. CASE ~Given(o)
      <4>1. obj' = [obj EXCEPT ![o] = FreeFields(FreeBase(t))] /\ UNCHANGED rk
        BY <2>6, <3>2 DEF NewFails, t
      <4> QED BY <4>1, <2>1, <2>2, <2>4, <1>b
    <3> QED BY <3>1, <3>2
  <2>7. CASE NewWorks(o, type)
    <3> DEFINE y == FreeBase(t)
    <3>1. obj' = [obj EXCEPT ![o] = y]
      BY <2>7 DEF NewWorks, t
    <3>2. rk'.st = "up" /\ rk'.from = o
      BY <2>7 DEF NewWorks
    <3>3. IsObject(y) /\ y.st = "gone" /\ y.freed[1] = t.freed[1] + 1 /\ y.freed[2] = t.freed[2]
      BY <2>1, FreeBaseIs
    <3> HIDE DEF y
    <3>4. /\ DOMAIN obj' = Objs /\ obj' = [x \in Objs |-> obj'[x]]
          /\ obj'[o] = y /\ \A x \in Objs \ {o} : obj'[x] = obj[x]
          /\ \A x \in Objs : IsObject(obj'[x])
      BY <3>1, <3>3, Replaced
    <3>5. Owned'
      BY <3>2, <3>3, <3>4 DEF Owned, Up
    <3>6. FreedOnce'
      BY <1>0, <2>1, <2>2, <3>2, <3>3, <3>4 DEF FreedOnce, Up
    <3> QED BY <3>5, <3>6
  <2> QED BY <1>6, <2>5, <2>6, <2>7 DEF NewClient
<1>7. ASSUME NEW own, NEW p, NEW value, TopicNew(own, p, value) PROVE Freed'
  BY <1>7 DEF TopicNew, Owned, FreedOnce, Up
<1>8. CASE DestroyClient
  <2> DEFINE o == rk.from
             y == FreeFields(obj[o])
  <2>1. o \in Objs /\ obj[o].st = "gone" /\ Up
    BY <1>8 DEF DestroyClient, Owned
  <2>2. obj' = [obj EXCEPT ![o] = y] /\ rk' = [st |-> "gone"]
    BY <1>8 DEF DestroyClient
  <2>3. IsObject(y) /\ y.st = obj[o].st /\ y.freed[1] = obj[o].freed[1]
        /\ y.freed[2] = obj[o].freed[2] + 1
    BY <1>0, <2>1, FreeFieldsIs
  <2> HIDE DEF y
  <2>4. ~Up'
    BY <2>2 DEF Up
  <2>5. /\ DOMAIN obj' = Objs /\ obj' = [x \in Objs |-> obj'[x]]
        /\ obj'[o] = y /\ \A x \in Objs \ {o} : obj'[x] = obj[x]
        /\ \A x \in Objs : IsObject(obj'[x])
    BY <2>1, <2>2, <2>3, Replaced
  <2>6. Owned'
    BY <2>4, <2>5 DEF Owned
  <2>7. FreedOnce'
    BY <1>0, <2>1, <2>3, <2>4, <2>5 DEF FreedOnce
  <2> QED BY <2>6, <2>7
<1>9. CASE UNCHANGED cvars
  BY <1>9 DEF cvars, Owned, FreedOnce, Up
<1> QED BY <1>1, <1>2, <1>3, <1>4, <1>5, <1>6, <1>7, <1>8, <1>9 DEF ConfNext

(* The struct and the fields of every configuration object are freed once, *)
(* by the application or by the client that took them over, the fields not *)
(* while the client uses them (rd_kafka_new(), rd_kafka_conf_destroy()).   *)
THEOREM ObjectsFreedOnce == ConfSpec => []FreedOnce
<1>1. Freed => FreedOnce
  BY DEF Freed
<1> QED BY FreedInit, FreedStep, <1>1, PTL DEF ConfSpec

-----------------------------------------------------------------------------
(* The properties.                                                         *)

(* A row of the table of properties has numbers where they belong.         *)
IsRow(r) == r.min \in Int /\ r.max \in Int /\ r.def \in Int /\ DOMAIN r.words \subseteq Int
Props == DOMAIN Global
TopicProps == DOMAIN Topic

(* A row of an integer property is a row.                                  *)
LEMMA IntRowIs ==
    ASSUME NEW a \in Int, NEW b \in Int, NEW d \in Int
    PROVE  /\ IsRow(IntRow(a, b, d)) /\ IntRow(a, b, d).type = "int"
           /\ IntRow(a, b, d).words = <<>> /\ IntRow(a, b, d).min = a /\ IntRow(a, b, d).def = d
BY DEF IntRow, Row, IsRow

(* So are the rows of the other types.                                     *)
LEMMA OtherRows ==
    /\ IsRow(BoolRow) /\ IsRow(TextRow(0)) /\ IsRow(TextRow(1))
    /\ IsRow(Row("patlist", 0, 1, 0, <<>>)) /\ IsRow(Row("s2f", 0, 3, 0, <<"broker", "topic">>))
    /\ IsRow(Row("dbl", 0, 9000000, 50, <<>>)) /\ IsRow(Row("int", -1, 1000, -1, <<"all">>))
    /\ IsRow(Row("s2i", 0, 1, 0, <<"fifo", "lifo">>))
<1>1. IsRow(BoolRow) /\ IsRow(TextRow(0)) /\ IsRow(TextRow(1))
  BY DEF BoolRow, TextRow, Row, IsRow
<1>2. IsRow(Row("patlist", 0, 1, 0, <<>>)) /\ IsRow(Row("s2f", 0, 3, 0, <<"broker", "topic">>))
  BY SMT DEF Row, IsRow
<1>3. IsRow(Row("dbl", 0, 9000000, 50, <<>>)) /\ IsRow(Row("int", -1, 1000, -1, <<"all">>))
  BY SMT DEF Row, IsRow
<1>4. IsRow(Row("s2i", 0, 1, 0, <<"fifo", "lifo">>))
  BY SMT DEF Row, IsRow
<1> QED BY <1>1, <1>2, <1>3, <1>4

(* The limits that depend on INT_MAX are numbers.                          *)
LEMMA Limits == INT_MAX \in Int /\ INT_MAX \div 1024 \in Int /\ INT_MAX - 512 \in Int
BY DEF INT_MAX

(* Every property of rd_kafka_properties[] has a row, of a client or of a  *)
(* topic.                                                                  *)
LEMMA RowsSound ==
    /\ \A p \in Props : IsRow(Global[p])
    /\ \A p \in TopicProps : IsRow(Topic[p])
<1>1. \A p \in DOMAIN ClientRows : IsRow(ClientRows[p])
  <2>1. /\ IsRow(IntRow(1000, 1000000000, 1000000)) /\ IsRow(IntRow(1000, INT_MAX, 100000000))
        /\ IsRow(IntRow(1, 1000000, 1000000)) /\ IsRow(IntRow(-1, 3600000, 300000))
        /\ IsRow(IntRow(1, 86400000, 900000)) /\ IsRow(IntRow(10, 300000, 60000))
    BY IntRowIs, Limits, SMT
  <2> QED BY <2>1, OtherRows, SMT DEF ClientRows
<1>2. \A p \in DOMAIN BackoffRows : IsRow(BackoffRows[p])
  <2>1. IsRow(IntRow(0, 3600000, 100)) /\ IsRow(IntRow(0, 3600000, 10000))
    BY IntRowIs, SMT
  <2> QED BY <2>1, SMT DEF BackoffRows
<1>3. \A p \in DOMAIN GroupRows : IsRow(GroupRows[p])
  <2>1. /\ IsRow(IntRow(1, 3600000, 45000)) /\ IsRow(IntRow(1, 86400000, 300000))
        /\ IsRow(IntRow(1, INT_MAX \div 1024, 65536)) /\ IsRow(IntRow(0, INT_MAX - 512, 52428800))
    BY IntRowIs, Limits, SMT
  <2> QED BY <2>1, OtherRows, SMT DEF GroupRows
<1>4. \A p \in DOMAIN ProducerRows : IsRow(ProducerRows[p])
  <2>1. /\ IsRow(IntRow(1000, INT_MAX, 60000)) /\ IsRow(IntRow(0, INT_MAX, INT_MAX))
        /\ IsRow(IntRow(1, 1000000, 1)) /\ IsRow(IntRow(0, 900000, 10))
    BY IntRowIs, Limits, SMT
  <2> QED BY <2>1, OtherRows, SMT DEF ProducerRows
<1>5. \A p \in TopicProps : IsRow(Topic[p])
  <2>0. INT_MAX \in Int
    BY Limits
  <2>1. IsRow(IntRow(0, INT_MAX, 300000))
    BY <2>0, IntRowIs, SMT
  <2> QED BY <2>1, OtherRows, SMT DEF Topic, TopicProps
<1>6. \A p \in Props : IsRow(Global[p])
  BY <1>1, <1>2, <1>3, <1>4 DEF Global, Props, Merged
<1> QED BY <1>5, <1>6

(* The properties the proofs name, and the rows of those whose range       *)
(* matters.                                                                *)
LEMMA PropsNamed ==
    /\ {"max_msg_size", "recv_max_msg_size", "max_inflight", "metadata_refresh_interval_ms",
        "metadata_max_age_ms", "socket_timeout_ms", "reconnect_backoff_ms",
        "reconnect_backoff_max_ms", "group_session_timeout_ms", "max_poll_interval_ms",
        "queued_max_msg_kbytes", "fetch_max_bytes", "allow_auto_create_topics",
        "transactional_id", "transaction_timeout_ms", "idempotence", "gapless",
        "buffering_max_ms", "max_retries", "queue_backpressure_thres",
        "sticky_partition_linger_ms"} \subseteq Props
    /\ TopicProps = {"required_acks", "message_timeout_ms", "queuing_strategy"}
    /\ Global["transaction_timeout_ms"] = IntRow(1000, INT_MAX, 60000)
    /\ Global["queue_backpressure_thres"] = IntRow(1, 1000000, 1)
    /\ Global["buffering_max_ms"] = Row("dbl", 0, 9000000, 50, <<>>)
    /\ Global["idempotence"] = BoolRow
<1>1. DOMAIN ClientRows = {"max_msg_size", "recv_max_msg_size", "max_inflight",
        "metadata_refresh_interval_ms", "metadata_max_age_ms", "topic_blacklist", "debug",
        "socket_timeout_ms"}
  BY SMT DEF ClientRows
<1>2. DOMAIN BackoffRows = {"reconnect_backoff_ms", "reconnect_backoff_max_ms"}
  BY SMT DEF BackoffRows
<1>3. DOMAIN GroupRows = {"partition_assignment_strategy", "group_session_timeout_ms",
        "max_poll_interval_ms", "queued_max_msg_kbytes", "fetch_max_bytes"}
  BY SMT DEF GroupRows
<1>4. DOMAIN ProducerRows = {"allow_auto_create_topics", "transactional_id",
        "transaction_timeout_ms", "idempotence", "gapless", "buffering_max_ms", "max_retries",
        "queue_backpressure_thres", "sticky_partition_linger_ms"}
  BY SMT DEF ProducerRows
<1>5. TopicProps = {"required_acks", "message_timeout_ms", "queuing_strategy"}
  BY SMT DEF TopicProps, Topic
<1>6. Props = (DOMAIN ClientRows \cup DOMAIN BackoffRows)
              \cup (DOMAIN GroupRows \cup DOMAIN ProducerRows)
  BY DEF Props, Global, Merged
<1>7. \A p \in {"transaction_timeout_ms", "queue_backpressure_thres", "buffering_max_ms",
                 "idempotence"} :
        Global[p] = ProducerRows[p]
  <2> TAKE p \in {"transaction_timeout_ms", "queue_backpressure_thres", "buffering_max_ms",
                "idempotence"}
  <2>1. p \in DOMAIN ProducerRows /\ p \notin DOMAIN GroupRows
        /\ p \notin DOMAIN ClientRows /\ p \notin DOMAIN BackoffRows
    BY <1>1, <1>2, <1>3, <1>4
  <2>2. Merged(GroupRows, ProducerRows)[p] = ProducerRows[p]
        /\ p \in DOMAIN Merged(GroupRows, ProducerRows)
    BY <2>1 DEF Merged
  <2>3. p \notin DOMAIN Merged(ClientRows, BackoffRows)
    BY <2>1 DEF Merged
  <2> QED BY <2>2, <2>3 DEF Global, Merged
<1>8. /\ ProducerRows["transaction_timeout_ms"] = IntRow(1000, INT_MAX, 60000)
      /\ ProducerRows["queue_backpressure_thres"] = IntRow(1, 1000000, 1)
      /\ ProducerRows["buffering_max_ms"] = Row("dbl", 0, 9000000, 50, <<>>)
      /\ ProducerRows["idempotence"] = BoolRow
  BY SMT DEF ProducerRows
<1> QED BY <1>1, <1>2, <1>3, <1>4, <1>5, <1>6, <1>7, <1>8, SMT

-----------------------------------------------------------------------------
(* Configurations, and what is set in them.                                *)

TopicConfs == [val : [TopicProps -> Int], mod : SUBSET TopicProps]
Confs == [val : [Props -> Int], mod : SUBSET Props, topic_conf : TopicConfs \cup {NoTopicConf}]

(* One value replaced.                                                     *)
LEMMA WithIs ==
    ASSUME NEW c \in Confs, NEW p \in Props, NEW n \in Int
    PROVE  /\ With(c, p, n) \in Confs /\ With(c, p, n).mod = c.mod
           /\ With(c, p, n).topic_conf = c.topic_conf /\ With(c, p, n).val[p] = n
           /\ \A q \in Props \ {p} : With(c, p, n).val[q] = c.val[q]
BY DEF With, Confs

(* The same of a topic's configuration.                                    *)
LEMMA TopicWithIs ==
    ASSUME NEW t \in TopicConfs, NEW p \in TopicProps, NEW n \in Int
    PROVE  /\ With(t, p, n) \in TopicConfs /\ With(t, p, n).mod = t.mod
           /\ With(t, p, n).val[p] = n
           /\ \A q \in TopicProps \ {p} : With(t, p, n).val[q] = t.val[q]
BY DEF With, TopicConfs

(* A value that the application sets marks its property.                   *)
LEMMA PutIs ==
    ASSUME NEW c \in Confs, NEW p \in Props, NEW n \in Int
    PROVE  /\ Put(c, p, n).conf \in Confs /\ Put(c, p, n).conf.mod = c.mod \cup {p}
           /\ Put(c, p, n).conf.topic_conf = c.topic_conf /\ Put(c, p, n).conf.val[p] = n
           /\ \A q \in Props \ {p} : Put(c, p, n).conf.val[q] = c.val[q]
BY DEF Put, Found, Confs

(* The same of a topic's configuration.                                    *)
LEMMA TopicPutIs ==
    ASSUME NEW t \in TopicConfs, NEW p \in TopicProps, NEW n \in Int
    PROVE  Put(t, p, n).conf \in TopicConfs
BY DEF Put, Found, TopicConfs

(* rd_kafka_anyconf_set_prop() leaves a configuration as it is, puts a     *)
(* number in its range, or takes a text away.                              *)
SetForm(d, c, p, row) ==
    \/ d = c
    \/ \E n \in Int : d = Put(c, p, n).conf
                      /\ (row.type = "int" /\ row.words = <<>> => row.min <= n)
                      /\ (row = BoolRow => n \in {0, 1})
    \/ row.type \in {"str", "patlist"} /\ d = With(c, p, 0)

(* Whatever value of whatever type the application gives.                  *)
LEMMA SetPropForm ==
    ASSUME NEW c, NEW p, NEW row, IsRow(row), NEW value, IsValue(value)
    PROVE  SetForm(SetProp(c, p, row, value).conf, c, p, row)
<1>0. /\ BoolRow.type = "bool" /\ BoolRow.min = 0 /\ BoolRow.max = 1
      /\ BoolRow.words = <<"false", "true">>
  BY DEF BoolRow, Row
<1>1. Invalid(c).conf = c /\ Found(c).conf = c
  BY DEF Invalid, Found
<1>2. CASE row.type \in {"str", "patlist"}
  <2>1. SetProp(c, p, row, value) = SetText(c, p, row, value)
    BY <1>2 DEF SetProp
  <2>2. CASE value.kind = "none"
    BY <1>0, <1>2, <2>1, <2>2 DEF SetText, SetForm, IsRow
  <2>3. CASE value.kind = "text" /\ InRange(row, value.n)
    BY <1>0, <1>2, <2>1, <2>3 DEF SetText, SetForm, IsValue
  <2>4. CASE value.kind # "none" /\ ~(value.kind = "text" /\ InRange(row, value.n))
    <3>1. SetText(c, p, row, value) = Invalid([c EXCEPT !.val[p] = 0])
      BY <2>4 DEF SetText
    <3> QED BY <1>2, <2>1, <3>1 DEF SetForm, Invalid, With
  <2> QED BY <2>2, <2>3, <2>4
<1>3. CASE row.type = "s2f" /\ value.kind = "flags"
  <2> DEFINE n == FlagAfter(c.val[p], 1, row, value.flags) + FlagAfter(c.val[p], 2, row, value.flags)
             set == IF Met(row, value.flags) = {} THEN Found(c) ELSE Put(c, p, n)
  <2>1. SetProp(c, p, row, value) = SetFlags(c, p, row, value.flags)
    BY <1>3 DEF SetProp
  <2>2. n \in Int
    <3>1. FlagAfter(c.val[p], 1, row, value.flags) \in Int
      BY DEF FlagAfter, Bit
    <3>2. FlagAfter(c.val[p], 2, row, value.flags) \in Int
      BY DEF FlagAfter, Bit
    <3> QED BY <3>1, <3>2
  <2>3. set.conf = c \/ set.conf = Put(c, p, n).conf
    BY DEF Found
  <2>4. SetFlags(c, p, row, value.flags).conf = set.conf
    BY DEF SetFlags, Invalid
  <2> HIDE DEF n, set
  <2> QED BY <1>0, <1>3, <2>1, <2>2, <2>3, <2>4 DEF SetForm
<1>4. CASE row.type \in {"int", "bool", "s2i"} /\ value.kind = "word"
  <2>1. SetProp(c, p, row, value) = SetWord(c, p, row, value.word)
    BY <1>4 DEF SetProp
  <2>2. CASE WordAt(row, value.word) = {}
    BY <1>1, <2>1, <2>2 DEF SetWord, SetForm
  <2>3. CASE WordAt(row, value.word) # {}
    <3> DEFINE i == CHOOSE x \in WordAt(row, value.word) : TRUE
    <3>1. i \in DOMAIN row.words
      BY <2>3 DEF WordAt
    <3>2. Meaning(row, i) \in Int
      BY <3>1 DEF Meaning, IsRow
    <3>3. row.words # <<>>
      BY <3>1
    <3>4. SetWord(c, p, row, value.word) = Put(c, p, Meaning(row, i))
      BY <2>3 DEF SetWord
    <3>5. row = BoolRow => Meaning(row, i) \in {0, 1}
      <4> HAVE row = BoolRow
      <4>1. i \in 1..2
        BY <1>0, <3>1
      <4> QED BY <1>0, <4>1 DEF Meaning
    <3> HIDE DEF i
    <3> QED BY <2>1, <3>2, <3>3, <3>4, <3>5 DEF SetForm
  <2> QED BY <2>2, <2>3
<1>5. CASE row.type \in {"int", "bool", "dbl"} /\ value.kind = "number"
  <2>1. SetProp(c, p, row, value) = SetNumber(c, p, row, value.n)
    BY <1>5 DEF SetProp
  <2>2. value.n \in Int
    BY <1>5 DEF IsValue
  <2>3. row = BoolRow /\ InRange(row, value.n) => value.n \in {0, 1}
    BY <1>0, <2>2 DEF InRange
  <2> QED BY <1>1, <2>1, <2>2, <2>3 DEF SetNumber, SetForm, InRange, IsRow
<1>6. CASE /\ row.type \notin {"str", "patlist"}
           /\ ~(row.type = "s2f" /\ value.kind = "flags")
           /\ ~(row.type \in {"int", "bool", "s2i"} /\ value.kind = "word")
           /\ ~(row.type \in {"int", "bool", "dbl"} /\ value.kind = "number")
  <2>1. SetProp(c, p, row, value) = Invalid(c)
    BY <1>6 DEF SetProp
  <2> QED BY <1>1, <2>1 DEF SetForm
<1> QED BY <1>2, <1>3, <1>4, <1>5, <1>6

(* What every configuration satisfies, set and adjusted as it may be.      *)
Good(c) ==
    /\ c \in Confs
    /\ c.val["transaction_timeout_ms"] >= 1000
    /\ c.val["queue_backpressure_thres"] >= 1
    /\ c.val["idempotence"] \in {0, 1}
    /\ "buffering_max_ms" \notin c.mod => c.val["buffering_max_ms"] <= 50

(* rd_kafka_topic_conf_new() gives a configuration.                        *)
LEMMA TopicNewGood == TopicConfNew \in TopicConfs /\ TopicConfNew # NoTopicConf
<1>1. \A p \in TopicProps : Topic[p].def \in Int
  BY RowsSound DEF IsRow
<1>2. TopicConfNew \in TopicConfs
  BY <1>1 DEF TopicConfNew, TopicConfs, Defaults, TopicProps
<1>3. DOMAIN TopicConfNew.val = TopicProps
  BY DEF TopicConfNew, Defaults, TopicProps
<1>4. "required_acks" \in TopicProps
  BY PropsNamed
<1>5. DOMAIN NoTopicConf.val = {}
  BY DEF NoTopicConf
<1> QED BY <1>2, <1>3, <1>4, <1>5

(* rd_kafka_conf_new(): the defaults, of which none is marked as set.      *)
LEMMA DefaultsAre ==
    /\ ConfNew \in Confs /\ ConfNew.mod = {} /\ ConfNew.val = Defaults(Global)
    /\ Defaults(Global)["transaction_timeout_ms"] >= 1000
    /\ Defaults(Global)["queue_backpressure_thres"] >= 1
    /\ Defaults(Global)["buffering_max_ms"] <= 50
    /\ Defaults(Global)["idempotence"] = 0
<1>1. \A p \in Props : Global[p].def \in Int
  BY RowsSound DEF IsRow
<1>2. ConfNew \in Confs /\ ConfNew.mod = {} /\ ConfNew.val = Defaults(Global)
  BY <1>1 DEF ConfNew, Confs, Defaults, Props
<1>3. /\ "transaction_timeout_ms" \in Props /\ "queue_backpressure_thres" \in Props
      /\ "buffering_max_ms" \in Props /\ "idempotence" \in Props
  BY PropsNamed, SMT
<1>4. \A p \in Props : Defaults(Global)[p] = Global[p].def
  BY DEF Defaults, Props
<1>5. Global["transaction_timeout_ms"].def >= 1000
  BY PropsNamed, SMT DEF IntRow, Row
<1>6. Global["queue_backpressure_thres"].def >= 1
  BY PropsNamed, SMT DEF IntRow, Row
<1>7. Global["buffering_max_ms"].def <= 50
  BY PropsNamed, SMT DEF Row
<1>8. Global["idempotence"].def = 0
  BY PropsNamed, SMT DEF BoolRow, Row
<1> QED BY <1>2, <1>3, <1>4, <1>5, <1>6, <1>7, <1>8, SMT

(* The defaults are good.                                                  *)
LEMMA NewGood == Good(ConfNew)
BY DefaultsAre, SMT DEF Good

(* rd_kafka_topic_conf_set() keeps a topic's configuration one.            *)
LEMMA TopicSetGood ==
    ASSUME NEW t \in TopicConfs, NEW p, NEW value, IsValue(value)
    PROVE  AnyconfSet(t, Topic, p, value).conf \in TopicConfs
<1>1. CASE p \in TopicProps
  <2>1. SetForm(SetProp(t, p, Topic[p], value).conf, t, p, Topic[p])
    BY <1>1, SetPropForm, RowsSound
  <2>2. AnyconfSet(t, Topic, p, value) = SetProp(t, p, Topic[p], value)
    BY <1>1 DEF AnyconfSet, TopicProps
  <2>3. With(t, p, 0) \in TopicConfs
    BY <1>1, TopicWithIs
  <2>4. \A n \in Int : Put(t, p, n).conf \in TopicConfs
    BY <1>1, TopicPutIs
  <2> QED BY <2>1, <2>2, <2>3, <2>4, Zenon DEF SetForm
<1>2. CASE p \notin TopicProps
  BY <1>2 DEF AnyconfSet, Unknown, TopicProps
<1> QED BY <1>1, <1>2

(* Setting one property leaves the others as they are.                     *)
Changed(d, c, p) ==
    /\ Good(d) /\ c.mod \subseteq d.mod /\ d.mod \subseteq c.mod \cup {p}
    /\ \A q \in Props \ {p} : d.val[q] = c.val[q]

(* rd_kafka_conf_set() keeps a configuration good and changes the property *)
(* it names, or the default topic's.                                       *)
LEMMA ConfSetGood ==
    ASSUME NEW c, Good(c), NEW p, NEW value, IsValue(value)
    PROVE  Changed(ConfSet(c, p, value).conf, c, p)
<1> DEFINE r == AnyconfSet(c, Global, p, value)
           with == IF HasTopicConf(c) THEN c ELSE [c EXCEPT !.topic_conf = TopicConfNew]
           t == AnyconfSet(with.topic_conf, Topic, p, value)
<1>0. c \in Confs
  BY DEF Good
<1>1. CASE r.res # "unknown"
  <2>1. ConfSet(c, p, value) = r
    BY <1>1 DEF ConfSet
  <2>2. CASE p \in Props
    <3>1. r = SetProp(c, p, Global[p], value)
      BY <2>2 DEF AnyconfSet, Props
    <3>2. SetForm(r.conf, c, p, Global[p])
      BY <2>2, <3>1, SetPropForm, RowsSound
    <3> HIDE DEF r
    <3>3. CASE r.conf = c
      BY <2>1, <3>3, <1>0 DEF Changed
    <3>4. ASSUME NEW n \in Int, r.conf = Put(c, p, n).conf,
                 Global[p].type = "int" /\ Global[p].words = <<>> => Global[p].min <= n,
                 Global[p] = BoolRow => n \in {0, 1}
          PROVE  Changed(r.conf, c, p)
      <4>1. /\ r.conf \in Confs /\ r.conf.mod = c.mod \cup {p} /\ r.conf.val[p] = n
            /\ \A q \in Props \ {p} : r.conf.val[q] = c.val[q]
        BY <1>0, <2>2, <3>4, PutIs
      <4>2. p = "transaction_timeout_ms" => n >= 1000
        BY <3>4, PropsNamed, SMT DEF IntRow, Row
      <4>3. p = "queue_backpressure_thres" => n >= 1
        BY <3>4, PropsNamed, SMT DEF IntRow, Row
      <4>4. /\ "transaction_timeout_ms" \in Props /\ "queue_backpressure_thres" \in Props
            /\ "buffering_max_ms" \in Props /\ "idempotence" \in Props
        BY PropsNamed, SMT
      <4>5. r.conf.val["transaction_timeout_ms"] >= 1000
        BY <4>1, <4>2, <4>4, SMT DEF Good
      <4>6. r.conf.val["queue_backpressure_thres"] >= 1
        BY <4>1, <4>3, <4>4, SMT DEF Good
      <4>7. "buffering_max_ms" \notin r.conf.mod => r.conf.val["buffering_max_ms"] <= 50
        BY <4>1, <4>4, SMT DEF Good
      <4>8. p = "idempotence" => n \in {0, 1}
        BY <3>4, PropsNamed, SMT
      <4>9. r.conf.val["idempotence"] \in {0, 1}
        BY <4>1, <4>4, <4>8, SMT DEF Good
      <4> QED BY <4>1, <4>5, <4>6, <4>7, <4>9, SMT DEF Good, Changed
    <3>5. ASSUME Global[p].type \in {"str", "patlist"}, r.conf = With(c, p, 0)
          PROVE  Changed(r.conf, c, p)
      <4>1. /\ r.conf \in Confs /\ r.conf.mod = c.mod
            /\ \A q \in Props \ {p} : r.conf.val[q] = c.val[q]
        BY <1>0, <2>2, <3>5, WithIs
      <4>2. /\ p # "transaction_timeout_ms" /\ p # "queue_backpressure_thres"
            /\ p # "buffering_max_ms" /\ p # "idempotence"
        BY <3>5, PropsNamed, SMT DEF IntRow, BoolRow, Row
      <4>3. /\ "transaction_timeout_ms" \in Props /\ "queue_backpressure_thres" \in Props
            /\ "buffering_max_ms" \in Props /\ "idempotence" \in Props
        BY PropsNamed, SMT
      <4> QED BY <4>1, <4>2, <4>3, SMT DEF Good, Changed
    <3> QED BY <2>1, <3>2, <3>3, <3>4, <3>5, Zenon DEF SetForm
  <2>3. CASE p \notin Props
    <3>1. r.conf = c
      BY <2>3 DEF AnyconfSet, Unknown, Props
    <3> QED BY <2>1, <3>1, <1>0 DEF Changed
  <2> QED BY <2>2, <2>3
<1>2. CASE r.res = "unknown"
  <2>1. ConfSet(c, p, value).conf = [with EXCEPT !.topic_conf = t.conf]
    BY <1>2 DEF ConfSet
  <2>2. with \in Confs /\ with.val = c.val /\ with.mod = c.mod /\ with.topic_conf \in TopicConfs
    BY <1>0, TopicNewGood DEF Confs, HasTopicConf
  <2>3. t.conf \in TopicConfs
    BY <2>2, TopicSetGood
  <2> HIDE DEF with, t
  <2>4. /\ [with EXCEPT !.topic_conf = t.conf] \in Confs
        /\ [with EXCEPT !.topic_conf = t.conf].val = c.val
        /\ [with EXCEPT !.topic_conf = t.conf].mod = c.mod
    BY <2>2, <2>3 DEF Confs
  <2> QED BY <2>1, <2>4, SMT DEF Good, Changed
<1> QED BY <1>1, <1>2

(* rd_kafka_conf_set_default_topic_conf() touches no property of the       *)
(* client.                                                                 *)
LEMMA SetDefaultTopicGood ==
    ASSUME NEW c, Good(c), NEW t \in TopicConfs
    PROVE  /\ Good(SetDefaultTopicConf(c, t)) /\ SetDefaultTopicConf(c, t).val = c.val
           /\ SetDefaultTopicConf(c, t).mod = c.mod
<1>1. c \in Confs
  BY DEF Good
<1>2. /\ SetDefaultTopicConf(c, t) \in Confs /\ SetDefaultTopicConf(c, t).val = c.val
      /\ SetDefaultTopicConf(c, t).mod = c.mod
  BY <1>1 DEF SetDefaultTopicConf, Confs
<1> QED BY <1>2, SMT DEF Good

(* A value that is printed and parsed again is the same number, but for    *)
(* linger.ms.                                                              *)
LEMMA PrintedInt ==
    ASSUME NEW p, NEW n \in Int
    PROVE  Printed(p, n) \in Int /\ (p # "buffering_max_ms" => Printed(p, n) = n)
BY SMT DEF Printed

(* rd_kafka_topic_conf_dup() of a configuration is one.                    *)
LEMMA TopicDupGood ==
    ASSUME NEW t \in TopicConfs
    PROVE  TopicConfDup(t) \in TopicConfs
<1>1. \A p \in TopicProps : t.val[p] \in Int
  BY DEF TopicConfs
<1>2. \A p \in TopicProps : Printed(p, t.val[p]) \in Int
  BY <1>1, PrintedInt
<1>3. TopicConfNew \in TopicConfs
  BY TopicNewGood
<1> QED BY <1>2, <1>3 DEF TopicConfDup, CopyOf, TopicConfs

(* rd_kafka_conf_dup() sets what was set, to the value as it is printed.   *)
LEMMA ConfDupGood ==
    ASSUME NEW c, Good(c)
    PROVE  /\ Good(ConfDup(c)) /\ ConfDup(c).mod = c.mod
           /\ \A p \in c.mod : ConfDup(c).val[p] = Printed(p, c.val[p])
           /\ \A p \in Props \ c.mod : ConfDup(c).val[p] = Defaults(Global)[p]
           /\ ConfDup(c).topic_conf =
                IF HasTopicConf(c) THEN TopicConfDup(c.topic_conf) ELSE NoTopicConf
<1> DEFINE x == CopyOf(c, ConfNew)
           t == IF HasTopicConf(c) THEN TopicConfDup(c.topic_conf) ELSE NoTopicConf
<1>0. c \in Confs /\ \A p \in Props : c.val[p] \in Int
  BY DEF Good, Confs
<1>1. \A p \in Props : Printed(p, c.val[p]) \in Int
  BY <1>0, PrintedInt
<1>2. ConfNew \in Confs /\ ConfNew.val = Defaults(Global)
  BY DefaultsAre
<1>3. /\ x \in Confs /\ x.mod = c.mod
      /\ \A p \in Props : x.val[p] = IF p \in c.mod THEN Printed(p, c.val[p]) ELSE Defaults(Global)[p]
  BY <1>0, <1>1, <1>2 DEF CopyOf, Confs
<1>4. t \in TopicConfs \cup {NoTopicConf}
  BY <1>0, TopicDupGood DEF Confs, HasTopicConf
<1> HIDE DEF x, t
<1>5. ConfDup(c) = [x EXCEPT !.topic_conf = t]
  BY DEF ConfDup, x, t
<1>6. ConfDup(c) \in Confs /\ ConfDup(c).mod = c.mod /\ ConfDup(c).val = x.val
  BY <1>3, <1>4, <1>5 DEF Confs
<1>13. ConfDup(c).topic_conf = t
  BY <1>3, <1>4, <1>5 DEF Confs
<1>7. /\ "transaction_timeout_ms" \in Props /\ "queue_backpressure_thres" \in Props
      /\ "buffering_max_ms" \in Props /\ "idempotence" \in Props
  BY PropsNamed, SMT
<1>8. x.val["transaction_timeout_ms"] >= 1000
  BY <1>0, <1>3, <1>7, DefaultsAre, PrintedInt, SMT DEF Good
<1>9. x.val["queue_backpressure_thres"] >= 1
  BY <1>0, <1>3, <1>7, DefaultsAre, PrintedInt, SMT DEF Good
<1>10. "buffering_max_ms" \notin c.mod => x.val["buffering_max_ms"] <= 50
  BY <1>3, <1>7, DefaultsAre, SMT
<1>11. c.mod \subseteq Props
  BY <1>0 DEF Confs
<1>12. x.val["idempotence"] \in {0, 1}
  BY <1>0, <1>3, <1>7, DefaultsAre, PrintedInt, SMT DEF Good
<1>14. Good(ConfDup(c)) /\ ConfDup(c).mod = c.mod
  BY <1>3, <1>6, <1>8, <1>9, <1>10, <1>11, <1>12, SMT DEF Good
<1> QED BY <1>3, <1>6, <1>11, <1>13, <1>14 DEF t

-----------------------------------------------------------------------------
(* rd_kafka_conf_finalize(), stage by stage.                               *)

(* Only the properties of S are adjusted, and none that was set.           *)
Adjusts(d, c, S) ==
    /\ d \in Confs /\ d.mod = c.mod /\ d.topic_conf = c.topic_conf
    /\ \A q \in Props : \/ d.val[q] = c.val[q]
                        \/ q \in S /\ (q \notin c.mod \/ q = "idempotence")

(* A stage that finds nothing to do or refuses leaves the configuration    *)
(* alone.                                                                  *)
LEMMA Refuses ==
    ASSUME NEW c \in Confs, NEW S
    PROVE  /\ Adjusts(c, c, S) /\ Adjusts(Found(c).conf, c, S) /\ Adjusts(Invalid(c).conf, c, S)
           /\ Found(c).conf = c /\ Invalid(c).conf = c
           /\ Found(c).res = "ok" /\ Invalid(c).res # "ok"
BY DEF Adjusts, Found, Invalid

(* A stage may adjust a property that the application did not set, or      *)
(* disable idempotence.                                                    *)
LEMMA AdjustsWith ==
    ASSUME NEW c \in Confs, NEW p \in Props, NEW n \in Int, NEW S, p \in S,
           p \notin c.mod \/ p = "idempotence"
    PROVE  /\ Adjusts(Found(With(c, p, n)).conf, c, S) /\ Found(With(c, p, n)).conf.val[p] = n
           /\ Found(With(c, p, n)).res = "ok"
           /\ \A q \in Props \ {p} : Found(With(c, p, n)).conf.val[q] = c.val[q]
<1>1. Found(With(c, p, n)).conf = With(c, p, n) /\ Found(With(c, p, n)).res = "ok"
  BY DEF Found
<1>2. /\ With(c, p, n) \in Confs /\ With(c, p, n).mod = c.mod
      /\ With(c, p, n).topic_conf = c.topic_conf /\ With(c, p, n).val[p] = n
      /\ \A q \in Props \ {p} : With(c, p, n).val[q] = c.val[q]
  BY WithIs
<1> QED BY <1>1, <1>2 DEF Adjusts

(* What two stages adjust, both together adjust.                           *)
LEMMA AdjustsTwice ==
    ASSUME NEW c, NEW d, NEW e, NEW S, NEW T, Adjusts(d, c, S), Adjusts(e, d, T)
    PROVE  Adjusts(e, c, S \cup T)
BY DEF Adjusts

(* A stage runs only when the one before it did not refuse.                *)
LEMMA ThenIs ==
    ASSUME NEW r, NEW next
    PROVE  /\ r.res = "ok" => Then(r, next) = next
           /\ r.res # "ok" => Then(r, next) = r
BY DEF Then

(* The values of the properties that the stages look at.                   *)
LEMMA Numbers ==
    ASSUME NEW c \in Confs
    PROVE  /\ c.val["max_msg_size"] \in Int /\ c.val["recv_max_msg_size"] \in Int
           /\ c.val["max_inflight"] \in Int /\ c.val["metadata_refresh_interval_ms"] \in Int
           /\ c.val["socket_timeout_ms"] \in Int /\ c.val["group_session_timeout_ms"] \in Int
           /\ c.val["max_poll_interval_ms"] \in Int /\ c.val["queued_max_msg_kbytes"] \in Int
           /\ c.val["fetch_max_bytes"] \in Int /\ c.val["transactional_id"] \in Int
           /\ c.val["transaction_timeout_ms"] \in Int /\ c.val["idempotence"] \in Int
           /\ c.val["buffering_max_ms"] \in Int /\ c.val["max_retries"] \in Int
           /\ c.val["queue_backpressure_thres"] \in Int
<1>1. \A p \in Props : c.val[p] \in Int
  BY DEF Confs
<1> QED BY <1>1, PropsNamed, SMT

(* fetch.max.bytes is at least message.max.bytes.                          *)
LEMMA FetchSizeIs ==
    ASSUME NEW c \in Confs
    PROVE  LET r == FetchSize(c) IN
           /\ Adjusts(r.conf, c, {"fetch_max_bytes"})
           /\ r.res = "ok" => r.conf.val["fetch_max_bytes"] >= r.conf.val["max_msg_size"]
<1> DEFINE room == Most(Least(c.val["fetch_max_bytes"], c.val["queued_max_msg_kbytes"] * 1024),
                        c.val["max_msg_size"])
<1>0. "fetch_max_bytes" \in Props /\ "max_msg_size" \in Props
  BY PropsNamed, SMT
<1>1. CASE IsSet(c, "fetch_max_bytes")
  <2>1. FetchSize(c) = Check(c, c.val["fetch_max_bytes"] >= c.val["max_msg_size"])
    BY <1>1 DEF FetchSize
  <2>2. /\ FetchSize(c).conf = c
        /\ FetchSize(c).res = "ok" => c.val["fetch_max_bytes"] >= c.val["max_msg_size"]
    BY <2>1 DEF Check, Found, Invalid
  <2> QED BY <2>2, Refuses
<1>2. CASE ~IsSet(c, "fetch_max_bytes")
  <2>1. FetchSize(c) = Found(With(c, "fetch_max_bytes", room))
    BY <1>2 DEF FetchSize
  <2>2. room \in Int /\ room >= c.val["max_msg_size"]
    <3>1. c.val["queued_max_msg_kbytes"] * 1024 \in Int
      BY Numbers, SMT
    <3>2. Least(c.val["fetch_max_bytes"], c.val["queued_max_msg_kbytes"] * 1024) \in Int
      BY <3>1, Numbers, SMT DEF Least
    <3> QED BY <3>2, Numbers, SMT DEF Most
  <2> HIDE DEF room
  <2>3. "fetch_max_bytes" \notin c.mod
    BY <1>2 DEF IsSet
  <2>4. /\ Adjusts(FetchSize(c).conf, c, {"fetch_max_bytes"})
        /\ FetchSize(c).conf.val["fetch_max_bytes"] = room
        /\ \A q \in Props \ {"fetch_max_bytes"} : FetchSize(c).conf.val[q] = c.val[q]
    BY <1>0, <2>1, <2>2, <2>3, AdjustsWith
  <2> QED BY <1>0, <2>2, <2>4
<1> QED BY <1>1, <1>2

(* receive.message.max.bytes has room for a fetch response.                *)
LEMMA ReceiveSizeIs ==
    ASSUME NEW c \in Confs
    PROVE  LET r == ReceiveSize(c) IN
           /\ Adjusts(r.conf, c, {"recv_max_msg_size"})
           /\ r.res = "ok" =>
                r.conf.val["recv_max_msg_size"] >= r.conf.val["fetch_max_bytes"] + 512
<1> DEFINE need == c.val["fetch_max_bytes"] + 512
           size == Most(c.val["recv_max_msg_size"], need)
<1>0. "recv_max_msg_size" \in Props /\ "fetch_max_bytes" \in Props
  BY PropsNamed, SMT
<1>a. need \in Int /\ c.val["recv_max_msg_size"] \in Int
  BY Numbers, SMT
<1>1. CASE IsSet(c, "recv_max_msg_size")
  <2>1. ReceiveSize(c) = Check(c, need <= c.val["recv_max_msg_size"])
    BY <1>1 DEF ReceiveSize
  <2>2. /\ Adjusts(ReceiveSize(c).conf, c, {"recv_max_msg_size"}) /\ ReceiveSize(c).conf = c
        /\ ReceiveSize(c).res = "ok" => need <= c.val["recv_max_msg_size"]
    BY <2>1, Refuses DEF Check, Found, Invalid
  <2> QED BY <1>a, <2>2, SMT
<1>2. CASE ~IsSet(c, "recv_max_msg_size")
  <2>1. ReceiveSize(c) = Found(With(c, "recv_max_msg_size", size))
    BY <1>2 DEF ReceiveSize
  <2>2. size \in Int /\ size >= need
    BY <1>a, SMT DEF Most
  <2>3. "recv_max_msg_size" \notin c.mod
    BY <1>2 DEF IsSet
  <2> HIDE DEF size
  <2>4. /\ Adjusts(ReceiveSize(c).conf, c, {"recv_max_msg_size"})
        /\ ReceiveSize(c).conf.val["recv_max_msg_size"] = size
        /\ \A q \in Props \ {"recv_max_msg_size"} : ReceiveSize(c).conf.val[q] = c.val[q]
    BY <1>0, <2>1, <2>2, <2>3, AdjustsWith
  <2> QED BY <1>0, <2>2, <2>4, SMT
<1> QED BY <1>1, <1>2

(* max.poll.interval.ms is at least the session timeout, and a consumer is *)
(* not idempotent.                                                         *)
LEMMA PollIntervalIs ==
    ASSUME NEW c \in Confs
    PROVE  LET r == PollInterval(c) IN
           /\ Adjusts(r.conf, c, {"idempotence"}) /\ (r.res = "ok" \/ r.conf = c)
           /\ r.res = "ok" =>
                /\ r.conf.val["max_poll_interval_ms"] >= r.conf.val["group_session_timeout_ms"]
                /\ r.conf.val["idempotence"] = 0
<1> DEFINE small == c.val["max_poll_interval_ms"] < c.val["group_session_timeout_ms"]
<1>0. /\ "idempotence" \in Props /\ "max_poll_interval_ms" \in Props
      /\ "group_session_timeout_ms" \in Props
  BY PropsNamed, SMT
<1>1. CASE small
  <2>1. PollInterval(c) = Invalid(c)
    BY <1>1 DEF PollInterval
  <2> QED BY <2>1, Refuses
<1>2. CASE ~small
  <2>1. PollInterval(c) = Found(With(c, "idempotence", 0))
    BY <1>2 DEF PollInterval
  <2>2. /\ Adjusts(PollInterval(c).conf, c, {"idempotence"})
        /\ PollInterval(c).conf.val["idempotence"] = 0 /\ PollInterval(c).res = "ok"
        /\ \A q \in Props \ {"idempotence"} : PollInterval(c).conf.val[q] = c.val[q]
    BY <1>0, <2>1, AdjustsWith
  <2>3. c.val["max_poll_interval_ms"] >= c.val["group_session_timeout_ms"]
    BY <1>2, Numbers, SMT
  <2> QED BY <1>0, <2>2, <2>3
<1> QED BY <1>1, <1>2

(* The stages for a consumer, one after the other.                         *)
LEMMA ConsumerIs ==
    ASSUME NEW c \in Confs
    PROVE  LET r == FinalizeConsumer(c) IN
           /\ Adjusts(r.conf, c, {"fetch_max_bytes", "recv_max_msg_size", "idempotence"})
           /\ r.conf.val["idempotence"] = 0 \/ r.conf.val["idempotence"] = c.val["idempotence"]
           /\ r.res = "ok" => ConsumerSound(r.conf.val)
<1> DEFINE fetch == FetchSize(c)
           receive == Then(fetch, ReceiveSize(fetch.conf))
           S == {"fetch_max_bytes", "recv_max_msg_size", "idempotence"}
<1>0. FinalizeConsumer(c) = Then(receive, PollInterval(receive.conf))
  BY DEF FinalizeConsumer
<1>1. /\ Adjusts(fetch.conf, c, {"fetch_max_bytes"})
      /\ fetch.res = "ok" => fetch.conf.val["fetch_max_bytes"] >= fetch.conf.val["max_msg_size"]
  BY FetchSizeIs
<1>2. fetch.conf \in Confs
  BY <1>1 DEF Adjusts
<1>3. LET r == ReceiveSize(fetch.conf) IN
      /\ Adjusts(r.conf, fetch.conf, {"recv_max_msg_size"})
      /\ r.res = "ok" => r.conf.val["recv_max_msg_size"] >= r.conf.val["fetch_max_bytes"] + 512
  BY <1>2, ReceiveSizeIs
<1> HIDE DEF fetch
<1>a. /\ {"fetch_max_bytes", "max_msg_size", "recv_max_msg_size", "max_poll_interval_ms",
           "group_session_timeout_ms", "idempotence"} \subseteq Props
  BY PropsNamed, SMT
<1>4. /\ Adjusts(receive.conf, c, {"fetch_max_bytes", "recv_max_msg_size"})
      /\ receive.res = "ok" =>
           /\ receive.conf.val["fetch_max_bytes"] >= receive.conf.val["max_msg_size"]
           /\ receive.conf.val["recv_max_msg_size"] >= receive.conf.val["fetch_max_bytes"] + 512
  <2>1. CASE fetch.res # "ok"
    BY <1>1, <2>1, ThenIs DEF Adjusts
  <2>2. CASE fetch.res = "ok"
    <3>1. receive = ReceiveSize(fetch.conf)
      BY <2>2, ThenIs
    <3>2. \A q \in {"fetch_max_bytes", "max_msg_size"} : receive.conf.val[q] = fetch.conf.val[q]
      BY <1>3, <1>a, <3>1 DEF Adjusts
    <3> HIDE DEF receive
    <3>3. Adjusts(receive.conf, c, {"fetch_max_bytes"} \cup {"recv_max_msg_size"})
      BY <1>1, <1>3, <3>1, AdjustsTwice
    <3>4. {"fetch_max_bytes"} \cup {"recv_max_msg_size"} = {"fetch_max_bytes", "recv_max_msg_size"}
      OBVIOUS
    <3> QED BY <1>1, <1>3, <2>2, <3>1, <3>2, <3>3, <3>4
  <2> QED BY <2>1, <2>2
<1>5. receive.conf \in Confs
  BY <1>4 DEF Adjusts
<1> HIDE DEF receive
<1>6. LET r == PollInterval(receive.conf) IN
      /\ Adjusts(r.conf, receive.conf, {"idempotence"}) /\ (r.res = "ok" \/ r.conf = receive.conf)
      /\ r.res = "ok" =>
           /\ r.conf.val["max_poll_interval_ms"] >= r.conf.val["group_session_timeout_ms"]
           /\ r.conf.val["idempotence"] = 0
  BY <1>5, PollIntervalIs
<1>b. receive.conf.val["idempotence"] = c.val["idempotence"]
  BY <1>4, <1>a DEF Adjusts
<1>7. CASE receive.res # "ok"
  <2>1. FinalizeConsumer(c) = receive
    BY <1>0, <1>7, ThenIs
  <2>2. Adjusts(receive.conf, c, S)
    BY <1>4 DEF Adjusts
  <2> QED BY <1>7, <1>b, <2>1, <2>2
<1>8. CASE receive.res = "ok"
  <2> DEFINE r == PollInterval(receive.conf)
  <2>1. FinalizeConsumer(c) = r
    BY <1>0, <1>8, ThenIs
  <2>2. Adjusts(r.conf, c, {"fetch_max_bytes", "recv_max_msg_size"} \cup {"idempotence"})
    BY <1>4, <1>6, AdjustsTwice
  <2>3. {"fetch_max_bytes", "recv_max_msg_size"} \cup {"idempotence"} = S
    OBVIOUS
  <2>4. \A q \in {"fetch_max_bytes", "max_msg_size", "recv_max_msg_size"} :
          r.conf.val[q] = receive.conf.val[q]
    BY <1>6, <1>a DEF Adjusts
  <2> HIDE DEF r
  <2>5. r.res = "ok" => ConsumerSound(r.conf.val)
    BY <1>4, <1>6, <1>8, <2>4 DEF ConsumerSound, r
  <2>6. r.conf.val["idempotence"] = 0 \/ r.conf.val["idempotence"] = c.val["idempotence"]
    BY <1>6, <1>b DEF r
  <2> QED BY <2>1, <2>2, <2>3, <2>5, <2>6
<1> QED BY <1>7, <1>8

(* A transactional.id turns idempotence on or is refused.                  *)
LEMMA TransactionIdempotenceIs ==
    ASSUME NEW c, Good(c)
    PROVE  LET r == TransactionIdempotence(c) IN
           /\ Adjusts(r.conf, c, {"idempotence"}) /\ r.conf.val["idempotence"] \in {0, 1}
           /\ r.res = "ok" /\ r.conf.val["transactional_id"] # 0 => r.conf.val["idempotence"] = 1
           /\ "idempotence" \in c.mod => r.conf.val["idempotence"] = c.val["idempotence"]
<1>0. "idempotence" \in Props /\ "transactional_id" \in Props /\ c \in Confs
      /\ c.val["idempotence"] \in {0, 1}
  BY PropsNamed, SMT DEF Good
<1>1. CASE Transactional(c) /\ c.val["idempotence"] = 0 /\ IsSet(c, "idempotence")
  <2>1. TransactionIdempotence(c) = Invalid(c)
    BY <1>1 DEF TransactionIdempotence
  <2> QED BY <1>0, <2>1, Refuses
<1>2. CASE Transactional(c) /\ c.val["idempotence"] = 0 /\ ~IsSet(c, "idempotence")
  <2>1. TransactionIdempotence(c) = Found(With(c, "idempotence", 1))
    BY <1>2 DEF TransactionIdempotence
  <2>2. "idempotence" \notin c.mod
    BY <1>2 DEF IsSet
  <2> QED BY <1>0, <2>1, <2>2, AdjustsWith
<1>3. CASE ~(Transactional(c) /\ c.val["idempotence"] = 0)
  <2>1. TransactionIdempotence(c) = Found(c)
    BY <1>3 DEF TransactionIdempotence
  <2> QED BY <1>0, <1>3, <2>1, Refuses DEF Transactional
<1> QED BY <1>1, <1>2, <1>3

(* The socket timeout fits the transaction timeout.                        *)
LEMMA TransactionTimeoutIs ==
    ASSUME NEW c \in Confs, c.val["transaction_timeout_ms"] >= 1000
    PROVE  LET r == TransactionTimeout(c) IN
           /\ Adjusts(r.conf, c, {"socket_timeout_ms"})
           /\ r.res = "ok" /\ r.conf.val["transactional_id"] # 0 =>
                r.conf.val["socket_timeout_ms"] <= r.conf.val["transaction_timeout_ms"] + 100
<1> DEFINE t == c.val["transaction_timeout_ms"]
           n == Most(t - 100, 900)
<1>0. /\ "socket_timeout_ms" \in Props /\ "transactional_id" \in Props
      /\ "transaction_timeout_ms" \in Props
  BY PropsNamed, SMT
<1>a. t \in Int /\ c.val["socket_timeout_ms"] \in Int
  BY Numbers
<1>1. CASE ~Transactional(c)
  <2>1. TransactionTimeout(c) = Found(c)
    BY <1>1 DEF TransactionTimeout
  <2> QED BY <1>1, <2>1, Refuses DEF Transactional
<1>2. CASE Transactional(c) /\ IsSet(c, "socket_timeout_ms")
  <2>1. TransactionTimeout(c) = Check(c, t + 100 >= c.val["socket_timeout_ms"])
    BY <1>2 DEF TransactionTimeout
  <2>2. /\ TransactionTimeout(c).conf = c
        /\ TransactionTimeout(c).res = "ok" => t + 100 >= c.val["socket_timeout_ms"]
    BY <2>1 DEF Check, Found, Invalid
  <2>3. Adjusts(c, c, {"socket_timeout_ms"})
    BY Refuses
  <2> QED BY <1>a, <2>2, <2>3, SMT
<1>3. CASE Transactional(c) /\ ~IsSet(c, "socket_timeout_ms")
  <2>1. TransactionTimeout(c) = Found(With(c, "socket_timeout_ms", n))
    BY <1>3 DEF TransactionTimeout
  <2>2. n \in Int /\ n <= t + 100
    BY <1>a, SMT DEF Most
  <2>3. "socket_timeout_ms" \notin c.mod
    BY <1>3 DEF IsSet
  <2> HIDE DEF n
  <2>4. /\ Adjusts(TransactionTimeout(c).conf, c, {"socket_timeout_ms"})
        /\ TransactionTimeout(c).conf.val["socket_timeout_ms"] = n
        /\ \A q \in Props \ {"socket_timeout_ms"} : TransactionTimeout(c).conf.val[q] = c.val[q]
    BY <1>0, <2>1, <2>2, <2>3, AdjustsWith
  <2>5. TransactionTimeout(c).conf.val["transaction_timeout_ms"] = t
    BY <1>0, <2>4
  <2> QED BY <2>2, <2>4, <2>5
<1> QED BY <1>1, <1>2, <1>3

(* An idempotent producer has at most five requests in flight.             *)
LEMMA InFlightIs ==
    ASSUME NEW c \in Confs
    PROVE  LET r == InFlight(c) IN
           Adjusts(r.conf, c, {"max_inflight"}) /\ (r.res = "ok" => r.conf.val["max_inflight"] <= 5)
<1> DEFINE n == Least(c.val["max_inflight"], IDEMP_MAX_INFLIGHT)
<1>0. "max_inflight" \in Props /\ c.val["max_inflight"] \in Int
  BY PropsNamed, Numbers, SMT
<1>1. CASE IsSet(c, "max_inflight")
  <2>1. /\ InFlight(c).conf = c
        /\ InFlight(c).res = "ok" => c.val["max_inflight"] <= 5
    BY <1>1 DEF InFlight, Check, Found, Invalid, IDEMP_MAX_INFLIGHT
  <2> QED BY <2>1, Refuses
<1>2. CASE ~IsSet(c, "max_inflight")
  <2>1. InFlight(c) = Found(With(c, "max_inflight", n))
    BY <1>2 DEF InFlight
  <2>2. n \in Int /\ n <= 5
    BY <1>0, SMT DEF Least, IDEMP_MAX_INFLIGHT
  <2>3. "max_inflight" \notin c.mod
    BY <1>2 DEF IsSet
  <2> HIDE DEF n
  <2> QED BY <1>0, <2>1, <2>2, <2>3, AdjustsWith
<1> QED BY <1>1, <1>2

(* And retries.                                                            *)
LEMMA RetriesIs ==
    ASSUME NEW c \in Confs
    PROVE  LET r == Retries(c) IN
           Adjusts(r.conf, c, {"max_retries"}) /\ (r.res = "ok" => r.conf.val["max_retries"] >= 1)
<1>0. "max_retries" \in Props /\ c.val["max_retries"] \in Int
  BY PropsNamed, Numbers, SMT
<1>1. CASE IsSet(c, "max_retries")
  <2>1. /\ Retries(c).conf = c
        /\ Retries(c).res = "ok" => c.val["max_retries"] >= 1
    BY <1>1 DEF Retries, Check, Found, Invalid
  <2> QED BY <2>1, Refuses
<1>2. CASE ~IsSet(c, "max_retries")
  <2>1. Retries(c) = Found(With(c, "max_retries", INT_MAX))
    BY <1>2 DEF Retries
  <2>2. INT_MAX \in Int /\ INT_MAX >= 1
    BY SMT DEF INT_MAX
  <2>3. "max_retries" \notin c.mod
    BY <1>2 DEF IsSet
  <2>4. Adjusts(Retries(c).conf, c, {"max_retries"}) /\ Retries(c).conf.val["max_retries"] = INT_MAX
    BY <1>0, <2>1, <2>2, <2>3, AdjustsWith
  <2> QED BY <2>2, <2>4
<1> QED BY <1>1, <1>2

(* And at most one request in the output buffers.                          *)
LEMMA BackpressureIs ==
    ASSUME NEW c \in Confs, c.val["queue_backpressure_thres"] >= 1
    PROVE  LET r == Backpressure(c) IN
           /\ Adjusts(r.conf, c, {"queue_backpressure_thres"})
           /\ r.conf.val["queue_backpressure_thres"] >= 1
           /\ r.res = "ok" => r.conf.val["queue_backpressure_thres"] = 1
<1>0. "queue_backpressure_thres" \in Props /\ c.val["queue_backpressure_thres"] \in Int
  BY PropsNamed, Numbers, SMT
<1>1. CASE IsSet(c, "queue_backpressure_thres") /\ c.val["queue_backpressure_thres"] > 1
  <2>1. Backpressure(c) = Invalid(c)
    BY <1>1 DEF Backpressure
  <2> QED BY <2>1, Refuses
<1>2. CASE ~(IsSet(c, "queue_backpressure_thres") /\ c.val["queue_backpressure_thres"] > 1)
  <2>1. /\ Backpressure(c).conf = With(c, "queue_backpressure_thres", 1)
        /\ Backpressure(c).res = "ok"
    BY <1>2 DEF Backpressure, Found
  <2>2. LET w == With(c, "queue_backpressure_thres", 1) IN
        /\ w \in Confs /\ w.mod = c.mod /\ w.topic_conf = c.topic_conf
        /\ w.val["queue_backpressure_thres"] = 1
        /\ \A q \in Props \ {"queue_backpressure_thres"} : w.val[q] = c.val[q]
    BY <1>0, WithIs
  <2>3. "queue_backpressure_thres" \in c.mod => c.val["queue_backpressure_thres"] = 1
    BY <1>0, <1>2 DEF IsSet
  <2> QED BY <2>1, <2>2, <2>3 DEF Adjusts
<1> QED BY <1>1, <1>2

(* Two stages in sequence.                                                 *)
LEMMA ThenAdjusts ==
    ASSUME NEW c, NEW r, NEW next, NEW S, NEW T, Adjusts(r.conf, c, S),
           r.res = "ok" => Adjusts(next.conf, r.conf, T)
    PROVE  /\ Adjusts(Then(r, next).conf, c, S \cup T)
           /\ Then(r, next).res = "ok" => r.res = "ok" /\ Then(r, next) = next
           /\ Then(r, next) = r \/ (r.res = "ok" /\ Then(r, next) = next)
<1>1. CASE r.res = "ok"
  <2>1. Then(r, next) = next
    BY <1>1, ThenIs
  <2>2. Adjusts(next.conf, c, S \cup T)
    BY <1>1, AdjustsTwice
  <2> QED BY <1>1, <2>1, <2>2
<1>2. CASE r.res # "ok"
  <2>1. Then(r, next) = r
    BY <1>2, ThenIs
  <2> QED BY <1>2, <2>1 DEF Adjusts
<1> QED BY <1>1, <1>2

(* A property that a stage may not adjust keeps its value.                 *)
LEMMA Untouched ==
    ASSUME NEW c, NEW d, NEW S, Adjusts(d, c, S), NEW q \in Props, q \notin S
    PROVE  d.val[q] = c.val[q]
BY DEF Adjusts

Eos == {"max_inflight", "max_retries", "queue_backpressure_thres"}
(* The three adjustments of an idempotent producer.                        *)
LEMMA IdempotenceIs ==
    ASSUME NEW c \in Confs, c.val["queue_backpressure_thres"] >= 1
    PROVE  LET r == Idempotence(c) IN
           /\ Adjusts(r.conf, c, Eos) /\ r.conf.val["queue_backpressure_thres"] >= 1
           /\ r.res = "ok" /\ r.conf.val["idempotence"] = 1 =>
                /\ r.conf.val["max_inflight"] <= 5 /\ r.conf.val["max_retries"] >= 1
                /\ r.conf.val["queue_backpressure_thres"] = 1
<1> DEFINE flight == InFlight(c)
           retries == Then(flight, Retries(flight.conf))
           back == Backpressure(retries.conf)
<1>0. {"max_inflight", "max_retries", "queue_backpressure_thres", "idempotence"} \subseteq Props
  BY PropsNamed, SMT
<1>1. CASE c.val["idempotence"] # 1
  <2>1. Idempotence(c).conf = c
    BY <1>1 DEF Idempotence, Check, Found, Invalid
  <2>2. Adjusts(c, c, Eos)
    BY Refuses
  <2> QED BY <1>1, <2>1, <2>2
<1>2. CASE c.val["idempotence"] = 1
  <2>1. Idempotence(c) = Then(retries, back)
    BY <1>2 DEF Idempotence
  <2>2. /\ Adjusts(flight.conf, c, {"max_inflight"})
        /\ flight.res = "ok" => flight.conf.val["max_inflight"] <= 5
    BY InFlightIs
  <2>3. flight.conf \in Confs
    BY <2>2 DEF Adjusts
  <2>4. /\ Adjusts(Retries(flight.conf).conf, flight.conf, {"max_retries"})
        /\ Retries(flight.conf).res = "ok" => Retries(flight.conf).conf.val["max_retries"] >= 1
    BY <2>3, RetriesIs
  <2> HIDE DEF flight
  <2>5. /\ Adjusts(retries.conf, c, {"max_inflight"} \cup {"max_retries"})
        /\ retries.res = "ok" => flight.res = "ok" /\ retries = Retries(flight.conf)
    BY <2>2, <2>4, ThenAdjusts
  <2>6. retries.res = "ok" => /\ retries.conf.val["max_inflight"] <= 5
                              /\ retries.conf.val["max_retries"] >= 1
    <3> HAVE retries.res = "ok"
    <3>1. retries = Retries(flight.conf) /\ flight.res = "ok"
      BY <2>5
    <3>2. Retries(flight.conf).conf.val["max_inflight"] = flight.conf.val["max_inflight"]
      BY <1>0, <2>4, Untouched
    <3> HIDE DEF retries
    <3> QED BY <2>2, <2>4, <3>1, <3>2
  <2> HIDE DEF retries
  <2>7. retries.conf \in Confs /\ retries.conf.val["queue_backpressure_thres"] >= 1
    BY <1>0, <2>5, Untouched DEF Adjusts
  <2>8. /\ Adjusts(back.conf, retries.conf, {"queue_backpressure_thres"})
        /\ back.conf.val["queue_backpressure_thres"] >= 1
        /\ back.res = "ok" => back.conf.val["queue_backpressure_thres"] = 1
    BY <2>7, BackpressureIs
  <2>9. \A q \in {"max_inflight", "max_retries"} : back.conf.val[q] = retries.conf.val[q]
    BY <1>0, <2>8, Untouched
  <2> HIDE DEF back
  <2> DEFINE A == {"max_inflight"} \cup {"max_retries"}
             B == {"queue_backpressure_thres"}
  <2>a. Adjusts(retries.conf, c, A) /\ Adjusts(back.conf, retries.conf, B) /\ A \cup B = Eos
    BY <2>5, <2>8 DEF Eos
  <2> HIDE DEF A, B
  <2>10. /\ Adjusts(Then(retries, back).conf, c, A \cup B)
         /\ Then(retries, back).res = "ok" => retries.res = "ok" /\ Then(retries, back) = back
         /\ Then(retries, back) = retries \/ (retries.res = "ok" /\ Then(retries, back) = back)
    BY <2>a, ThenAdjusts
  <2> QED BY <2>1, <2>6, <2>7, <2>8, <2>9, <2>10, <2>a
<1> QED BY <1>1, <1>2

(* The sticky partitioner's linger follows linger.ms.                      *)
LEMMA StickyLingerIs ==
    ASSUME NEW c \in Confs
    PROVE  Adjusts(StickyLinger(c).conf, c, {"sticky_partition_linger_ms"})
<1> DEFINE n == Least(900000, (2 * c.val["buffering_max_ms"]) \div 10)
<1>1. CASE IsSet(c, "sticky_partition_linger_ms")
  <2>1. StickyLinger(c) = Found(c)
    BY <1>1, SMT DEF StickyLinger
  <2> QED BY <2>1, Refuses
<1>2. CASE ~IsSet(c, "sticky_partition_linger_ms")
  <2>1. StickyLinger(c) = Found(With(c, "sticky_partition_linger_ms", n))
    BY <1>2, SMT DEF StickyLinger
  <2>2. n \in Int
    BY Numbers, SMT DEF Least
  <2>3. "sticky_partition_linger_ms" \notin c.mod
    BY <1>2 DEF IsSet
  <2> HIDE DEF n
  <2>4. "sticky_partition_linger_ms" \in Props
    BY PropsNamed, SMT
  <2> QED BY <2>1, <2>2, <2>3, <2>4, AdjustsWith
<1> QED BY <1>1, <1>2

ProducerSet == ({"idempotence"} \cup {"socket_timeout_ms"}) \cup (Eos \cup {"sticky_partition_linger_ms"})

(* The stages for a producer, one after the other.                         *)
LEMMA ProducerIs ==
    ASSUME NEW c, Good(c)
    PROVE  LET r == FinalizeProducer(c) IN
           /\ Adjusts(r.conf, c, ProducerSet) /\ r.conf.val["idempotence"] \in {0, 1}
           /\ r.conf.val["queue_backpressure_thres"] >= 1
           /\ r.res = "ok" => ProducerSound(r.conf.val)
           /\ "idempotence" \in c.mod => r.conf.val["idempotence"] = c.val["idempotence"]
<1> DEFINE txn == TransactionIdempotence(c)
           time == TransactionTimeout(txn.conf)
           timeout == Then(txn, time)
           eos == Idempotence(timeout.conf)
           idemp == Then(timeout, eos)
           linger == StickyLinger(idemp.conf)
           S == {"idempotence"}
           T == {"socket_timeout_ms"}
           L == {"sticky_partition_linger_ms"}
<1>0. /\ {"max_inflight", "max_retries", "queue_backpressure_thres", "idempotence",
          "transactional_id", "transaction_timeout_ms", "socket_timeout_ms"} \subseteq Props
      /\ c \in Confs /\ c.val["transaction_timeout_ms"] >= 1000
      /\ c.val["queue_backpressure_thres"] >= 1
  BY PropsNamed, SMT DEF Good
<1>1. FinalizeProducer(c) = Then(idemp, linger)
  BY DEF FinalizeProducer
<1>2. /\ Adjusts(txn.conf, c, S) /\ txn.conf.val["idempotence"] \in {0, 1}
      /\ txn.res = "ok" /\ txn.conf.val["transactional_id"] # 0 => txn.conf.val["idempotence"] = 1
  BY TransactionIdempotenceIs
<1>a. "idempotence" \in c.mod => txn.conf.val["idempotence"] = c.val["idempotence"]
  BY TransactionIdempotenceIs
<1> HIDE DEF txn
<1>3. /\ txn.conf \in Confs /\ txn.conf.val["transaction_timeout_ms"] >= 1000
      /\ txn.conf.val["queue_backpressure_thres"] >= 1
  <2>1. /\ txn.conf.val["transaction_timeout_ms"] = c.val["transaction_timeout_ms"]
        /\ txn.conf.val["queue_backpressure_thres"] = c.val["queue_backpressure_thres"]
    BY <1>0, <1>2, Untouched
  <2> QED BY <1>0, <1>2, <2>1 DEF Adjusts
<1>4. /\ Adjusts(time.conf, txn.conf, T)
      /\ time.res = "ok" /\ time.conf.val["transactional_id"] # 0 =>
           time.conf.val["socket_timeout_ms"] <= time.conf.val["transaction_timeout_ms"] + 100
  BY <1>3, TransactionTimeoutIs
<1>5. /\ time.conf.val["idempotence"] = txn.conf.val["idempotence"]
      /\ time.conf.val["transactional_id"] = txn.conf.val["transactional_id"]
      /\ time.conf.val["queue_backpressure_thres"] = txn.conf.val["queue_backpressure_thres"]
  BY <1>0, <1>4, Untouched
<1> HIDE DEF time, S, T
<1>6. /\ Adjusts(timeout.conf, c, S \cup T)
      /\ timeout.res = "ok" => txn.res = "ok" /\ timeout = time
      /\ timeout = txn \/ (txn.res = "ok" /\ timeout = time)
  BY <1>2, <1>4, ThenAdjusts
<1> HIDE DEF timeout
<1>7. /\ timeout.conf \in Confs /\ timeout.conf.val["queue_backpressure_thres"] >= 1
      /\ timeout.conf.val["idempotence"] \in {0, 1}
  <2>1. timeout.conf \in Confs
    BY <1>6 DEF Adjusts
  <2> QED BY <1>2, <1>3, <1>5, <1>6, <2>1
<1>8. timeout.res = "ok" /\ timeout.conf.val["transactional_id"] # 0 =>
        /\ timeout.conf.val["idempotence"] = 1
        /\ timeout.conf.val["socket_timeout_ms"] <= timeout.conf.val["transaction_timeout_ms"] + 100
  BY <1>2, <1>4, <1>5, <1>6
<1>9. /\ Adjusts(eos.conf, timeout.conf, Eos) /\ eos.conf.val["queue_backpressure_thres"] >= 1
      /\ eos.res = "ok" /\ eos.conf.val["idempotence"] = 1 =>
           /\ eos.conf.val["max_inflight"] <= 5 /\ eos.conf.val["max_retries"] >= 1
           /\ eos.conf.val["queue_backpressure_thres"] = 1
  BY <1>7, IdempotenceIs
<1>10. \A q \in {"idempotence", "transactional_id", "transaction_timeout_ms", "socket_timeout_ms"} :
         eos.conf.val[q] = timeout.conf.val[q]
  BY <1>0, <1>9, Untouched DEF Eos
<1> HIDE DEF eos
<1>11. /\ Adjusts(idemp.conf, c, (S \cup T) \cup Eos)
       /\ idemp.res = "ok" => timeout.res = "ok" /\ idemp = eos
       /\ idemp = timeout \/ (timeout.res = "ok" /\ idemp = eos)
  BY <1>6, <1>9, ThenAdjusts
<1> HIDE DEF idemp
<1>12. /\ idemp.conf \in Confs /\ idemp.conf.val["queue_backpressure_thres"] >= 1
       /\ idemp.conf.val["idempotence"] \in {0, 1}
  <2>1. idemp.conf \in Confs
    BY <1>11 DEF Adjusts
  <2> QED BY <1>7, <1>9, <1>10, <1>11, <2>1
<1>13. idemp.res = "ok" => ProducerSound(idemp.conf.val)
  BY <1>8, <1>9, <1>10, <1>11 DEF ProducerSound
<1>14. Adjusts(linger.conf, idemp.conf, L)
  BY <1>12, StickyLingerIs
<1>15. \A q \in {"max_inflight", "max_retries", "queue_backpressure_thres", "idempotence",
          "transactional_id", "transaction_timeout_ms", "socket_timeout_ms"} :
         linger.conf.val[q] = idemp.conf.val[q]
  BY <1>0, <1>14, Untouched
<1> HIDE DEF linger, L
<1>16. /\ Adjusts(Then(idemp, linger).conf, c, ((S \cup T) \cup Eos) \cup L)
       /\ Then(idemp, linger).res = "ok" => idemp.res = "ok" /\ Then(idemp, linger) = linger
       /\ Then(idemp, linger) = idemp \/ (idemp.res = "ok" /\ Then(idemp, linger) = linger)
  BY <1>11, <1>14, ThenAdjusts
<1>17. ((S \cup T) \cup Eos) \cup L = ProducerSet
  BY DEF ProducerSet, S, T, L
<1>18. /\ Then(idemp, linger).conf.val["queue_backpressure_thres"] >= 1
       /\ Then(idemp, linger).conf.val["idempotence"] \in {0, 1}
  BY <1>12, <1>15, <1>16
<1>19. Then(idemp, linger).res = "ok" => ProducerSound(Then(idemp, linger).conf.val)
  <2> HAVE Then(idemp, linger).res = "ok"
  <2>1. idemp.res = "ok" /\ Then(idemp, linger) = linger
    BY <1>16
  <2>2. ProducerSound(linger.conf.val)
    BY <1>13, <1>15, <2>1 DEF ProducerSound
  <2> QED BY <2>1, <2>2
<1>20. Then(idemp, linger).conf.val["idempotence"] = txn.conf.val["idempotence"]
  BY <1>5, <1>6, <1>10, <1>11, <1>15, <1>16
<1> QED BY <1>1, <1>a, <1>16, <1>17, <1>18, <1>19, <1>20

(* metadata.max.age.ms follows the refresh interval.                       *)
LEMMA MetadataAgeIs ==
    ASSUME NEW c \in Confs
    PROVE  Adjusts(MetadataAge(c).conf, c, {"metadata_max_age_ms"})
<1> DEFINE n == c.val["metadata_refresh_interval_ms"] * 3
<1>1. n \in Int /\ "metadata_max_age_ms" \in Props
  BY Numbers, PropsNamed, SMT
<1>2. CASE IsSet(c, "metadata_max_age_ms") \/ ~(c.val["metadata_refresh_interval_ms"] > 0)
  <2>1. MetadataAge(c) = Found(c)
    BY <1>2 DEF MetadataAge
  <2> QED BY <2>1, Refuses
<1>3. CASE ~IsSet(c, "metadata_max_age_ms") /\ c.val["metadata_refresh_interval_ms"] > 0
  <2>1. MetadataAge(c) = Found(With(c, "metadata_max_age_ms", n))
    BY <1>3 DEF MetadataAge
  <2>2. "metadata_max_age_ms" \notin c.mod
    BY <1>3 DEF IsSet
  <2> HIDE DEF n
  <2> QED BY <1>1, <2>1, <2>2, AdjustsWith
<1> QED BY <1>2, <1>3

(* The check of the reconnect backoffs adjusts nothing.                    *)
LEMMA BackoffIs ==
    ASSUME NEW c \in Confs
    PROVE  Backoff(c).conf = c
BY DEF Backoff, Check, Found, Invalid

(* allow.auto.create.topics has a default for each type of client.         *)
LEMMA AutoCreateIs ==
    ASSUME NEW c \in Confs, NEW type
    PROVE  Adjusts(AutoCreate(type, c).conf, c, {"allow_auto_create_topics"})
<1> DEFINE n == IF type = "producer" THEN 1 ELSE 0
<1>1. n \in Int /\ "allow_auto_create_topics" \in Props
  BY PropsNamed, SMT
<1>2. CASE IsSet(c, "allow_auto_create_topics")
  <2>1. AutoCreate(type, c) = Found(c)
    BY <1>2 DEF AutoCreate
  <2> QED BY <2>1, Refuses
<1>3. CASE ~IsSet(c, "allow_auto_create_topics")
  <2>1. AutoCreate(type, c) = Found(With(c, "allow_auto_create_topics", n))
    BY <1>3 DEF AutoCreate
  <2>2. "allow_auto_create_topics" \notin c.mod
    BY <1>3 DEF IsSet
  <2> HIDE DEF n
  <2> QED BY <1>1, <2>1, <2>2, AdjustsWith
<1> QED BY <1>2, <1>3

(* Adjustments that keep a configuration good.                             *)
LEMMA GoodKept ==
    ASSUME NEW c, Good(c), NEW d, NEW S, Adjusts(d, c, S), "transaction_timeout_ms" \notin S,
           "buffering_max_ms" \notin S, d.val["queue_backpressure_thres"] >= 1,
           d.val["idempotence"] \in {0, 1}
    PROVE  Good(d)
<1>1. "transaction_timeout_ms" \in Props /\ "buffering_max_ms" \in Props
  BY PropsNamed, SMT
<1>2. /\ d.val["transaction_timeout_ms"] = c.val["transaction_timeout_ms"]
      /\ d.val["buffering_max_ms"] = c.val["buffering_max_ms"]
  BY <1>1, Untouched
<1> QED BY <1>2 DEF Good, Adjusts

(* rd_kafka_topic_conf_finalize() *)
LEMMA TopicIdempotenceIs ==
    ASSUME NEW c, c.val["idempotence"] \in {0, 1}, NEW t \in TopicConfs
    PROVE  LET r == TopicIdempotence(c, t) IN
           /\ r.conf \in TopicConfs /\ r.conf.mod = t.mod
           /\ r.conf.val["message_timeout_ms"] = t.val["message_timeout_ms"]
           /\ r.res = "ok" /\ c.val["idempotence"] = 1 =>
                r.conf.val["required_acks"] = -1 /\ r.conf.val["queuing_strategy"] = 0
<1> DEFINE acks == IF IsSet(t, "required_acks") THEN t ELSE With(t, "required_acks", -1)
           fifo == IF IsSet(t, "queuing_strategy") THEN acks ELSE With(acks, "queuing_strategy", 0)
<1>0. {"required_acks", "queuing_strategy", "message_timeout_ms"} \subseteq TopicProps
  BY PropsNamed, SMT
<1>1. /\ acks \in TopicConfs /\ acks.mod = t.mod
      /\ acks.val["message_timeout_ms"] = t.val["message_timeout_ms"]
  <2>1. -1 \in Int
    OBVIOUS
  <2> QED BY <1>0, <2>1, TopicWithIs
<1> HIDE DEF acks
<1>2. /\ fifo \in TopicConfs /\ fifo.mod = t.mod
      /\ fifo.val["message_timeout_ms"] = t.val["message_timeout_ms"]
      /\ fifo.val["required_acks"] = acks.val["required_acks"]
  BY <1>0, <1>1, TopicWithIs
<1> HIDE DEF fifo
<1>3. CASE c.val["idempotence"] = 0
  <2>1. TopicIdempotence(c, t) = Found(t)
    BY <1>3 DEF TopicIdempotence
  <2> QED BY <1>3, <2>1 DEF Found
<1>4. CASE c.val["idempotence"] = 1 /\ acks.val["required_acks"] # -1
  <2>1. TopicIdempotence(c, t) = Invalid(t)
    BY <1>4 DEF TopicIdempotence, acks
  <2> QED BY <2>1 DEF Invalid
<1>5. CASE c.val["idempotence"] = 1 /\ acks.val["required_acks"] = -1
  <2>1. TopicIdempotence(c, t) = Check(fifo, fifo.val["queuing_strategy"] = 0)
    BY <1>5 DEF TopicIdempotence, acks, fifo
  <2> QED BY <1>2, <1>5, <2>1 DEF Check, Found, Invalid
<1> QED BY <1>3, <1>4, <1>5

(* Messages of a transactional producer time out within the transaction.   *)
LEMMA TopicTransactionIs ==
    ASSUME NEW c \in Confs, c.val["transactional_id"] # 0 => c.val["idempotence"] = 1,
           NEW t \in TopicConfs
    PROVE  LET r == TopicTransaction(c, t) IN
           /\ r.conf \in TopicConfs /\ r.conf.mod = t.mod
           /\ r.conf.val["message_timeout_ms"] \in {t.val["message_timeout_ms"],
                                                    c.val["transaction_timeout_ms"]}
           /\ r.conf.val["required_acks"] = t.val["required_acks"]
           /\ r.conf.val["queuing_strategy"] = t.val["queuing_strategy"]
           /\ r.res = "ok" /\ c.val["transactional_id"] # 0 =>
                r.conf.val["message_timeout_ms"] <= c.val["transaction_timeout_ms"]
<1> DEFINE limit == c.val["transaction_timeout_ms"]
<1>0. /\ {"required_acks", "queuing_strategy", "message_timeout_ms"} \subseteq TopicProps
      /\ limit \in Int
  BY PropsNamed, Numbers, SMT
<1> HIDE DEF limit
<1>1. CASE c.val["idempotence"] = 0 \/ ~Transactional(c)
  <2>1. TopicTransaction(c, t) = Found(t)
    BY <1>1 DEF TopicTransaction
  <2>2. c.val["transactional_id"] = 0
    BY <1>1, SMT DEF Transactional
  <2> QED BY <2>1, <2>2 DEF Found
<1>2. CASE ~(c.val["idempotence"] = 0 \/ ~Transactional(c)) /\ ~IsSet(t, "message_timeout_ms")
  <2>1. TopicTransaction(c, t) = Found(With(t, "message_timeout_ms", limit))
    BY <1>2 DEF TopicTransaction, limit
  <2> DEFINE w == With(t, "message_timeout_ms", limit)
  <2>a. /\ w \in TopicConfs /\ w.mod = t.mod /\ w.val["message_timeout_ms"] = limit
        /\ \A q \in TopicProps \ {"message_timeout_ms"} : w.val[q] = t.val[q]
    BY <1>0, TopicWithIs
  <2> HIDE DEF w
  <2>2. /\ w.val["required_acks"] = t.val["required_acks"]
        /\ w.val["queuing_strategy"] = t.val["queuing_strategy"]
    BY <1>0, <2>a
  <2>3. limit <= limit
    BY <1>0
  <2>4. TopicTransaction(c, t).conf = w
    BY <2>1 DEF Found, w
  <2> QED BY <2>a, <2>2, <2>3, <2>4 DEF limit
<1>3. CASE ~(c.val["idempotence"] = 0 \/ ~Transactional(c)) /\ IsSet(t, "message_timeout_ms")
  <2>1. TopicTransaction(c, t) = Check(t, t.val["message_timeout_ms"] <= limit)
    BY <1>3 DEF TopicTransaction, limit
  <2> QED BY <2>1 DEF Check, Found, Invalid, limit
<1> QED BY <1>1, <1>2, <1>3

(* rd_kafka_topic_conf_finalize(): what a topic of a producer may rely on. *)
LEMMA TopicFinalizeIs ==
    ASSUME NEW c \in Confs, c.val["idempotence"] \in {0, 1},
           c.val["transactional_id"] # 0 => c.val["idempotence"] = 1, NEW t \in TopicConfs
    PROVE  LET r == TopicConfFinalize("producer", c, t) IN
           /\ r.conf \in TopicConfs
           /\ r.conf.val["message_timeout_ms"] \in {t.val["message_timeout_ms"],
                                                    c.val["transaction_timeout_ms"]}
           /\ r.res = "ok" => TopicSound(c, r.conf)
<1> DEFINE idemp == TopicIdempotence(c, t)
           next == TopicTransaction(c, idemp.conf)
           txn == Then(idemp, next)
           linger == TopicLinger(c, txn.conf)
<1>1. TopicConfFinalize("producer", c, t) = Then(txn, linger)
  BY DEF TopicConfFinalize
<1>2. /\ idemp.conf \in TopicConfs
      /\ idemp.conf.val["message_timeout_ms"] = t.val["message_timeout_ms"]
      /\ idemp.res = "ok" /\ c.val["idempotence"] = 1 =>
           idemp.conf.val["required_acks"] = -1 /\ idemp.conf.val["queuing_strategy"] = 0
  BY TopicIdempotenceIs
<1> HIDE DEF idemp
<1>3. /\ next.conf \in TopicConfs
      /\ next.conf.val["message_timeout_ms"] \in {idemp.conf.val["message_timeout_ms"],
                                                  c.val["transaction_timeout_ms"]}
      /\ next.conf.val["required_acks"] = idemp.conf.val["required_acks"]
      /\ next.conf.val["queuing_strategy"] = idemp.conf.val["queuing_strategy"]
      /\ next.res = "ok" /\ c.val["transactional_id"] # 0 =>
           next.conf.val["message_timeout_ms"] <= c.val["transaction_timeout_ms"]
  BY <1>2, TopicTransactionIs
<1> HIDE DEF next
<1>4. /\ txn = idemp \/ (idemp.res = "ok" /\ txn = next)
      /\ txn.res = "ok" => idemp.res = "ok" /\ txn = next
  BY ThenIs
<1> HIDE DEF txn
<1>5. /\ txn.conf \in TopicConfs
      /\ txn.conf.val["message_timeout_ms"] \in {t.val["message_timeout_ms"],
                                                 c.val["transaction_timeout_ms"]}
  BY <1>2, <1>3, <1>4
<1>6. /\ linger.conf = txn.conf
      /\ linger.res = "ok" => (IsSet(c, "buffering_max_ms") => ~LingersTooLong(c, txn.conf))
  BY DEF TopicLinger, Check, Found, Invalid
<1> HIDE DEF linger
<1>7. /\ Then(txn, linger) = txn \/ (txn.res = "ok" /\ Then(txn, linger) = linger)
      /\ Then(txn, linger).res = "ok" => txn.res = "ok" /\ Then(txn, linger) = linger
  BY ThenIs
<1>8. Then(txn, linger).conf = txn.conf
  BY <1>6, <1>7
<1>9. Then(txn, linger).res = "ok" => TopicSound(c, txn.conf)
  BY <1>2, <1>3, <1>4, <1>6, <1>7 DEF TopicSound
<1> QED BY <1>1, <1>5, <1>8, <1>9

-----------------------------------------------------------------------------
(* What a topic configuration is finalized against are values of the       *)
(* client, and which of them were set.                                     *)
LEMMA SameClient ==
    ASSUME NEW c, NEW d, d.val = c.val, d.mod = c.mod, NEW t
    PROVE  /\ TopicSound(d, t) <=> TopicSound(c, t)
           /\ LingersTooLong(d, t) <=> LingersTooLong(c, t)
BY DEF TopicSound, LingersTooLong, IsSet

(* A transaction.timeout.ms is longer than any linger.ms that was adjusted.*)
LEMMA LimitIsLong ==
    ASSUME NEW c, Good(c), NEW t,
           t.val["message_timeout_ms"] = c.val["transaction_timeout_ms"],
           LingersTooLong(c, t)
    PROVE  IsSet(c, "buffering_max_ms")
<1>1. c \in Confs
  BY DEF Good
<1>2. c.val["transaction_timeout_ms"] \in Int /\ c.val["buffering_max_ms"] \in Int
  BY <1>1, Numbers
<1> QED BY <1>2, SMT DEF Good, LingersTooLong, IsSet

(* The default topic is finalized last: linger.ms, which was lowered for   *)
(* the message timeout it had before, still fits the one it gets.          *)
LEMMA DefaultFinalized ==
    ASSUME NEW c, Good(c), c.val["transactional_id"] # 0 => c.val["idempotence"] = 1,
           NEW t \in TopicConfs, ~LingersTooLong(c, t)
    PROVE  LET r == TopicConfFinalize("producer", c, t)
               d == [c EXCEPT !.topic_conf = r.conf]
           IN /\ Good(d) /\ d.val = c.val /\ d.mod = c.mod /\ d.topic_conf = r.conf
              /\ r.res = "ok" => TopicSound(d, r.conf) /\ ~LingersTooLong(d, r.conf)
<1> DEFINE r == TopicConfFinalize("producer", c, t)
           d == [c EXCEPT !.topic_conf = r.conf]
<1>1. c \in Confs /\ c.val["idempotence"] \in {0, 1}
  BY DEF Good
<1>2. /\ r.conf \in TopicConfs
      /\ \/ r.conf.val["message_timeout_ms"] = t.val["message_timeout_ms"]
         \/ r.conf.val["message_timeout_ms"] = c.val["transaction_timeout_ms"]
      /\ r.res = "ok" => TopicSound(c, r.conf)
  BY <1>1, TopicFinalizeIs
<1> HIDE DEF r
<1>3. d \in Confs /\ d.val = c.val /\ d.mod = c.mod /\ d.topic_conf = r.conf
  BY <1>1, <1>2 DEF Confs
<1>4. Good(d)
  BY <1>3, SMT DEF Good
<1>5. /\ TopicSound(d, r.conf) <=> TopicSound(c, r.conf)
      /\ LingersTooLong(d, r.conf) <=> LingersTooLong(c, r.conf)
  BY <1>3, SameClient
<1>6. ASSUME r.res = "ok" PROVE ~LingersTooLong(c, r.conf)
  <2>1. CASE r.conf.val["message_timeout_ms"] = t.val["message_timeout_ms"]
    BY <2>1 DEF LingersTooLong
  <2>2. CASE r.conf.val["message_timeout_ms"] = c.val["transaction_timeout_ms"]
    <3>1. LingersTooLong(c, r.conf) => IsSet(c, "buffering_max_ms")
      BY <2>2, LimitIsLong
    <3> QED BY <1>2, <1>6, <3>1 DEF TopicSound
  <2> QED BY <1>2, <2>1, <2>2
<1> QED BY <1>2, <1>3, <1>4, <1>5, <1>6 DEF r

(* The last stage of rd_kafka_conf_finalize(): linger.ms and the default   *)
(* topic.                                                                  *)
LEMMA DefaultTopicConfIs ==
    ASSUME NEW c, Good(c), NEW type,
           type = "producer" /\ c.val["transactional_id"] # 0 => c.val["idempotence"] = 1
    PROVE  LET r == DefaultTopicConf(type, c) IN
           /\ Good(r.conf) /\ r.conf.mod = c.mod
           /\ \A q \in Props : \/ r.conf.val[q] = c.val[q]
                               \/ q = "buffering_max_ms" /\ q \notin c.mod
           /\ r.res = "ok" /\ type = "producer" /\ HasTopicConf(r.conf) =>
                TopicSound(r.conf, r.conf.topic_conf) /\ ~LingersTooLong(r.conf, r.conf.topic_conf)
<1> DEFINE r == DefaultTopicConf(type, c)
           t == c.topic_conf
           m == t.val["message_timeout_ms"]
           n == m * 10 - 1
<1>0. /\ c \in Confs /\ "buffering_max_ms" \in Props /\ c.val["buffering_max_ms"] \in Int
      /\ "transactional_id" \in Props /\ "idempotence" \in Props
      /\ "message_timeout_ms" \in TopicProps
  <2>1. c \in Confs
    BY DEF Good
  <2> QED BY <2>1, PropsNamed, Numbers, SMT
<1>1. CASE ~HasTopicConf(c)
  <2>1. r = Found(c)
    BY <1>1 DEF DefaultTopicConf
  <2> QED BY <1>1, <2>1 DEF Found
<1>2. CASE HasTopicConf(c) /\ type # "producer"
  <2>1. r.conf = [c EXCEPT !.topic_conf = t]
    BY <1>2 DEF DefaultTopicConf, TopicConfFinalize, Found
  <2>2. r.conf = c
    BY <1>0, <2>1 DEF Confs
  <2> QED BY <1>2, <2>2
<1>3. CASE HasTopicConf(c) /\ type = "producer"
  <2>0. t \in TopicConfs /\ m \in Int
    BY <1>0, <1>3 DEF Confs, HasTopicConf, TopicConfs
  <2>1. CASE ~LingersTooLong(c, t)
    <3> DEFINE f == TopicConfFinalize("producer", c, t)
               d == [c EXCEPT !.topic_conf = f.conf]
    <3>1. r = [res |-> f.res, conf |-> d]
      BY <1>3, <2>1 DEF DefaultTopicConf
    <3>2. /\ Good(d) /\ d.val = c.val /\ d.mod = c.mod /\ d.topic_conf = f.conf
          /\ f.res = "ok" => TopicSound(d, f.conf) /\ ~LingersTooLong(d, f.conf)
      BY <1>3, <2>0, <2>1, DefaultFinalized
    <3> HIDE DEF f, d
    <3>3. r.res = f.res /\ r.conf = d
      BY <3>1
    <3> QED BY <3>2, <3>3
  <2>2. CASE LingersTooLong(c, t) /\ IsSet(c, "buffering_max_ms")
    <3>1. r = Invalid(c)
      BY <1>3, <2>2 DEF DefaultTopicConf
    <3> QED BY <3>1 DEF Invalid
  <2>3. CASE LingersTooLong(c, t) /\ ~IsSet(c, "buffering_max_ms")
    <3> DEFINE w == With(c, "buffering_max_ms", n)
               f == TopicConfFinalize("producer", w, t)
               d == [w EXCEPT !.topic_conf = f.conf]
    <3>1. r = [res |-> f.res, conf |-> d]
      BY <1>3, <2>3 DEF DefaultTopicConf
    <3>2. n \in Int /\ m * 10 <= c.val["buffering_max_ms"] /\ "buffering_max_ms" \notin c.mod
      BY <2>0, <2>3, SMT DEF LingersTooLong, IsSet
    <3>3. n <= 50
      BY <1>0, <2>0, <3>2, SMT DEF Good
    <3>4. ~(m * 10 <= n)
      BY <2>0, SMT
    <3> HIDE DEF n
    <3>5. /\ w \in Confs /\ w.mod = c.mod /\ w.val["buffering_max_ms"] = n
          /\ \A q \in Props \ {"buffering_max_ms"} : w.val[q] = c.val[q]
      BY <1>0, <3>2, WithIs
    <3> HIDE DEF w
    <3>6. {"transaction_timeout_ms", "queue_backpressure_thres"} \subseteq Props
      BY PropsNamed, SMT
    <3>7. Good(w)
      BY <1>0, <3>3, <3>5, <3>6, SMT DEF Good
    <3>8. ~LingersTooLong(w, t)
      BY <3>4, <3>5 DEF LingersTooLong
    <3>9. w.val["transactional_id"] # 0 => w.val["idempotence"] = 1
      BY <1>0, <1>3, <3>5
    <3>10. /\ Good(d) /\ d.val = w.val /\ d.mod = w.mod /\ d.topic_conf = f.conf
           /\ f.res = "ok" => TopicSound(d, f.conf) /\ ~LingersTooLong(d, f.conf)
      BY <2>0, <3>7, <3>8, <3>9, DefaultFinalized
    <3> HIDE DEF f, d
    <3>11. r.res = f.res /\ r.conf = d
      BY <3>1
    <3> QED BY <3>2, <3>5, <3>10, <3>11
  <2> QED BY <2>1, <2>2, <2>3
<1> QED BY <1>1, <1>2, <1>3

-----------------------------------------------------------------------------
(* What a client relies on, and what later stages leave of it.             *)
Relied == {"transactional_id", "idempotence", "socket_timeout_ms", "transaction_timeout_ms",
           "max_inflight", "max_retries", "queue_backpressure_thres", "fetch_max_bytes",
           "max_msg_size", "recv_max_msg_size", "max_poll_interval_ms", "group_session_timeout_ms"}
TypeSound(type, v) == /\ type = "producer" => ProducerSound(v)
                      /\ type = "consumer" => ConsumerSound(v)
Follows(d, c) ==
    /\ Good(d) /\ d.mod = c.mod
    /\ \A q \in Relied : d.val[q] = c.val[q]
    /\ \A q \in c.mod : d.val[q] = c.val[q]
Stage(r, c, type) ==
    /\ Good(r.conf) /\ r.conf.mod = c.mod
    /\ \A q \in c.mod \ {"idempotence"} : r.conf.val[q] = c.val[q]
    /\ r.res = "ok" => TypeSound(type, r.conf.val)

(* What a client relies on depends on a few properties only.               *)
LEMMA SoundKept ==
    ASSUME NEW v, NEW w, \A q \in Relied : w[q] = v[q], NEW type, TypeSound(type, v)
    PROVE  TypeSound(type, w)
<1>1. /\ w["transactional_id"] = v["transactional_id"] /\ w["idempotence"] = v["idempotence"]
      /\ w["socket_timeout_ms"] = v["socket_timeout_ms"]
      /\ w["transaction_timeout_ms"] = v["transaction_timeout_ms"]
      /\ w["max_inflight"] = v["max_inflight"] /\ w["max_retries"] = v["max_retries"]
      /\ w["queue_backpressure_thres"] = v["queue_backpressure_thres"]
  BY DEF Relied
<1>2. /\ w["fetch_max_bytes"] = v["fetch_max_bytes"] /\ w["max_msg_size"] = v["max_msg_size"]
      /\ w["recv_max_msg_size"] = v["recv_max_msg_size"]
      /\ w["max_poll_interval_ms"] = v["max_poll_interval_ms"]
      /\ w["group_session_timeout_ms"] = v["group_session_timeout_ms"]
  BY DEF Relied
<1> QED BY <1>1, <1>2 DEF TypeSound, ProducerSound, ConsumerSound

(* A stage that leaves those alone keeps the client's settings sound.      *)
LEMMA StageThen ==
    ASSUME NEW c, NEW type, NEW r, Stage(r, c, type), NEW next, Follows(next.conf, r.conf)
    PROVE  Stage(Then(r, next), c, type)
<1>1. CASE r.res = "ok"
  <2>1. Then(r, next) = next
    BY <1>1, ThenIs
  <2>2. TypeSound(type, next.conf.val)
    BY <1>1, SoundKept DEF Stage, Follows
  <2> QED BY <2>1, <2>2 DEF Stage, Follows
<1>2. CASE r.res # "ok"
  BY <1>2, ThenIs
<1> QED BY <1>1, <1>2

(* A stage that adjusts another property does.                             *)
LEMMA AdjustsFollows ==
    ASSUME NEW c, Good(c), NEW d, NEW p, Adjusts(d, c, {p}), p \notin Relied, p # "buffering_max_ms"
    PROVE  Follows(d, c)
<1>1. Relied \subseteq Props
  BY PropsNamed, SMT DEF Relied
<1>2. \A q \in Relied : d.val[q] = c.val[q]
  BY <1>1, Untouched
<1>3. /\ d.val["queue_backpressure_thres"] = c.val["queue_backpressure_thres"]
      /\ d.val["idempotence"] = c.val["idempotence"]
      /\ "transaction_timeout_ms" \in Relied /\ "idempotence" \in Relied
  BY <1>2 DEF Relied
<1>4. c.mod \subseteq Props
  BY DEF Good, Confs
<1>5. d.val["queue_backpressure_thres"] >= 1 /\ d.val["idempotence"] \in {0, 1}
  BY <1>3 DEF Good
<1>6. Good(d)
  BY <1>3, <1>5, GoodKept
<1>7. \A q \in c.mod : d.val[q] = c.val[q]
  BY <1>2, <1>3, <1>4 DEF Adjusts
<1> QED BY <1>2, <1>6, <1>7 DEF Follows, Adjusts

(* The stages of a consumer or producer make its settings sound.           *)
LEMMA TypedStage ==
    ASSUME NEW c, Good(c), NEW type \in Types
    PROVE  Stage(IF type = "consumer" THEN FinalizeConsumer(c) ELSE FinalizeProducer(c), c, type)
<1>0. /\ c \in Confs /\ c.mod \subseteq Props /\ "idempotence" \in Props
      /\ "queue_backpressure_thres" \in Props
  <2>1. c \in Confs /\ c.mod \subseteq Props
    BY DEF Good, Confs
  <2> QED BY <2>1, PropsNamed, SMT
<1>1. CASE type = "producer"
  <2> DEFINE r == FinalizeProducer(c)
  <2>1. /\ Adjusts(r.conf, c, ProducerSet) /\ r.conf.val["idempotence"] \in {0, 1}
        /\ r.conf.val["queue_backpressure_thres"] >= 1
        /\ r.res = "ok" => ProducerSound(r.conf.val)
    BY ProducerIs
  <2> HIDE DEF r
  <2>2. "transaction_timeout_ms" \notin ProducerSet /\ "buffering_max_ms" \notin ProducerSet
    BY DEF ProducerSet, Eos
  <2>3. Good(r.conf)
    BY <2>1, <2>2, GoodKept
  <2>4. Stage(r, c, type)
    BY <1>0, <1>1, <2>1, <2>3 DEF Stage, TypeSound, Adjusts
  <2> QED BY <1>1, <2>4 DEF r
<1>2. CASE type = "consumer"
  <2> DEFINE r == FinalizeConsumer(c)
             S == {"fetch_max_bytes", "recv_max_msg_size", "idempotence"}
  <2>1. /\ Adjusts(r.conf, c, S)
        /\ r.res = "ok" => ConsumerSound(r.conf.val)
        /\ r.conf.val["idempotence"] = 0 \/ r.conf.val["idempotence"] = c.val["idempotence"]
    BY <1>0, ConsumerIs
  <2> HIDE DEF r
  <2>2. /\ "transaction_timeout_ms" \notin S /\ "buffering_max_ms" \notin S
        /\ "queue_backpressure_thres" \notin S
    OBVIOUS
  <2> HIDE DEF S
  <2>3. r.conf.val["queue_backpressure_thres"] = c.val["queue_backpressure_thres"]
    BY <1>0, <2>1, <2>2, Untouched
  <2>4. r.conf.val["queue_backpressure_thres"] >= 1 /\ r.conf.val["idempotence"] \in {0, 1}
    BY <2>1, <2>3 DEF Good
  <2>5. Good(r.conf)
    BY <2>1, <2>2, <2>4, GoodKept
  <2>6. Stage(r, c, type)
    BY <1>0, <1>2, <2>1, <2>5 DEF Stage, TypeSound, Adjusts
  <2> QED BY <1>2, <2>6 DEF r
<1> QED BY <1>1, <1>2 DEF Types

(* rd_kafka_conf_finalize(): whatever was set is refused or kept, and what *)
(* passes is sound.                                                        *)
DefaultSound(type, c) ==
    type = "producer" /\ HasTopicConf(c) =>
        TopicSound(c, c.topic_conf) /\ ~LingersTooLong(c, c.topic_conf)
(* rd_kafka_conf_finalize() as a whole: the settings agree, or it fails.   *)
LEMMA ConfFinalizeIs ==
    ASSUME NEW c, Good(c), NEW type \in Types
    PROVE  /\ Stage(ConfFinalize(type, c), c, type)
           /\ ConfFinalize(type, c).res = "ok" => DefaultSound(type, ConfFinalize(type, c).conf)
<1> DEFINE typed == IF type = "consumer" THEN FinalizeConsumer(c) ELSE FinalizeProducer(c)
           aged == MetadataAge(typed.conf)
           age == Then(typed, aged)
           backed == Backoff(age.conf)
           backoff == Then(age, backed)
           auto == AutoCreate(type, backoff.conf)
           create == Then(backoff, auto)
           dflt == DefaultTopicConf(type, create.conf)
<1>1. ConfFinalize(type, c) = Then(create, dflt)
  BY DEF ConfFinalize
<1>2. Stage(typed, c, type)
  BY TypedStage
<1> HIDE DEF typed
<1>3. Stage(age, c, type)
  <2>1. Good(typed.conf) /\ typed.conf \in Confs
    BY <1>2 DEF Stage, Good
  <2>2. Adjusts(aged.conf, typed.conf, {"metadata_max_age_ms"})
    BY <2>1, MetadataAgeIs
  <2>3. "metadata_max_age_ms" \notin Relied
    BY DEF Relied
  <2> HIDE DEF aged
  <2>4. Follows(aged.conf, typed.conf)
    BY <2>1, <2>2, <2>3, AdjustsFollows
  <2> QED BY <1>2, <2>4, StageThen
<1> HIDE DEF age, aged
<1>4. Stage(backoff, c, type)
  <2>1. Good(age.conf) /\ age.conf \in Confs
    BY <1>3 DEF Stage, Good
  <2>2. backed.conf = age.conf
    BY <2>1, BackoffIs
  <2> HIDE DEF backed
  <2>3. Follows(backed.conf, age.conf)
    BY <2>1, <2>2 DEF Follows
  <2> QED BY <1>3, <2>3, StageThen
<1> HIDE DEF backoff, backed
<1>5. Stage(create, c, type)
  <2>1. Good(backoff.conf) /\ backoff.conf \in Confs
    BY <1>4 DEF Stage, Good
  <2>2. Adjusts(auto.conf, backoff.conf, {"allow_auto_create_topics"})
    BY <2>1, AutoCreateIs
  <2>3. "allow_auto_create_topics" \notin Relied
    BY DEF Relied
  <2> HIDE DEF auto
  <2>4. Follows(auto.conf, backoff.conf)
    BY <2>1, <2>2, <2>3, AdjustsFollows
  <2> QED BY <1>4, <2>4, StageThen
<1> HIDE DEF create, auto
<1>6. CASE create.res = "ok"
  <2>1. Then(create, dflt) = dflt
    BY <1>6, ThenIs
  <2>2. type = "producer" /\ create.conf.val["transactional_id"] # 0
          => create.conf.val["idempotence"] = 1
    BY <1>5, <1>6 DEF Stage, TypeSound, ProducerSound
  <2>3. /\ Good(dflt.conf) /\ dflt.conf.mod = create.conf.mod
        /\ \A q \in Props : \/ dflt.conf.val[q] = create.conf.val[q]
                            \/ q = "buffering_max_ms" /\ q \notin create.conf.mod
        /\ dflt.res = "ok" /\ type = "producer" /\ HasTopicConf(dflt.conf) =>
              /\ TopicSound(dflt.conf, dflt.conf.topic_conf)
              /\ ~LingersTooLong(dflt.conf, dflt.conf.topic_conf)
    BY <1>5, <2>2, DefaultTopicConfIs DEF Stage
  <2> HIDE DEF dflt
  <2>4. Relied \subseteq Props /\ "buffering_max_ms" \notin Relied
    BY PropsNamed, SMT DEF Relied
  <2>5. create.conf.mod \subseteq Props
    BY <1>5 DEF Stage, Good, Confs
  <2>6. Follows(dflt.conf, create.conf)
    BY <2>3, <2>4, <2>5 DEF Follows
  <2>7. Stage(Then(create, dflt), c, type)
    BY <1>5, <2>6, StageThen
  <2> QED BY <1>1, <2>1, <2>3, <2>7 DEF DefaultSound
<1>7. CASE create.res # "ok"
  <2>1. Then(create, dflt) = create
    BY <1>7, ThenIs
  <2> QED BY <1>1, <1>5, <1>7, <2>1
<1> QED BY <1>6, <1>7

-----------------------------------------------------------------------------
(* An object is good and holds what the application set; a client is sound,*)
(* and so is its topic.                                                    *)
Holds(x) ==
    /\ Good(x.conf) /\ DOMAIN x.given \subseteq x.conf.mod
    /\ \A p \in DOMAIN x.given \ {"idempotence"} : x.conf.val[p] = x.given[p]
ObjectSane(x) == IF x.st = "none" THEN DOMAIN x.given = {} ELSE Holds(x)
Sane ==
    /\ menu \in Menus
    /\ \A o \in Objs : ObjectSane(obj[o])
    /\ Up => /\ Good(rk.conf) /\ rk.type \in Types
             /\ TypeSound(rk.type, rk.conf.val) /\ DefaultSound(rk.type, rk.conf)
    /\ topic.st = "made" => Up /\ (rk.type = "producer" => TopicSound(rk.conf, topic.conf))

(* The invariant implies the two properties.                               *)
LEMMA SaneMeans == Sane => ClientSound /\ SettingsKept
BY DEF Sane, ObjectSane, Holds, ClientSound, SettingsKept, TypeSound, DefaultSound

(* The invariant holds of the defaults.                                    *)
LEMMA SaneInit == ConfInit => Sane
<1> SUFFICES ASSUME ConfInit PROVE Sane
  OBVIOUS
<1>1. ObjectSane(NoObject)
  <2>1. NoObject.st = "none" /\ NoObject.given = <<>>
    BY DEF NoObject
  <2> QED BY <2>1 DEF ObjectSane
<1>2. ~Up /\ topic.st # "made"
  BY DEF ConfInit, Up, NoClient, NoTopic
<1> QED BY <1>1, <1>2 DEF ConfInit, Sane

(* The values survive the memory's being freed, as far as the model goes.  *)
LEMMA FreeKeeps ==
    ASSUME NEW x, IsObject(x)
    PROVE  /\ FreeBase(x).conf = x.conf /\ FreeBase(x).given = x.given
           /\ FreeFields(x).conf = x.conf /\ FreeFields(x).given = x.given
BY DEF IsObject, Fields, FreeBase, FreeFields

(* rd_kafka_conf_set() keeps the invariant, whatever it is given.          *)
LEMMA SetSane ==
    ASSUME NEW x, Holds(x), NEW p, NEW value, IsValue(value), NEW y,
           y.conf = ConfSet(x.conf, p, value).conf,
           y.given = IF p \in y.conf.mod THEN Noted(x.given, p, y.conf.val[p]) ELSE x.given
    PROVE  Holds(y)
<1>1. Changed(y.conf, x.conf, p) /\ x.conf.mod \subseteq Props
  BY ConfSetGood DEF Holds, Good, Confs
<1>2. CASE p \in y.conf.mod
  <2>1. /\ DOMAIN y.given = {p} \cup DOMAIN x.given /\ y.given[p] = y.conf.val[p]
        /\ \A q \in DOMAIN x.given \ {p} : y.given[q] = x.given[q]
    BY <1>2 DEF Noted, Merged
  <2> QED BY <1>1, <1>2, <2>1 DEF Holds, Changed
<1>3. CASE p \notin y.conf.mod
  BY <1>1, <1>3 DEF Holds, Changed
<1> QED BY <1>2, <1>3

(* Every call keeps the invariant.                                         *)
LEMMA SaneStep == Owned /\ Sane /\ [ConfNext]_cvars => Sane'
<1> SUFFICES ASSUME Owned, Sane, [ConfNext]_cvars PROVE Sane'
  OBVIOUS
<1>0. /\ \A o \in Objs : IsObject(obj[o]) /\ ObjectSane(obj[o])
      /\ \A i \in menu : IsValue(i[2])
  BY ConfAssumption DEF Owned, Sane
(* A step that changes one object only.                                    *)
<1>a. ASSUME NEW o \in Objs, NEW y, IsObject(y), obj' = [obj EXCEPT ![o] = y], ObjectSane(y),
             UNCHANGED <<menu, rk, topic>>
      PROVE  Sane'
  <2>1. \A x \in Objs : ObjectSane(obj'[x])
    BY <1>0, <1>a, Replaced
  <2> QED BY <1>a, <2>1 DEF Sane, Up
<1>1. CASE Make
  <2> DEFINE c == ConfNew
             y == [obj["conf"] EXCEPT !.st = "live", !.conf = c]
  <2>1. obj' = [obj EXCEPT !["conf"] = y] /\ UNCHANGED <<menu, rk, topic>> /\ "conf" \in Objs
        /\ obj["conf"].st = "none"
    BY <1>1 DEF Make, Objs
  <2>a. Good(c)
    BY NewGood
  <2> HIDE DEF c
  <2>2. IsObject(y) /\ y.conf = c /\ y.given = obj["conf"].given /\ y.st = "live"
    BY <1>0, <2>1 DEF IsObject, Fields
  <2> HIDE DEF y
  <2>3. ObjectSane(y)
    BY <1>0, <2>1, <2>2, <2>a DEF ObjectSane, Holds
  <2> QED BY <2>1, <2>2, <2>3, <1>a
<1>2. CASE Dup
  <2>1. PICK c \in {obj[o].conf : o \in {x \in {"conf"} : Usable(x) /\ left.sets = 0}}
                   \cup (IF Up THEN {rk.conf} ELSE {}) :
          obj' = [obj EXCEPT !["copy"] =
                    [@ EXCEPT !.st = "live", !.conf = ConfDup(c),
                              !.given = [p \in c.mod |-> Printed(p, c.val[p])]]]
    BY <1>2 DEF Dup
  <2>2. Good(c)
    BY <1>0, <2>1 DEF Sane, ObjectSane, Holds, Usable, Objs
  <2> DEFINE d == ConfDup(c)
             g == [p \in c.mod |-> Printed(p, c.val[p])]
             y == [obj["copy"] EXCEPT !.st = "live", !.conf = d, !.given = g]
  <2>3. obj' = [obj EXCEPT !["copy"] = y] /\ UNCHANGED <<menu, rk, topic>> /\ "copy" \in Objs
    BY <1>2, <2>1 DEF Dup, Objs
  <2>4. Good(d) /\ d.mod = c.mod /\ \A p \in c.mod : d.val[p] = g[p]
    BY <2>2, ConfDupGood
  <2>5. DOMAIN g = c.mod
    OBVIOUS
  <2> HIDE DEF d, g
  <2>6. IsObject(y) /\ y.conf = d /\ y.given = g /\ y.st = "live"
    BY <1>0, <2>3 DEF IsObject, Fields
  <2> HIDE DEF y
  <2>7. ObjectSane(y)
    BY <2>4, <2>5, <2>6 DEF ObjectSane, Holds
  <2> QED BY <2>3, <2>6, <2>7, <1>a
<1>3. ASSUME NEW o \in Objs, Destroy(o) PROVE Sane'
  <2> DEFINE y == FreeBase(FreeFields(obj[o]))
  <2>1. obj' = [obj EXCEPT ![o] = y] /\ UNCHANGED <<menu, rk, topic>> /\ obj[o].st = "live"
    BY <1>3 DEF Destroy, Usable
  <2>2. IsObject(y) /\ y.conf = obj[o].conf /\ y.given = obj[o].given /\ y.st = "gone"
    BY <1>0, FreeBaseIs, FreeFieldsIs, FreeKeeps
  <2> HIDE DEF y
  <2>3. ObjectSane(y)
    BY <1>0, <2>1, <2>2 DEF ObjectSane, Holds
  <2> QED BY <2>1, <2>2, <2>3, <1>a
<1>4. ASSUME NEW i \in menu, Set("conf", i[1], i[2]) PROVE Sane'
  <2> DEFINE p == i[1]
             c == ConfSet(obj["conf"].conf, p, i[2]).conf
             g == IF p \in c.mod THEN Noted(obj["conf"].given, p, c.val[p]) ELSE obj["conf"].given
             y == [obj["conf"] EXCEPT !.conf = c, !.given = g]
  <2>1. obj' = [obj EXCEPT !["conf"].conf = c, !["conf"].given = g]
        /\ UNCHANGED <<menu, rk, topic>> /\ obj["conf"].st = "live"
    BY <1>4 DEF Set, Usable
  <2>2. c = ConfSet(obj["conf"].conf, p, i[2]).conf
        /\ g = IF p \in c.mod THEN Noted(obj["conf"].given, p, c.val[p]) ELSE obj["conf"].given
    OBVIOUS
  <2> HIDE DEF c, g
  <2>3. obj' = [obj EXCEPT !["conf"] = y] /\ "conf" \in Objs
    BY <2>1 DEF Objs, Owned
  <2>4. IsObject(y) /\ y.conf = c /\ y.given = g /\ y.st = "live"
    BY <1>0, <2>1, <2>3 DEF IsObject, Fields
  <2> HIDE DEF y, p
  <2>a. Holds(obj["conf"])
    BY <1>0, <2>1, <2>3 DEF ObjectSane
  <2>5. ObjectSane(y)
    BY <1>0, <2>2, <2>4, <2>a, SetSane DEF ObjectSane
  <2> QED BY <2>1, <2>3, <2>4, <2>5, <1>a
<1>5. ASSUME NEW i \in menu, SetTopic("conf", i[1], i[2]) PROVE Sane'
  <2> DEFINE t == AnyconfSet(TopicConfNew, Topic, i[1], i[2]).conf
             c == SetDefaultTopicConf(obj["conf"].conf, t)
             y == [obj["conf"] EXCEPT !.conf = c]
  <2>1. obj' = [obj EXCEPT !["conf"].conf = c] /\ UNCHANGED <<menu, rk, topic>>
        /\ obj["conf"].st = "live"
    BY <1>5 DEF SetTopic, Usable
  <2>2. t \in TopicConfs
    BY <1>0, TopicNewGood, TopicSetGood
  <2> HIDE DEF t
  <2>3. Holds(obj["conf"]) /\ Good(obj["conf"].conf)
    BY <1>0, <2>1 DEF Objs, ObjectSane, Holds
  <2>4. Good(c) /\ c.val = obj["conf"].conf.val /\ c.mod = obj["conf"].conf.mod
    BY <2>2, <2>3, SetDefaultTopicGood
  <2> HIDE DEF c
  <2>5. obj' = [obj EXCEPT !["conf"] = y] /\ "conf" \in Objs
    BY <2>1 DEF Objs, Owned
  <2>6. IsObject(y) /\ y.conf = c /\ y.given = obj["conf"].given /\ y.st = "live"
    BY <1>0, <2>1, <2>5 DEF IsObject, Fields
  <2> HIDE DEF y
  <2>7. ObjectSane(y)
    BY <2>3, <2>4, <2>6 DEF ObjectSane, Holds
  <2> QED BY <2>1, <2>5, <2>6, <2>7, <1>a
<1>6. ASSUME NEW o \in Objs, NEW type \in Types, NewClient(o, type) PROVE Sane'
  <2> DEFINE r == Finalized(o, type)
             t == Tried(o, type)
  <2>1. /\ Good(ConfOf(o)) /\ DOMAIN obj[o].given \subseteq ConfOf(o).mod
        /\ \A p \in DOMAIN obj[o].given \ {"idempotence"} : ConfOf(o).val[p] = obj[o].given[p]
    BY <1>0, NewGood DEF ObjectSane, Holds, ConfOf
  <2>2. Stage(r, ConfOf(o), type) /\ (r.res = "ok" => DefaultSound(type, r.conf))
    BY <2>1, ConfFinalizeIs DEF Finalized
  <2>3. IsObject(t) /\ t.conf = r.conf /\ t.given = obj[o].given /\ (Given(o) => t.st = "live")
    <3>1. IsObject(t) /\ (Given(o) => t.st = "live")
      BY <1>0, <1>6, TriedIs DEF NewClient, Usable, Given
    <3> HIDE DEF r
    <3>2. t = [obj[o] EXCEPT !.conf = r.conf, !.tries = @ + 1]
      BY DEF Tried, r
    <3> QED BY <1>0, <3>1, <3>2 DEF IsObject, Fields
  <2> HIDE DEF r, t
  <2>4. Holds(t)
    BY <2>1, <2>2, <2>3 DEF Holds, Stage
  <2>a. \A x : IsObject(x) /\ Holds(x) => Holds(FreeBase(x)) /\ Holds(FreeFields(x))
    BY FreeKeeps DEF Holds
  <2>b. /\ IsObject(FreeBase(t)) /\ FreeBase(t).st = "gone" /\ IsObject(FreeFields(t))
    BY <2>3, FreeBaseIs, FreeFieldsIs
  <2>5. IsObject(FreeBase(t)) /\ ObjectSane(FreeBase(t))
    BY <2>3, <2>4, <2>a, <2>b DEF ObjectSane
  <2>7. IsObject(FreeBase(FreeFields(t))) /\ ObjectSane(FreeBase(FreeFields(t)))
    BY <2>3, <2>4, <2>a, <2>b, FreeBaseIs DEF ObjectSane
  <2>8. IsObject(FreeFields(FreeBase(t))) /\ ObjectSane(FreeFields(FreeBase(t)))
    BY <2>3, <2>4, <2>a, <2>b, FreeFieldsIs DEF ObjectSane
  <2>9. UNCHANGED <<menu, topic>>
    BY <1>6 DEF NewClient
  <2>10. CASE NewRefused(o, type)
    <3>1. CASE Given(o)
      <4>1. obj' = [obj EXCEPT ![o] = t] /\ UNCHANGED rk
        BY <2>10, <3>1 DEF NewRefused, t
      <4>2. ObjectSane(t)
        BY <2>3, <2>4, <3>1 DEF ObjectSane
      <4> QED BY <4>1, <4>2, <2>3, <2>9, <1>a
    <3>2. CASE ~Given(o)
      <4>1. obj' = [obj EXCEPT ![o] = FreeBase(FreeFields(t))] /\ UNCHANGED rk
        BY <2>10, <3>2 DEF NewRefused, t
      <4> QED BY <4>1, <2>7, <2>9, <1>a
    <3> QED BY <3>1, <3>2
  <2>11. CASE NewFails(o, type)
    <3>1. CASE Given(o)
      <4>1. obj' = [obj EXCEPT ![o] = t] /\ UNCHANGED rk
        BY <2>11, <3>1 DEF NewFails, t
      <4>2. ObjectSane(t)
        BY <2>3, <2>4, <3>1 DEF ObjectSane
      <4> QED BY <4>1, <4>2, <2>3, <2>9, <1>a
    <3>2. CASE ~Given(o)
      <4>1. obj' = [obj EXCEPT ![o] = FreeFields(FreeBase(t))] /\ UNCHANGED rk
        BY <2>11, <3>2 DEF NewFails, t
      <4> QED BY <4>1, <2>8, <2>9, <1>a
    <3> QED BY <3>1, <3>2
  <2>12. CASE NewWorks(o, type)
    <3>1. obj' = [obj EXCEPT ![o] = FreeBase(t)] /\ r.res = "ok"
      BY <2>12 DEF NewWorks, t, r
    <3>2. rk'.st = "up" /\ rk'.type = type /\ rk'.conf = r.conf
      BY <2>12 DEF NewWorks, r
    <3>3. \A x \in Objs : ObjectSane(obj'[x])
      BY <1>0, <2>5, <3>1, Replaced
    <3>4. ~Up
      BY <1>6 DEF NewClient, Up
    <3>5. topic'.st # "made"
      BY <2>9, <3>4 DEF Sane
    <3> QED BY <2>2, <2>9, <3>1, <3>2, <3>3, <3>5 DEF Sane, Up, Stage
  <2> QED BY <1>6, <2>10, <2>11, <2>12 DEF NewClient
<1>7. ASSUME NEW i \in menu, NEW own \in BOOLEAN, TopicNew(own, i[1], i[2]) PROVE Sane'
  <2> DEFINE base == IF HasTopicConf(rk.conf) THEN TopicConfDup(rk.conf.topic_conf)
                     ELSE TopicConfNew
             set == AnyconfSet(TopicConfNew, Topic, i[1], i[2])
             t == IF own THEN set.conf ELSE base
             r == TopicConfFinalize(rk.type, rk.conf, t)
  <2>1. /\ Up /\ UNCHANGED <<menu, obj, rk>>
        /\ topic' = [st |-> IF r.res = "ok" THEN "made" ELSE "refused", own |-> own, conf |-> r.conf]
    BY <1>7 DEF TopicNew
  <2>2. rk.conf \in Confs /\ rk.conf.val["idempotence"] \in {0, 1}
        /\ TypeSound(rk.type, rk.conf.val)
    BY <2>1 DEF Sane, Good
  <2>3. t \in TopicConfs
    <3>1. set.conf \in TopicConfs
      BY <1>0, TopicNewGood, TopicSetGood
    <3>2. base \in TopicConfs
      BY <2>2, TopicNewGood, TopicDupGood DEF Confs, HasTopicConf
    <3> QED BY <3>1, <3>2
  <2> HIDE DEF t
  <2>4. rk.type = "producer" /\ r.res = "ok" => TopicSound(rk.conf, r.conf)
    <3> HAVE rk.type = "producer" /\ r.res = "ok"
    <3>1. rk.conf.val["transactional_id"] # 0 => rk.conf.val["idempotence"] = 1
      BY <2>2 DEF TypeSound, ProducerSound
    <3> QED BY <2>2, <2>3, <3>1, TopicFinalizeIs
  <2> HIDE DEF r
  <2>5. topic'.st = "made" => r.res = "ok" /\ topic'.conf = r.conf
    BY <2>1
  <2> QED BY <2>1, <2>4, <2>5 DEF Sane, Up
<1>8. CASE DestroyClient
  <2> DEFINE o == rk.from
             y == FreeFields(obj[o])
  <2>1. o \in Objs /\ obj[o].st = "gone"
    BY <1>8 DEF DestroyClient, Owned
  <2>2. /\ obj' = [obj EXCEPT ![o] = y] /\ rk' = [st |-> "gone"] /\ topic' = NoTopic
        /\ UNCHANGED menu
    BY <1>8 DEF DestroyClient
  <2>3. IsObject(y) /\ ObjectSane(y)
    BY <1>0, <2>1, FreeFieldsIs, FreeKeeps DEF ObjectSane, Holds
  <2> HIDE DEF y
  <2>4. ~Up' /\ topic'.st # "made"
    BY <2>2 DEF Up, NoTopic
  <2>5. \A x \in Objs : ObjectSane(obj'[x])
    BY <1>0, <2>1, <2>2, <2>3, Replaced
  <2> QED BY <2>2, <2>4, <2>5 DEF Sane
<1>9. CASE UNCHANGED cvars
  BY <1>9 DEF cvars, Sane, Up
<1> QED BY <1>1, <1>2, <1>3, <1>4, <1>5, <1>6, <1>7, <1>8, <1>9 DEF ConfNext

(* Whatever an application sets, copies and tries, in any order: a client  *)
(* that rd_kafka_new() makes, and a topic of it, has settings that agree   *)
(* as an idempotent or transactional producer and a consumer need; and     *)
(* what the application set was refused or is kept, by any number of       *)
(* attempts (rd_kafka_conf_finalize(), rd_kafka_topic_conf_finalize()).    *)
THEOREM SettingsSound == ConfSpec => [](ClientSound /\ SettingsKept)
<1>1. Freed => Owned
  BY DEF Freed
<1>2. Sane /\ Owned /\ [ConfNext]_cvars => Sane'
  BY SaneStep
<1> QED BY FreedInit, FreedStep, SaneInit, SaneMeans, <1>1, <1>2, PTL DEF ConfSpec

-----------------------------------------------------------------------------
(* A copy of a client's configuration.                                     *)

(* What was not set has its default.  A group strategy that was refused is *)
(* gone though it was not set, and no client is made without one.          *)
UnsetTopic(t) == \A p \in TopicProps \ t.mod : t.val[p] = Defaults(Topic)[p]
Unset(c) ==
    /\ \A p \in Props \ c.mod :
          p # "partition_assignment_strategy" => c.val[p] = Defaults(Global)[p]
    /\ c.topic_conf = NoTopicConf \/ UnsetTopic(c.topic_conf)

(* A text that is refused is gone, which is its default.                   *)
PlainRow(r) == r.type \in {"str", "patlist"} => r.def = 0

(* Of the texts only the strategy has a default.                           *)
LEMMA PlainRows ==
    /\ \A p \in Props : p # "partition_assignment_strategy" => PlainRow(Global[p])
    /\ \A p \in TopicProps : Topic[p].type \notin {"str", "patlist"}
<1>0. /\ \A a, b, d : PlainRow(IntRow(a, b, d)) /\ PlainRow(BoolRow) /\ PlainRow(TextRow(0))
      /\ PlainRow(Row("patlist", 0, 1, 0, <<>>))
      /\ PlainRow(Row("s2f", 0, 3, 0, <<"broker", "topic">>))
      /\ PlainRow(Row("dbl", 0, 9000000, 50, <<>>))
  BY DEF PlainRow, IntRow, BoolRow, TextRow, Row
<1>1. \A p \in DOMAIN ClientRows : PlainRow(ClientRows[p])
  BY <1>0, SMT DEF ClientRows
<1>2. \A p \in DOMAIN BackoffRows : PlainRow(BackoffRows[p])
  BY <1>0, SMT DEF BackoffRows
<1>3. \A p \in DOMAIN GroupRows : p # "partition_assignment_strategy" => PlainRow(GroupRows[p])
  BY <1>0, SMT DEF GroupRows
<1>4. \A p \in DOMAIN ProducerRows : PlainRow(ProducerRows[p])
  BY <1>0, SMT DEF ProducerRows
<1>5. \A p \in TopicProps : Topic[p].type \notin {"str", "patlist"}
  BY SMT DEF Topic, TopicProps, IntRow, Row
<1>6. \A p \in Props : p # "partition_assignment_strategy" => PlainRow(Global[p])
  BY <1>1, <1>2, <1>3, <1>4 DEF Global, Props, Merged
<1> QED BY <1>5, <1>6

(* The strategy's default.                                                 *)
LEMMA StrategyDefault ==
    /\ "partition_assignment_strategy" \in Props
    /\ Defaults(Global)["partition_assignment_strategy"] = 1
<1> DEFINE p == "partition_assignment_strategy"
<1>1. p \in DOMAIN GroupRows /\ GroupRows[p] = TextRow(1)
  BY SMT DEF GroupRows
<1>2. p \notin DOMAIN ClientRows /\ p \notin DOMAIN BackoffRows
  BY SMT DEF ClientRows, BackoffRows
<1> HIDE DEF p
<1>3. /\ p \in DOMAIN Merged(GroupRows, ProducerRows)
      /\ Merged(GroupRows, ProducerRows)[p] = TextRow(1)
  BY <1>1 DEF Merged
<1>4. p \notin DOMAIN Merged(ClientRows, BackoffRows)
  BY <1>2 DEF Merged
<1>5. p \in DOMAIN Global /\ Global[p] = TextRow(1)
  BY <1>3, <1>4 DEF Global, Merged
<1>6. TextRow(1).def = 1
  BY DEF TextRow, Row
<1> QED BY <1>5, <1>6 DEF Props, Defaults, p

(* rd_kafka_topic_conf_set() changes no value that it does not mark.       *)
LEMMA TopicSetUnset ==
    ASSUME NEW t \in TopicConfs, UnsetTopic(t), NEW p, NEW value, IsValue(value)
    PROVE  UnsetTopic(AnyconfSet(t, Topic, p, value).conf)
<1>1. CASE p \in TopicProps
  <2>1. SetForm(SetProp(t, p, Topic[p], value).conf, t, p, Topic[p])
    BY <1>1, SetPropForm, RowsSound
  <2>2. AnyconfSet(t, Topic, p, value) = SetProp(t, p, Topic[p], value)
    BY <1>1 DEF AnyconfSet, TopicProps
  <2>3. Topic[p].type \notin {"str", "patlist"}
    BY <1>1, PlainRows
  <2>4. \A n \in Int : UnsetTopic(Put(t, p, n).conf)
    BY <1>1 DEF UnsetTopic, Put, Found, TopicConfs
  <2> QED BY <2>1, <2>2, <2>3, <2>4, Zenon DEF SetForm
<1>2. CASE p \notin TopicProps
  BY <1>2 DEF AnyconfSet, Unknown, TopicProps
<1> QED BY <1>1, <1>2

(* A new topic configuration has the defaults.                             *)
LEMMA TopicNewUnset == UnsetTopic(TopicConfNew)
BY DEF UnsetTopic, TopicConfNew

(* Neither does rd_kafka_conf_set(), but for the strategy.                 *)
LEMMA ConfSetUnset ==
    ASSUME NEW c, Good(c), Unset(c), NEW p, NEW value, IsValue(value)
    PROVE  Unset(ConfSet(c, p, value).conf)
<1> DEFINE r == AnyconfSet(c, Global, p, value)
           with == IF HasTopicConf(c) THEN c ELSE [c EXCEPT !.topic_conf = TopicConfNew]
           t == AnyconfSet(with.topic_conf, Topic, p, value)
<1>0. c \in Confs
  BY DEF Good
<1>1. CASE r.res # "unknown"
  <2>1. ConfSet(c, p, value) = r
    BY <1>1 DEF ConfSet
  <2>2. CASE p \in Props
    <3>1. r = SetProp(c, p, Global[p], value)
      BY <2>2 DEF AnyconfSet, Props
    <3>2. SetForm(r.conf, c, p, Global[p])
      BY <2>2, <3>1, SetPropForm, RowsSound
    <3> HIDE DEF r
    <3>3. ASSUME NEW n \in Int, r.conf = Put(c, p, n).conf PROVE Unset(r.conf)
      BY <1>0, <2>2, <3>3, PutIs DEF Unset
    <3>4. ASSUME Global[p].type \in {"str", "patlist"}, r.conf = With(c, p, 0) PROVE Unset(r.conf)
      <4>1. p # "partition_assignment_strategy" => Defaults(Global)[p] = 0
        BY <2>2, <3>4, PlainRows DEF PlainRow, Defaults, Props
      <4>2. /\ r.conf.mod = c.mod /\ r.conf.topic_conf = c.topic_conf /\ r.conf.val[p] = 0
            /\ \A q \in Props \ {p} : r.conf.val[q] = c.val[q]
        BY <1>0, <2>2, <3>4, WithIs
      <4> QED BY <4>1, <4>2 DEF Unset
    <3> QED BY <2>1, <3>2, <3>3, <3>4, Zenon DEF SetForm
  <2>3. CASE p \notin Props
    BY <2>1, <2>3 DEF AnyconfSet, Unknown, Props
  <2> QED BY <2>2, <2>3
<1>2. CASE r.res = "unknown"
  <2>1. ConfSet(c, p, value).conf = [with EXCEPT !.topic_conf = t.conf]
    BY <1>2 DEF ConfSet
  <2>2. with \in Confs /\ with.val = c.val /\ with.mod = c.mod /\ with.topic_conf \in TopicConfs
    BY <1>0, TopicNewGood DEF Confs, HasTopicConf
  <2>a. UnsetTopic(with.topic_conf)
    <3>1. CASE HasTopicConf(c)
      BY <3>1 DEF HasTopicConf, Unset
    <3>2. CASE ~HasTopicConf(c)
      <4>1. with.topic_conf = TopicConfNew
        BY <1>0, <3>2 DEF Confs
      <4> QED BY <4>1, TopicNewUnset
    <3> QED BY <3>1, <3>2
  <2>3. UnsetTopic(t.conf)
    BY <2>2, <2>a, TopicSetUnset
  <2> HIDE DEF with, t
  <2>4. /\ [with EXCEPT !.topic_conf = t.conf].val = c.val
        /\ [with EXCEPT !.topic_conf = t.conf].mod = c.mod
        /\ [with EXCEPT !.topic_conf = t.conf].topic_conf = t.conf
    BY <2>2 DEF Confs
  <2> QED BY <2>1, <2>3, <2>4 DEF Unset
<1> QED BY <1>1, <1>2

(* rd_kafka_topic_conf_dup(): what was set, and the defaults.              *)
LEMMA TopicDupIs ==
    ASSUME NEW t \in TopicConfs
    PROVE  /\ TopicConfDup(t) \in TopicConfs /\ TopicConfDup(t).mod = t.mod
           /\ \A p \in t.mod : TopicConfDup(t).val[p] = t.val[p]
           /\ UnsetTopic(TopicConfDup(t))
<1>1. "buffering_max_ms" \notin TopicProps
  BY PropsNamed
<1>2. \A p \in TopicProps : Printed(p, t.val[p]) = t.val[p]
  BY <1>1 DEF Printed
<1>3. TopicConfNew \in TopicConfs /\ UnsetTopic(TopicConfNew) /\ TopicConfNew.mod = {}
  BY TopicNewGood, TopicNewUnset DEF TopicConfNew
<1>4. TopicConfDup(t) \in TopicConfs
  BY TopicDupGood
<1>5. /\ TopicConfDup(t).mod = t.mod
      /\ \A p \in TopicProps : TopicConfDup(t).val[p] =
            IF p \in t.mod THEN Printed(p, t.val[p]) ELSE TopicConfNew.val[p]
  BY <1>3 DEF TopicConfDup, CopyOf, TopicConfs
<1>6. t.mod \subseteq TopicProps
  BY DEF TopicConfs
<1> QED BY <1>2, <1>3, <1>4, <1>5, <1>6 DEF UnsetTopic

(* A copy has the defaults of what was not set.                            *)
LEMMA ConfDupUnset ==
    ASSUME NEW c, Good(c)
    PROVE  Unset(ConfDup(c))
<1>1. HasTopicConf(c) => c.topic_conf \in TopicConfs
  BY DEF Good, Confs, HasTopicConf
<1>2. HasTopicConf(c) => UnsetTopic(TopicConfDup(c.topic_conf))
  BY <1>1, TopicDupIs
<1> QED BY <1>2, ConfDupGood DEF Unset

(* A topic configuration is none of the missing ones.                      *)
LEMMA IsThere ==
    ASSUME NEW t \in TopicConfs
    PROVE  t # NoTopicConf
<1>1. DOMAIN t.val = TopicProps /\ "required_acks" \in TopicProps
  BY PropsNamed DEF TopicConfs
<1>2. DOMAIN NoTopicConf.val = {}
  BY DEF NoTopicConf
<1> QED BY <1>1, <1>2

(* Configurations with the same values are the same.                       *)
LEMMA SameTopicConf ==
    ASSUME NEW t \in TopicConfs, NEW u \in TopicConfs, t.mod = u.mod,
           \A p \in TopicProps : t.val[p] = u.val[p]
    PROVE  t = u
<1>1. t.val = u.val
  BY DEF TopicConfs
<1> QED BY <1>1 DEF TopicConfs

(* The same of a client's.                                                 *)
LEMMA SameConf ==
    ASSUME NEW c \in Confs, NEW d \in Confs, c.mod = d.mod, c.topic_conf = d.topic_conf,
           \A p \in Props : c.val[p] = d.val[p]
    PROVE  c = d
<1>1. c.val = d.val
  BY DEF Confs
<1> QED BY <1>1 DEF Confs

(* rd_kafka_topic_conf_finalize() keeps what was set.                      *)
TopicKept(u, t) ==
    u \in TopicConfs /\ u.mod = t.mod /\ \A q \in t.mod : u.val[q] = t.val[q]
IsResult(r) == r.res = "ok" => r = Found(r.conf)

(* What a check returns, and what of it is the configuration.              *)
LEMMA FoundIs ==
    ASSUME NEW c, NEW ok \in BOOLEAN
    PROVE  /\ IsResult(Found(c)) /\ IsResult(Invalid(c)) /\ IsResult(Check(c, ok))
           /\ Found(c).conf = c /\ Invalid(c).conf = c /\ Check(c, ok).conf = c
BY DEF IsResult, Found, Invalid, Check

(* A value that was not set may be adjusted.                               *)
LEMMA TopicWithKept ==
    ASSUME NEW t \in TopicConfs, NEW u, TopicKept(u, t), NEW p \in TopicProps, p \notin t.mod,
           NEW n \in Int
    PROVE  TopicKept(With(u, p, n), t)
<1>1. u \in TopicConfs /\ t.mod \subseteq TopicProps
  BY DEF TopicKept, TopicConfs
<1>2. /\ With(u, p, n) \in TopicConfs /\ With(u, p, n).mod = u.mod
      /\ \A q \in TopicProps \ {p} : With(u, p, n).val[q] = u.val[q]
  BY <1>1, TopicWithIs
<1> QED BY <1>1, <1>2 DEF TopicKept

(* For an idempotent producer.                                             *)
LEMMA TopicIdempotenceKeeps ==
    ASSUME NEW c, NEW t \in TopicConfs
    PROVE  TopicKept(TopicIdempotence(c, t).conf, t) /\ IsResult(TopicIdempotence(c, t))
<1> DEFINE acks == IF IsSet(t, "required_acks") THEN t ELSE With(t, "required_acks", -1)
           fifo == IF IsSet(t, "queuing_strategy") THEN acks ELSE With(acks, "queuing_strategy", 0)
           ok == fifo.val["queuing_strategy"] = 0
<1>0. "required_acks" \in TopicProps /\ "queuing_strategy" \in TopicProps /\ -1 \in Int
  BY PropsNamed
<1>1. TopicKept(t, t)
  BY DEF TopicKept
<1>2. TopicKept(acks, t)
  BY <1>0, <1>1, TopicWithKept DEF IsSet
<1> HIDE DEF acks
<1>3. TopicKept(fifo, t)
  BY <1>0, <1>2, TopicWithKept DEF IsSet
<1> HIDE DEF fifo
<1>4. \/ TopicIdempotence(c, t) = Found(t) \/ TopicIdempotence(c, t) = Invalid(t)
      \/ TopicIdempotence(c, t) = Check(fifo, ok)
  BY DEF TopicIdempotence, acks, fifo
<1> QED BY <1>1, <1>3, <1>4, FoundIs

(* For a transactional one.                                                *)
LEMMA TopicTransactionKeeps ==
    ASSUME NEW c \in Confs, NEW t \in TopicConfs
    PROVE  TopicKept(TopicTransaction(c, t).conf, t) /\ IsResult(TopicTransaction(c, t))
<1> DEFINE limit == c.val["transaction_timeout_ms"]
           w == With(t, "message_timeout_ms", limit)
           ok == t.val["message_timeout_ms"] <= limit
<1>0. "message_timeout_ms" \in TopicProps /\ limit \in Int
  BY PropsNamed, Numbers
<1>1. TopicKept(t, t)
  BY DEF TopicKept
<1>2. ~IsSet(t, "message_timeout_ms") => TopicKept(w, t)
  BY <1>0, <1>1, TopicWithKept DEF IsSet
<1>3. \/ TopicTransaction(c, t) = Found(t)
      \/ ~IsSet(t, "message_timeout_ms") /\ TopicTransaction(c, t) = Found(w)
      \/ TopicTransaction(c, t) = Check(t, ok)
  BY DEF TopicTransaction
<1>4. ok \in BOOLEAN
  OBVIOUS
<1> HIDE DEF w, ok
<1> QED BY <1>1, <1>2, <1>3, <1>4, FoundIs

(* rd_kafka_topic_conf_finalize() as a whole.                              *)
LEMMA TopicFinalizeKeeps ==
    ASSUME NEW c \in Confs, NEW t \in TopicConfs, NEW type
    PROVE  LET r == TopicConfFinalize(type, c, t) IN TopicKept(r.conf, t) /\ IsResult(r)
<1> DEFINE idemp == TopicIdempotence(c, t)
           next == TopicTransaction(c, idemp.conf)
           txn == Then(idemp, next)
           linger == TopicLinger(c, txn.conf)
<1>1. CASE type # "producer"
  <2>1. TopicConfFinalize(type, c, t) = Found(t)
    BY <1>1 DEF TopicConfFinalize
  <2> QED BY <2>1, FoundIs DEF TopicKept
<1>2. CASE type = "producer"
  <2>1. TopicConfFinalize(type, c, t) = Then(txn, linger)
    BY <1>2 DEF TopicConfFinalize
  <2>2. TopicKept(idemp.conf, t) /\ IsResult(idemp)
    BY TopicIdempotenceKeeps
  <2> HIDE DEF idemp
  <2>3. TopicKept(next.conf, idemp.conf) /\ IsResult(next)
    BY <2>2, TopicTransactionKeeps DEF TopicKept
  <2> HIDE DEF next
  <2>4. TopicKept(txn.conf, t) /\ IsResult(txn)
    BY <2>2, <2>3, ThenIs DEF TopicKept
  <2> HIDE DEF txn
  <2>5. linger.conf = txn.conf /\ IsResult(linger)
    BY FoundIs DEF TopicLinger
  <2> HIDE DEF linger
  <2> QED BY <2>1, <2>4, <2>5, ThenIs
<1> QED BY <1>1, <1>2

(* It looks at the values of the client, and at which of them were set.    *)
LEMMA TopicFinalizeSame ==
    ASSUME NEW c, NEW d, d.val = c.val, d.mod = c.mod, NEW t, NEW type
    PROVE  TopicConfFinalize(type, d, t) = TopicConfFinalize(type, c, t)
<1>1. \A u : TopicIdempotence(d, u) = TopicIdempotence(c, u)
  BY DEF TopicIdempotence
<1>2. \A u : TopicTransaction(d, u) = TopicTransaction(c, u)
  BY DEF TopicTransaction, Transactional
<1>3. \A u : TopicLinger(d, u) = TopicLinger(c, u)
  BY DEF TopicLinger, LingersTooLong, IsSet
<1> QED BY <1>1, <1>2, <1>3 DEF TopicConfFinalize

(* The last stage: the default topic's configuration is finalized against  *)
(* the values that the client gets.                                        *)
LEMMA DefaultKeeps ==
    ASSUME NEW c \in Confs, NEW type, DefaultTopicConf(type, c).res = "ok"
    PROVE  LET d == DefaultTopicConf(type, c).conf
               t == c.topic_conf
           IN /\ DefaultTopicConf(type, c) = Found(d) /\ d.mod = c.mod
              /\ d.val["idempotence"] = c.val["idempotence"]
              /\ t = NoTopicConf => d.topic_conf = NoTopicConf
              /\ t # NoTopicConf => /\ TopicKept(d.topic_conf, t)
                                    /\ TopicConfFinalize(type, d, t) = Found(d.topic_conf)
              /\ type # "producer" => d = c
<1> DEFINE r == DefaultTopicConf(type, c)
           t == c.topic_conf
           adjust == type = "producer" /\ LingersTooLong(c, t)
           n == t.val["message_timeout_ms"] * 10 - 1
           w == IF adjust THEN With(c, "buffering_max_ms", n) ELSE c
           f == TopicConfFinalize(type, w, t)
           d == [w EXCEPT !.topic_conf = f.conf]
<1>0. "buffering_max_ms" \in Props /\ "idempotence" \in Props /\ "message_timeout_ms" \in TopicProps
  BY PropsNamed, SMT
<1>1. CASE ~HasTopicConf(c)
  <2>1. r = Found(c)
    BY <1>1 DEF DefaultTopicConf
  <2> QED BY <1>1, <2>1, FoundIs DEF HasTopicConf
<1>2. CASE HasTopicConf(c)
  <2>0. t \in TopicConfs /\ t # NoTopicConf
    BY <1>2 DEF Confs, HasTopicConf
  <2>1. n \in Int
    BY <1>0, <2>0 DEF TopicConfs
  <2>2. r = [res |-> f.res, conf |-> d]
    <3>1. ~(adjust /\ IsSet(c, "buffering_max_ms"))
      <4> SUFFICES ASSUME adjust /\ IsSet(c, "buffering_max_ms") PROVE FALSE
        OBVIOUS
      <4>1. r = Invalid(c)
        BY <1>2 DEF DefaultTopicConf
      <4> QED BY <4>1 DEF Invalid
    <3> QED BY <1>2, <3>1 DEF DefaultTopicConf
  <2> HIDE DEF n
  <2>3. /\ w \in Confs /\ w.mod = c.mod /\ w.val["idempotence"] = c.val["idempotence"]
    BY <1>0, <2>1, WithIs
  <2>4. type # "producer" => w = c
    OBVIOUS
  <2> HIDE DEF w
  <2>5. TopicKept(f.conf, t) /\ IsResult(f)
    BY <2>0, <2>3, TopicFinalizeKeeps
  <2>6. f.res = "ok"
    BY <2>2
  <2>7. type # "producer" => f.conf = t
    BY FoundIs DEF TopicConfFinalize
  <2> HIDE DEF f
  <2>8. d.val = w.val /\ d.mod = w.mod /\ d.topic_conf = f.conf
    BY <2>3 DEF Confs
  <2>9. type # "producer" => d = c
    BY <2>4, <2>7 DEF Confs
  <2> HIDE DEF d
  <2>10. TopicConfFinalize(type, d, t) = f
    BY <2>8, TopicFinalizeSame DEF f
  <2>11. r = Found(d) /\ r.conf = d
    BY <2>2, <2>6 DEF Found
  <2> QED BY <2>0, <2>3, <2>5, <2>6, <2>8, <2>9, <2>10, <2>11 DEF IsResult
<1> QED BY <1>1, <1>2

(* rd_kafka_conf_finalize() after the stages for the type of client.       *)
Created(type, typed) ==
    LET age == Then(typed, MetadataAge(typed.conf))
        backoff == Then(age, Backoff(age.conf))
    IN Then(backoff, AutoCreate(type, backoff.conf))
Typed(type, c) == IF type = "consumer" THEN FinalizeConsumer(c) ELSE FinalizeProducer(c)

(* The stages, cut in three.                                               *)
LEMMA FinalizeSplit ==
    ASSUME NEW c, NEW type
    PROVE  LET create == Created(type, Typed(type, c)) IN
           ConfFinalize(type, c) = Then(create, DefaultTopicConf(type, create.conf))
BY DEF ConfFinalize, Created, Typed

(* The stages in between touch neither idempotence nor the default topic.  *)
LEMMA CreatedKeeps ==
    ASSUME NEW typed, typed.conf \in Confs, NEW type
    PROVE  LET create == Created(type, typed) IN
           /\ create.conf \in Confs /\ create.conf.mod = typed.conf.mod
           /\ create.conf.topic_conf = typed.conf.topic_conf
           /\ create.conf.val["idempotence"] = typed.conf.val["idempotence"]
           /\ create.res = "ok" => typed.res = "ok"
<1> DEFINE age == Then(typed, MetadataAge(typed.conf))
           backoff == Then(age, Backoff(age.conf))
           create == Then(backoff, AutoCreate(type, backoff.conf))
           A == {"metadata_max_age_ms"}
           B == {"allow_auto_create_topics"}
<1>0. "idempotence" \in Props /\ "idempotence" \notin (A \cup {}) \cup B
  BY PropsNamed, SMT
<1>1. create = Created(type, typed)
  BY DEF Created
<1>2. Adjusts(typed.conf, typed.conf, {}) /\ Adjusts(MetadataAge(typed.conf).conf, typed.conf, A)
  BY MetadataAgeIs, Refuses
<1> HIDE DEF A, B
<1>3. Adjusts(age.conf, typed.conf, {} \cup A) /\ (age.res = "ok" => typed.res = "ok")
  BY <1>2, ThenAdjusts
<1> HIDE DEF age
<1>4. age.conf \in Confs
  BY <1>3 DEF Adjusts
<1>5. Backoff(age.conf).conf = age.conf
  BY <1>4, BackoffIs
<1>6. backoff.conf = age.conf /\ (backoff.res = "ok" => age.res = "ok")
  BY <1>5, ThenIs
<1> HIDE DEF backoff
<1>7. Adjusts(AutoCreate(type, backoff.conf).conf, backoff.conf, B)
  <2>1. "allow_auto_create_topics" \in B
    BY DEF B
  <2> QED BY <1>4, <1>6, AutoCreateIs DEF B
<1>8. Adjusts(create.conf, typed.conf, ({} \cup A) \cup B) /\ (create.res = "ok" => backoff.res = "ok")
  BY <1>3, <1>6, <1>7, ThenAdjusts
<1> HIDE DEF create
<1>9. create.conf.val["idempotence"] = typed.conf.val["idempotence"]
  <2>1. "idempotence" \notin ({} \cup A) \cup B
    BY <1>0
  <2> QED BY <1>0, <1>8, <2>1, Untouched
<1> QED BY <1>1, <1>3, <1>6, <1>8, <1>9 DEF Adjusts

(* rd_kafka_conf_finalize(), when it accepts: what becomes of idempotence  *)
(* and of the default topic's configuration.                               *)
LEMMA FinalizeKeeps ==
    ASSUME NEW c, Good(c), NEW type \in Types, ConfFinalize(type, c).res = "ok"
    PROVE  LET d == ConfFinalize(type, c).conf
               t == c.topic_conf
           IN /\ ConfFinalize(type, c) = Found(d)
              /\ type = "consumer" => d.val["idempotence"] = 0
              /\ type = "producer" /\ "idempotence" \in c.mod =>
                    d.val["idempotence"] = c.val["idempotence"]
              /\ t = NoTopicConf => d.topic_conf = NoTopicConf
              /\ t # NoTopicConf => /\ TopicKept(d.topic_conf, t)
                                    /\ TopicConfFinalize(type, d, t) = Found(d.topic_conf)
<1> DEFINE typed == Typed(type, c)
           create == Created(type, typed)
           dflt == DefaultTopicConf(type, create.conf)
<1>0. c \in Confs
  BY DEF Good
<1>1. /\ typed.conf \in Confs /\ typed.conf.topic_conf = c.topic_conf
      /\ type = "consumer" /\ typed.res = "ok" => typed.conf.val["idempotence"] = 0
      /\ type = "producer" /\ "idempotence" \in c.mod =>
            typed.conf.val["idempotence"] = c.val["idempotence"]
  <2>1. CASE type = "consumer"
    <3> DEFINE r == FinalizeConsumer(c)
    <3>1. /\ Adjusts(r.conf, c, {"fetch_max_bytes", "recv_max_msg_size", "idempotence"})
          /\ r.res = "ok" => ConsumerSound(r.conf.val)
      BY <1>0, ConsumerIs
    <3>2. typed = r
      BY <2>1 DEF Typed
    <3> HIDE DEF r, typed
    <3> QED BY <2>1, <3>1, <3>2 DEF Adjusts, ConsumerSound
  <2>2. CASE type = "producer"
    <3> DEFINE r == FinalizeProducer(c)
    <3>1. /\ Adjusts(r.conf, c, ProducerSet)
          /\ "idempotence" \in c.mod => r.conf.val["idempotence"] = c.val["idempotence"]
      BY ProducerIs
    <3>2. typed = r
      BY <2>2 DEF Typed
    <3> HIDE DEF r, typed
    <3> QED BY <2>2, <3>1, <3>2 DEF Adjusts
  <2> QED BY <2>1, <2>2 DEF Types
<1> HIDE DEF typed
<1>2. /\ create.conf \in Confs /\ create.conf.topic_conf = typed.conf.topic_conf
      /\ create.conf.val["idempotence"] = typed.conf.val["idempotence"]
      /\ create.res = "ok" => typed.res = "ok"
  BY <1>1, CreatedKeeps
<1> HIDE DEF create
<1>3. ConfFinalize(type, c) = Then(create, dflt)
  BY FinalizeSplit DEF create, typed
<1>4. create.res = "ok" /\ ConfFinalize(type, c) = dflt
  BY <1>3, ThenIs
<1>5. LET d == dflt.conf
          t == create.conf.topic_conf
      IN /\ dflt = Found(d) /\ d.val["idempotence"] = create.conf.val["idempotence"]
         /\ t = NoTopicConf => d.topic_conf = NoTopicConf
         /\ t # NoTopicConf => /\ TopicKept(d.topic_conf, t)
                               /\ TopicConfFinalize(type, d, t) = Found(d.topic_conf)
  BY <1>2, <1>4, DefaultKeeps
<1> HIDE DEF dflt
<1> QED BY <1>1, <1>2, <1>4, <1>5

(* A consumer's stages do not look at idempotence, which the last of them  *)
(* disables.                                                               *)
Off(c) == With(c, "idempotence", 0)

(* Nothing else changes.                                                   *)
LEMMA OffIs ==
    ASSUME NEW c \in Confs
    PROVE  /\ Off(c) \in Confs /\ Off(c).mod = c.mod /\ Off(c).topic_conf = c.topic_conf
           /\ Off(c).val["idempotence"] = 0
           /\ \A q \in Props \ {"idempotence"} : Off(c).val[q] = c.val[q]
           /\ Off(Off(c)) = Off(c)
<1>0. "idempotence" \in Props
  BY PropsNamed, SMT
<1>1. \A d \in Confs : /\ Off(d) \in Confs /\ Off(d).mod = d.mod /\ Off(d).topic_conf = d.topic_conf
                       /\ Off(d).val["idempotence"] = 0
                       /\ \A q \in Props \ {"idempotence"} : Off(d).val[q] = d.val[q]
  BY <1>0, WithIs DEF Off
<1> HIDE DEF Off
<1>2. Off(Off(c)) = Off(c)
  BY <1>1, SameConf
<1> QED BY <1>1, <1>2

(* Two properties are adjusted in either order.                            *)
LEMMA OffWith ==
    ASSUME NEW c \in Confs, NEW p \in Props, p # "idempotence", NEW n \in Int
    PROVE  With(Off(c), p, n) = Off(With(c, p, n))
<1>1. /\ With(Off(c), p, n) \in Confs /\ With(Off(c), p, n).mod = c.mod
      /\ With(Off(c), p, n).topic_conf = c.topic_conf /\ With(Off(c), p, n).val[p] = n
      /\ \A q \in Props \ {p} : With(Off(c), p, n).val[q] = Off(c).val[q]
  BY OffIs, WithIs
<1>2. /\ With(c, p, n) \in Confs /\ With(c, p, n).mod = c.mod
      /\ With(c, p, n).topic_conf = c.topic_conf /\ With(c, p, n).val[p] = n
      /\ \A q \in Props \ {p} : With(c, p, n).val[q] = c.val[q]
  BY WithIs
<1> DEFINE a == With(Off(c), p, n)
           b == With(c, p, n)
<1> HIDE DEF a, b
<1>3. /\ Off(b) \in Confs /\ Off(b).mod = b.mod /\ Off(b).topic_conf = b.topic_conf
      /\ Off(b).val["idempotence"] = 0
      /\ \A q \in Props \ {"idempotence"} : Off(b).val[q] = b.val[q]
  BY <1>2, OffIs DEF b
<1>4. Off(c).val["idempotence"] = 0 /\ \A q \in Props \ {"idempotence"} : Off(c).val[q] = c.val[q]
  BY OffIs
<1>5. \A q \in Props : a.val[q] = Off(b).val[q]
  BY <1>1, <1>2, <1>3, <1>4 DEF a, b
<1>6. a \in Confs /\ Off(b) \in Confs /\ a.mod = Off(b).mod /\ a.topic_conf = Off(b).topic_conf
  BY <1>1, <1>2, <1>3 DEF a, b
<1>7. a = Off(b)
  BY <1>5, <1>6, SameConf
<1> QED BY <1>7 DEF a, b

OffAlike(r, s) == s.res = r.res /\ s.conf = Off(r.conf) /\ r.conf \in Confs

(* Of fetch.max.bytes.                                                     *)
LEMMA FetchSizeOff ==
    ASSUME NEW c \in Confs
    PROVE  OffAlike(FetchSize(c), FetchSize(Off(c)))
<1> DEFINE o == Off(c)
           room == Most(Least(c.val["fetch_max_bytes"], c.val["queued_max_msg_kbytes"] * 1024),
                        c.val["max_msg_size"])
           ok == c.val["fetch_max_bytes"] >= c.val["max_msg_size"]
<1>0. {"fetch_max_bytes", "queued_max_msg_kbytes", "max_msg_size"} \subseteq Props
  BY PropsNamed, SMT
<1>1. /\ o.mod = c.mod /\ o.val["fetch_max_bytes"] = c.val["fetch_max_bytes"]
      /\ o.val["queued_max_msg_kbytes"] = c.val["queued_max_msg_kbytes"]
      /\ o.val["max_msg_size"] = c.val["max_msg_size"]
  BY <1>0, OffIs
<1>2. room \in Int
  <2>1. c.val["queued_max_msg_kbytes"] * 1024 \in Int
    BY Numbers, SMT
  <2> QED BY <2>1, Numbers, SMT DEF Most, Least
<1> HIDE DEF o
<1>3. CASE "fetch_max_bytes" \in c.mod
  <2>1. FetchSize(c) = Check(c, ok) /\ FetchSize(o) = Check(o, ok)
    BY <1>1, <1>3 DEF FetchSize, IsSet
  <2> QED BY <2>1 DEF OffAlike, Check, Found, Invalid, o
<1>4. CASE "fetch_max_bytes" \notin c.mod
  <2>1. /\ FetchSize(c) = Found(With(c, "fetch_max_bytes", room))
        /\ FetchSize(o) = Found(With(o, "fetch_max_bytes", room))
    BY <1>1, <1>4 DEF FetchSize, IsSet
  <2> HIDE DEF room
  <2>2. With(o, "fetch_max_bytes", room) = Off(With(c, "fetch_max_bytes", room))
    BY <1>0, <1>2, OffWith DEF o
  <2>3. With(c, "fetch_max_bytes", room) \in Confs
    BY <1>0, <1>2, WithIs
  <2> QED BY <2>1, <2>2, <2>3 DEF OffAlike, Found, o
<1> QED BY <1>3, <1>4 DEF o

(* Of receive.message.max.bytes.                                           *)
LEMMA ReceiveSizeOff ==
    ASSUME NEW c \in Confs
    PROVE  OffAlike(ReceiveSize(c), ReceiveSize(Off(c)))
<1> DEFINE o == Off(c)
           need == c.val["fetch_max_bytes"] + 512
           size == Most(c.val["recv_max_msg_size"], need)
           ok == need <= c.val["recv_max_msg_size"]
<1>0. {"fetch_max_bytes", "recv_max_msg_size"} \subseteq Props
  BY PropsNamed, SMT
<1>1. /\ o.mod = c.mod /\ o.val["fetch_max_bytes"] = c.val["fetch_max_bytes"]
      /\ o.val["recv_max_msg_size"] = c.val["recv_max_msg_size"]
  BY <1>0, OffIs
<1>2. size \in Int
  BY Numbers, SMT DEF Most
<1> HIDE DEF o
<1>3. CASE "recv_max_msg_size" \in c.mod
  <2>1. ReceiveSize(c) = Check(c, ok) /\ ReceiveSize(o) = Check(o, ok)
    BY <1>1, <1>3 DEF ReceiveSize, IsSet
  <2> QED BY <2>1 DEF OffAlike, Check, Found, Invalid, o
<1>4. CASE "recv_max_msg_size" \notin c.mod
  <2>1. /\ ReceiveSize(c) = Found(With(c, "recv_max_msg_size", size))
        /\ ReceiveSize(o) = Found(With(o, "recv_max_msg_size", size))
    BY <1>1, <1>4 DEF ReceiveSize, IsSet
  <2> HIDE DEF size
  <2>2. With(o, "recv_max_msg_size", size) = Off(With(c, "recv_max_msg_size", size))
    BY <1>0, <1>2, OffWith DEF o
  <2>3. With(c, "recv_max_msg_size", size) \in Confs
    BY <1>0, <1>2, WithIs
  <2> QED BY <2>1, <2>2, <2>3 DEF OffAlike, Found, o
<1> QED BY <1>3, <1>4 DEF o

(* The three stages together.                                              *)
LEMMA ConsumerOff ==
    ASSUME NEW c \in Confs, FinalizeConsumer(c).res = "ok"
    PROVE  FinalizeConsumer(Off(c)) = FinalizeConsumer(c)
<1> DEFINE fetch == FetchSize(c)
           receive == Then(fetch, ReceiveSize(fetch.conf))
           fetched == FetchSize(Off(c))
           received == Then(fetched, ReceiveSize(fetched.conf))
<1>1. /\ FinalizeConsumer(c) = Then(receive, PollInterval(receive.conf))
      /\ FinalizeConsumer(Off(c)) = Then(received, PollInterval(received.conf))
  BY DEF FinalizeConsumer
<1>2. OffAlike(fetch, fetched)
  BY FetchSizeOff
<1> HIDE DEF fetch, fetched
<1>3. OffAlike(ReceiveSize(fetch.conf), ReceiveSize(fetched.conf))
  BY <1>2, ReceiveSizeOff DEF OffAlike
<1>4. OffAlike(receive, received)
  BY <1>2, <1>3, ThenIs DEF OffAlike
<1> HIDE DEF receive, received
<1>5. receive.res = "ok" /\ FinalizeConsumer(c) = PollInterval(receive.conf)
  BY <1>1, ThenIs
<1>6. received.res = "ok" /\ received.conf = Off(receive.conf) /\ receive.conf \in Confs
  BY <1>4, <1>5 DEF OffAlike
<1>7. FinalizeConsumer(Off(c)) = PollInterval(received.conf)
  BY <1>1, <1>6, ThenIs
<1> DEFINE x == receive.conf
           y == Off(x)
<1>8. y.val["max_poll_interval_ms"] = x.val["max_poll_interval_ms"]
      /\ y.val["group_session_timeout_ms"] = x.val["group_session_timeout_ms"]
  <2>1. {"max_poll_interval_ms", "group_session_timeout_ms"} \subseteq Props
    BY PropsNamed, SMT
  <2> QED BY <1>6, <2>1, OffIs
<1>9. Off(y) = y
  BY <1>6, OffIs
<1> HIDE DEF x, y
<1>10. PollInterval(x) = Found(Off(x))
  <2>1. PollInterval(x).res = "ok"
    BY <1>5 DEF x
  <2> QED BY <2>1 DEF PollInterval, Invalid, Off
<1>11. PollInterval(y) = PollInterval(x)
  <2>1. ~(x.val["max_poll_interval_ms"] < x.val["group_session_timeout_ms"])
    <3>1. PollInterval(x).res = "ok"
      BY <1>5 DEF x
    <3> QED BY <3>1 DEF PollInterval, Invalid
  <2>2. PollInterval(y) = Found(Off(y))
    BY <1>8, <2>1 DEF PollInterval, Off
  <2> QED BY <1>9, <1>10, <2>2 DEF y
<1> QED BY <1>5, <1>6, <1>7, <1>11 DEF x, y

(* What a client was made of, when the object had not been finalized       *)
(* before: a copy of its configuration is that again, but for a consumer's *)
(* idempotence.                                                            *)
Source(c, type, d) ==
    /\ Good(c) /\ Unset(c) /\ c.val["partition_assignment_strategy"] = 1
    /\ ConfFinalize(type, c) = Found(d)

(* A topic configuration that is copied is the one it was finalized from.  *)
LEMMA TopicDupBack ==
    ASSUME NEW t \in TopicConfs, UnsetTopic(t), NEW u, TopicKept(u, t)
    PROVE  TopicConfDup(u) = t
<1>1. u \in TopicConfs /\ u.mod = t.mod /\ \A q \in t.mod : u.val[q] = t.val[q]
  BY DEF TopicKept
<1>2. /\ TopicConfDup(u) \in TopicConfs /\ TopicConfDup(u).mod = u.mod
      /\ \A p \in u.mod : TopicConfDup(u).val[p] = u.val[p]
      /\ UnsetTopic(TopicConfDup(u))
  BY <1>1, TopicDupIs
<1>3. \A p \in TopicProps : TopicConfDup(u).val[p] = t.val[p]
  BY <1>1, <1>2 DEF UnsetTopic
<1> QED BY <1>1, <1>2, <1>3, SameTopicConf

(* The same of a client: what was set was kept, and the rest are defaults. *)
LEMMA DupBack ==
    ASSUME NEW c, NEW d, NEW type \in Types, Source(c, type, d),
           d.val["buffering_max_ms"] < 1000000
    PROVE  ConfDup(d) = IF type = "consumer" THEN Off(c) ELSE c
<1> DEFINE e == ConfDup(d)
           t == c.topic_conf
<1>0. /\ Good(c) /\ c \in Confs /\ Unset(c) /\ "idempotence" \in Props
      /\ ConfFinalize(type, c).res = "ok" /\ ConfFinalize(type, c).conf = d
  <2>1. Good(c) /\ c \in Confs /\ Unset(c)
    BY DEF Source, Good
  <2>2. "idempotence" \in Props
    BY PropsNamed, SMT
  <2> QED BY <2>1, <2>2 DEF Source, Found
<1>1. Stage(ConfFinalize(type, c), c, type)
  BY <1>0, ConfFinalizeIs
<1>2. /\ Good(d) /\ d.mod = c.mod /\ \A q \in c.mod \ {"idempotence"} : d.val[q] = c.val[q]
  BY <1>0, <1>1 DEF Stage
<1>3. /\ type = "consumer" => d.val["idempotence"] = 0
      /\ type = "producer" /\ "idempotence" \in c.mod => d.val["idempotence"] = c.val["idempotence"]
      /\ t = NoTopicConf => d.topic_conf = NoTopicConf
      /\ t # NoTopicConf => TopicKept(d.topic_conf, t)
  BY <1>0, FinalizeKeeps
<1>4. /\ Good(e) /\ e.mod = d.mod /\ \A p \in d.mod : e.val[p] = Printed(p, d.val[p])
      /\ \A p \in Props \ d.mod : e.val[p] = Defaults(Global)[p]
      /\ e.topic_conf = IF HasTopicConf(d) THEN TopicConfDup(d.topic_conf) ELSE NoTopicConf
  BY <1>2, ConfDupGood
<1> HIDE DEF e
<1>5. \A p \in d.mod : e.val[p] = d.val[p]
  BY <1>4 DEF Printed
<1>6. \A p \in Props \ {"idempotence"} : e.val[p] = c.val[p]
  BY <1>0, <1>2, <1>4, <1>5, StrategyDefault DEF Unset, Source
<1>7. e.topic_conf = t
  <2>1. CASE t = NoTopicConf
    BY <1>3, <1>4, <2>1 DEF HasTopicConf
  <2>2. CASE t # NoTopicConf
    <3>1. t \in TopicConfs /\ UnsetTopic(t) /\ TopicKept(d.topic_conf, t)
      BY <1>0, <1>3, <2>2 DEF Confs, Unset
    <3>2. HasTopicConf(d)
      BY <3>1, IsThere DEF TopicKept, HasTopicConf
    <3> QED BY <1>4, <3>1, <3>2, TopicDupBack
  <2> QED BY <2>1, <2>2
<1>8. e \in Confs /\ e.mod = c.mod
  BY <1>2, <1>4 DEF Good
<1>9. CASE type = "producer"
  <2>1. e.val["idempotence"] = c.val["idempotence"]
    BY <1>0, <1>2, <1>3, <1>4, <1>5, <1>9 DEF Unset
  <2>2. e = c
    BY <1>0, <1>6, <1>7, <1>8, <2>1, SameConf
  <2> QED BY <1>9, <2>2 DEF e
<1>10. CASE type = "consumer"
  <2>1. e.val["idempotence"] = 0
    BY <1>0, <1>2, <1>3, <1>4, <1>5, <1>10, DefaultsAre
  <2>2. /\ Off(c) \in Confs /\ Off(c).mod = c.mod /\ Off(c).topic_conf = t
        /\ Off(c).val["idempotence"] = 0
        /\ \A q \in Props \ {"idempotence"} : Off(c).val[q] = c.val[q]
    BY <1>0, OffIs
  <2>3. \A q \in Props : e.val[q] = Off(c).val[q]
    BY <1>6, <2>1, <2>2
  <2>4. e = Off(c)
    BY <1>7, <1>8, <2>2, <2>3, SameConf
  <2> QED BY <1>10, <2>4 DEF e
<1> QED BY <1>9, <1>10 DEF Types

(* So the copy makes the same client.                                      *)
LEMMA CopyAgain ==
    ASSUME NEW c, NEW d, NEW type \in Types, Source(c, type, d),
           d.val["buffering_max_ms"] < 1000000
    PROVE  ConfFinalize(type, ConfDup(d)) = Found(d)
<1>1. ConfDup(d) = IF type = "consumer" THEN Off(c) ELSE c
  BY DupBack
<1>2. c \in Confs /\ ConfFinalize(type, c) = Found(d) /\ ConfFinalize(type, c).res = "ok"
  BY DEF Source, Good, Found
<1>3. CASE type = "producer"
  BY <1>1, <1>2, <1>3
<1>4. CASE type = "consumer"
  <2> DEFINE create == Created(type, Typed(type, c))
  <2>1. ConfFinalize(type, c) = Then(create, DefaultTopicConf(type, create.conf))
    BY FinalizeSplit
  <2>2. create.res = "ok"
    <3> HIDE DEF create
    <3> QED BY <1>2, <2>1, ThenIs
  <2>3. Typed(type, c) = FinalizeConsumer(c) /\ Typed(type, Off(c)) = FinalizeConsumer(Off(c))
    BY <1>4 DEF Typed
  <2>4. FinalizeConsumer(c).conf \in Confs
    BY <1>2, ConsumerIs DEF Adjusts
  <2>5. FinalizeConsumer(c).res = "ok"
    BY <2>2, <2>3, <2>4, CreatedKeeps
  <2>6. Typed(type, Off(c)) = Typed(type, c)
    BY <1>2, <2>3, <2>5, ConsumerOff
  <2>7. ConfFinalize(type, Off(c)) = ConfFinalize(type, c)
    BY <2>6, FinalizeSplit
  <2> QED BY <1>1, <1>2, <1>4, <2>7
<1> QED BY <1>3, <1>4 DEF Types

(* And a topic that is given no configuration gets the client's default.   *)
LEMMA TopicAgain ==
    ASSUME NEW c, NEW d, NEW type \in Types, Source(c, type, d), HasTopicConf(d)
    PROVE  TopicConfFinalize(type, d, TopicConfDup(d.topic_conf)) = Found(d.topic_conf)
<1> DEFINE t == c.topic_conf
<1>0. /\ Good(c) /\ c \in Confs /\ Unset(c)
      /\ ConfFinalize(type, c).res = "ok" /\ ConfFinalize(type, c).conf = d
  BY DEF Source, Good, Found
<1>1. /\ t = NoTopicConf => d.topic_conf = NoTopicConf
      /\ t # NoTopicConf => /\ TopicKept(d.topic_conf, t)
                            /\ TopicConfFinalize(type, d, t) = Found(d.topic_conf)
  BY <1>0, FinalizeKeeps
<1>2. t # NoTopicConf
  BY <1>1 DEF HasTopicConf
<1>3. t \in TopicConfs /\ UnsetTopic(t)
  BY <1>0, <1>2 DEF Confs, Unset
<1>4. TopicConfDup(d.topic_conf) = t
  BY <1>1, <1>2, <1>3, TopicDupBack
<1> QED BY <1>1, <1>2, <1>4

(* An object that has not been finalized has the defaults of what was not  *)
(* set, a client is made of such an object unless it was tried before, and *)
(* a topic has what the client's defaults are.                             *)
Fresh(x) == x.tries \in Nat /\ (x.st # "none" /\ x.tries = 0 => Unset(x.conf))
First == Up /\ obj[rk.from].tries = 1
Traced ==
    /\ \A o \in Objs : Fresh(obj[o])
    /\ First => \E c : Source(c, rk.type, rk.conf)
    /\ topic.st # "none" => Up
    /\ First /\ topic.st # "none" /\ ~topic.own /\ HasTopicConf(rk.conf) =>
          topic.st = "made" /\ topic.conf = rk.conf.topic_conf

(* The invariant implies the property.                                     *)
LEMMA TracedMeans == Sane /\ Traced => CopySame
<1> SUFFICES ASSUME Sane, Traced, Repeats PROVE CopySame
  BY DEF CopySame
<1>1. First /\ rk.conf.val["buffering_max_ms"] < 1000000 /\ rk.type \in Types
  BY DEF Repeats, First, Sane
<1>2. PICK c : Source(c, rk.type, rk.conf)
  BY <1>1 DEF Traced
<1>3. ConfFinalize(rk.type, ConfDup(rk.conf)) = Found(rk.conf)
  BY <1>1, <1>2, CopyAgain
<1> QED BY <1>1, <1>3 DEF CopySame, Traced

(* It holds before there is an object.                                     *)
LEMMA TracedInit == ConfInit => Traced
<1> SUFFICES ASSUME ConfInit PROVE Traced
  OBVIOUS
<1>1. NoObject.tries = 0 /\ NoObject.st = "none"
  BY DEF NoObject
<1>2. ~Up /\ topic.st = "none"
  BY DEF ConfInit, Up, NoClient, NoTopic
<1> QED BY <1>1, <1>2 DEF ConfInit, Traced, Fresh, First

(* rd_kafka_conf_new() gives the defaults.                                 *)
LEMMA NewUnset == Unset(ConfNew)
BY DefaultsAre DEF Unset, ConfNew

(* The number of attempts survives, too.                                   *)
LEMMA FreeKeepsTries ==
    ASSUME NEW x, IsObject(x)
    PROVE  FreeBase(x).tries = x.tries /\ FreeFields(x).tries = x.tries
BY DEF IsObject, Fields, FreeBase, FreeFields

(* Every call keeps it.                                                    *)
LEMMA TracedStep == Owned /\ Sane /\ Traced /\ [ConfNext]_cvars => Traced'
<1> SUFFICES ASSUME Owned, Sane, Traced, [ConfNext]_cvars PROVE Traced'
  OBVIOUS
<1>0. /\ \A o \in Objs : /\ IsObject(obj[o]) /\ Fresh(obj[o])
                         /\ obj[o].st # "none" => Good(obj[o].conf)
      /\ \A i \in menu : IsValue(i[2])
      /\ Up => rk.from \in Objs
  BY ConfAssumption DEF Owned, Sane, Traced, ObjectSane, Holds
(* A step that changes one object only, and does not try it.               *)
<1>a. ASSUME NEW o \in Objs, NEW y, IsObject(y), obj' = [obj EXCEPT ![o] = y],
             y.tries = obj[o].tries, Fresh(y), UNCHANGED <<rk, topic>>
      PROVE  Traced'
  <2>1. \A x \in Objs : Fresh(obj'[x]) /\ obj'[x].tries = obj[x].tries
    BY <1>0, <1>a, Replaced
  <2>2. First' <=> First
    BY <1>0, <1>a, <2>1 DEF First, Up
  <2> QED BY <1>a, <2>1, <2>2 DEF Traced, Up
<1>1. CASE Make
  <2> DEFINE c == ConfNew
             y == [obj["conf"] EXCEPT !.st = "live", !.conf = c]
  <2>1. obj' = [obj EXCEPT !["conf"] = y] /\ UNCHANGED <<rk, topic>> /\ "conf" \in Objs
    BY <1>1 DEF Make, Objs
  <2>a. Unset(c)
    BY NewUnset
  <2> HIDE DEF c
  <2>2. IsObject(y) /\ y.conf = c /\ y.tries = obj["conf"].tries
    BY <1>0, <2>1 DEF IsObject, Fields
  <2> HIDE DEF y
  <2>3. Fresh(y)
    BY <1>0, <2>1, <2>2, <2>a DEF Fresh
  <2> QED BY <2>1, <2>2, <2>3, <1>a
<1>2. CASE Dup
  <2>1. PICK c \in {obj[o].conf : o \in {x \in {"conf"} : Usable(x) /\ left.sets = 0}}
                   \cup (IF Up THEN {rk.conf} ELSE {}) :
          obj' = [obj EXCEPT !["copy"] =
                    [@ EXCEPT !.st = "live", !.conf = ConfDup(c),
                              !.given = [p \in c.mod |-> Printed(p, c.val[p])]]]
    BY <1>2 DEF Dup
  <2>2. Good(c)
    BY <1>0, <2>1 DEF Sane, Usable, Objs
  <2> DEFINE d == ConfDup(c)
             g == [p \in c.mod |-> Printed(p, c.val[p])]
             y == [obj["copy"] EXCEPT !.st = "live", !.conf = d, !.given = g]
  <2>3. obj' = [obj EXCEPT !["copy"] = y] /\ UNCHANGED <<rk, topic>> /\ "copy" \in Objs
    BY <1>2, <2>1 DEF Dup, Objs
  <2>4. Unset(d)
    BY <2>2, ConfDupUnset
  <2> HIDE DEF d, g
  <2>5. IsObject(y) /\ y.conf = d /\ y.tries = obj["copy"].tries
    BY <1>0, <2>3 DEF IsObject, Fields
  <2> HIDE DEF y
  <2>6. Fresh(y)
    BY <1>0, <2>3, <2>4, <2>5 DEF Fresh
  <2> QED BY <2>3, <2>5, <2>6, <1>a
<1>3. ASSUME NEW o \in Objs, Destroy(o) PROVE Traced'
  <2> DEFINE y == FreeBase(FreeFields(obj[o]))
  <2>1. obj' = [obj EXCEPT ![o] = y] /\ UNCHANGED <<rk, topic>> /\ obj[o].st = "live"
    BY <1>3 DEF Destroy, Usable
  <2>2. IsObject(y) /\ y.conf = obj[o].conf /\ y.tries = obj[o].tries
    BY <1>0, FreeBaseIs, FreeFieldsIs, FreeKeeps, FreeKeepsTries
  <2> HIDE DEF y
  <2>3. Fresh(y)
    BY <1>0, <2>1, <2>2 DEF Fresh
  <2> QED BY <2>1, <2>2, <2>3, <1>a
<1>4. ASSUME NEW i \in menu, Set("conf", i[1], i[2]) PROVE Traced'
  <2> DEFINE p == i[1]
             c == ConfSet(obj["conf"].conf, p, i[2]).conf
             g == IF p \in c.mod THEN Noted(obj["conf"].given, p, c.val[p]) ELSE obj["conf"].given
             y == [obj["conf"] EXCEPT !.conf = c, !.given = g]
  <2>1. obj' = [obj EXCEPT !["conf"].conf = c, !["conf"].given = g] /\ UNCHANGED <<rk, topic>>
    BY <1>4 DEF Set
  <2>2. "conf" \in Objs /\ obj["conf"].st = "live"
    BY <1>4 DEF Objs, Set, Usable
  <2>3. Unset(obj["conf"].conf) => Unset(c)
    BY <1>0, <2>2, ConfSetUnset
  <2> HIDE DEF c, g
  <2>4. obj' = [obj EXCEPT !["conf"] = y]
    BY <2>1, <2>2 DEF Owned
  <2>5. IsObject(y) /\ y.conf = c /\ y.tries = obj["conf"].tries
    BY <1>0, <2>2 DEF IsObject, Fields
  <2> HIDE DEF y
  <2>6. Fresh(y)
    BY <1>0, <2>2, <2>3, <2>5 DEF Fresh
  <2> QED BY <2>1, <2>2, <2>4, <2>5, <2>6, <1>a
<1>5. ASSUME NEW i \in menu, SetTopic("conf", i[1], i[2]) PROVE Traced'
  <2> DEFINE t == AnyconfSet(TopicConfNew, Topic, i[1], i[2]).conf
             c == SetDefaultTopicConf(obj["conf"].conf, t)
             y == [obj["conf"] EXCEPT !.conf = c]
  <2>1. obj' = [obj EXCEPT !["conf"].conf = c] /\ UNCHANGED <<rk, topic>>
    BY <1>5 DEF SetTopic
  <2>2. UnsetTopic(t)
    BY <1>0, TopicNewGood, TopicNewUnset, TopicSetUnset
  <2> HIDE DEF t
  <2>3. "conf" \in Objs /\ obj["conf"].st = "live" /\ obj["conf"].conf \in Confs
    BY <1>0, <1>5 DEF Objs, SetTopic, Usable, Good
  <2>4. Unset(obj["conf"].conf) => Unset(c)
    <3>1. c.val = obj["conf"].conf.val /\ c.mod = obj["conf"].conf.mod /\ c.topic_conf = t
      BY <2>3 DEF SetDefaultTopicConf, Confs
    <3> HIDE DEF c
    <3> QED BY <2>2, <3>1 DEF Unset
  <2> HIDE DEF c
  <2>5. obj' = [obj EXCEPT !["conf"] = y]
    BY <2>1, <2>3 DEF Owned
  <2>6. IsObject(y) /\ y.conf = c /\ y.tries = obj["conf"].tries
    BY <1>0, <2>3 DEF IsObject, Fields
  <2> HIDE DEF y
  <2>7. Fresh(y)
    BY <1>0, <2>3, <2>4, <2>6 DEF Fresh
  <2> QED BY <2>1, <2>3, <2>5, <2>6, <2>7, <1>a
<1>6. ASSUME NEW o \in Objs, NEW type \in Types, NewClient(o, type) PROVE Traced'
  <2> DEFINE r == Finalized(o, type)
             t == Tried(o, type)
  <2>1. IsObject(t) /\ t.tries = obj[o].tries + 1
    <3>1. IsObject(t)
      BY <1>0, TriedIs
    <3> HIDE DEF r
    <3>2. t = [obj[o] EXCEPT !.conf = r.conf, !.tries = @ + 1]
      BY DEF Tried, r
    <3> QED BY <1>0, <3>1, <3>2 DEF IsObject, Fields
  <2> HIDE DEF t
  <2>2. UNCHANGED topic /\ ~Up /\ topic.st = "none"
    BY <1>6 DEF NewClient, Up, Traced
  <2>3. PICK y : obj' = [obj EXCEPT ![o] = y] /\ IsObject(y) /\ y.tries = t.tries
    <3>1. \E y \in {t, FreeBase(FreeFields(t)), FreeFields(FreeBase(t)), FreeBase(t)} :
            obj' = [obj EXCEPT ![o] = y]
      BY <1>6 DEF NewClient, NewRefused, NewFails, NewWorks, t
    <3>2. \A y \in {t, FreeBase(FreeFields(t)), FreeFields(FreeBase(t)), FreeBase(t)} :
            IsObject(y) /\ y.tries = t.tries
      BY <2>1, FreeBaseIs, FreeFieldsIs, FreeKeepsTries
    <3> QED BY <3>1, <3>2
  <2>4. Fresh(y)
    BY <1>0, <2>1, <2>3 DEF Fresh
  <2>5. obj'[o] = y /\ \A x \in Objs : Fresh(obj'[x])
    BY <1>0, <2>3, <2>4, Replaced
  <2>6. CASE UNCHANGED rk
    BY <2>2, <2>5, <2>6 DEF Traced, First, Up
  <2>7. CASE NewWorks(o, type)
    <3>0. Good(ConfOf(o))
      BY <1>0, NewGood DEF ConfOf
    <3>1. /\ r.res = "ok" /\ ConfOf(o).val["partition_assignment_strategy"] = 1
          /\ rk'.type = type /\ rk'.from = o /\ rk'.conf = r.conf /\ rk'.st = "up"
      BY <2>7 DEF NewWorks
    <3>2. r = Found(r.conf)
      BY <3>0, <3>1, FinalizeKeeps DEF Finalized
    <3>3. First' => Source(ConfOf(o), type, r.conf)
      <4> HAVE First'
      <4>1. obj[o].tries = 0
        BY <1>0, <2>1, <2>3, <2>5, <3>1 DEF First, Fresh
      <4>2. Unset(ConfOf(o))
        BY <1>0, <4>1, NewUnset DEF Fresh, ConfOf
      <4> QED BY <3>0, <3>1, <3>2, <4>2 DEF Source, Finalized
    <3> QED BY <2>2, <2>5, <3>1, <3>3 DEF Traced
  <2> QED BY <1>6, <2>6, <2>7 DEF NewClient, NewRefused, NewFails
<1>7. ASSUME NEW i \in menu, NEW own \in BOOLEAN, TopicNew(own, i[1], i[2]) PROVE Traced'
  <2> DEFINE base == IF HasTopicConf(rk.conf) THEN TopicConfDup(rk.conf.topic_conf)
                     ELSE TopicConfNew
             set == AnyconfSet(TopicConfNew, Topic, i[1], i[2])
             r == TopicConfFinalize(rk.type, rk.conf, IF own THEN set.conf ELSE base)
  <2>1. /\ Up /\ UNCHANGED <<obj, rk>>
        /\ topic' = [st |-> IF r.res = "ok" THEN "made" ELSE "refused", own |-> own, conf |-> r.conf]
    BY <1>7 DEF TopicNew
  <2>2. First /\ ~own /\ HasTopicConf(rk.conf) => r.res = "ok" /\ r.conf = rk.conf.topic_conf
    <3> HAVE First /\ ~own /\ HasTopicConf(rk.conf)
    <3>1. PICK c : Source(c, rk.type, rk.conf)
      BY DEF Traced
    <3>2. rk.type \in Types
      BY <2>1 DEF Sane
    <3>3. r = Found(rk.conf.topic_conf)
      BY <3>1, <3>2, TopicAgain
    <3> QED BY <3>3 DEF Found
  <2> HIDE DEF r
  <2>3. topic'.own = own /\ topic'.conf = r.conf /\ (r.res = "ok" => topic'.st = "made")
    BY <2>1
  <2> QED BY <1>0, <2>1, <2>2, <2>3 DEF Traced, First, Up
<1>8. CASE DestroyClient
  <2> DEFINE o == rk.from
             y == FreeFields(obj[o])
  <2>1. o \in Objs /\ obj[o].st = "gone"
    BY <1>8 DEF DestroyClient, Owned
  <2>2. obj' = [obj EXCEPT ![o] = y] /\ rk' = [st |-> "gone"] /\ topic' = NoTopic
    BY <1>8 DEF DestroyClient
  <2>3. IsObject(y) /\ y.conf = obj[o].conf /\ y.tries = obj[o].tries
    BY <1>0, <2>1, FreeFieldsIs, FreeKeeps, FreeKeepsTries
  <2> HIDE DEF y
  <2>4. ~Up' /\ topic'.st = "none"
    BY <2>2 DEF Up, NoTopic
  <2>5. \A x \in Objs : Fresh(obj'[x])
    BY <1>0, <2>1, <2>2, <2>3, Replaced DEF Fresh
  <2> QED BY <2>4, <2>5 DEF Traced, First
<1>9. CASE UNCHANGED cvars
  BY <1>9 DEF cvars, Traced, First, Up
<1> QED BY <1>1, <1>2, <1>3, <1>4, <1>5, <1>6, <1>7, <1>8, <1>9 DEF ConfNext

(* A client made of the copy of a client's configuration is the same, and  *)
(* so is a topic that is given none of its own, though rd_kafka_conf_dup() *)
(* copies only what was set: what rd_kafka_conf_finalize() had adjusted it *)
(* derives again.                                                          *)
THEOREM CopiesAlike == ConfSpec => []CopySame
<1>1. Freed => Owned
  BY DEF Freed
<1>2. Sane /\ Owned /\ [ConfNext]_cvars => Sane'
  BY SaneStep
<1>3. Traced /\ Sane /\ Owned /\ [ConfNext]_cvars => Traced'
  BY TracedStep
<1> QED BY FreedInit, FreedStep, SaneInit, TracedInit, TracedMeans, <1>1, <1>2, <1>3, PTL DEF ConfSpec

(* Configurations are sound whatever an application sets, copies, tries    *)
(* and destroys, in any order: all that the run checks of                  *)
(* rd_kafka_conf_finalize(), rd_kafka_conf_dup() and rd_kafka_new().       *)
THEOREM ConfigurationsSound == ConfSpec => []ConfSound
<1>1. ClientSound /\ SettingsKept /\ CopySame /\ FreedOnce => ConfSound
  BY DEF ConfSound
<1> QED BY ObjectsFreedOnce, SettingsSound, CopiesAlike, <1>1, PTL
=============================================================================
