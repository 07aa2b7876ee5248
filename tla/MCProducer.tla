----------------------------- MODULE MCProducer -----------------------------
(***************************************************************************)
(* The client of a producer for TLC: its messages, the op queues that its  *)
(* threads use, the configuration it is made from, or the requests it      *)
(* sends and reads, as Init chooses; the other parts stay as they began.   *)
(***************************************************************************)
EXTENDS Producer, OpQueue, Conf, TLC

CONSTANTS t1, t2, p1, p2, m1, m2, m3
CONSTANT SetCases

VARIABLES mset, queue, sent, log, rd
VARIABLE part

M == INSTANCE MsgSets WITH req <- sent
mvars == <<mset, queue, sent, log, rd>>

ThreeMsgs == {m1, m2, m3}
UnitSize == [m \in Msgs |-> 1]
(* m1 and m2 are small, m3 needs most of the space. *)
MixedSize == [m \in Msgs |-> IF m = m3 THEN 3 ELSE 2]

(* Messages of different sizes under the size limit, one of them too large *)
(* for message.max.bytes.                                                  *)
Sized == INSTANCE Producer
    WITH Size <- MixedSize, TooLarge <- {m1}, MaxSize <- 4

(* Threads and pollers are alike. *)
Alike == Permutations({t1, t2}) \cup Permutations({p1, p2})

-----------------------------------------------------------------------------
(* What an application may set.                                            *)
Number(n) == [kind |-> "number", n |-> n]
Word(w) == [kind |-> "word", word |-> w]
TextOf(n) == [kind |-> "text", n |-> n]
Nothing == [kind |-> "none"]
Flag(sign, word) == [sign |-> sign, word |-> word]
Flags(f) == [kind |-> "flags", flags |-> f]
Values(p, ns) == {<<p, Number(n)>> : n \in ns}
EosMenu ==
    {<<"transactional_id", TextOf(1)>>, <<"transactional_id", Nothing>>,
     <<"idempotence", Word("true")>>, <<"gapless", Word("true")>>,
     <<"required_acks", Word("all")>>, <<"queuing_strategy", Word("lifo")>>}
    \cup Values("idempotence", {0}) \cup Values("max_inflight", {5, 6})
    \cup Values("max_retries", {0, 1}) \cup Values("queue_backpressure_thres", {2})
    \cup Values("required_acks", {1})
TimeMenu ==
    {<<"transactional_id", TextOf(1)>>}
    \cup Values("transaction_timeout_ms", {1000, 200000})
    \cup Values("socket_timeout_ms", {1100, 1101})
    \cup Values("message_timeout_ms", {0, 1, 1000, 200000})
    \cup Values("buffering_max_ms", {9999, 10000, 1999999})
    \cup Values("sticky_partition_linger_ms", {1})
ConsumerMenu ==
    {<<"allow_auto_create_topics", Word("true")>>, <<"idempotence", Word("true")>>}
    \cup Values("fetch_max_bytes", {1000, 2000}) \cup Values("max_msg_size", {1001, 60000000})
    \cup Values("recv_max_msg_size", {2511, 2512}) \cup Values("queued_max_msg_kbytes", {1})
    \cup Values("max_poll_interval_ms", {44999}) \cup Values("group_session_timeout_ms", {1})
    \cup Values("reconnect_backoff_ms", {20000}) \cup Values("reconnect_backoff_max_ms", {20000})
    \cup Values("metadata_refresh_interval_ms", {-1, 1}) \cup Values("metadata_max_age_ms", {2})
ParseMenu ==
    {<<"debug", Flags(<<Flag("+", "broker"), Flag("+", "topic")>>)>>,
     <<"debug", Flags(<<Flag("-", "broker")>>)>>,
     <<"debug", Flags(<<Flag("+", "broker"), Flag("+", "x")>>)>>, <<"debug", Nothing>>,
     <<"topic_blacklist", TextOf(1)>>, <<"topic_blacklist", TextOf(2)>>,
     <<"topic_blacklist", Nothing>>, <<"partition_assignment_strategy", TextOf(2)>>,
     <<"partition_assignment_strategy", Nothing>>, <<"required_acks", Word("x")>>,
     <<"buffering_max_ms", Word("x")>>, <<"queuing_strategy", Word("x")>>}
    \cup Values("x", {1}) \cup Values("idempotence", {2}) \cup Values("max_retries", {-1})
    \cup Values("queuing_strategy", {1})
AllMenus == {EosMenu, TimeMenu, ConsumerMenu, ParseMenu, {}}

(* Messages for brokers of each format, with limits at and around the      *)
(* sizes of one, two and three of them, and for one that is upgraded.      *)
Versions(min, max, lz4) == [min |-> min, max |-> max, lz4 |-> lz4]
Header(name, value) == [name |-> name, value |-> value]
Msg(id, key, val, ts, headers) ==
    [id |-> id, key |-> key, val |-> val, ts |-> ts, hdrs |-> headers]
Four == <<Msg(1, -1, 5, 100, <<>>), Msg(2, 0, -1, 20, <<Header(3, -1), Header(2, 70)>>),
          Msg(3, 70, 0, 9000, <<>>), Msg(4, 3, 60, 100, <<Header(1, 0)>>)>>
Three == <<Msg(1, -1, 64, 100, <<>>), Msg(2, 1, 62, 100, <<>>), Msg(3, 2, 63, 99, <<>>)>>
Legacy == {Versions(0, 0, FALSE), Versions(0, 1, TRUE), Versions(0, 2, TRUE)}
Modern == Versions(0, 9, TRUE)
SetOf(msgs, codec, maxMsgs, maxSize, brokers, appendTime, starts) ==
    [msgs |-> msgs, codec |-> codec, maxMsgs |-> maxMsgs, maxSize |-> maxSize,
     batchSize |-> 400, head |-> 30, appendTime |-> appendTime, brokers |-> brokers,
     starts |-> starts]
AllSets ==
    {SetOf(Four, codec, 3, 300, <<b, Modern>>, a, {0, 2}) :
        codec \in {"none", "gzip", "lz4"}, b \in Legacy, a \in BOOLEAN}
    \cup {SetOf(Four, "gzip", 2, 1000, <<b>>, FALSE, 0..3) :
        b \in {Versions(0, 3, FALSE), Versions(3, 7, TRUE), Versions(8, 9, TRUE)}}
    \cup {SetOf(Three, "none", 3, limit, <<b>>, FALSE, {0}) :
        limit \in {99, 100, 101, 164, 197, 198, 199, 260, 261, 262},
        b \in Legacy \cup {Modern}}

-----------------------------------------------------------------------------
(* A part that is not chosen does nothing. The queues are then in one of   *)
(* their initial states, an application sets nothing.                      *)
QRest == cons.poll = Src /\ ~s.q[Src].io
CRest == menu = {}
MRest == mset = {} /\ queue = {} /\ sent = {} /\ log = {} /\ rd = {}

MCInit == /\ part \in {"client", "sized", "queues", "conf", "sets"}
          /\ IF part = "sized" THEN Sized!Init ELSE Init
          /\ QueuesInit /\ (part # "queues" => QRest)
          /\ ConfInit /\ (part # "conf" => CRest)
          /\ IF part = "sets" THEN M!Init ELSE MRest
MCNext == \/ part = "client" /\ Next /\ UNCHANGED <<qvars, cvars, mvars, part>>
          \/ part = "sized" /\ Sized!Next /\ UNCHANGED <<qvars, cvars, mvars, part>>
          \/ part = "queues" /\ QueuesNext /\ UNCHANGED <<vars, cvars, mvars, part>>
          \/ part = "conf" /\ ConfNext /\ UNCHANGED <<vars, qvars, mvars, part>>
          \/ part = "sets" /\ M!Next /\ UNCHANGED <<vars, qvars, cvars, part>>
MCSpec == MCInit /\ [][MCNext]_<<vars, qvars, cvars, mvars, part>>

-----------------------------------------------------------------------------
(* The properties of the other parts.                                      *)

(* What is read is what was written, in every format, and the writer's     *)
(* asserts hold (rd_kafka_msgset_writer_finalize(),                        *)
(* rd_kafka_msgset_reader_run()).                                          *)
BatchesTrue == part = "sets" => M!BatchesTrue
=============================================================================
