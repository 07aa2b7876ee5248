------------------------------ MODULE MCCluster -----------------------------
(***************************************************************************)
(* What a client knows of the cluster, for TLC: a topic with its partition *)
(* objects, or the metadata cache, as Init chooses; the other part stays   *)
(* as it began.                                                            *)
(***************************************************************************)
EXTENDS Integers, Sequences

CONSTANTS Brokers, Wanted, MsgCount, MaxObjs, Cases
CONSTANTS Topics, Local, MaxAge, HintAge, NegAge, Retries, CacheCases

VARIABLES s, cl, left
VARIABLES c, up, world, app, obs, faults, case
VARIABLE part

T == INSTANCE Toppars
M == INSTANCE Metadata WITH Cases <- CacheCases, left <- faults

tvars == <<s, cl, left>>
mvars == <<c, up, world, app, obs, faults, case>>
vars == <<tvars, mvars, part>>

-----------------------------------------------------------------------------
Ok(l) == [err |-> "ok", lead |-> l]
Err(e) == [err |-> e, lead |-> <<>>]
Setting(kind, clusters, boot, change, expire, calls, msgs) ==
    [kind |-> kind, clusters |-> clusters, boot |-> boot, change |-> change,
     expire |-> expire, calls |-> calls, msgs |-> msgs]
AnyPartition == {-1, 0, 1}
TopicCases == {
    Setting("producer", {Ok(<<1>>), Ok(<<2>>), Err("unknown")}, {}, 2, 1, 0, 1),
    Setting("producer", {Ok(<<1>>), Ok(<<1, 2>>)}, {}, 2, 0, 0, 2),
    Setting("consumer", {Ok(<<1>>), Ok(<<2>>), Err("unknown")}, {2}, 1, 0, 2, 0),
    Setting("producer", {Ok(<<1>>), Err("error")}, {1}, 2, 1, 0, 1)}

TwoTopics == {"t", "u"}
OneTopic == {"t"}
Answers(states, reqs, n) == [states |-> states, reqs |-> reqs, faults |-> n]
MetadataCases == {
    Answers({"ok", "unknown"}, 1, 1), Answers({"denied", "missing"}, 1, 0),
    Answers({"ok", "creating"}, 1, 0), Answers({"ok", "unknown"}, 2, 0)}

-----------------------------------------------------------------------------
(* The part that rests is in one of its initial states. *)
TRest == /\ cl = Err("unknown")
         /\ left = (CHOOSE x \in Cases : x.boot = {} /\ cl \in x.clusters)
MRest == /\ case = (CHOOSE x \in CacheCases : "creating" \in x.states)
         /\ world = [t \in Topics |-> "creating"] /\ up

Init == /\ part \in {"topic", "cache"} /\ T!Init /\ M!Init
        /\ part = "topic" => MRest
        /\ part = "cache" => TRest
Next == \/ part = "topic" /\ T!Next /\ UNCHANGED <<mvars, part>>
        \/ part = "cache" /\ M!Next /\ UNCHANGED <<tvars, part>>
(* What rests has nothing to serve, so its fairness asks for nothing. *)
Spec == /\ Init /\ [][Next]_vars /\ T!Fairness /\ M!Served
        /\ part = "topic" \/ M!Scans

-----------------------------------------------------------------------------
(* The properties of each part.                                            *)

(* No message is lost, doubled, forgotten or numbered as another one is,   *)
(* and a partition's object is found and is with one broker or on its way  *)
(* to one (rd_kafka_topic_assign_uas(), rd_kafka_toppar_enq_msg(),         *)
(* rd_kafka_toppar_desired_get(), rd_kafka_toppar_broker_migrate()).       *)
TopicsSound == T!MessagesKept /\ T!PartitionsFound
(* The cache counts its requests, forgets in time, wakes who waits and     *)
(* keeps nobody from asking (rd_kafka_metadata_cache_topic_update()).      *)
CacheSound == M!CacheSound
(* Partitions get to their leaders, removed ones are freed, and what is    *)
(* known of the topics is kept up to date (rd_kafka_toppar_leader_update(),*)
(* rd_kafka_topic_partitions_remove(), rd_kafka_topic_scan_all()).         *)
Progress == T!Settles /\ T!Frees /\ M!Learns
=============================================================================
