------------------------------ MODULE Metadata ------------------------------
(***************************************************************************)
(* Metadata requests and the metadata cache (hs_rdkafka_metadata.c,        *)
(* hs_rdkafka_metadata_cache.c, rd_kafka_handle_Metadata()): who asks for  *)
(* the metadata of which topics, what an answer changes, how long the      *)
(* cache keeps it, who is woken.                                           *)
(*                                                                         *)
(* c is the client under rd_kafka_wrlock(). An entry of the cache is       *)
(* [t, v, ttl]; c.cache is rkmc_expiry, the order in which entries were    *)
(* inserted, and rkmc_avl finds them. Times are relative: Tick takes one   *)
(* from all of them. v is an answer ("ok", "unknown", "denied") or a hint: *)
(* "WAIT" (a request is under way) or "NOENT" (there was no broker to ask).*)
(***************************************************************************)
EXTENDS Integers, Sequences, FiniteSets, SequencesExt

CONSTANTS
    Topics,
    Local,      \* the topics the application has objects of
    MaxAge,     \* metadata.max.age.ms
    HintAge,    \* socket.timeout.ms
    NegAge,     \* 100 ms
    Retries,    \* retries of a request
    Cases       \* the instances, each with
                \*   states: what a topic may be in the cluster: "ok", "unknown",
                \*     "denied", "creating" (no leader), "missing" (left out)
                \*   reqs: bound on the requests in flight
                \*   faults: bound on failures and changes of the cluster

VARIABLES
    c,      \* the client: cache, tmr, reqs, full, rkt, unavail, lq
    up,     \* a broker is usable
    world,  \* the topics in the cluster
    app,    \* a call of rd_kafka_metadata()
    obs,    \* who waits for a change of the cache: the topic looked for
    left,   \* what remains of the failures and changes
    case    \* the instance

vars == <<c, up, world, app, obs, left, case>>

Off == -9
Hints == {"WAIT", "NOENT"}
Floor == -2     \* an entry that is due longer is as one that is due this long

-----------------------------------------------------------------------------
(* The cache.                                                              *)

Has(w, t) == \E i \in 1..Len(w.cache) : w.cache[i].t = t
Find(w, t) == w.cache[CHOOSE i \in 1..Len(w.cache) : w.cache[i].t = t]
Valid(w, t) == Has(w, t) /\ Find(w, t).v \notin Hints
Delete(w, t) == [w EXCEPT !.cache = SelectSeq(@, LAMBDA e : e.t # t)]

(* Mutant: the entry replaced is not deleted. *)
InsertTwice(w, t, v, ttl) ==
    [w EXCEPT !.cache = Append(@, [t |-> t, v |-> v, ttl |-> ttl])]

(* rd_kafka_metadata_cache_insert().                                       *)
Insert(w, t, v, ttl) ==
    [Delete(w, t) EXCEPT !.cache = Append(@, [t |-> t, v |-> v, ttl |-> ttl])]

(* rd_kafka_metadata_cache_expiry_start().                                 *)
ExpiryStart(w) ==
    IF w.cache = <<>> THEN w ELSE [w EXCEPT !.tmr = w.cache[1].ttl]

(* rd_kafka_metadata_cache_propagate_changes().                            *)
Propagate(w) == [w EXCEPT !.woken = TRUE]

(* Mutant: the timer is not started again. *)
EvictOnce(w) ==
    LET n == SelectInSeq(w.cache, LAMBDA e : e.ttl > 0)
        k == IF n = 0 THEN Len(w.cache) ELSE n - 1
    IN  [w EXCEPT !.cache = SubSeq(@, k + 1, Len(@)), !.tmr = Off,
                  !.woken = TRUE]

(* rd_kafka_metadata_cache_evict(): from the first entry to the first that *)
(* has not expired.                                                        *)
Evict(w) ==
    LET n == SelectInSeq(w.cache, LAMBDA e : e.ttl > 0)
        k == IF n = 0 THEN Len(w.cache) ELSE n - 1
        v == [w EXCEPT !.cache = SubSeq(@, k + 1, Len(@))]
        u == [v EXCEPT !.tmr = IF v.cache = <<>> THEN Off ELSE v.cache[1].ttl]
    IN  IF k > 0 THEN Propagate(u) ELSE u

(* rd_kafka_metadata_cache_topic_update(): a temporary error is not cached.*)
TopicUpdate(w, t, v) ==
    CASE v = "unknown" -> Insert(w, t, v, NegAge)
      [] v \in {"ok", "denied"} -> Insert(w, t, v, MaxAge)
      [] OTHER -> IF Valid(w, t) THEN Delete(w, t) ELSE w

(* rd_kafka_metadata_cache_update() with the answer about all topics.      *)
CacheUpdate(w, ts) ==
    LET v == FoldLeft(LAMBDA x, t : Insert(x, t, world[t], MaxAge),
                      [w EXCEPT !.cache = <<>>, !.tmr = Off], ts)
    IN  Propagate(ExpiryStart(v))

(* rd_kafka_metadata_cache_purge_hints().                                  *)
PurgeHints(w, ts) ==
    LET gone == {t \in ts : Has(w, t) /\ ~Valid(w, t)}
    IN  IF gone = {} THEN w
        ELSE Propagate([w EXCEPT !.cache =
                            SelectSeq(@, LAMBDA e : e.t \notin gone)])

(* rd_kafka_metadata_cache_hint(): which topics get one, when those are to *)
(* be asked for and when there is nobody to ask.                           *)
ToHint(w, ts, v) ==
    {t \in ts : \/ ~Has(w, t)
                \/ /\ ~Valid(w, t)
                   /\ v = "WAIT" => Find(w, t).v = "NOENT"}
Hint(w, ts, v) ==
    FoldLeft(LAMBDA x, t : Insert(x, t, v, HintAge), w,
             SetToSeq(ToHint(w, ts, v)))

-----------------------------------------------------------------------------
(* Requests.                                                               *)

(* rd_kafka_MetadataRequest(): kind is "some" topics, "all" or "brokers".  *)
(* A full request that is not the application's is sent when none is under *)
(* way. reply: the application waits for the answer.                       *)
FullOf(kind, reply) ==
    CASE kind = "brokers" -> "brokers"
      [] kind = "all" /\ ~reply -> "topics"
      [] OTHER -> "none"
MetadataRequest(w, kind, ts, reply) ==
    LET f == FullOf(kind, reply)
    IN  IF f # "none" /\ w.full[f] > 0 THEN w
        ELSE [w EXCEPT
                !.reqs = Append(@, [kind |-> kind, ts |-> ts, reply |-> reply,
                                    full |-> f, tries |-> 0]),
                !.full[f] = @ + 1]

(* rd_kafka_metadata_refresh_topics().                                     *)
RefreshTopics(w, ts, force) ==
    LET ask == IF force THEN ts ELSE ToHint(w, ts, "WAIT")
    IN  IF ~up THEN Hint(w, ts, "NOENT")
        ELSE IF ask = {} THEN w
        ELSE MetadataRequest(IF force THEN w ELSE Hint(w, ts, "WAIT"),
                             "some", ask, FALSE)

(* rd_kafka_local_topics_to_list().                                        *)
Known(w) == Local \cup {t \in Topics : Valid(w, t)}

(* rd_kafka_metadata_refresh_known_topics(), and without any topics        *)
(* rd_kafka_metadata_refresh_brokers().                                    *)
RefreshKnown(w, force) ==
    IF Known(w) # {} THEN RefreshTopics(w, Known(w), force)
    ELSE IF up THEN MetadataRequest(w, "brokers", {}, FALSE)
    ELSE w

-----------------------------------------------------------------------------
(* Answers.                                                                *)

(* rd_kafka_topic_metadata_update() as module Toppars has it.              *)
TopicState(old, v) ==
    CASE v = "ok" -> "EXISTS" [] v = "denied" -> "ERROR"
      [] v \in {"unknown", "missing"} -> "NOTEXISTS" [] OTHER -> old

(* The topics an answer is about: an answer about all topics has those     *)
(* that exist.                                                             *)
Answer(r) == IF r.kind = "all"
             THEN {t \in Topics : world[t] \notin {"missing", "unknown"}}
             ELSE r.ts

(* rd_kafka_parse_Metadata(): the topics, the cache and its timer, then    *)
(* the hints that are left of what was asked for.                          *)
UpdateTopics(w, ts) ==
    [w EXCEPT !.rkt = [t \in Local |->
                  IF t \in ts THEN TopicState(@[t], world[t]) ELSE @[t]],
              !.unavail = @ \ {t \in ts : world[t] = "ok"}]
UpdateCache(w, ts) ==
    LET seen == {t \in ts : world[t] # "missing"}
        v == FoldLeft(LAMBDA x, t : TopicUpdate(x, t, world[t]), w, SetToSeq(seen))
    IN  ExpiryStart(IF seen # {} THEN Propagate(v) ELSE v)
Parse(w, r) ==
    LET ts == Answer(r)
        v  == UpdateTopics(w, ts)
    IN  CASE r.kind = "all" -> CacheUpdate(v, SetToSeq(ts))
          [] r.kind = "some" -> PurgeHints(UpdateCache(v, ts), r.ts)
          [] OTHER -> ExpiryStart(w)

(* The request is freed (rd_kafka_buf_destroy_final()).                    *)
Forget(w, i) ==
    [w EXCEPT !.reqs = RemoveAt(@, i), !.full[w.reqs[i].full] = @ - 1]

(* What is woken looks at the cache again.                                 *)
Becomes(w) ==
    /\ c' = [w EXCEPT !.woken = FALSE]
    /\ obs' = IF w.woken THEN [obs EXCEPT !.st = IF @ = "waits" THEN "woken" ELSE @]
              ELSE obs

(* rd_kafka_handle_Metadata().                                             *)
HandleOk(i) ==
    /\ up /\ Becomes(Parse(Forget(c, i), c.reqs[i]))
    /\ app' = IF c.reqs[i].reply /\ app = "waits" THEN "answered" ELSE app
    /\ UNCHANGED <<up, world, left>>

(* It failed: again, or for the last time; then nobody is told.            *)
HandleRetry(i) ==
    /\ left > 0 /\ left' = left - 1 /\ UNCHANGED <<up, world, app>>
    /\ IF c.reqs[i].tries < Retries
       THEN Becomes([c EXCEPT !.reqs[i].tries = @ + 1])
       ELSE Becomes([Forget(c, i) EXCEPT !.lost = @ \cup c.reqs[i].ts])

(* It failed for good, or the answer could not be parsed.                  *)
HandleError(i, parsed) ==
    /\ left > 0 /\ left' = left - 1 /\ UNCHANGED <<up, world>>
    /\ app' = IF c.reqs[i].reply /\ app = "waits" THEN "answered" ELSE app
    /\ LET w == Forget(c, i)
       IN  Becomes(IF parsed THEN PurgeHints(w, c.reqs[i].ts)
                   ELSE [w EXCEPT !.lost = @ \cup c.reqs[i].ts])

-----------------------------------------------------------------------------
(* Timers of the main thread.                                              *)

Room == Len(c.reqs) < case.reqs

EvictTimer ==
    /\ c.tmr # Off /\ c.tmr <= 0
    /\ Becomes(Evict(c)) /\ UNCHANGED <<up, world, app, left>>

(* rd_kafka_topic_scan_all(), each second: a topic whose entry is gone is  *)
(* unknown again; one that is unknown or has no partitions is asked for.   *)
Lapsed(w) == [w EXCEPT !.rkt = [t \in Local |->
                            IF Valid(w, t) THEN @[t] ELSE "UNKNOWN"]]
ScanAll ==
    LET w == Lapsed(c)
        ts == {t \in Local : w.rkt[t] # "EXISTS"}
    IN  /\ ts # {} /\ Room /\ UNCHANGED <<up, world, app, left>>
        /\ Becomes(RefreshTopics(w, ts, TRUE))

(* rd_kafka_metadata_leader_query_tmr_cb(); it is started by               *)
(* rd_kafka_metadata_fast_leader_query() when a leader is gone.            *)
LeaderGone(t) ==
    /\ left > 0 /\ left' = left - 1 /\ UNCHANGED <<up, world, app>>
    /\ t \in Local /\ c.rkt[t] = "EXISTS"
    /\ Becomes([c EXCEPT !.unavail = @ \cup {t}, !.lq = TRUE])
LeaderQuery ==
    LET ts == {t \in Local : /\ c.rkt[t] # "NOTEXISTS"
                             /\ t \in c.unavail \/ c.rkt[t] # "EXISTS"}
    IN  /\ c.lq /\ Room /\ UNCHANGED <<up, world, app, left>>
        /\ IF ts = {} THEN Becomes([c EXCEPT !.lq = FALSE])
           ELSE Becomes(RefreshTopics(c, ts, TRUE))

(* rd_kafka_metadata_refresh_cb().                                         *)
Periodic == Room /\ Becomes(RefreshKnown(c, TRUE)) /\ UNCHANGED <<up, world, app, left>>

-----------------------------------------------------------------------------
(* Other callers.                                                          *)

(* A broker has connected (rd_kafka_broker_set_state()): not forced.       *)
Connected == /\ up /\ Room /\ Becomes(RefreshKnown(c, FALSE))
             /\ UNCHANGED <<up, world, app, left>>

(* rd_kafka_topic_new() of a topic that is not in the cache.               *)
TopicNew(t) ==
    /\ t \in Local /\ c.rkt[t] = "UNKNOWN" /\ Room
    /\ Becomes(RefreshTopics(c, {t}, FALSE))
    /\ UNCHANGED <<up, world, app, left>>

(* rd_kafka_metadata_refresh_all(): a subscription to a pattern.           *)
RefreshAll ==
    /\ up /\ Room /\ Becomes(MetadataRequest(c, "all", {}, FALSE))
    /\ UNCHANGED <<up, world, app, left>>

(* rd_kafka_metadata(): all topics or the known ones; it waits.            *)
Call(all) ==
    /\ app = "idle" /\ up /\ Room
    /\ app' = "waits" /\ UNCHANGED <<up, world, left>>
    /\ Becomes(IF all \/ Known(c) = {} THEN MetadataRequest(c, "all", {}, TRUE)
               ELSE MetadataRequest(c, "some", Known(c), TRUE))
CallTimeout == /\ app = "waits" /\ app' = "timedout"
               /\ UNCHANGED <<c, up, world, obs, left>>

(* rd_kafka_topic_partition_list_get_leaders(): what is not in the cache   *)
(* is waited for and asked for.                                            *)
LookUp(t) ==
    /\ obs.st \in {"idle", "woken"} /\ (obs.st = "woken" => t = obs.t)
    /\ UNCHANGED <<up, world, app, left>>
    /\ IF Valid(c, t)
       THEN obs' = [t |-> t, st |-> "found"] /\ UNCHANGED c
       ELSE /\ Room /\ obs' = [t |-> t, st |-> "waits"]
            /\ c' = RefreshTopics(c, {t}, TRUE)

-----------------------------------------------------------------------------
(* The world.                                                              *)

Change(t, v) ==
    /\ left > 0 /\ left' = left - 1 /\ v # world[t]
    /\ world' = [world EXCEPT ![t] = v] /\ UNCHANGED <<c, up, app, obs>>
BrokerDown == /\ up /\ left > 0 /\ left' = left - 1 /\ up' = FALSE
              /\ UNCHANGED <<c, world, app, obs>>
BrokerUp == /\ ~up /\ up' = TRUE /\ UNCHANGED <<c, world, app, obs, left>>

(* Time passes; the timer is served when it is due.                        *)
Older(n) == IF n - 1 < Floor THEN Floor ELSE n - 1
Tick ==
    /\ c.tmr = Off \/ c.tmr > 0
    /\ c.cache # <<>>
    /\ c' = [c EXCEPT !.cache = [i \in DOMAIN @ |->
                                    [@[i] EXCEPT !.ttl = Older(@)]],
                      !.tmr = IF @ = Off THEN @ ELSE @ - 1]
    /\ UNCHANGED <<up, world, app, obs, left>>

-----------------------------------------------------------------------------
Init ==
    /\ case \in Cases
    /\ world \in [Topics -> case.states] /\ up \in BOOLEAN
    /\ c = [cache |-> <<>>, tmr |-> Off, reqs |-> <<>>,
            full |-> [x \in {"none", "topics", "brokers"} |-> 0],
            rkt |-> [t \in Local |-> "UNKNOWN"], unavail |-> {}, lq |-> FALSE,
            lost |-> {}, woken |-> FALSE]
    /\ app = "idle" /\ left = case.faults
    /\ obs = [t |-> CHOOSE t \in Topics : TRUE, st |-> "idle"]

Handle == \E i \in 1..Len(c.reqs) :
    HandleOk(i) \/ HandleRetry(i) \/ HandleError(i, TRUE) \/ HandleError(i, FALSE)
Step ==
    \/ Handle \/ EvictTimer \/ ScanAll \/ LeaderQuery \/ Periodic
    \/ Connected \/ RefreshAll \/ (\E all \in BOOLEAN : Call(all)) \/ CallTimeout
    \/ (\E t \in Topics : \/ LeaderGone(t) \/ TopicNew(t) \/ LookUp(t)
                          \/ \E v \in case.states : Change(t, v))
    \/ BrokerDown \/ BrokerUp \/ Tick
Next == Step /\ UNCHANGED case
Spec == Init /\ [][Next]_vars

(* The broker thread and the cluster answer, the main thread serves its    *)
(* timers, a broker comes back. ScanAll competes for Room, a bound of this *)
(* model only, so it is fair whenever it is enabled again and again.       *)
Served ==
    /\ []<>~(up /\ c.reqs # <<>>) \/ []<><<HandleOk(1)>>_vars
    /\ []<>up
    /\ []<>(c.tmr = Off \/ c.tmr > 0) \/ []<><<EvictTimer>>_vars
    /\ []<>(c.cache = <<>> \/ (c.tmr # Off /\ c.tmr <= 0)) \/ []<><<Tick>>_vars
Scans ==
    \/ <>[](Room => \A t \in Local : Lapsed(c).rkt[t] = "EXISTS")
    \/ []<><<ScanAll>>_vars
LiveSpec == Spec /\ Served /\ Scans

-----------------------------------------------------------------------------
(* Properties.                                                             *)

(* The number of full requests under way, which keeps another from being   *)
(* sent, is exact, and no topic has two entries (hs_rdkafka_buf.c:47,      *)
(* hs_rdkafka_metadata_cache.c:205): were it ever too high, full refreshes *)
(* would stop for good.                                                    *)
CountersExact ==
    /\ \A x \in {"topics", "brokers"} :
          c.full[x] = Cardinality({i \in 1..Len(c.reqs) : c.reqs[i].full = x})
    /\ \A i, j \in 1..Len(c.cache) : c.cache[i].t = c.cache[j].t => i = j

(* No topic is taken to exist by an entry past metadata.max.age.ms,        *)
(* although the list of entries is kept in the order of insertion and only *)
(* its first entry drives the timer (hs_rdkafka_metadata_cache.c:131).     *)
NoStaleHit == \A i \in 1..Len(c.cache) :
    c.cache[i].v = "ok" => c.cache[i].ttl >= 0

(* Who waits for a topic is woken by what answers it                       *)
(* (hs_rdkafka_metadata_cache.c:600): it never waits for what is there.    *)
Triggered == obs.st = "waits" => ~Valid(c, obs.t)

(* A hint that keeps others from asking stands for a request that is under *)
(* way, except one whose request failed before its answer was parsed       *)
(* (hs_rdkafka_request.c:1823): that one stays until it expires.           *)
HintsJustified ==
    \A i \in 1..Len(c.cache) :
      c.cache[i].v = "WAIT" =>
        \/ c.cache[i].t \in c.lost
        \/ \E j \in 1..Len(c.reqs) : c.cache[i].t \in c.reqs[j].ts

(* What the client holds of its own topics is what the cluster has, again  *)
(* and again, whatever failed or changed before: entries expire and what   *)
(* has none is asked for (hs_rdkafka_topic.c:1534).                        *)
Learns ==
    []<>(\A t \in Local : c.rkt[t] = TopicState(c.rkt[t], world[t]))

(* The cache counts its requests, forgets in time, wakes who waits and     *)
(* keeps nobody from asking (rd_kafka_metadata_cache_topic_update(),       *)
(* rd_kafka_metadata_cache_evict(), rd_kafka_metadata_cache_hint()).       *)
CacheSound == CountersExact /\ NoStaleHit /\ Triggered /\ HintsJustified
=============================================================================
